------------------------- MODULE Warehouse_proofs -------------------------
(***************************************************************************)
(* Theorems about Warehouse for any number of books, documents, sheets and *)
(* clerks, and any bounds.  The invariant relates what each clerk has      *)
(* loaded to the document it came from, a document's lines to the rows it  *)
(* wrote, the books to the shelf, and the average cost to the receipt that *)
(* made it.                                                                *)
(***************************************************************************)
EXTENDS Warehouse, StockTheorems

-----------------------------------------------------------------------------
(* The shape of the state.                                                 *)

Quantities == [Books -> Nat]
Document == [status : {"none", "DRAFT", "CONFIRMED", "CANCELLED"}, items : [Books -> Line]]
Row == [in : Nat, out : Nat, unitCost : Nat]
Sheet == [status : {"none", "COUNTING", "COMPLETED", "CANCELLED"}, baseline : Quantities,
          counted : [Books -> Nat \union {None}], lost : [Books -> Int]]
Note == [counted : Nat, lost : Int]
Clerk == [doing : {"idle", "editing", "counted", "saving", "refreshing", "voiding"},
          doc : Documents \union Sheets \union {None}, fresh : BOOLEAN,
          book : Books \union {None}, noted : {None} \union Note \union Quantities]

TypeInv ==
    /\ StockTypeOK
    /\ cost \in Quantities
    /\ documents \in [Documents -> Document]
    /\ rows \in [Documents -> [Books -> Row]]
    /\ sheets \in [Sheets -> Sheet]
    /\ clerks \in [Clerks -> Clerk]
    /\ missing \in [Books -> Int]

(* What a clerk is at, and that a copy which is still the document's       *)
(* version was loaded from a draft, or from a sheet being counted.         *)
ClerkFits(k) ==
    /\ clerks[k].doing = "editing" =>
           /\ clerks[k].doc \in Documents
           /\ clerks[k].fresh => documents[clerks[k].doc].status = "DRAFT"
    /\ clerks[k].doing \in {"counted", "saving"} =>
           clerks[k].book \in Books /\ clerks[k].noted \in Note
    /\ clerks[k].doing = "refreshing" => clerks[k].noted \in Quantities
    /\ clerks[k].doing \in {"counted", "saving", "refreshing", "voiding"} =>
           clerks[k].doc \in Sheets
    /\ clerks[k].doing \in {"saving", "refreshing", "voiding"} =>
           (clerks[k].fresh => sheets[clerks[k].doc].status = "COUNTING")

(* The rows of a document and book, by its status.                         *)
RowFits(d, b) ==
    LET row == rows[d][b]
        quantity == documents[d].items[b].quantity
    IN  /\ documents[d].status \in {"none", "DRAFT"} => row.in = 0 /\ row.out = 0
        /\ documents[d].status = "CANCELLED" => row.in = row.out
        /\ documents[d].status = "CONFIRMED" =>
               IF d \in Receipts THEN row.in = quantity /\ row.out = 0
               ELSE row.out = quantity /\ row.in = 0

(* While a receipt is the last thing to have moved a book, the book's cost *)
(* is the average that the receipt made, over the copies there were.       *)
LastFits(b) ==
    last[b] # None =>
        LET r == last[b].receipt
            row == rows[r][b]
        IN  /\ r \in Receipts /\ last[b].units \in Nat /\ last[b].cost \in Nat
            /\ documents[r].status = "CONFIRMED"
            /\ row.in > 0
            /\ OnHand(b) = last[b].units + row.in
            /\ cost[b] = movingAverageCost(last[b].units, last[b].cost, row.in, row.unitCost)

(* Nothing negative can be counted.                                        *)
ShelfFits(b) == missing[b] <= OnHand(b)

WarehouseInv ==
    /\ TypeInv
    /\ LedgerExplainsStock
    /\ \A k \in Clerks : ClerkFits(k)
    /\ \A d \in Documents, b \in Books : RowFits(d, b)
    /\ \A b \in Books : ShelfFits(b) /\ LastFits(b)

-----------------------------------------------------------------------------
(* Arithmetic.                                                             *)

(* A rounded quotient is within half a unit of the quotient.               *)
LEMMA RoundedNear ==
    ASSUME NEW value \in Nat, NEW units \in Nat, units > 0
    PROVE  /\ Rounded(value, units) \in Nat
           /\ 2 * (units * Rounded(value, units)) <= 2 * value + units
           /\ 2 * value < 2 * (units * Rounded(value, units)) + units
<1> DEFINE x == 2 * value + units
           y == 2 * units
           q == x \div y
<1>1. x \in Nat /\ y \in Nat /\ y > 0
  OBVIOUS
<1>2. q \in Nat /\ x = y * q + (x % y) /\ x % y \in 0..(y - 1)
  <2> HIDE DEF x, y
  <2> QED  BY <1>1 DEF q
<1>3. Rounded(value, units) = q
  BY DEF Rounded
<1> HIDE DEF q
<1>4. y * q = 2 * (units * q)
  BY <1>2
<1>5. units * q \in Nat
  BY <1>2
<1> QED
  BY <1>2, <1>3, <1>4, <1>5

(* A product of natural numbers is one.                                    *)
LEMMA Product == ASSUME NEW m \in Nat, NEW n \in Nat PROVE m * n \in Nat
  OBVIOUS

(* The averages are natural numbers.                                       *)
LEMMA AverageType ==
    ASSUME NEW units \in Nat, NEW current \in Nat, NEW quantity \in Nat, quantity # 0,
           NEW price \in Nat
    PROVE  /\ movingAverageCost(units, current, quantity, price) \in Nat
           /\ reverseMovingAverageCost(units, current, quantity, price) \in Nat
<1>1. units * current \in Nat /\ quantity * price \in Nat
  BY Product
<1>2. movingAverageCost(units, current, quantity, price) \in Nat
  <2> DEFINE value == units * current + quantity * price
             total == units + quantity
  <2>1. value \in Nat /\ total \in Nat /\ total > 0
    BY <1>1
  <2>2. movingAverageCost(units, current, quantity, price) = Rounded(value, total)
    BY DEF movingAverageCost
  <2> HIDE DEF value, total
  <2> QED  BY <2>1, <2>2, RoundedNear
<1>3. reverseMovingAverageCost(units, current, quantity, price) \in Nat
  <2> DEFINE left == units * current - quantity * price
             rest == units - quantity
  <2>1. left \in Int /\ rest \in Int
    BY <1>1
  <2>2. reverseMovingAverageCost(units, current, quantity, price)
          = IF rest <= 0 \/ left <= 0 THEN current ELSE Rounded(left, rest)
    BY DEF reverseMovingAverageCost
  <2> HIDE DEF left, rest
  <2> QED  BY <2>1, <2>2, RoundedNear
<1> QED
  BY <1>2, <1>3

(* Taking the goods out again at the price they came in at undoes the      *)
(* average, but for the two roundings.                                     *)
LEMMA AverageUndone ==
    ASSUME NEW units \in Nat, NEW before \in Nat, NEW quantity \in Nat, quantity > 0,
           NEW price \in Nat, NEW total, total = units + quantity,
           NEW average, average = movingAverageCost(units, before, quantity, price),
           NEW after, after = reverseMovingAverageCost(total, average, quantity, price),
           2 * units * before > total
    PROVE  /\ 2 * units * (after - before) <= total + units
           /\ 2 * units * (before - after) <= total + units
<1> DEFINE value == units * before + quantity * price
           left == total * average - quantity * price
<1>1. units * before \in Nat /\ quantity * price \in Nat /\ total \in Nat /\ total > 0
  BY Product
<1>2. value \in Nat
  BY <1>1
<1>3. average = Rounded(value, total)
  BY DEF movingAverageCost
<1>4. /\ average \in Nat
      /\ 2 * (total * average) <= 2 * value + total
      /\ 2 * value < 2 * (total * average) + total
  <2> HIDE DEF value
  <2> QED  BY <1>1, <1>2, <1>3, RoundedNear
<1>5. total * average \in Nat /\ 2 * units * before = 2 * (units * before)
  BY <1>1, <1>4, Product
<1>6. /\ 2 * left <= 2 * (units * before) + total
      /\ 2 * (units * before) < 2 * left + total
      /\ left \in Int
  BY <1>1, <1>4, <1>5
<1>7. left > 0
  <2> HIDE DEF left
  <2>1. 2 * (units * before) > total
    BY <1>5
  <2> QED  BY <1>1, <1>6, <2>1
<1>8. units > 0
  <2> SUFFICES ASSUME units = 0 PROVE FALSE
    OBVIOUS
  <2>1. units * before = 0
    OBVIOUS
  <2> QED  BY <2>1, <1>1, <1>5
<1>9. after = Rounded(left, units)
  <2> DEFINE rest == total - quantity
  <2>1. after = IF rest <= 0 \/ left <= 0 THEN average ELSE Rounded(left, rest)
    BY DEF reverseMovingAverageCost
  <2>2. rest = units
    BY <1>1
  <2> HIDE DEF rest, left
  <2> QED  BY <1>6, <1>7, <1>8, <2>1, <2>2
<1> HIDE DEF left, value
<1>10. /\ after \in Nat
       /\ 2 * (units * after) <= 2 * left + units
       /\ 2 * left < 2 * (units * after) + units
  BY <1>6, <1>7, <1>8, <1>9, RoundedNear
<1>11. units * after \in Nat
  BY <1>10, Product
<1>12. /\ 2 * units * (after - before) = 2 * (units * after) - 2 * (units * before)
       /\ 2 * units * (before - after) = 2 * (units * before) - 2 * (units * after)
  BY <1>10
<1> QED
  BY <1>1, <1>6, <1>10, <1>11, <1>12

-----------------------------------------------------------------------------
(* Quantities and movements.                                               *)

(* What documents and rows say is a quantity of each book.                 *)
LEMMA CopiesType ==
    /\ \A b \in Books : One(b) \in Quantities
    /\ \A d, items : items \in Items(d) => items \in [Books -> Line]
    /\ \A items \in [Books -> Line] : Copies(items) \in Quantities /\ Prices(items) \in Quantities
    /\ NoItems \in [Books -> Line] /\ NoRows \in [Books -> Row]
<1>1. \A d, items : items \in Items(d) => items \in [Books -> Line]
  <2> SUFFICES ASSUME NEW d, NEW items, items \in Items(d)
               PROVE  items \in [Books -> Line]
    OBVIOUS
  <2> DEFINE lines == IF d \in Receipts THEN [quantity : ReceiptCopies, unitCost : UnitCosts]
                      ELSE [quantity : IssueCopies, unitCost : {0}]
  <2>1. items \in [Books -> lines \union {NoItems[b] : b \in Books}]
    BY DEF Items
  <2>2. lines \subseteq Line
    <3>1. UnitCosts \subseteq Nat /\ ReceiptCopies \subseteq Nat /\ IssueCopies \subseteq Nat
      BY WarehouseAssumption
    <3>2. [quantity : ReceiptCopies, unitCost : UnitCosts] \subseteq Line
      BY <3>1 DEF Line
    <3>3. [quantity : IssueCopies, unitCost : {0}] \subseteq Line
      <4>1. {0} \subseteq Nat
        OBVIOUS
      <4> QED  BY <3>1, <4>1, Zenon DEF Line
    <3> QED  BY <3>2, <3>3
  <2>3. {NoItems[b] : b \in Books} \subseteq Line
    <3>1. \A b \in Books : NoItems[b] = [quantity |-> 0, unitCost |-> 0]
      BY DEF NoItems
    <3>2. \A b \in Books : NoItems[b] \in Line
      <4>1. [quantity |-> 0, unitCost |-> 0] \in Line
        BY DEF Line
      <4> QED  BY <3>1, <4>1, Zenon
    <3> QED  BY <3>2, Zenon
  <2> HIDE DEF lines
  <2> QED  BY <2>1, <2>2, <2>3
<1>2. \A items \in [Books -> Line] : Copies(items) \in Quantities /\ Prices(items) \in Quantities
  BY DEF Copies, Prices, Quantities, Line
<1>3. \A b \in Books : One(b) \in Quantities
  BY DEF One, Quantities
<1>4. NoItems \in [Books -> Line] /\ NoRows \in [Books -> Row]
  BY DEF NoItems, NoRows, Line, Row
<1> QED  BY <1>1, <1>2, <1>3, <1>4

(* What a movement does to the copies that the shop owns.                  *)
LEMMA OnHandMoves ==
    ASSUME StockTypeOK, NEW type \in MovementTypes, NEW copies \in Quantities,
           applyMovement(type, copies), NEW b \in Books
    PROVE  /\ OnHand(b) \in Nat
           /\ OnHand(b)' = IF type \in {"SALE_OUT", "RESERVE_IN"} THEN OnHand(b)
                           ELSE IF type \in INBOUND_TYPES THEN OnHand(b) + copies[b]
                           ELSE OnHand(b) - copies[b]
<1>1. stock[b] \in Nat /\ reserved[b] \in Nat /\ copies[b] \in Nat
  BY DEF StockTypeOK, Quantities
<1>2. /\ stock'[b] = stock[b] + StockSign(type) * copies[b]
      /\ reserved'[b] = reserved[b] + ReservedSign(type) * copies[b]
  BY DEF applyMovement
<1>3. CASE type = "SALE_OUT"
  <2>1. StockSign(type) = -1 /\ ReservedSign(type) = 1
    BY <1>3 DEF StockSign, ReservedSign, INBOUND_TYPES
  <2> QED  BY <1>1, <1>2, <1>3, <2>1, SignTimes DEF OnHand
<1>4. CASE type = "RESERVE_IN"
  <2>1. StockSign(type) = 1 /\ ReservedSign(type) = -1
    BY <1>4 DEF StockSign, ReservedSign, INBOUND_TYPES
  <2> QED  BY <1>1, <1>2, <1>4, <2>1, SignTimes DEF OnHand
<1>5. CASE type = "SHIP_OUT"
  <2>1. StockSign(type) = 0 /\ ReservedSign(type) = -1 /\ type \notin INBOUND_TYPES
    BY <1>5 DEF StockSign, ReservedSign, INBOUND_TYPES
  <2> QED  BY <1>1, <1>2, <1>5, <2>1, SignTimes DEF OnHand
<1>6. CASE type \notin {"SALE_OUT", "RESERVE_IN", "SHIP_OUT"}
  <2>1. ReservedSign(type) = 0 /\ StockSign(type) = IF type \in INBOUND_TYPES THEN 1 ELSE -1
    BY <1>6 DEF StockSign, ReservedSign
  <2> QED  BY <1>1, <1>2, <1>6, <2>1, SignTimes DEF OnHand
<1> QED  BY <1>3, <1>4, <1>5, <1>6

-----------------------------------------------------------------------------
(* Clerks.                                                                 *)

(* No document but d, and no sheet but d, changes status.                  *)
OthersKept(d) ==
    /\ \A e \in Documents \ {d} : documents'[e].status = documents[e].status
    /\ \A c \in Sheets \ {d} : sheets'[c].status = sheets[c].status

(* A save that outdates the copies of the document it saves.               *)
LEMMA ClerksOutdated ==
    ASSUME clerks \in [Clerks -> Clerk], \A k \in Clerks : ClerkFits(k), NEW d, outdate(d),
           OthersKept(d)
    PROVE  clerks' \in [Clerks -> Clerk] /\ \A k \in Clerks : ClerkFits(k)'
<1> SUFFICES ASSUME NEW k \in Clerks
             PROVE  clerks'[k] \in Clerk /\ ClerkFits(k)'
  BY DEF outdate
<1>1. clerks[k] \in Clerk /\ ClerkFits(k)
  OBVIOUS
<1>2. CASE clerks[k].doc = d
  <2>1. clerks'[k] = [clerks[k] EXCEPT !.fresh = FALSE]
    BY <1>2 DEF outdate
  <2>2. clerks'[k] \in Clerk
    BY <1>1, <2>1 DEF Clerk
  <2>3. /\ clerks'[k].doing = clerks[k].doing /\ clerks'[k].doc = clerks[k].doc
        /\ clerks'[k].book = clerks[k].book /\ clerks'[k].noted = clerks[k].noted
        /\ ~clerks'[k].fresh
    BY <1>1, <2>1 DEF Clerk
  <2> QED  BY <1>1, <2>2, <2>3 DEF ClerkFits
<1>3. CASE clerks[k].doc # d
  <2>1. clerks'[k] = clerks[k]
    BY <1>3 DEF outdate
  <2> QED  BY <1>1, <1>3, <2>1 DEF ClerkFits, OthersKept
<1> QED  BY <1>2, <1>3

(* A clerk who has nothing loaded.                                         *)
LEMMA IdleFits == Idle \in Clerk
  BY DEF Idle, Clerk

(* A clerk's own save.                                                     *)
LEMMA ClerksFinished ==
    ASSUME clerks \in [Clerks -> Clerk], \A k \in Clerks : ClerkFits(k), NEW k \in Clerks,
           finish(k), OthersKept(clerks[k].doc)
    PROVE  clerks' \in [Clerks -> Clerk] /\ \A j \in Clerks : ClerkFits(j)'
<1> SUFFICES ASSUME NEW j \in Clerks
             PROVE  clerks'[j] \in Clerk /\ ClerkFits(j)'
  BY DEF finish
<1>1. clerks[j] \in Clerk /\ ClerkFits(j)
  OBVIOUS
<1>2. CASE j = k
  <2>1. clerks'[j] = Idle
    BY <1>2 DEF finish
  <2> QED  BY <2>1, IdleFits DEF ClerkFits, Idle
<1>3. CASE j # k /\ clerks[j].doc = clerks[k].doc
  <2>1. clerks'[j] = [clerks[j] EXCEPT !.fresh = FALSE]
    BY <1>3 DEF finish
  <2>2. clerks'[j] \in Clerk
    BY <1>1, <2>1 DEF Clerk
  <2>3. /\ clerks'[j].doing = clerks[j].doing /\ clerks'[j].doc = clerks[j].doc
        /\ clerks'[j].book = clerks[j].book /\ clerks'[j].noted = clerks[j].noted
        /\ ~clerks'[j].fresh
    BY <1>1, <2>1 DEF Clerk
  <2> QED  BY <1>1, <2>2, <2>3 DEF ClerkFits
<1>4. CASE j # k /\ clerks[j].doc # clerks[k].doc
  <2>1. clerks'[j] = clerks[j]
    BY <1>4 DEF finish
  <2> QED  BY <1>1, <1>4, <2>1 DEF ClerkFits, OthersKept
<1> QED  BY <1>2, <1>3, <1>4

(* A clerk who loads, counts or gives up, while no document changes.       *)
LEMMA ClerkMoves ==
    ASSUME clerks \in [Clerks -> Clerk], \A k \in Clerks : ClerkFits(k), NEW k \in Clerks,
           NEW clerk \in Clerk, clerks' = [clerks EXCEPT ![k] = clerk], ClerkFits(k)',
           UNCHANGED <<documents, sheets>>
    PROVE  clerks' \in [Clerks -> Clerk] /\ \A j \in Clerks : ClerkFits(j)'
<1> SUFFICES ASSUME NEW j \in Clerks, j # k
             PROVE  ClerkFits(j)'
  OBVIOUS
<1>1. ClerkFits(j) /\ clerks'[j] = clerks[j]
  OBVIOUS
<1> QED  BY <1>1 DEF ClerkFits

(* Clerks who are left alone.                                              *)
LEMMA ClerksRest ==
    ASSUME clerks \in [Clerks -> Clerk], \A k \in Clerks : ClerkFits(k), UNCHANGED clerks,
           \A e \in Documents : documents[e].status = "DRAFT" => documents'[e].status = "DRAFT",
           \A c \in Sheets : sheets[c].status = "COUNTING" => sheets'[c].status = "COUNTING"
    PROVE  clerks' \in [Clerks -> Clerk] /\ \A j \in Clerks : ClerkFits(j)'
  BY DEF ClerkFits

-----------------------------------------------------------------------------
(* The books and the shelf.                                                *)

(* Copies that a movement may take from, or add to, the shelf.             *)
LEMMA CopiesMoved ==
    ASSUME TypeInv
    PROVE  /\ \A d \in Documents : Copies(documents[d].items) \in Quantities
           /\ \A d \in Documents : Prices(documents[d].items) \in Quantities
           /\ \A d \in Documents : [b \in Books |-> rows[d][b].in] \in Quantities
           /\ \A d \in Documents : [b \in Books |-> rows[d][b].out] \in Quantities
           /\ \A d \in Documents : [b \in Books |-> rows[d][b].unitCost] \in Quantities
<1>1. \A d \in Documents : documents[d].items \in [Books -> Line]
  BY DEF TypeInv, Document
<1>2. \A d \in Documents, b \in Books :
          rows[d][b].in \in Nat /\ rows[d][b].out \in Nat /\ rows[d][b].unitCost \in Nat
  BY DEF TypeInv, Row
<1> QED  BY <1>1, <1>2, CopiesType DEF Quantities

(* A movement that takes no more than the shelf holds.                     *)
LEMMA MovementKeeps ==
    ASSUME TypeInv, LedgerExplainsStock, \A b \in Books : ShelfFits(b),
           NEW type \in MovementTypes, NEW copies \in Quantities, applyMovement(type, copies),
           missing' = missing,
           type \in {"SALE_OUT", "RESERVE_IN"} \cup INBOUND_TYPES
               \/ \A b \in Books : copies[b] > 0 => Shelf(b) >= copies[b]
    PROVE  StockTypeOK' /\ LedgerExplainsStock' /\ \A b \in Books : ShelfFits(b)'
<1>1. StockTypeOK' /\ LedgerExplainsStock'
  BY MovementType, MovementLedger DEF TypeInv, Quantities
<1>2. ASSUME NEW b \in Books
      PROVE  ShelfFits(b)'
  <2>1. /\ OnHand(b) \in Nat /\ missing[b] \in Int /\ missing[b] <= OnHand(b)
        /\ copies[b] \in Nat
    BY OnHandMoves DEF TypeInv, ShelfFits, Quantities
  <2>2. OnHand(b)' = IF type \in {"SALE_OUT", "RESERVE_IN"} THEN OnHand(b)
                     ELSE IF type \in INBOUND_TYPES THEN OnHand(b) + copies[b]
                     ELSE OnHand(b) - copies[b]
    BY OnHandMoves DEF TypeInv
  <2>3. OnHand(b)' >= missing[b]
    BY <2>1, <2>2 DEF Shelf
  <2> QED  BY <2>3 DEF ShelfFits
<1> QED  BY <1>1, <1>2

(* No counter falls below zero, the ledger explains them, and the shelf    *)
(* never holds less than nothing.                                          *)
LEMMA GoodsNext ==
    ASSUME WarehouseInv, Next
    PROVE  /\ StockTypeOK' /\ LedgerExplainsStock' /\ missing' \in [Books -> Int]
           /\ \A b \in Books : ShelfFits(b)'
<1>0. /\ TypeInv /\ LedgerExplainsStock /\ \A b \in Books : ShelfFits(b)
      /\ missing \in [Books -> Int] /\ StockTypeOK
  BY DEF WarehouseInv, TypeInv
<1>1. ASSUME UNCHANGED <<stockVars, missing>>
      PROVE  /\ StockTypeOK' /\ LedgerExplainsStock' /\ missing' \in [Books -> Int]
             /\ \A b \in Books : ShelfFits(b)'
  BY <1>0, <1>1 DEF stockVars, StockTypeOK, LedgerExplainsStock, ShelfFits, OnHand
<1>2. ASSUME NEW r \in Receipts, confirmReceipt(r) \/ cancelReceipt(r)
      PROVE  /\ StockTypeOK' /\ LedgerExplainsStock' /\ missing' \in [Books -> Int]
             /\ \A b \in Books : ShelfFits(b)'
  <2>0. r \in Documents
    BY DEF Documents
  <2>1. CASE confirmReceipt(r)
    <3>1. applyMovement("PURCHASE_IN", Copies(documents[r].items)) /\ missing' = missing
      BY <2>1 DEF confirmReceipt
    <3> QED  BY <1>0, <2>0, <3>1, CopiesMoved, MovementKeeps DEF MovementTypes, INBOUND_TYPES
  <2>2. CASE cancelReceipt(r)
    <3> DEFINE copies == [b \in Books |-> rows[r][b].in]
    <3>1. /\ applyMovement("PURCHASE_REVERSAL", copies) /\ missing' = missing
          /\ \A b \in Books : copies[b] > 0 => Shelf(b) >= copies[b]
      BY <2>2 DEF cancelReceipt
    <3>2. copies \in Quantities
      BY <1>0, <2>0, CopiesMoved
    <3> HIDE DEF copies
    <3> QED  BY <1>0, <3>1, <3>2, MovementKeeps DEF MovementTypes
  <2> QED  BY <1>2, <2>1, <2>2
<1>3. ASSUME NEW i \in Issues, confirmIssue(i) \/ cancelIssue(i)
      PROVE  /\ StockTypeOK' /\ LedgerExplainsStock' /\ missing' \in [Books -> Int]
             /\ \A b \in Books : ShelfFits(b)'
  <2>0. i \in Documents
    BY DEF Documents
  <2>1. CASE confirmIssue(i)
    <3> DEFINE copies == Copies(documents[i].items)
    <3>1. /\ applyMovement("DAMAGE_OUT", copies) /\ missing' = missing
          /\ \A b \in Books : copies[b] > 0 => Shelf(b) >= copies[b]
      BY <2>1 DEF confirmIssue
    <3>2. copies \in Quantities
      BY <1>0, <2>0, CopiesMoved
    <3> HIDE DEF copies
    <3> QED  BY <1>0, <3>1, <3>2, MovementKeeps DEF MovementTypes
  <2>2. CASE cancelIssue(i)
    <3>1. applyMovement("CANCEL_IN", [b \in Books |-> rows[i][b].out]) /\ missing' = missing
      BY <2>2 DEF cancelIssue
    <3> QED  BY <1>0, <2>0, <3>1, CopiesMoved, MovementKeeps DEF MovementTypes, INBOUND_TYPES
  <2> QED  BY <1>3, <2>1, <2>2
<1>4. ASSUME NEW b \in Books, NEW delta \in {-1, 1}, adjust(b, delta)
      PROVE  /\ StockTypeOK' /\ LedgerExplainsStock' /\ missing' \in [Books -> Int]
             /\ \A c \in Books : ShelfFits(c)'
  <2>0. One(b) \in Quantities /\ missing' = [missing EXCEPT ![b] = @ + delta]
    BY <1>4, CopiesType DEF adjust
  <2>1. PICK type \in {"ADJUSTMENT", "TRANSFER_OUT"} :
            /\ applyMovement(type, One(b))
            /\ type = IF delta > 0 THEN "ADJUSTMENT" ELSE "TRANSFER_OUT"
    BY <1>4 DEF adjust
  <2>2. type \in MovementTypes
    BY <2>1 DEF MovementTypes
  <2>3. StockTypeOK' /\ LedgerExplainsStock'
    BY <1>0, <2>0, <2>1, <2>2, MovementType, MovementLedger DEF Quantities
  <2>4. ASSUME NEW c \in Books
        PROVE  ShelfFits(c)'
    <3>1. /\ OnHand(c) \in Nat /\ missing[c] \in Int /\ missing[c] <= OnHand(c)
          /\ OnHand(c)' = IF type = "ADJUSTMENT" THEN OnHand(c) + One(b)[c]
                          ELSE OnHand(c) - One(b)[c]
      BY <1>0, <2>0, <2>1, <2>2, OnHandMoves DEF ShelfFits, INBOUND_TYPES
    <3>2. One(b)[c] = (IF c = b THEN 1 ELSE 0) /\ missing'[c] = missing[c] + IF c = b THEN delta ELSE 0
      BY <1>0, <2>0 DEF One
    <3>3. missing'[c] <= OnHand(c)'
      BY <2>1, <3>1, <3>2
    <3> QED  BY <3>3 DEF ShelfFits
  <2> QED  BY <1>0, <2>0, <2>3, <2>4
<1>5. ASSUME NEW c \in Sheets, completeCount(c)
      PROVE  /\ StockTypeOK' /\ LedgerExplainsStock' /\ missing' \in [Books -> Int]
             /\ \A b \in Books : ShelfFits(b)'
  <2> DEFINE difference == [b \in Books |-> IF b \in Counted(c) THEN targetStock(c, b) - stock[b]
                                            ELSE 0]
  <2>1. ASSUME NEW b \in Books
        PROVE  stock[b] + difference[b] \in Nat /\ difference[b] \in Int
    <3>1. stock[b] \in Nat /\ reserved[b] \in Nat
      BY <1>0 DEF StockTypeOK
    <3>2. CASE b \in Counted(c)
      <4>1. sheets[c].counted[b] \in Nat /\ sheets[c].counted[b] >= reserved[b]
        BY <1>0, <1>5, <3>2 DEF completeCount, CoversReserved, Counted, TypeInv, Sheet
      <4> QED  BY <3>1, <3>2, <4>1 DEF targetStock
    <3>3. CASE b \notin Counted(c)
      BY <3>1, <3>3
    <3> QED  BY <3>2, <3>3
  <2>2. /\ stock' = [b \in Books |-> stock[b] + difference[b]]
        /\ ledger' = [b \in Books |-> [sellable |-> ledger[b].sellable + difference[b],
                                       physical |-> ledger[b].physical + difference[b]]]
        /\ missing' = [b \in Books |-> missing[b] + difference[b]]
        /\ reserved' = reserved
    BY <1>5 DEF completeCount
  <2> HIDE DEF difference
  <2>3. \A b \in Books : /\ stock[b] \in Nat /\ reserved[b] \in Nat /\ missing[b] \in Int
                         /\ ledger[b].sellable = stock[b]
                         /\ ledger[b].physical = stock[b] + reserved[b]
                         /\ missing[b] <= stock[b] + reserved[b]
    BY <1>0 DEF StockTypeOK, LedgerExplainsStock, ShelfFits, OnHand
  <2>4. stock' \in [Books -> Nat] /\ missing' \in [Books -> Int]
    BY <2>1, <2>2, <2>3
  <2>5. ledger' \in [Books -> [sellable : Int, physical : Int]]
    BY <2>1, <2>2, <2>3
  <2>6. StockTypeOK'
    BY <1>0, <2>2, <2>4, <2>5 DEF StockTypeOK
  <2>7. LedgerExplainsStock'
    BY <2>1, <2>2, <2>3 DEF LedgerExplainsStock
  <2>8. \A b \in Books : ShelfFits(b)'
    BY <2>1, <2>2, <2>3 DEF ShelfFits, OnHand
  <2> QED  BY <2>4, <2>6, <2>7, <2>8
<1>6. ASSUME NEW b \in Books,
             placeOrder(b) \/ cancelOrder(b) \/ dispatch(b) \/ receiveReturn(b) \/ lose(b)
      PROVE  /\ StockTypeOK' /\ LedgerExplainsStock' /\ missing' \in [Books -> Int]
             /\ \A c \in Books : ShelfFits(c)'
  <2>0. One(b) \in Quantities /\ \A c \in Books : One(b)[c] > 0 => c = b /\ One(b)[c] = 1
    <3>1. \A c \in Books : One(b)[c] = IF c = b THEN 1 ELSE 0
      BY DEF One
    <3> QED  BY <3>1, CopiesType
  <2>1. CASE placeOrder(b) \/ cancelOrder(b) \/ receiveReturn(b)
    <3>1. PICK type \in {"SALE_OUT", "RESERVE_IN", "RETURN_IN"} :
              applyMovement(type, One(b)) /\ missing' = missing
      BY <2>1 DEF placeOrder, cancelOrder, receiveReturn
    <3> QED  BY <1>0, <2>0, <3>1, MovementKeeps DEF MovementTypes, INBOUND_TYPES
  <2>2. CASE dispatch(b)
    <3>1. applyMovement("SHIP_OUT", One(b)) /\ missing' = missing /\ Shelf(b) > 0
      BY <2>2 DEF dispatch
    <3>2. Shelf(b) \in Int
      <4>1. OnHand(b) \in Nat
        <5>1. stock[b] \in Nat /\ reserved[b] \in Nat
          BY <1>0 DEF StockTypeOK
        <5> QED  BY <5>1 DEF OnHand
      <4> QED  BY <1>0, <4>1 DEF Shelf
    <3>3. \A c \in Books : One(b)[c] > 0 => Shelf(c) >= One(b)[c]
      BY <2>0, <3>1, <3>2
    <3> QED  BY <1>0, <2>0, <3>1, <3>3, MovementKeeps DEF MovementTypes
  <2>3. CASE lose(b)
    <3>1. /\ missing' = [missing EXCEPT ![b] = @ + 1] /\ UNCHANGED stockVars
          /\ OnHand(b) - missing[b] > 0
      BY <2>3 DEF lose, Shelf
    <3>2. StockTypeOK' /\ LedgerExplainsStock' /\ missing' \in [Books -> Int]
      BY <1>0, <3>1 DEF stockVars, StockTypeOK, LedgerExplainsStock
    <3>3. \A c \in Books : OnHand(c)' = OnHand(c) /\ OnHand(c) \in Nat
      BY <1>0, <3>1 DEF stockVars, OnHand, StockTypeOK
    <3> QED  BY <1>0, <3>1, <3>2, <3>3 DEF ShelfFits
  <2> QED  BY <1>6, <2>1, <2>2, <2>3
<1>7. ASSUME NEW d \in Documents,
             (\E items \in Items(d) : createDocument(d, items)) \/ voidDraft(d)
      PROVE  UNCHANGED <<stockVars, missing>>
  BY <1>7 DEF createDocument, voidDraft
<1>8. ASSUME NEW c \in Sheets, createCount(c)
      PROVE  UNCHANGED <<stockVars, missing>>
  BY <1>8 DEF createCount
<1>9. ASSUME NEW k \in Clerks, Edit(k)
      PROVE  UNCHANGED <<stockVars, missing>>
  BY <1>9 DEF Edit, openDraft, saveDraft, countShelf, readBaseline, openForCancel, openSheet,
     saveCountedQuantities, refreshBaseline, cancelCount, saveRefused
<1> QED
  BY <1>1, <1>2, <1>3, <1>4, <1>5, <1>6, <1>7, <1>8, <1>9 DEF Next, Paperwork, Trade

-----------------------------------------------------------------------------
(* Documents and their rows.                                               *)

(* Documents and rows keep their types, and the rows add up.               *)
PaperFits ==
    /\ documents \in [Documents -> Document]
    /\ rows \in [Documents -> [Books -> Row]]
    /\ \A d \in Documents, b \in Books : RowFits(d, b)

(* The others are unaffected when one document and its rows change.        *)
LEMMA PaperMoves ==
    ASSUME PaperFits, NEW d \in Documents, NEW document \in Document, NEW row \in [Books -> Row],
           documents' = [documents EXCEPT ![d] = document], rows' = [rows EXCEPT ![d] = row],
           \A b \in Books : RowFits(d, b)'
    PROVE  PaperFits'
<1>1. documents' \in [Documents -> Document] /\ rows' \in [Documents -> [Books -> Row]]
  BY DEF PaperFits
<1>2. ASSUME NEW e \in Documents, NEW b \in Books, e # d
      PROVE  RowFits(e, b)'
  <2>1. documents'[e] = documents[e] /\ rows'[e] = rows[e] /\ RowFits(e, b)
    BY <1>2 DEF PaperFits
  <2> QED  BY <2>1 DEF RowFits
<1> QED  BY <1>1, <1>2 DEF PaperFits

(* A row that took in copies at a price.                                   *)
BoughtIn(row, quantity, price) == [row EXCEPT !.in = @ + quantity, !.unitCost = price]
LEMMA BoughtInRow ==
    ASSUME NEW row \in Row, NEW quantity \in Nat, NEW price \in Nat
    PROVE  BoughtIn(row, quantity, price)
             = [in |-> row.in + quantity, out |-> row.out, unitCost |-> price]
<1> DEFINE taken == [row EXCEPT !.in = row.in + quantity]
<1>1. /\ taken \in Row /\ taken.in = row.in + quantity
      /\ taken.out = row.out /\ taken.unitCost = row.unitCost
  BY DEF Row
<1>2. BoughtIn(row, quantity, price) = [taken EXCEPT !.unitCost = price]
  BY Zenon DEF BoughtIn
<1> HIDE DEF taken
<1> QED  BY <1>1, <1>2 DEF Row

(* Every step leaves the rows of every document in agreement with it.      *)
LEMMA PaperNext ==
    ASSUME WarehouseInv, Next
    PROVE  PaperFits'
<1>0. /\ TypeInv /\ PaperFits /\ \A k \in Clerks : ClerkFits(k)
  BY DEF WarehouseInv, TypeInv, PaperFits
<1>1. ASSUME UNCHANGED documentVars
      PROVE  PaperFits'
  BY <1>0, <1>1 DEF documentVars, PaperFits, RowFits
<1>2. ASSUME NEW d \in Documents, NEW document \in Document,
             documents' = [documents EXCEPT ![d] = document], rows' = rows,
             document.status # "CONFIRMED", documents[d].status \in {"none", "DRAFT"}
      PROVE  PaperFits'
  <2>1. /\ rows[d] \in [Books -> Row] /\ rows' = [rows EXCEPT ![d] = rows[d]]
        /\ documents'[d] = document
    BY <1>0, <1>2 DEF TypeInv
  <2>2. \A b \in Books : rows'[d][b].in = 0 /\ rows'[d][b].out = 0
    BY <1>0, <1>2 DEF PaperFits, RowFits
  <2>3. \A b \in Books : RowFits(d, b)'
    BY <1>2, <2>1, <2>2 DEF RowFits
  <2> QED  BY <1>0, <1>2, <2>1, <2>3, PaperMoves
<1>3. ASSUME NEW d \in Documents, NEW items \in Items(d), createDocument(d, items)
      PROVE  PaperFits'
  <2>1. [status |-> "DRAFT", items |-> items] \in Document
    BY CopiesType DEF Document
  <2> QED  BY <1>2, <1>3, <2>1 DEF createDocument
<1>4. ASSUME NEW d \in Documents, voidDraft(d)
      PROVE  PaperFits'
  <2>1. documents[d] \in Document
    BY <1>0 DEF TypeInv
  <2> DEFINE document == [documents[d] EXCEPT !.status = "CANCELLED"]
  <2>2. document \in Document /\ document.status = "CANCELLED"
    BY <2>1 DEF Document
  <2>3. documents' = [documents EXCEPT ![d] = document] /\ documents[d].status = "DRAFT" /\ rows' = rows
    BY <1>0, <1>4 DEF voidDraft, TypeInv
  <2> HIDE DEF document
  <2> QED  BY <1>2, <2>2, <2>3
<1>5. ASSUME NEW k \in Clerks, NEW d \in Documents, NEW items \in Items(d), saveDraft(k, items)
      PROVE  PaperFits'
  <2> DEFINE e == clerks[k].doc
             document == [documents[e] EXCEPT !.items = items]
  <2>1. e \in Documents /\ documents[e].status = "DRAFT" /\ items \in [Books -> Line]
    BY <1>0, <1>5, CopiesType DEF saveDraft, VersionHolds, ClerkFits
  <2>2. documents[e] \in Document
    BY <1>0, <2>1 DEF TypeInv
  <2>3. document \in Document /\ document.status = "DRAFT"
    BY <2>1, <2>2 DEF Document
  <2>4. documents' = [documents EXCEPT ![e] = document] /\ rows' = rows
    BY <1>0, <1>5, <2>1 DEF saveDraft, TypeInv
  <2> HIDE DEF e, document
  <2> QED  BY <1>2, <2>1, <2>3, <2>4
<1>6. ASSUME NEW d \in Documents, NEW status \in {"CONFIRMED", "CANCELLED"}, NEW row \in [Books -> Row],
             documents' = [documents EXCEPT ![d].status = status],
             rows' = [rows EXCEPT ![d] = row],
             \A b \in Books :
                 IF status = "CANCELLED" THEN row[b].in = row[b].out
                 ELSE IF d \in Receipts
                      THEN row[b].in = documents[d].items[b].quantity /\ row[b].out = 0
                      ELSE row[b].out = documents[d].items[b].quantity /\ row[b].in = 0
      PROVE  PaperFits'
  <2> DEFINE document == [documents[d] EXCEPT !.status = status]
  <2>1. documents[d] \in Document
    BY <1>0 DEF TypeInv
  <2>2. document \in Document /\ document.status = status /\ document.items = documents[d].items
    BY <2>1 DEF Document
  <2>3. documents' = [documents EXCEPT ![d] = document]
    BY <1>0, <1>6 DEF TypeInv
  <2> HIDE DEF document
  <2>4. documents'[d] = document /\ rows'[d] = row
    BY <1>0, <1>6, <2>3 DEF TypeInv
  <2>5. \A b \in Books : RowFits(d, b)'
    BY <1>6, <2>2, <2>4 DEF RowFits
  <2> QED  BY <1>0, <1>6, <2>2, <2>3, <2>5, PaperMoves
<1>7. ASSUME NEW r \in Receipts, confirmReceipt(r)
      PROVE  PaperFits'
  <2> DEFINE row == [b \in Books |-> BoughtIn(rows[r][b], Copies(documents[r].items)[b],
                                              Prices(documents[r].items)[b])]
  <2>0. r \in Documents /\ documents[r].status = "DRAFT"
    BY <1>7 DEF Documents, confirmReceipt
  <2>1. ASSUME NEW b \in Books
        PROVE  /\ row[b] \in Row /\ row[b].out = 0
               /\ row[b].in = documents[r].items[b].quantity
    <3>1. /\ rows[r][b] \in Row /\ rows[r][b].in = 0 /\ rows[r][b].out = 0
          /\ documents[r].items[b].quantity \in Nat /\ documents[r].items[b].unitCost \in Nat
      BY <1>0, <2>0 DEF TypeInv, PaperFits, RowFits, Document, Line
    <3>2. /\ Copies(documents[r].items)[b] = documents[r].items[b].quantity
          /\ Prices(documents[r].items)[b] = documents[r].items[b].unitCost
      BY DEF Copies, Prices
    <3>3. row[b] = BoughtIn(rows[r][b], documents[r].items[b].quantity,
                            documents[r].items[b].unitCost)
      BY <3>2
    <3> DEFINE before == rows[r][b]
               quantity == documents[r].items[b].quantity
               price == documents[r].items[b].unitCost
    <3>4. /\ before \in Row /\ before.in = 0 /\ before.out = 0
          /\ quantity \in Nat /\ price \in Nat /\ row[b] = BoughtIn(before, quantity, price)
      BY <3>1, <3>3
    <3> HIDE DEF row, before, quantity, price
    <3>5. row[b] = [in |-> before.in + quantity, out |-> before.out, unitCost |-> price]
      BY <3>4, BoughtInRow, Zenon
    <3>6. before.in + quantity = quantity
      BY <3>4
    <3>7. row[b] = [in |-> quantity, out |-> 0, unitCost |-> price]
      BY <3>4, <3>5, <3>6, Zenon
    <3>8. row[b] \in Row /\ row[b].out = 0 /\ row[b].in = quantity
      BY <3>4, <3>7 DEF Row
    <3> QED  BY <3>8 DEF quantity
  <2>2. /\ documents' = [documents EXCEPT ![r].status = "CONFIRMED"]
        /\ rows' = [rows EXCEPT ![r] = row]
    BY <1>7, Zenon DEF confirmReceipt, BoughtIn
  <2>3. row \in [Books -> Row]
    BY <2>1
  <2> HIDE DEF row
  <2> QED  BY <1>6, <2>0, <2>1, <2>2, <2>3
<1>8. ASSUME NEW r \in Receipts, cancelReceipt(r)
      PROVE  PaperFits'
  <2> DEFINE row == [b \in Books |-> [rows[r][b] EXCEPT !.out = @ + rows[r][b].in]]
  <2>0. r \in Documents /\ documents[r].status = "CONFIRMED"
    BY <1>8 DEF Documents, cancelReceipt
  <2>1. ASSUME NEW b \in Books
        PROVE  row[b] \in Row /\ row[b].in = row[b].out
    <3>1. rows[r][b] \in Row /\ rows[r][b].out = 0
      BY <1>0, <2>0 DEF TypeInv, PaperFits, RowFits
    <3> QED  BY <3>1 DEF Row
  <2>2. /\ documents' = [documents EXCEPT ![r].status = "CANCELLED"]
        /\ rows' = [rows EXCEPT ![r] = row]
    BY <1>8 DEF cancelReceipt
  <2>3. row \in [Books -> Row]
    BY <2>1
  <2> HIDE DEF row
  <2> QED  BY <1>6, <2>0, <2>1, <2>2, <2>3
<1>9. ASSUME NEW i \in Issues, confirmIssue(i)
      PROVE  PaperFits'
  <2> DEFINE row == [b \in Books |->
                       [rows[i][b] EXCEPT !.out = @ + Copies(documents[i].items)[b]]]
  <2>0. i \in Documents /\ i \notin Receipts /\ documents[i].status = "DRAFT"
    BY <1>9, WarehouseAssumption DEF Documents, confirmIssue
  <2>1. ASSUME NEW b \in Books
        PROVE  /\ row[b] \in Row /\ row[b].in = 0
               /\ row[b].out = documents[i].items[b].quantity
    <3>1. /\ rows[i][b] \in Row /\ rows[i][b].in = 0 /\ rows[i][b].out = 0
          /\ documents[i].items[b].quantity \in Nat
      BY <1>0, <2>0 DEF TypeInv, PaperFits, RowFits, Document, Line
    <3>2. Copies(documents[i].items)[b] = documents[i].items[b].quantity
      BY DEF Copies
    <3> QED  BY <3>1, <3>2 DEF Row
  <2>2. /\ documents' = [documents EXCEPT ![i].status = "CONFIRMED"]
        /\ rows' = [rows EXCEPT ![i] = row]
    BY <1>9 DEF confirmIssue
  <2>3. row \in [Books -> Row]
    BY <2>1
  <2> HIDE DEF row
  <2> QED  BY <1>6, <2>0, <2>1, <2>2, <2>3
<1>10. ASSUME NEW i \in Issues, cancelIssue(i)
       PROVE  PaperFits'
  <2> DEFINE row == [b \in Books |-> [rows[i][b] EXCEPT !.in = @ + rows[i][b].out]]
  <2>0. i \in Documents /\ i \notin Receipts /\ documents[i].status = "CONFIRMED"
    BY <1>10, WarehouseAssumption DEF Documents, cancelIssue
  <2>1. ASSUME NEW b \in Books
        PROVE  row[b] \in Row /\ row[b].in = row[b].out
    <3>1. rows[i][b] \in Row /\ rows[i][b].in = 0
      BY <1>0, <2>0 DEF TypeInv, PaperFits, RowFits
    <3> QED  BY <3>1 DEF Row
  <2>2. /\ documents' = [documents EXCEPT ![i].status = "CANCELLED"]
        /\ rows' = [rows EXCEPT ![i] = row]
    BY <1>10 DEF cancelIssue
  <2>3. row \in [Books -> Row]
    BY <2>1
  <2> HIDE DEF row
  <2> QED  BY <1>6, <2>0, <2>1, <2>2, <2>3
<1>11. ASSUME \/ \E b \in Books, delta \in {-1, 1} : adjust(b, delta)
              \/ \E c \in Sheets : createCount(c) \/ completeCount(c)
              \/ Trade
       PROVE  UNCHANGED documentVars
  BY <1>11 DEF adjust, createCount, completeCount, Trade, placeOrder, cancelOrder, dispatch,
     receiveReturn, lose, documentVars
<1>12. ASSUME NEW k \in Clerks, Edit(k), ~\E d \in Documents : \E items \in Items(d) : saveDraft(k, items)
       PROVE  UNCHANGED documentVars
  BY <1>12 DEF Edit, openDraft, countShelf, readBaseline, openForCancel, openSheet,
     saveCountedQuantities, refreshBaseline, cancelCount, saveRefused, documentVars
<1> QED
  BY <1>1, <1>3, <1>4, <1>5, <1>7, <1>8, <1>9, <1>10, <1>11, <1>12 DEF Next, Paperwork

-----------------------------------------------------------------------------
(* Clerks and sheets.                                                      *)

(* The sheets that a step may leave behind.                                *)
LEMMA SheetTypes ==
    /\ \A status \in {"COMPLETED", "CANCELLED"} :
           Ended(status) \in Sheet /\ Ended(status).status = status
    /\ \A figures \in Quantities :
           [NoSheet EXCEPT !.status = "COUNTING", !.baseline = figures] \in Sheet
<1>1. NoSheet \in Sheet
  BY DEF NoSheet, Sheet, Quantities
<1> QED  BY <1>1 DEF Ended, Sheet, NoSheet

(* What a clerk finds on the shelf, and in the books.                      *)
LEMMA FiguresType ==
    ASSUME WarehouseInv
    PROVE  /\ [b \in Books |-> OnHand(b)] \in Quantities
           /\ \A b \in Books : [counted |-> Shelf(b), lost |-> missing[b]] \in Note
<1>1. ASSUME NEW b \in Books
      PROVE  OnHand(b) \in Nat /\ [counted |-> Shelf(b), lost |-> missing[b]] \in Note
  <2>1. /\ stock[b] \in Nat /\ reserved[b] \in Nat /\ missing[b] \in Int
        /\ missing[b] <= OnHand(b)
    BY DEF WarehouseInv, TypeInv, StockTypeOK, ShelfFits
  <2>2. OnHand(b) \in Nat
    BY <2>1 DEF OnHand
  <2>3. Shelf(b) \in Nat
    BY <2>1, <2>2 DEF Shelf
  <2> QED  BY <2>1, <2>2, <2>3 DEF Note
<1> QED  BY <1>1 DEF Quantities

(* Clerks and the documents they load, when the paperwork moves.           *)
LEMMA PaperworkClerks ==
    ASSUME WarehouseInv, Paperwork \/ Trade
    PROVE  /\ clerks' \in [Clerks -> Clerk] /\ \A k \in Clerks : ClerkFits(k)'
           /\ sheets' \in [Sheets -> Sheet]
<1>0. /\ documents \in [Documents -> Document] /\ sheets \in [Sheets -> Sheet]
      /\ clerks \in [Clerks -> Clerk] /\ \A k \in Clerks : ClerkFits(k)
  BY DEF WarehouseInv, TypeInv
<1>1. ASSUME NEW d \in Documents, NEW items, createDocument(d, items)
      PROVE  /\ clerks' \in [Clerks -> Clerk] /\ \A k \in Clerks : ClerkFits(k)'
             /\ sheets' \in [Sheets -> Sheet]
  <2>1. \A e \in Documents : documents[e].status = "DRAFT" => documents'[e].status = "DRAFT"
    BY <1>0, <1>1 DEF createDocument
  <2>2. UNCHANGED <<clerks, sheets>>
    BY <1>1 DEF createDocument
  <2> QED  BY <1>0, <2>1, <2>2, ClerksRest
<1>2. ASSUME NEW d \in Documents,
             \/ voidDraft(d)
             \/ d \in Receipts /\ (confirmReceipt(d) \/ cancelReceipt(d))
             \/ d \in Issues /\ (confirmIssue(d) \/ cancelIssue(d))
      PROVE  /\ clerks' \in [Clerks -> Clerk] /\ \A k \in Clerks : ClerkFits(k)'
             /\ sheets' \in [Sheets -> Sheet]
  <2>1. \E status \in {"CONFIRMED", "CANCELLED"} :
            documents' = [documents EXCEPT ![d].status = status]
    BY <1>2, Zenon DEF voidDraft, confirmReceipt, cancelReceipt, confirmIssue, cancelIssue
  <2>2. outdate(d) /\ sheets' = sheets
    BY <1>2, Zenon DEF voidDraft, confirmReceipt, cancelReceipt, confirmIssue, cancelIssue
  <2>3. OthersKept(d)
    BY <1>0, <2>1, <2>2 DEF OthersKept
  <2> QED  BY <1>0, <2>2, <2>3, ClerksOutdated
<1>3. ASSUME (\E b \in Books, delta \in {-1, 1} : adjust(b, delta)) \/ Trade
      PROVE  /\ clerks' \in [Clerks -> Clerk] /\ \A k \in Clerks : ClerkFits(k)'
             /\ sheets' \in [Sheets -> Sheet]
  <2>1. UNCHANGED <<clerks, documents, sheets>>
    BY <1>3 DEF adjust, Trade, placeOrder, cancelOrder, dispatch, receiveReturn, lose
  <2> QED  BY <1>0, <2>1, ClerksRest
<1>4. ASSUME NEW c \in Sheets, createCount(c)
      PROVE  /\ clerks' \in [Clerks -> Clerk] /\ \A k \in Clerks : ClerkFits(k)'
             /\ sheets' \in [Sheets -> Sheet]
  <2> DEFINE sheet == [NoSheet EXCEPT !.status = "COUNTING",
                                      !.baseline = [b \in Books |-> OnHand(b)]]
  <2>1. sheet \in Sheet /\ sheet.status = "COUNTING"
    BY SheetTypes, FiguresType DEF NoSheet
  <2>2. sheets' = [sheets EXCEPT ![c] = sheet] /\ UNCHANGED <<clerks, documents>>
    BY <1>4 DEF createCount
  <2> HIDE DEF sheet
  <2>3. \A e \in Sheets : sheets[e].status = "COUNTING" => sheets'[e].status = "COUNTING"
    BY <1>0, <2>1, <2>2
  <2> QED  BY <1>0, <2>1, <2>2, <2>3, ClerksRest
<1>5. ASSUME NEW c \in Sheets, completeCount(c)
      PROVE  /\ clerks' \in [Clerks -> Clerk] /\ \A k \in Clerks : ClerkFits(k)'
             /\ sheets' \in [Sheets -> Sheet]
  <2>1. outdate(c) /\ sheets' = [sheets EXCEPT ![c] = Ended("COMPLETED")] /\ documents' = documents
    BY <1>5 DEF completeCount
  <2>2. sheets' \in [Sheets -> Sheet]
    BY <1>0, <2>1, SheetTypes
  <2>3. OthersKept(c)
    BY <1>0, <2>1 DEF OthersKept
  <2> QED  BY <1>0, <2>1, <2>2, <2>3, ClerksOutdated
<1> QED
  BY <1>1, <1>2, <1>3, <1>4, <1>5 DEF Paperwork, Documents

(* And when the clerks do.                                                 *)
LEMMA EditClerks ==
    ASSUME WarehouseInv, NEW k \in Clerks, Edit(k)
    PROVE  /\ clerks' \in [Clerks -> Clerk] /\ \A j \in Clerks : ClerkFits(j)'
           /\ sheets' \in [Sheets -> Sheet]
<1>0. /\ documents \in [Documents -> Document] /\ sheets \in [Sheets -> Sheet]
      /\ clerks \in [Clerks -> Clerk] /\ \A j \in Clerks : ClerkFits(j)
  BY DEF WarehouseInv, TypeInv
<1>1. clerks[k] \in Clerk /\ ClerkFits(k) /\ Idle \in Clerk
  BY <1>0, IdleFits
<1>2. ASSUME NEW clerk \in Clerk, clerks' = [clerks EXCEPT ![k] = clerk], ClerkFits(k)',
             UNCHANGED <<documents, sheets>>
      PROVE  /\ clerks' \in [Clerks -> Clerk] /\ \A j \in Clerks : ClerkFits(j)'
             /\ sheets' \in [Sheets -> Sheet]
  BY <1>0, <1>2, ClerkMoves
<1>3. ASSUME NEW d \in Documents, openDraft(k, d)
      PROVE  /\ clerks' \in [Clerks -> Clerk] /\ \A j \in Clerks : ClerkFits(j)'
             /\ sheets' \in [Sheets -> Sheet]
  <2> DEFINE clerk == [Idle EXCEPT !.doing = "editing", !.doc = d, !.fresh = TRUE]
  <2>1. clerk \in Clerk /\ clerk.doing = "editing" /\ clerk.doc = d
    BY DEF Idle, Clerk
  <2>2. clerks' = [clerks EXCEPT ![k] = clerk] /\ UNCHANGED <<documents, sheets>>
    BY <1>3 DEF openDraft
  <2>3. documents'[d].status = "DRAFT"
    BY <1>3 DEF openDraft
  <2> HIDE DEF clerk
  <2>4. clerks'[k] = clerk
    BY <1>0, <2>2
  <2>5. ClerkFits(k)'
    BY <2>1, <2>3, <2>4 DEF ClerkFits
  <2> QED  BY <1>2, <2>1, <2>2, <2>5
<1>4. ASSUME NEW items, saveDraft(k, items)
      PROVE  /\ clerks' \in [Clerks -> Clerk] /\ \A j \in Clerks : ClerkFits(j)'
             /\ sheets' \in [Sheets -> Sheet]
  <2>1. OthersKept(clerks[k].doc) /\ finish(k) /\ sheets' = sheets
    BY <1>0, <1>4 DEF saveDraft, OthersKept
  <2> QED  BY <1>0, <2>1, ClerksFinished
<1>5. ASSUME saveRefused(k)
      PROVE  /\ clerks' \in [Clerks -> Clerk] /\ \A j \in Clerks : ClerkFits(j)'
             /\ sheets' \in [Sheets -> Sheet]
  <2>1. clerks' = [clerks EXCEPT ![k] = Idle] /\ UNCHANGED <<documents, sheets>>
    BY <1>5 DEF saveRefused
  <2>2. ClerkFits(k)'
    BY <1>0, <2>1 DEF ClerkFits, Idle
  <2> QED  BY <1>1, <1>2, <2>1, <2>2
<1>6. ASSUME NEW c \in Sheets, NEW b \in Books, countShelf(k, c, b)
      PROVE  /\ clerks' \in [Clerks -> Clerk] /\ \A j \in Clerks : ClerkFits(j)'
             /\ sheets' \in [Sheets -> Sheet]
  <2> DEFINE note == [counted |-> Shelf(b), lost |-> missing[b]]
             clerk == [Idle EXCEPT !.doing = "counted", !.doc = c, !.book = b, !.noted = note]
  <2>1. note \in Note
    BY FiguresType
  <2>2. clerks' = [clerks EXCEPT ![k] = clerk] /\ UNCHANGED <<documents, sheets>>
    BY <1>6 DEF countShelf
  <2> HIDE DEF note
  <2>3. /\ clerk \in Clerk /\ clerk.doing = "counted" /\ clerk.doc = c /\ clerk.book = b
        /\ clerk.noted = note
    BY <2>1 DEF Idle, Clerk
  <2> HIDE DEF clerk
  <2>4. clerks'[k] = clerk
    BY <1>0, <2>2
  <2>5. ClerkFits(k)'
    BY <2>1, <2>3, <2>4 DEF ClerkFits
  <2> QED  BY <1>2, <2>2, <2>3, <2>5
<1>7. ASSUME openSheet(k)
      PROVE  /\ clerks' \in [Clerks -> Clerk] /\ \A j \in Clerks : ClerkFits(j)'
             /\ sheets' \in [Sheets -> Sheet]
  <2>0. UNCHANGED <<documents, sheets>> /\ clerks[k].doing = "counted"
    BY <1>7 DEF openSheet
  <2>1. CASE sheets[clerks[k].doc].status = "COUNTING"
    <3> DEFINE clerk == [clerks[k] EXCEPT !.doing = "saving", !.fresh = TRUE]
    <3>1. clerks' = [clerks EXCEPT ![k] = clerk]
      BY <1>0, <1>7, <2>1, Zenon DEF openSheet
    <3>2. /\ clerk \in Clerk /\ clerk.doing = "saving" /\ clerk.doc = clerks[k].doc
          /\ clerk.book = clerks[k].book /\ clerk.noted = clerks[k].noted
      BY <1>1 DEF Clerk
    <3> HIDE DEF clerk
    <3>3. clerks'[k] = clerk
      BY <1>0, <3>1
    <3>4. ClerkFits(k)'
      BY <1>1, <2>0, <2>1, <3>2, <3>3 DEF ClerkFits
    <3> QED  BY <1>2, <2>0, <3>1, <3>2, <3>4
  <2>2. CASE sheets[clerks[k].doc].status # "COUNTING"
    <3>1. clerks' = [clerks EXCEPT ![k] = Idle]
      BY <1>7, <2>2 DEF openSheet
    <3>2. ClerkFits(k)'
      BY <1>0, <3>1 DEF ClerkFits, Idle
    <3> QED  BY <1>1, <1>2, <2>0, <3>1, <3>2
  <2> QED  BY <2>1, <2>2
<1>8. ASSUME NEW c \in Sheets, readBaseline(k, c)
      PROVE  /\ clerks' \in [Clerks -> Clerk] /\ \A j \in Clerks : ClerkFits(j)'
             /\ sheets' \in [Sheets -> Sheet]
  <2> DEFINE figures == [b \in Books |-> OnHand(b)]
             clerk == [Idle EXCEPT !.doing = "refreshing", !.doc = c, !.fresh = TRUE,
                                   !.noted = figures]
  <2>1. figures \in Quantities
    BY FiguresType
  <2>2. /\ clerks' = [clerks EXCEPT ![k] = clerk] /\ UNCHANGED <<documents, sheets>>
        /\ sheets'[c].status = "COUNTING"
    BY <1>8 DEF readBaseline
  <2> HIDE DEF figures
  <2>3. /\ clerk \in Clerk /\ clerk.doing = "refreshing" /\ clerk.doc = c
        /\ clerk.noted = figures
    BY <2>1 DEF Idle, Clerk
  <2> HIDE DEF clerk
  <2>4. clerks'[k] = clerk
    BY <1>0, <2>2
  <2>5. ClerkFits(k)'
    BY <2>1, <2>2, <2>3, <2>4 DEF ClerkFits
  <2> QED  BY <1>2, <2>2, <2>3, <2>5
<1>9. ASSUME NEW c \in Sheets, openForCancel(k, c)
      PROVE  /\ clerks' \in [Clerks -> Clerk] /\ \A j \in Clerks : ClerkFits(j)'
             /\ sheets' \in [Sheets -> Sheet]
  <2> DEFINE clerk == [Idle EXCEPT !.doing = "voiding", !.doc = c, !.fresh = TRUE]
  <2>1. clerk \in Clerk /\ clerk.doing = "voiding" /\ clerk.doc = c
    BY DEF Idle, Clerk
  <2>2. /\ clerks' = [clerks EXCEPT ![k] = clerk] /\ UNCHANGED <<documents, sheets>>
        /\ sheets'[c].status = "COUNTING"
    BY <1>9 DEF openForCancel
  <2> HIDE DEF clerk
  <2>3. clerks'[k] = clerk
    BY <1>0, <2>2
  <2>4. ClerkFits(k)'
    BY <2>1, <2>2, <2>3 DEF ClerkFits
  <2> QED  BY <1>2, <2>1, <2>2, <2>4
<1>10. ASSUME NEW sheet \in Sheet, sheets' = [sheets EXCEPT ![clerks[k].doc] = sheet],
              finish(k), documents' = documents
       PROVE  /\ clerks' \in [Clerks -> Clerk] /\ \A j \in Clerks : ClerkFits(j)'
              /\ sheets' \in [Sheets -> Sheet]
  <2>1. OthersKept(clerks[k].doc)
    BY <1>0, <1>10 DEF OthersKept
  <2> QED  BY <1>0, <1>10, <2>1, ClerksFinished
<1>11. ASSUME saveCountedQuantities(k)
       PROVE  /\ clerks' \in [Clerks -> Clerk] /\ \A j \in Clerks : ClerkFits(j)'
              /\ sheets' \in [Sheets -> Sheet]
  <2> DEFINE c == clerks[k].doc
             b == clerks[k].book
             sheet == [sheets[c] EXCEPT !.counted = [@ EXCEPT ![b] = clerks[k].noted.counted],
                                        !.lost = [@ EXCEPT ![b] = clerks[k].noted.lost],
                                        !.status = "COUNTING"]
  <2>1. /\ c \in Sheets /\ b \in Books /\ clerks[k].noted \in Note
    BY <1>1, <1>11 DEF saveCountedQuantities, ClerkFits
  <2>2. /\ sheets[c].counted \in [Books -> Nat \union {None}]
        /\ sheets[c].lost \in [Books -> Int] /\ sheets[c] \in Sheet
        /\ clerks[k].noted.counted \in Nat /\ clerks[k].noted.lost \in Int
    BY <1>0, <2>1 DEF Sheet, Note
  <2>3. /\ sheets' = [sheets EXCEPT ![c] = sheet] /\ finish(k) /\ documents' = documents
    BY <1>0, <1>11, <2>1, Zenon DEF saveCountedQuantities
  <2>4. sheet \in Sheet
    BY <2>1, <2>2 DEF Sheet
  <2> HIDE DEF sheet
  <2> QED  BY <1>10, <2>3, <2>4
<1>12. ASSUME refreshBaseline(k)
       PROVE  /\ clerks' \in [Clerks -> Clerk] /\ \A j \in Clerks : ClerkFits(j)'
              /\ sheets' \in [Sheets -> Sheet]
  <2> DEFINE c == clerks[k].doc
             sheet == [sheets[c] EXCEPT !.baseline = clerks[k].noted, !.status = "COUNTING"]
  <2>1. /\ c \in Sheets /\ clerks[k].noted \in Quantities
    BY <1>1, <1>12 DEF refreshBaseline, ClerkFits
  <2>2. /\ sheets' = [sheets EXCEPT ![c] = sheet] /\ finish(k) /\ documents' = documents
    BY <1>0, <1>12, <2>1, Zenon DEF refreshBaseline
  <2>3. sheet \in Sheet
    BY <1>0, <2>1 DEF Sheet
  <2> HIDE DEF sheet
  <2> QED  BY <1>10, <2>2, <2>3
<1>13. ASSUME cancelCount(k)
       PROVE  /\ clerks' \in [Clerks -> Clerk] /\ \A j \in Clerks : ClerkFits(j)'
              /\ sheets' \in [Sheets -> Sheet]
  BY <1>10, <1>13, SheetTypes DEF cancelCount
<1> QED
  BY <1>3, <1>4, <1>5, <1>6, <1>7, <1>8, <1>9, <1>11, <1>12, <1>13 DEF Edit

-----------------------------------------------------------------------------
(* Costs and the receipts they came from.                                  *)

(* The receipt that a book's cost comes from stays as it is.               *)
ReceiptKept(b) ==
    last[b] # None => /\ documents'[last[b].receipt].status = "CONFIRMED"
                      /\ rows'[last[b].receipt] = rows[last[b].receipt]

(* A book that did not move, or whose receipt is forgotten.                *)
LEMMA LastKept ==
    ASSUME NEW b \in Books, LastFits(b),
           \/ last'[b] = None
           \/ /\ last'[b] = last[b] /\ cost'[b] = cost[b] /\ OnHand(b)' = OnHand(b)
              /\ ReceiptKept(b)
    PROVE  LastFits(b)'
  BY DEF LastFits, ReceiptKept

(* Documents that are no receipts, or not confirmed, change.               *)
LEMMA ReceiptsKept ==
    ASSUME WarehouseInv, NEW d, d \in Receipts => documents[d].status # "CONFIRMED",
           \A e \in Receipts \ {d} : documents'[e] = documents[e] /\ rows'[e] = rows[e]
    PROVE  \A b \in Books : ReceiptKept(b)
<1> SUFFICES ASSUME NEW b \in Books, last[b] # None
             PROVE  /\ documents'[last[b].receipt].status = "CONFIRMED"
                    /\ rows'[last[b].receipt] = rows[last[b].receipt]
  BY DEF ReceiptKept
<1>1. last[b].receipt \in Receipts /\ documents[last[b].receipt].status = "CONFIRMED"
  BY DEF WarehouseInv, LastFits
<1> QED  BY <1>1

(* A movement that forgets the receipts of the books it moves.             *)
LEMMA ForgetfulMove ==
    ASSUME WarehouseInv, NEW type \in MovementTypes, NEW copies \in Quantities,
           applyMovement(type, copies), NEW touched, forgetLast(touched), cost' = cost,
           \A b \in Books : b \notin touched => copies[b] = 0,
           \A b \in Books : ReceiptKept(b)
    PROVE  \A b \in Books : LastFits(b)'
<1> SUFFICES ASSUME NEW b \in Books
             PROVE  LastFits(b)'
  OBVIOUS
<1>1. LastFits(b) /\ StockTypeOK
  BY DEF WarehouseInv, TypeInv
<1>2. last'[b] = IF b \in touched THEN None ELSE last[b]
  BY DEF forgetLast
<1>3. b \notin touched => OnHand(b)' = OnHand(b)
  BY <1>1, OnHandMoves
<1> QED  BY <1>1, <1>2, <1>3, LastKept

(* Nothing but the papers moves.                                           *)
LEMMA StandsStill ==
    ASSUME WarehouseInv, UNCHANGED <<stockVars, cost, last>>, \A b \in Books : ReceiptKept(b)
    PROVE  \A b \in Books : LastFits(b)'
<1> SUFFICES ASSUME NEW b \in Books
             PROVE  LastFits(b)'
  OBVIOUS
<1>1. LastFits(b) /\ OnHand(b)' = OnHand(b)
  BY DEF WarehouseInv, stockVars, OnHand
<1> QED  BY <1>1, LastKept

(* A receipt is confirmed: the books it has copies of take their new       *)
(* average from it.                                                        *)
LEMMA ReceiptCosts ==
    ASSUME WarehouseInv, NEW r \in Receipts, confirmReceipt(r)
    PROVE  cost' \in Quantities /\ \A b \in Books : LastFits(b)'
<1> DEFINE copies == Copies(documents[r].items)
           prices == Prices(documents[r].items)
<1>0. /\ r \in Documents /\ StockTypeOK /\ cost \in Quantities
      /\ copies \in Quantities /\ prices \in Quantities
      /\ documents[r].status = "DRAFT"
  BY CopiesMoved DEF Documents, WarehouseInv, TypeInv, confirmReceipt
<1>1. /\ applyMovement("PURCHASE_IN", copies)
      /\ cost' = [b \in Books |->
                    IF copies[b] = 0 THEN cost[b]
                    ELSE movingAverageCost(OnHand(b), cost[b], copies[b], prices[b])]
      /\ documents' = [documents EXCEPT ![r].status = "CONFIRMED"]
      /\ last' = [b \in Books |-> IF copies[b] = 0 THEN last[b]
                                  ELSE [receipt |-> r, cost |-> cost[b], units |-> OnHand(b)]]
  BY Zenon DEF confirmReceipt, receiveAtCost, ownedBefore
<1>2. rows' = [rows EXCEPT ![r] = [b \in Books |-> BoughtIn(rows[r][b], copies[b], prices[b])]]
  BY Zenon DEF confirmReceipt, BoughtIn
<1> HIDE DEF copies, prices
<1>3. ASSUME NEW b \in Books
      PROVE  /\ OnHand(b) \in Nat /\ OnHand(b)' = OnHand(b) + copies[b]
             /\ cost[b] \in Nat /\ copies[b] \in Nat /\ prices[b] \in Nat
  BY <1>0, <1>1, OnHandMoves DEF MovementTypes, INBOUND_TYPES, Quantities
<1>4. cost' \in Quantities
  BY <1>1, <1>3, AverageType DEF Quantities
<1>5. ASSUME NEW b \in Books
      PROVE  LastFits(b)'
  <2>1. CASE copies[b] = 0
    <3>1. last'[b] = last[b] /\ cost'[b] = cost[b] /\ OnHand(b)' = OnHand(b)
      BY <1>1, <1>3, <2>1
    <3>2. \A e \in Receipts \ {r} : documents'[e] = documents[e] /\ rows'[e] = rows[e]
      BY <1>1, <1>2 DEF WarehouseInv, TypeInv, Documents
    <3>3. LastFits(b) /\ ReceiptKept(b)
      BY <1>0, <3>2, ReceiptsKept DEF WarehouseInv
    <3> QED  BY <3>1, <3>3, LastKept
  <2>2. CASE copies[b] # 0
    <3>1. /\ rows[r][b] \in Row /\ rows[r][b].in = 0
          /\ documents \in [Documents -> Document] /\ rows \in [Documents -> [Books -> Row]]
      BY <1>0 DEF WarehouseInv, TypeInv, RowFits
    <3>2. rows'[r][b] = BoughtIn(rows[r][b], copies[b], prices[b])
      BY <1>0, <1>2, <3>1
    <3>3. BoughtIn(rows[r][b], copies[b], prices[b])
            = [in |-> rows[r][b].in + copies[b], out |-> rows[r][b].out, unitCost |-> prices[b]]
      BY <1>3, <3>1, BoughtInRow
    <3>4. rows[r][b].in + copies[b] = copies[b]
      BY <1>3, <3>1
    <3>5. rows'[r][b].in = copies[b] /\ rows'[r][b].unitCost = prices[b]
      BY <3>2, <3>3, <3>4
    <3>6. documents'[r].status = "CONFIRMED"
      BY <1>0, <1>1, <3>1 DEF Document
    <3>7. last'[b] = [receipt |-> r, cost |-> cost[b], units |-> OnHand(b)]
      BY <1>1, <2>2
    <3>8. cost'[b] = movingAverageCost(OnHand(b), cost[b], copies[b], prices[b])
      BY <1>1, <2>2
    <3> QED  BY <1>3, <2>2, <3>5, <3>6, <3>7, <3>8 DEF LastFits
  <2> QED  BY <2>1, <2>2
<1> QED  BY <1>4, <1>5

(* A confirmed receipt is cancelled: the books it gave copies to forget it.*)
LEMMA ReversalCosts ==
    ASSUME WarehouseInv, NEW r \in Receipts, cancelReceipt(r)
    PROVE  cost' \in Quantities /\ \A b \in Books : LastFits(b)'
<1> DEFINE copies == [b \in Books |-> rows[r][b].in]
           prices == [b \in Books |-> rows[r][b].unitCost]
<1>0. /\ r \in Documents /\ StockTypeOK /\ cost \in Quantities
      /\ copies \in Quantities /\ prices \in Quantities
  BY CopiesMoved DEF Documents, WarehouseInv, TypeInv
<1>1. /\ applyMovement("PURCHASE_REVERSAL", copies)
      /\ cost' = [b \in Books |->
                    IF copies[b] = 0 THEN cost[b]
                    ELSE reverseMovingAverageCost(OnHand(b), cost[b], copies[b], prices[b])]
      /\ documents' = [documents EXCEPT ![r].status = "CANCELLED"]
      /\ last' = [b \in Books |-> IF b \in Moved(copies) THEN None ELSE last[b]]
  BY Zenon DEF cancelReceipt, reverseAtCost, forgetLast
<1>2. \A e \in Receipts \ {r} : documents'[e] = documents[e] /\ rows'[e] = rows[e]
  <2>1. \E row : rows' = [rows EXCEPT ![r] = row]
    BY Zenon DEF cancelReceipt
  <2> QED  BY <1>1, <2>1 DEF WarehouseInv, TypeInv, Documents
<1>3. \A b \in Books : copies[b] = rows[r][b].in
  OBVIOUS
<1> HIDE DEF copies, prices
<1>4. ASSUME NEW b \in Books
      PROVE  /\ OnHand(b) \in Nat /\ OnHand(b)' = OnHand(b) - copies[b]
             /\ cost[b] \in Nat /\ copies[b] \in Nat /\ prices[b] \in Nat
  BY <1>0, <1>1, OnHandMoves DEF MovementTypes, INBOUND_TYPES, Quantities
<1>5. cost' \in Quantities
  BY <1>1, <1>4, AverageType DEF Quantities
<1>6. ASSUME NEW b \in Books
      PROVE  LastFits(b)'
  <2>0. LastFits(b)
    BY DEF WarehouseInv
  <2>1. CASE copies[b] = 0
    <3>1. last'[b] = last[b] /\ cost'[b] = cost[b] /\ OnHand(b)' = OnHand(b)
      BY <1>1, <1>4, <2>1 DEF Moved
    <3>2. last[b] # None => last[b].receipt \in Receipts \ {r}
      BY <1>3, <2>0, <2>1 DEF LastFits
    <3>3. ReceiptKept(b)
      BY <1>2, <2>0, <3>2 DEF ReceiptKept, LastFits
    <3> QED  BY <2>0, <3>1, <3>3, LastKept
  <2>2. CASE copies[b] # 0
    <3>1. last'[b] = None
      BY <1>1, <1>4, <2>2 DEF Moved
    <3> QED  BY <2>0, <3>1, LastKept
  <2> QED  BY <2>1, <2>2
<1> QED  BY <1>5, <1>6

(* Every step keeps costs natural, and explained by the receipt they came  *)
(* from.                                                                   *)
LEMMA CostNext ==
    ASSUME WarehouseInv, Next
    PROVE  cost' \in Quantities /\ \A b \in Books : LastFits(b)'
<1>0. /\ TypeInv /\ cost \in Quantities /\ documents \in [Documents -> Document]
      /\ rows \in [Documents -> [Books -> Row]] /\ Receipts \subseteq Documents
      /\ \A k \in Clerks : ClerkFits(k)
  BY DEF WarehouseInv, TypeInv, Documents
<1>1. ASSUME UNCHANGED documentVars
      PROVE  \A b \in Books : ReceiptKept(b)
  BY <1>1 DEF documentVars, ReceiptKept, WarehouseInv, LastFits
<1>2. ASSUME NEW d \in Documents,
             (\E items \in Items(d) : createDocument(d, items)) \/ voidDraft(d)
      PROVE  cost' \in Quantities /\ \A b \in Books : LastFits(b)'
  <2>1. /\ documents[d].status # "CONFIRMED" /\ rows' = rows
        /\ UNCHANGED <<stockVars, cost, last>>
        /\ \E document : documents' = [documents EXCEPT ![d] = document]
    BY <1>2, Zenon DEF createDocument, voidDraft
  <2>2. \A e \in Receipts \ {d} : documents'[e] = documents[e] /\ rows'[e] = rows[e]
    BY <1>0, <2>1
  <2> QED  BY <1>0, <2>1, <2>2, ReceiptsKept, StandsStill
<1>3. ASSUME NEW i \in Issues, confirmIssue(i) \/ cancelIssue(i)
      PROVE  cost' \in Quantities /\ \A b \in Books : LastFits(b)'
  <2>0. i \in Documents /\ i \notin Receipts
    BY WarehouseAssumption DEF Documents
  <2>1. \E row, document : /\ rows' = [rows EXCEPT ![i] = row]
                           /\ documents' = [documents EXCEPT ![i] = document]
    BY <1>3, Zenon DEF confirmIssue, cancelIssue
  <2>2. \A e \in Receipts \ {i} : documents'[e] = documents[e] /\ rows'[e] = rows[e]
    BY <1>0, <2>1
  <2>3. \A b \in Books : ReceiptKept(b)
    BY <2>0, <2>2, ReceiptsKept
  <2>4. ASSUME NEW type \in MovementTypes, NEW copies \in Quantities,
               applyMovement(type, copies), forgetLast(Moved(copies)), cost' = cost
        PROVE  cost' \in Quantities /\ \A b \in Books : LastFits(b)'
    <3>1. \A b \in Books : b \notin Moved(copies) => copies[b] = 0
      BY DEF Moved, Quantities
    <3> QED  BY <1>0, <2>3, <2>4, <3>1, ForgetfulMove
  <2>5. CASE confirmIssue(i)
    <3>1. /\ applyMovement("DAMAGE_OUT", Copies(documents[i].items))
          /\ forgetLast(Moved(Copies(documents[i].items))) /\ cost' = cost
      BY <2>5 DEF confirmIssue
    <3> QED  BY <1>0, <2>0, <2>4, <3>1, CopiesMoved DEF MovementTypes
  <2>6. CASE cancelIssue(i)
    <3>1. /\ applyMovement("CANCEL_IN", [b \in Books |-> rows[i][b].out])
          /\ forgetLast(Moved([b \in Books |-> rows[i][b].out])) /\ cost' = cost
      BY <2>6 DEF cancelIssue
    <3> QED  BY <1>0, <2>0, <2>4, <3>1, CopiesMoved DEF MovementTypes
  <2> QED  BY <1>3, <2>5, <2>6
<1>4. ASSUME NEW type \in MovementTypes, NEW b \in Books, applyMovement(type, One(b)),
             forgetLast({b}), UNCHANGED <<cost, documents, rows>>
      PROVE  cost' \in Quantities /\ \A c \in Books : LastFits(c)'
  <2>1. One(b) \in Quantities /\ \A c \in Books : c \notin {b} => One(b)[c] = 0
    <3>1. \A c \in Books : One(b)[c] = IF c = b THEN 1 ELSE 0
      BY DEF One
    <3> QED  BY <3>1, CopiesType
  <2>2. \A c \in Books : ReceiptKept(c)
    BY <1>1, <1>4 DEF documentVars
  <2> QED  BY <1>0, <1>4, <2>1, <2>2, ForgetfulMove
<1>5. ASSUME NEW b \in Books, NEW delta \in {-1, 1}, adjust(b, delta)
      PROVE  cost' \in Quantities /\ \A c \in Books : LastFits(c)'
  <2>1. PICK type \in {"ADJUSTMENT", "TRANSFER_OUT"} : applyMovement(type, One(b))
    BY <1>5 DEF adjust
  <2> QED  BY <1>4, <1>5, <2>1 DEF adjust, MovementTypes
<1>6. ASSUME NEW b \in Books,
             placeOrder(b) \/ cancelOrder(b) \/ dispatch(b) \/ receiveReturn(b) \/ lose(b)
      PROVE  cost' \in Quantities /\ \A c \in Books : LastFits(c)'
  <2>0. cost' = cost /\ \A c \in Books : ReceiptKept(c)
    BY <1>1, <1>6 DEF placeOrder, cancelOrder, dispatch, receiveReturn, lose, documentVars
  <2>1. CASE placeOrder(b) \/ cancelOrder(b)
    <3>1. PICK type \in {"SALE_OUT", "RESERVE_IN"} : applyMovement(type, One(b)) /\ last' = last
      BY <2>1 DEF placeOrder, cancelOrder
    <3>2. ASSUME NEW c \in Books
          PROVE  LastFits(c)'
      <4>1. One(b) \in Quantities /\ StockTypeOK /\ LastFits(c)
        BY CopiesType DEF WarehouseInv, TypeInv
      <4>2. OnHand(c)' = OnHand(c)
        BY <3>1, <4>1, OnHandMoves DEF MovementTypes
      <4> QED  BY <2>0, <3>1, <4>1, <4>2, LastKept
    <3> QED  BY <1>0, <2>0, <3>2
  <2>2. CASE dispatch(b)
    BY <1>4, <2>2 DEF dispatch, MovementTypes
  <2>3. CASE receiveReturn(b)
    BY <1>4, <2>3 DEF receiveReturn, MovementTypes
  <2>4. CASE lose(b)
    BY <1>0, <2>0, <2>4, StandsStill DEF lose
  <2> QED  BY <1>6, <2>1, <2>2, <2>3, <2>4
<1>7. ASSUME NEW c \in Sheets, completeCount(c)
      PROVE  cost' \in Quantities /\ \A b \in Books : LastFits(b)'
  <2> DEFINE difference == [b \in Books |-> IF b \in Counted(c) THEN targetStock(c, b) - stock[b]
                                            ELSE 0]
             touched == {b \in Books : difference[b] # 0}
  <2>1. /\ stock' = [b \in Books |-> stock[b] + difference[b]] /\ reserved' = reserved
        /\ UNCHANGED <<cost, documents, rows>>
        /\ last' = [b \in Books |-> IF b \in touched THEN None ELSE last[b]]
    BY <1>7 DEF completeCount, forgetLast
  <2> HIDE DEF difference
  <2>2. \A b \in Books : ReceiptKept(b)
    BY <1>1, <2>1 DEF documentVars
  <2>3. ASSUME NEW b \in Books
        PROVE  LastFits(b)'
    <3>0. LastFits(b) /\ stock[b] \in Nat
      BY DEF WarehouseInv, TypeInv, StockTypeOK
    <3>1. CASE difference[b] # 0
      BY <2>1, <3>0, <3>1, LastKept
    <3>2. CASE difference[b] = 0
      <4>1. OnHand(b)' = OnHand(b) /\ last'[b] = last[b] /\ cost'[b] = cost[b]
        BY <2>1, <3>0, <3>2 DEF OnHand
      <4> QED  BY <2>2, <3>0, <4>1, LastKept
    <3> QED  BY <3>1, <3>2
  <2> QED  BY <1>0, <2>1, <2>3
<1>8. ASSUME NEW c \in Sheets, createCount(c)
      PROVE  cost' \in Quantities /\ \A b \in Books : LastFits(b)'
  <2>1. UNCHANGED <<stockVars, cost, last>> /\ UNCHANGED documentVars
    BY <1>8 DEF createCount, documentVars
  <2> QED  BY <1>0, <1>1, <2>1, StandsStill
<1>9. ASSUME NEW k \in Clerks, Edit(k)
      PROVE  cost' \in Quantities /\ \A b \in Books : LastFits(b)'
  <2>1. UNCHANGED <<stockVars, cost, last, rows>>
    BY <1>9 DEF Edit, openDraft, saveDraft, countShelf, readBaseline, openForCancel, openSheet,
       saveCountedQuantities, refreshBaseline, cancelCount, saveRefused
  <2>2. CASE documents' = documents
    BY <1>0, <1>1, <2>1, <2>2, StandsStill DEF documentVars
  <2>3. ASSUME NEW d \in Documents, NEW items \in Items(d), saveDraft(k, items)
        PROVE  cost' \in Quantities /\ \A b \in Books : LastFits(b)'
    <3>1. /\ clerks[k].doc \in Documents /\ documents[clerks[k].doc].status = "DRAFT"
          /\ documents' = [documents EXCEPT ![clerks[k].doc].items = items]
      BY <1>0, <2>3 DEF saveDraft, VersionHolds, ClerkFits
    <3>2. \A e \in Receipts \ {clerks[k].doc} : documents'[e] = documents[e] /\ rows'[e] = rows[e]
      BY <1>0, <2>1, <3>1
    <3> QED  BY <1>0, <2>1, <3>1, <3>2, ReceiptsKept, StandsStill
  <2> QED
    BY <1>9, <2>2, <2>3 DEF Edit, openDraft, countShelf, readBaseline, openForCancel, openSheet,
       saveCountedQuantities, refreshBaseline, cancelCount, saveRefused
<1> QED
  BY <1>2, <1>3, <1>5, <1>6, <1>7, <1>8, <1>9, ReceiptCosts, ReversalCosts
     DEF Next, Paperwork, Trade

-----------------------------------------------------------------------------
(* The theorems.                                                           *)

(* The invariant at the start.                                             *)
LEMMA WarehouseInit == Init => WarehouseInv
<1> SUFFICES ASSUME Init
             PROVE  WarehouseInv
  OBVIOUS
<1>1. StockTypeOK /\ LedgerExplainsStock
  BY WarehouseAssumption DEF Init, StockTypeOK, LedgerExplainsStock
<1>2. /\ cost \in Quantities /\ missing \in [Books -> Int]
      /\ \A b \in Books : missing[b] = 0 /\ OnHand(b) \in Nat /\ last[b] = None
  <2>1. \A b \in Books : stock[b] = Opening /\ reserved[b] = 0
    BY DEF Init
  <2>2. ASSUME NEW b \in Books
        PROVE  OnHand(b) \in Nat
    BY <2>1, WarehouseAssumption DEF OnHand
  <2> QED  BY <2>2, WarehouseAssumption DEF Init, Quantities
<1>3. documents \in [Documents -> Document] /\ \A d \in Documents : documents[d].status = "none"
  <2>1. [status |-> "none", items |-> NoItems] \in Document
    BY CopiesType DEF Document
  <2> QED  BY <2>1 DEF Init
<1>4. /\ rows \in [Documents -> [Books -> Row]]
      /\ \A d \in Documents, b \in Books : rows[d][b].in = 0 /\ rows[d][b].out = 0
  <2>1. \A b \in Books : NoRows[b].in = 0 /\ NoRows[b].out = 0
    BY DEF NoRows
  <2> QED  BY <2>1, CopiesType DEF Init
<1>5. sheets \in [Sheets -> Sheet]
  <2>1. NoSheet \in Sheet
    BY DEF NoSheet, Sheet, Quantities
  <2> QED  BY <2>1 DEF Init
<1>6. clerks \in [Clerks -> Clerk] /\ \A k \in Clerks : clerks[k].doing = "idle"
  <2>1. Idle.doing = "idle"
    BY DEF Idle
  <2> QED  BY <2>1, IdleFits DEF Init
<1>7. TypeInv
  BY <1>1, <1>2, <1>3, <1>4, <1>5, <1>6 DEF TypeInv
<1>8. \A d \in Documents, b \in Books : RowFits(d, b)
  BY <1>3, <1>4 DEF RowFits
<1>9. \A k \in Clerks : ClerkFits(k)
  BY <1>6 DEF ClerkFits
<1>10. ASSUME NEW b \in Books
       PROVE  ShelfFits(b) /\ LastFits(b)
  <2>1. missing[b] = 0 /\ OnHand(b) \in Nat /\ last[b] = None
    BY <1>2
  <2>2. missing[b] <= OnHand(b)
    BY <2>1
  <2> QED  BY <2>1, <2>2 DEF ShelfFits, LastFits
<1> QED  BY <1>1, <1>7, <1>8, <1>9, <1>10 DEF WarehouseInv

(* And after every step.                                                   *)
LEMMA WarehouseNext == WarehouseInv /\ [Next]_vars => WarehouseInv'
<1> SUFFICES ASSUME WarehouseInv, [Next]_vars
             PROVE  WarehouseInv'
  OBVIOUS
<1>1. CASE Next
  <2>1. /\ StockTypeOK' /\ LedgerExplainsStock' /\ missing' \in [Books -> Int]
        /\ \A b \in Books : ShelfFits(b)'
    BY <1>1, GoodsNext
  <2>2. PaperFits'
    BY <1>1, PaperNext
  <2>3. /\ clerks' \in [Clerks -> Clerk] /\ \A k \in Clerks : ClerkFits(k)'
        /\ sheets' \in [Sheets -> Sheet]
    BY <1>1, PaperworkClerks, EditClerks DEF Next
  <2>4. cost' \in Quantities /\ \A b \in Books : LastFits(b)'
    BY <1>1, CostNext
  <2>5. TypeInv'
    BY <2>1, <2>2, <2>3, <2>4 DEF TypeInv, PaperFits
  <2> QED  BY <2>1, <2>2, <2>3, <2>4, <2>5 DEF WarehouseInv, PaperFits
<1>2. CASE UNCHANGED vars
  <2>1. UNCHANGED <<stock, reserved, ledger, cost, documents, rows, sheets, clerks, missing, last>>
    BY <1>2 DEF vars, stockVars
  <2>2. TypeInv' /\ LedgerExplainsStock'
    BY <2>1 DEF WarehouseInv, TypeInv, StockTypeOK, LedgerExplainsStock
  <2>3. \A k \in Clerks : ClerkFits(k)'
    BY <2>1 DEF WarehouseInv, ClerkFits
  <2>4. \A d \in Documents, b \in Books : RowFits(d, b)'
    BY <2>1 DEF WarehouseInv, RowFits
  <2>5. ASSUME NEW b \in Books
        PROVE  ShelfFits(b)' /\ LastFits(b)'
    <3>1. ShelfFits(b) /\ LastFits(b) /\ OnHand(b)' = OnHand(b)
      BY <2>1 DEF WarehouseInv, OnHand
    <3>2. LastFits(b)'
      BY <2>1, <3>1 DEF LastFits
    <3> QED  BY <2>1, <3>1, <3>2 DEF ShelfFits
  <2> QED  BY <2>2, <2>3, <2>4, <2>5 DEF WarehouseInv
<1> QED  BY <1>1, <1>2

(* The inductive invariant of the warehouse holds throughout.              *)
THEOREM WarehouseCorrect == Spec => []WarehouseInv
  BY WarehouseInit, WarehouseNext, PTL DEF Spec

(* Counters, costs and quantities never fall below zero, whatever is       *)
(* confirmed, counted, cancelled, sold or lost meanwhile.                  *)
THEOREM WarehouseTyped == Spec => []TypeOK
<1>1. WarehouseInv => TypeOK
  <2> SUFFICES ASSUME WarehouseInv
               PROVE  TypeOK
    OBVIOUS
  <2>1. TypeInv
    BY DEF WarehouseInv
  <2>2. \A d \in Documents : documents[d] \in Document /\ rows[d] \in [Books -> Row]
    BY <2>1 DEF TypeInv
  <2>3. \A c \in Sheets : sheets[c] \in Sheet
    BY <2>1 DEF TypeInv
  <2>4. \A k \in Clerks : clerks[k] \in Clerk
    BY <2>1 DEF TypeInv
  <2>5. \A d \in Documents : /\ documents[d].status \in {"none", "DRAFT", "CONFIRMED", "CANCELLED"}
                             /\ documents[d].items \in [Books -> Line]
                             /\ rows[d] \in [Books -> [in : Nat, out : Nat, unitCost : Nat]]
    BY <2>2 DEF Document, Row
  <2>6. \A c \in Sheets : /\ sheets[c].status \in {"none", "COUNTING", "COMPLETED", "CANCELLED"}
                          /\ sheets[c].baseline \in [Books -> Nat]
                          /\ sheets[c].counted \in [Books -> Nat \union {None}]
                          /\ sheets[c].lost \in [Books -> Int]
    BY <2>3 DEF Sheet, Quantities
  <2>7. \A k \in Clerks : /\ clerks[k].doc \in Documents \union Sheets \union {None}
                          /\ clerks[k].fresh \in BOOLEAN
    BY <2>4 DEF Clerk
  <2> QED  BY <2>1, <2>5, <2>6, <2>7 DEF TypeOK, TypeInv, Quantities
<1> QED  BY <1>1, WarehouseCorrect, PTL

(* The ledger explains the counters through every document and stocktake.  *)
THEOREM WarehouseLedger == Spec => []LedgerExplainsStock
<1>1. WarehouseInv => LedgerExplainsStock
  BY DEF WarehouseInv
<1> QED  BY <1>1, WarehouseCorrect, PTL

(* A document moves the stock once, by what it says now (confirmReceipt,   *)
(* cancelReceipt, confirmIssue and cancelIssue against the edits that race *)
(* them).                                                                  *)
THEOREM DocumentsMoveOnce == Spec => []DocumentMovesOnce
<1>1. WarehouseInv => DocumentMovesOnce
  <2> SUFFICES ASSUME WarehouseInv, NEW d \in Documents, NEW b \in Books
               PROVE  rows[d][b].in - rows[d][b].out
                        = IF documents[d].status = "CONFIRMED"
                          THEN (IF d \in Receipts THEN 1 ELSE -1) * documents[d].items[b].quantity
                          ELSE 0
    BY DEF DocumentMovesOnce
  <2>1. /\ documents[d] \in Document /\ rows[d][b] \in Row /\ RowFits(d, b)
    BY DEF WarehouseInv, TypeInv
  <2>2. /\ documents[d].status \in {"none", "DRAFT", "CONFIRMED", "CANCELLED"}
        /\ documents[d].items[b].quantity \in Nat
        /\ rows[d][b].in \in Nat /\ rows[d][b].out \in Nat
    BY <2>1 DEF Document, Row, Line
  <2>3. CASE documents[d].status # "CONFIRMED"
    BY <2>1, <2>2, <2>3 DEF RowFits
  <2>4. CASE documents[d].status = "CONFIRMED" /\ d \in Receipts
    BY <2>1, <2>2, <2>4 DEF RowFits
  <2>5. CASE documents[d].status = "CONFIRMED" /\ d \notin Receipts
    BY <2>1, <2>2, <2>5 DEF RowFits
  <2> QED  BY <2>3, <2>4, <2>5
<1> QED  BY <1>1, WarehouseCorrect, PTL

(* What a step may do to a sheet: nothing, start it, or change a sheet     *)
(* that is being counted.                                                  *)
LEMMA SheetSteps ==
    ASSUME WarehouseInv, Next, NEW c \in Sheets
    PROVE  \/ sheets'[c] = sheets[c]
           \/ sheets[c] = NoSheet /\ sheets'[c].status = "COUNTING"
           \/ completeCount(c)
           \/ sheets[c].status = "COUNTING" /\ sheets'[c].status \in {"COUNTING", "CANCELLED"}
<1>0. sheets \in [Sheets -> Sheet] /\ \A k \in Clerks : ClerkFits(k)
  BY DEF WarehouseInv, TypeInv
<1>1. ASSUME NEW d \in Documents,
             \/ \E items \in Items(d) : createDocument(d, items)
             \/ voidDraft(d) \/ confirmReceipt(d) \/ cancelReceipt(d)
             \/ confirmIssue(d) \/ cancelIssue(d)
      PROVE  sheets' = sheets
  BY <1>1, Zenon DEF createDocument, voidDraft, confirmReceipt, cancelReceipt, confirmIssue,
     cancelIssue
<1>2. ASSUME (\E b \in Books, delta \in {-1, 1} : adjust(b, delta)) \/ Trade
      PROVE  sheets' = sheets
  BY <1>2 DEF adjust, Trade, placeOrder, cancelOrder, dispatch, receiveReturn, lose
<1>3. ASSUME NEW e \in Sheets, createCount(e)
      PROVE  \/ sheets'[c] = sheets[c]
             \/ sheets[c] = NoSheet /\ sheets'[c].status = "COUNTING"
  BY <1>0, <1>3 DEF createCount, NoSheet
<1>4. ASSUME NEW e \in Sheets, completeCount(e)
      PROVE  sheets'[c] = sheets[c] \/ completeCount(c)
  <2>1. sheets' = [sheets EXCEPT ![e] = Ended("COMPLETED")]
    BY <1>4 DEF completeCount
  <2> QED  BY <1>0, <1>4, <2>1
<1>5. ASSUME NEW k \in Clerks, Edit(k)
      PROVE  \/ sheets'[c] = sheets[c]
             \/ sheets[c].status = "COUNTING" /\ sheets'[c].status \in {"COUNTING", "CANCELLED"}
  <2>1. CASE saveCountedQuantities(k) \/ refreshBaseline(k) \/ cancelCount(k)
    <3>1. /\ clerks[k].doc \in Sheets /\ sheets[clerks[k].doc].status = "COUNTING"
      BY <1>0, <2>1 DEF saveCountedQuantities, refreshBaseline, cancelCount, VersionHolds,
         ClerkFits
    <3>2. CASE c # clerks[k].doc
      <4>1. \E sheet : sheets' = [sheets EXCEPT ![clerks[k].doc] = sheet]
        BY <2>1, Zenon DEF saveCountedQuantities, refreshBaseline, cancelCount
      <4> QED  BY <1>0, <3>1, <3>2, <4>1
    <3>3. CASE c = clerks[k].doc
      <4>1. CASE saveCountedQuantities(k)
        BY <1>0, <3>1, <3>3, <4>1 DEF saveCountedQuantities, Sheet
      <4>2. CASE refreshBaseline(k)
        BY <1>0, <3>1, <3>3, <4>2 DEF refreshBaseline, Sheet
      <4>3. CASE cancelCount(k)
        BY <1>0, <3>1, <3>3, <4>3, SheetTypes DEF cancelCount
      <4> QED  BY <2>1, <4>1, <4>2, <4>3
    <3> QED  BY <3>2, <3>3
  <2>2. CASE ~(saveCountedQuantities(k) \/ refreshBaseline(k) \/ cancelCount(k))
    BY <1>5, <2>2 DEF Edit, openDraft, saveDraft, countShelf, readBaseline, openForCancel,
       openSheet, saveRefused
  <2> QED  BY <2>1, <2>2
<1> QED
  BY <1>1, <1>2, <1>3, <1>4, <1>5 DEF Next, Paperwork, Documents

(* A stocktake that ended stays as it is: a figure that was being typed    *)
(* in, or a baseline being refreshed, does not revive it (the version      *)
(* check of saveCountedQuantities and refreshBaseline).                    *)
THEOREM EndedSheetsStay ==
    Spec => [][\A c \in Sheets : sheets[c].status \in {"COMPLETED", "CANCELLED"}
                                     => sheets'[c] = sheets[c]]_vars
<1>1. WarehouseInv /\ [Next]_vars =>
        [\A c \in Sheets : sheets[c].status \in {"COMPLETED", "CANCELLED"}
                               => sheets'[c] = sheets[c]]_vars
  <2>1. ASSUME WarehouseInv, Next, NEW c \in Sheets, sheets[c].status \in {"COMPLETED", "CANCELLED"}
        PROVE  sheets'[c] = sheets[c]
    <3>1. NoSheet.status = "none"
      BY DEF NoSheet
    <3>2. ~completeCount(c) /\ sheets[c] # NoSheet /\ sheets[c].status # "COUNTING"
      BY <2>1, <3>1 DEF completeCount
    <3> QED  BY <2>1, <3>2, SheetSteps
  <2> QED  BY <2>1
<1> QED  BY <1>1, WarehouseCorrect, PTL DEF Spec

(* A completed stocktake leaves the books short of the shelf by what went  *)
(* missing since the clerk looked, for every line that was counted while   *)
(* the books stood at the sheet's figure (completeCount, setStockTo).      *)
THEOREM CountsAreTrue == Spec => CountIsTrue
<1>1. ASSUME WarehouseInv, Next, NEW c \in Sheets, Completes(c), NEW b \in Counted(c),
             sheets[c].counted[b] + sheets[c].lost[b] = sheets[c].baseline[b]
      PROVE  missing'[b] = missing[b] - sheets[c].lost[b]
  <2>1. completeCount(c)
    BY <1>1, SheetSteps DEF Completes, NoSheet
  <2>2. b \in Books /\ sheets[c] \in Sheet /\ sheets[c].counted[b] # None
    BY <1>1 DEF Counted, WarehouseInv, TypeInv
  <2>3. /\ sheets[c].counted[b] \in Nat /\ sheets[c].lost[b] \in Int
        /\ stock[b] \in Nat /\ reserved[b] \in Nat /\ missing[b] \in Int
    BY <1>1, <2>2 DEF Sheet, WarehouseInv, TypeInv, StockTypeOK
  <2>4. OnHand(b) = sheets[c].baseline[b]
    BY <1>1, <2>1 DEF completeCount, StillAsFrozen
  <2>5. missing'[b] = missing[b] + (targetStock(c, b) - stock[b])
    BY <1>1, <2>1, <2>2 DEF completeCount
  <2> QED  BY <1>1, <2>3, <2>4, <2>5 DEF targetStock, OnHand
<1>2. WarehouseInv /\ [Next]_vars =>
        [\A c \in Sheets : Completes(c) =>
           \A b \in Counted(c) :
              sheets[c].counted[b] + sheets[c].lost[b] = sheets[c].baseline[b] =>
                  missing'[b] = missing[b] - sheets[c].lost[b]]_vars
  BY <1>1
<1> QED  BY <1>2, WarehouseCorrect, PTL DEF Spec, CountIsTrue

(* The step that cancels a confirmed receipt.                              *)
LEMMA CancelSteps ==
    ASSUME WarehouseInv, Next, NEW r \in Receipts,
           documents[r].status = "CONFIRMED", documents'[r].status = "CANCELLED"
    PROVE  cancelReceipt(r)
<1>0. /\ documents \in [Documents -> Document] /\ r \in Documents
      /\ \A k \in Clerks : ClerkFits(k)
  BY DEF WarehouseInv, TypeInv, Documents
<1>1. ASSUME NEW d, d # r, \E document : documents' = [documents EXCEPT ![d] = document]
      PROVE  FALSE
  BY <1>0, <1>1
<1>2. ASSUME NEW d \in Documents,
             (\E items \in Items(d) : createDocument(d, items)) \/ voidDraft(d)
      PROVE  FALSE
  <2>1. documents[d].status # "CONFIRMED"
    BY <1>2 DEF createDocument, voidDraft
  <2>2. \E document : documents' = [documents EXCEPT ![d] = document]
    BY <1>2, Zenon DEF createDocument, voidDraft
  <2> QED  BY <1>1, <2>1, <2>2
<1>3. ASSUME NEW d \in Receipts, confirmReceipt(d)
      PROVE  FALSE
  <2>1. documents[d].status # "CONFIRMED" /\ \E document : documents' = [documents EXCEPT ![d] = document]
    BY <1>3, Zenon DEF confirmReceipt
  <2> QED  BY <1>1, <2>1
<1>4. ASSUME NEW d \in Receipts, cancelReceipt(d)
      PROVE  cancelReceipt(r)
  <2>1. \E document : documents' = [documents EXCEPT ![d] = document]
    BY <1>4, Zenon DEF cancelReceipt
  <2> QED  BY <1>1, <1>4, <2>1
<1>5. ASSUME NEW i \in Issues, confirmIssue(i) \/ cancelIssue(i)
      PROVE  FALSE
  <2>1. i # r /\ \E document : documents' = [documents EXCEPT ![i] = document]
    BY <1>5, WarehouseAssumption, Zenon DEF confirmIssue, cancelIssue
  <2> QED  BY <1>1, <2>1
<1>6. ASSUME \/ \E b \in Books, delta \in {-1, 1} : adjust(b, delta)
             \/ \E c \in Sheets : createCount(c) \/ completeCount(c)
             \/ Trade
      PROVE  FALSE
  <2>1. documents' = documents
    BY <1>6 DEF adjust, createCount, completeCount, Trade, placeOrder, cancelOrder, dispatch,
       receiveReturn, lose
  <2> QED  BY <2>1
<1>7. ASSUME NEW k \in Clerks, Edit(k)
      PROVE  FALSE
  <2>1. CASE documents' = documents
    BY <2>1
  <2>2. ASSUME NEW d \in Documents, NEW items \in Items(d), saveDraft(k, items)
        PROVE  FALSE
    <3>1. /\ documents[clerks[k].doc].status = "DRAFT"
          /\ \E document : documents' = [documents EXCEPT ![clerks[k].doc] = document]
      <4>1. documents[clerks[k].doc].status = "DRAFT"
        BY <1>0, <2>2 DEF saveDraft, VersionHolds, ClerkFits
      <4>2. \E document : documents' = [documents EXCEPT ![clerks[k].doc] = document]
        BY <2>2, Zenon DEF saveDraft
      <4> QED  BY <4>1, <4>2
    <3> QED  BY <1>1, <3>1
  <2> QED
    BY <1>7, <2>1, <2>2 DEF Edit, openDraft, countShelf, readBaseline, openForCancel, openSheet,
       saveCountedQuantities, refreshBaseline, cancelCount, saveRefused
<1> QED
  BY <1>2, <1>3, <1>4, <1>5, <1>6, <1>7 DEF Next, Paperwork

(* Cancelling the receipt that moved a book last gives its average cost    *)
(* back, but for what the two roundings lose (movingAverageCost and        *)
(* reverseMovingAverageCost).                                              *)
THEOREM ReversalsRestoreCost == Spec => ReversalRestoresCost
<1>1. ASSUME WarehouseInv, Next, NEW r \in Receipts, NEW b \in Books,
             documents[r].status = "CONFIRMED", documents'[r].status = "CANCELLED",
             last[b] # None, last[b].receipt = r,
             2 * last[b].units * last[b].cost > OnHand(b)
      PROVE  /\ 2 * last[b].units * (cost'[b] - last[b].cost) <= OnHand(b) + last[b].units
             /\ 2 * last[b].units * (last[b].cost - cost'[b]) <= OnHand(b) + last[b].units
  <2>1. cancelReceipt(r)
    BY <1>1, CancelSteps
  <2>2. /\ last[b].units \in Nat /\ last[b].cost \in Nat /\ rows[r][b].in > 0
        /\ OnHand(b) = last[b].units + rows[r][b].in
        /\ cost[b] = movingAverageCost(last[b].units, last[b].cost, rows[r][b].in,
                                       rows[r][b].unitCost)
    BY <1>1 DEF WarehouseInv, LastFits
  <2>3. rows[r][b].in \in Nat /\ rows[r][b].unitCost \in Nat
    BY <1>1 DEF WarehouseInv, TypeInv, Row, Documents
  <2>4. cost'[b] = reverseMovingAverageCost(OnHand(b), cost[b], rows[r][b].in, rows[r][b].unitCost)
    BY <2>1, <2>2, <2>3 DEF cancelReceipt, reverseAtCost
  <2> QED  BY <1>1, <2>2, <2>3, <2>4, AverageUndone
<1>2. WarehouseInv /\ [Next]_vars =>
        [\A r \in Receipts, b \in Books :
           LET receipt == last[b]
               total == OnHand(b)
           IN  /\ documents[r].status = "CONFIRMED" /\ documents'[r].status = "CANCELLED"
               /\ receipt # None
               /\ receipt.receipt = r
               /\ 2 * receipt.units * receipt.cost > total
               => /\ 2 * receipt.units * (cost'[b] - receipt.cost) <= total + receipt.units
                  /\ 2 * receipt.units * (receipt.cost - cost'[b]) <= total + receipt.units]_vars
  BY <1>1, Zenon
<1> QED  BY <1>2, WarehouseCorrect, PTL DEF Spec, ReversalRestoresCost

=============================================================================
