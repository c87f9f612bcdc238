----------------------------- MODULE Warehouse -----------------------------
(***************************************************************************)
(* The paperwork of the warehouse: goods receipts and goods issues that    *)
(* are drafted, edited, confirmed and cancelled, stocktake sheets that are *)
(* frozen, counted, refreshed and completed, the manual correction, and    *)
(* the moving-average cost of a book.  Confirming, cancelling and          *)
(* completing are MongoDB transactions and so one step each; an edit reads *)
(* the document, checks its status and saves it later under the version it *)
(* read, so it is two steps with anything in between.                      *)
(*                                                                         *)
(* The goods themselves are part of the model: missing[b] is by how much   *)
(* the shelf falls short of the books, and a clerk who counts a line sees  *)
(* the shelf, not the books.  Orders move the counters as OrderLifecycle   *)
(* describes; here they are the four movements they make, a copy a time.   *)
(***************************************************************************)
EXTENDS Inventory

CONSTANTS Receipts, Issues,   \* StockReceipt and StockIssue documents
          Sheets,             \* StockCount documents
          Clerks,             \* warehouse staff with an edit under way
          ReceiptCopies,      \* copies a receipt's line may name
          IssueCopies,        \* copies an issue's line may name
          UnitCosts,          \* purchase prices a receipt line may name
          Opening,            \* copies of each book on the shelf at first
          OpeningCost,        \* Book.costPrice at first
          MaxOnHand,          \* bound: copies of a book the shop ever owns
          MaxMissing,         \* bound: copies of a book unaccounted for
          None

ASSUME WarehouseAssumption ==
    /\ (ReceiptCopies \union IssueCopies) \subseteq Nat \ {0}
    /\ UnitCosts \subseteq Nat
    /\ Opening \in Nat /\ OpeningCost \in Nat
    /\ MaxOnHand \in Nat /\ MaxMissing \in Nat
    /\ Receipts \cap Issues = {} /\ None \notin Nat

VARIABLES
    cost,      \* Book.costPrice, the moving average
    documents, \* receipts and issues: [status, items]
    rows,      \* StockLedger rows by document and book: [in, out, unitCost]
    sheets,    \* stocktakes: [status, baseline, counted, lost]
    clerks,    \* what each clerk has loaded and not yet saved
    missing,   \* [Books -> Int]: what the books show and the shelf does not hold
    last       \* the receipt that was the last thing to move a book, if it was

documentVars == <<documents, rows>>
vars == <<stockVars, cost, documents, rows, sheets, clerks, missing, last>>

Documents == Receipts \union Issues

----------------------------------------------------------------------------
(* Goods and their cost                                                    *)

(* Book.onHand: every copy the shop owns, promised or not.                 *)
OnHand(b) == stock[b] + reserved[b]

(* What is really there to be counted.                                     *)
Shelf(b) == OnHand(b) - missing[b]

(* Math.round of a quotient of naturals.                                   *)
Rounded(value, units) == (2 * value + units) \div (2 * units)

movingAverageCost(unitsBefore, currentCost, quantityIn, unitCost) ==
    Rounded(unitsBefore * currentCost + quantityIn * unitCost, unitsBefore + quantityIn)

(* Mutation: only the quantity is reversed, the average is left alone.     *)
MutReverseAverage(unitsBefore, currentCost, quantityOut, unitCost) == currentCost

(* The units leave at the price they came in at; the current cost stays    *)
(* when nothing is left, or when no value is left to spread.               *)
reverseMovingAverageCost(unitsBefore, currentCost, quantityOut, unitCost) ==
    LET remainingUnits == unitsBefore - quantityOut
        remainingValue == unitsBefore * currentCost - quantityOut * unitCost
    IN  IF remainingUnits <= 0 \/ remainingValue <= 0 THEN currentCost
        ELSE Rounded(remainingValue, remainingUnits)

(* The copies the average is weighted by.                                  *)
ownedBefore(b) == OnHand(b)

(* A movement that takes part in the average changes the cost of the books *)
(* it has copies of, and of no other.                                      *)
receiveAtCost(copies, unitCost) ==
    cost' = [b \in Books |->
               IF copies[b] = 0 THEN cost[b]
               ELSE movingAverageCost(ownedBefore(b), cost[b], copies[b], unitCost[b])]

reverseAtCost(copies, unitCost) ==
    cost' = [b \in Books |->
               IF copies[b] = 0 THEN cost[b]
               ELSE reverseMovingAverageCost(OnHand(b), cost[b], copies[b], unitCost[b])]

One(b) == [c \in Books |-> IF c = b THEN 1 ELSE 0]

Moved(copies) == {b \in Books : copies[b] > 0}

(* No receipt is the last movement of these books any more.                *)
forgetLast(touched) == last' = [b \in Books |-> IF b \in touched THEN None ELSE last[b]]

----------------------------------------------------------------------------
(* Documents                                                               *)

NoItems == [b \in Books |-> [quantity |-> 0, unitCost |-> 0]]
NoRows == [b \in Books |-> [in |-> 0, out |-> 0, unitCost |-> 0]]

(* normalizeItems: at least one line, one line per book, a whole positive  *)
(* quantity; a receipt's lines carry a price, an issue's get theirs later. *)
Items(d) ==
    LET lines == IF d \in Receipts THEN [quantity : ReceiptCopies, unitCost : UnitCosts]
                 ELSE [quantity : IssueCopies, unitCost : {0}]
    IN  [Books -> lines \union {NoItems[b] : b \in Books}] \ {NoItems}

Copies(items) == [b \in Books |-> items[b].quantity]
Prices(items) == [b \in Books |-> items[b].unitCost]

(* Saving a document raises its __v, and whoever loaded it before has an   *)
(* outdated copy.                                                          *)
outdate(d) ==
    clerks' = [k \in Clerks |-> IF clerks[k].doc = d THEN [clerks[k] EXCEPT !.fresh = FALSE]
                                ELSE clerks[k]]

Idle == [doing |-> "idle", doc |-> None, fresh |-> FALSE, book |-> None, noted |-> None]

(* A clerk's save: it goes through only under the version that was loaded, *)
(* and outdates the copies of the others.                                  *)
finish(k) ==
    clerks' = [j \in Clerks |-> IF j = k THEN Idle
                                ELSE IF clerks[j].doc = clerks[k].doc
                                     THEN [clerks[j] EXCEPT !.fresh = FALSE]
                                     ELSE clerks[j]]

createDocument(d, items) ==
    /\ documents[d].status = "none"
    /\ documents' = [documents EXCEPT ![d] = [status |-> "DRAFT", items |-> items]]
    /\ UNCHANGED <<stockVars, cost, rows, sheets, clerks, missing, last>>

(* updateReceipt and updateIssue, first half: load and check the status.   *)
openDraft(k, d) ==
    /\ clerks[k] = Idle
    /\ documents[d].status = "DRAFT"
    /\ clerks' = [clerks EXCEPT ![k] = [Idle EXCEPT !.doing = "editing", !.doc = d,
                                                    !.fresh = TRUE]]
    /\ UNCHANGED <<stockVars, cost, documents, rows, sheets, missing, last>>

(* optimisticConcurrency: the save's filter names the __v that was loaded. *)
VersionHolds(k) == clerks[k].fresh

saveDraft(k, items) ==
    /\ clerks[k].doing = "editing" /\ VersionHolds(k)
    /\ items \in Items(clerks[k].doc)
    /\ documents' = [documents EXCEPT ![clerks[k].doc].items = items]
    /\ finish(k)
    /\ UNCHANGED <<stockVars, cost, rows, sheets, missing, last>>

(* VersionError: the edit, count or refresh is refused and lost.           *)
saveRefused(k) ==
    /\ clerks[k].doing \notin {"idle", "counted"} /\ ~VersionHolds(k)
    /\ clerks' = [clerks EXCEPT ![k] = Idle]
    /\ UNCHANGED <<stockVars, cost, documents, rows, sheets, missing, last>>

confirmReceipt(r) ==
    LET copies == Copies(documents[r].items)
        prices == Prices(documents[r].items)
    IN  /\ documents[r].status = "DRAFT"
        /\ \A b \in Books : OnHand(b) + copies[b] <= MaxOnHand
        /\ applyMovement("PURCHASE_IN", copies)
        /\ receiveAtCost(copies, prices)
        /\ rows' = [rows EXCEPT ![r] = [b \in Books |->
                      [rows[r][b] EXCEPT !.in = @ + copies[b], !.unitCost = prices[b]]]]
        /\ documents' = [documents EXCEPT ![r].status = "CONFIRMED"]
        /\ last' = [b \in Books |-> IF copies[b] = 0 THEN last[b]
                                    ELSE [receipt |-> r, cost |-> cost[b], units |-> OnHand(b)]]
        /\ outdate(r)
        /\ UNCHANGED <<sheets, missing>>

voidDraft(d) ==
    /\ documents[d].status = "DRAFT"
    /\ documents' = [documents EXCEPT ![d].status = "CANCELLED"]
    /\ outdate(d)
    /\ UNCHANGED <<stockVars, cost, rows, sheets, missing, last>>

(* A confirmed receipt is reversed from the inbound rows it wrote, each at *)
(* the price on the row; without the copies to take back it stays as it is.*)
(* The goods go back to the supplier, so they are there to be sent.        *)
cancelReceipt(r) ==
    LET copies == [b \in Books |-> rows[r][b].in]
    IN  /\ documents[r].status = "CONFIRMED"
        /\ \A b \in Books : copies[b] > 0 => Shelf(b) >= copies[b]
        /\ applyMovement("PURCHASE_REVERSAL", copies)
        /\ reverseAtCost(copies, [b \in Books |-> rows[r][b].unitCost])
        /\ rows' = [rows EXCEPT ![r] = [b \in Books |->
                      [rows[r][b] EXCEPT !.out = @ + copies[b]]]]
        /\ documents' = [documents EXCEPT ![r].status = "CANCELLED"]
        /\ forgetLast(Moved(copies))
        /\ outdate(r)
        /\ UNCHANGED <<sheets, missing>>

(* confirmIssue: the goods leave the shelf, promised copies stay.  What    *)
(* they are valued at (stampCurrentCosts) only fills the document.         *)
confirmIssue(i) ==
    LET copies == Copies(documents[i].items)
    IN  /\ documents[i].status = "DRAFT"
        /\ \A b \in Books : copies[b] > 0 => Shelf(b) >= copies[b]
        /\ applyMovement("DAMAGE_OUT", copies)
        /\ rows' = [rows EXCEPT ![i] = [b \in Books |->
                      [rows[i][b] EXCEPT !.out = @ + copies[b]]]]
        /\ documents' = [documents EXCEPT ![i].status = "CONFIRMED"]
        /\ forgetLast(Moved(copies))
        /\ outdate(i)
        /\ UNCHANGED <<cost, sheets, missing>>

(* Mutation: every row of the document is put back, whatever its sign,     *)
(* and the document is not asked whether it was cancelled before.          *)
MutCancelIssue(i) ==
    LET copies == [b \in Books |-> rows[i][b].out]
    IN  /\ documents[i].status \in {"CONFIRMED", "CANCELLED"}
        /\ \A b \in Books : OnHand(b) + copies[b] <= MaxOnHand
        /\ applyMovement("CANCEL_IN", copies)
        /\ rows' = [rows EXCEPT ![i] = [b \in Books |->
                      [rows[i][b] EXCEPT !.in = @ + copies[b]]]]
        /\ documents' = [documents EXCEPT ![i].status = "CANCELLED"]
        /\ forgetLast(Moved(copies))
        /\ outdate(i)
        /\ UNCHANGED <<cost, sheets, missing>>

(* cancelIssue of a confirmed issue: its outbound rows are put back.       *)
cancelIssue(i) ==
    LET copies == [b \in Books |-> rows[i][b].out]
    IN  /\ documents[i].status = "CONFIRMED"
        /\ \A b \in Books : OnHand(b) + copies[b] <= MaxOnHand
        /\ applyMovement("CANCEL_IN", copies)
        /\ rows' = [rows EXCEPT ![i] = [b \in Books |->
                      [rows[i][b] EXCEPT !.in = @ + copies[b]]]]
        /\ documents' = [documents EXCEPT ![i].status = "CANCELLED"]
        /\ forgetLast(Moved(copies))
        /\ outdate(i)
        /\ UNCHANGED <<cost, sheets, missing>>

(* POST /inventory/adjust: a correction of the books, the shelf is as it   *)
(* was.  An increase is an ADJUSTMENT, a decrease a TRANSFER_OUT.          *)
adjust(b, delta) ==
    /\ OnHand(b) + delta <= MaxOnHand
    /\ missing[b] + delta \in 0..MaxMissing
    /\ IF delta > 0 THEN applyMovement("ADJUSTMENT", One(b))
       ELSE applyMovement("TRANSFER_OUT", One(b))
    /\ missing' = [missing EXCEPT ![b] = @ + delta]
    /\ forgetLast({b})
    /\ UNCHANGED <<cost, documents, rows, sheets, clerks>>

----------------------------------------------------------------------------
(* Stocktakes.  A sheet that ended keeps its figures for the record; here  *)
(* it keeps its status, which is all anything still reads of it.           *)

NoSheet == [status |-> "none",
            baseline |-> [b \in Books |-> 0],
            counted |-> [b \in Books |-> None],
            lost |-> [b \in Books |-> 0]]

Ended(status) == [NoSheet EXCEPT !.status = status]

(* buildSheet and createCount: the figures are frozen here.                *)
createCount(c) ==
    /\ sheets[c] = NoSheet
    /\ sheets' = [sheets EXCEPT ![c] = [NoSheet EXCEPT !.status = "COUNTING",
                                          !.baseline = [b \in Books |-> OnHand(b)]]]
    /\ UNCHANGED <<stockVars, cost, documents, rows, clerks, missing, last>>

(* A clerk walks to the shelf with the sheet and notes a line.  lost is    *)
(* not on paper: it is what the shelf fell short by when it was looked at. *)
countShelf(k, c, b) ==
    /\ clerks[k] = Idle
    /\ sheets[c].status = "COUNTING"
    /\ clerks' = [clerks EXCEPT ![k] = [Idle EXCEPT !.doing = "counted", !.doc = c, !.book = b,
                                          !.noted = [counted |-> Shelf(b), lost |-> missing[b]]]]
    /\ UNCHANGED <<stockVars, cost, documents, rows, sheets, missing, last>>

(* saveCountedQuantities, first half.  A sheet that ended takes no more.   *)
openSheet(k) ==
    /\ clerks[k].doing = "counted"
    /\ clerks' = IF sheets[clerks[k].doc].status = "COUNTING"
                 THEN [clerks EXCEPT ![k].doing = "saving", ![k].fresh = TRUE]
                 ELSE [clerks EXCEPT ![k] = Idle]
    /\ UNCHANGED <<stockVars, cost, documents, rows, sheets, missing, last>>

saveCountedQuantities(k) ==
    LET c == clerks[k].doc
        b == clerks[k].book
    IN  /\ clerks[k].doing = "saving" /\ VersionHolds(k)
        /\ sheets' = [sheets EXCEPT ![c].counted[b] = clerks[k].noted.counted,
                                    ![c].lost[b] = clerks[k].noted.lost,
                                    ![c].status = "COUNTING"]
        /\ finish(k)
        /\ UNCHANGED <<stockVars, cost, documents, rows, missing, last>>

(* refreshBaseline: the sheet and then the books are read, and the sheet   *)
(* is saved later; the figures already counted are kept.                   *)
readBaseline(k, c) ==
    /\ clerks[k] = Idle
    /\ sheets[c].status = "COUNTING"
    /\ clerks' = [clerks EXCEPT ![k] = [Idle EXCEPT !.doing = "refreshing", !.doc = c,
                                          !.fresh = TRUE, !.noted = [b \in Books |-> OnHand(b)]]]
    /\ UNCHANGED <<stockVars, cost, documents, rows, sheets, missing, last>>

refreshBaseline(k) ==
    /\ clerks[k].doing = "refreshing" /\ VersionHolds(k)
    /\ sheets' = [sheets EXCEPT ![clerks[k].doc].baseline = clerks[k].noted,
                                ![clerks[k].doc].status = "COUNTING"]
    /\ finish(k)
    /\ UNCHANGED <<stockVars, cost, documents, rows, missing, last>>

(* cancelCount, in its two halves.                                         *)
openForCancel(k, c) ==
    /\ clerks[k] = Idle
    /\ sheets[c].status = "COUNTING"
    /\ clerks' = [clerks EXCEPT ![k] = [Idle EXCEPT !.doing = "voiding", !.doc = c,
                                                    !.fresh = TRUE]]
    /\ UNCHANGED <<stockVars, cost, documents, rows, sheets, missing, last>>

cancelCount(k) ==
    /\ clerks[k].doing = "voiding" /\ VersionHolds(k)
    /\ sheets' = [sheets EXCEPT ![clerks[k].doc] = Ended("CANCELLED")]
    /\ finish(k)
    /\ UNCHANGED <<stockVars, cost, documents, rows, missing, last>>

Counted(c) == {b \in Books : sheets[c].counted[b] # None}

(* Mutation: the figure is pinned to what the books say now.               *)
MutStillAsFrozen(c, b) == TRUE

(* STOCK_CHANGED otherwise: the books moved since the sheet was frozen.    *)
StillAsFrozen(c, b) == OnHand(b) = sheets[c].baseline[b]

(* Mutation: the copies held for orders are not looked at.                 *)
MutCoversReserved(c, b) == TRUE

(* COUNT_BELOW_RESERVED otherwise: fewer copies found than are promised.   *)
CoversReserved(c, b) == sheets[c].counted[b] >= reserved[b]

targetStock(c, b) == sheets[c].counted[b] - reserved[b]

(* setStockTo for every counted line, in one transaction: a line that      *)
(* already agrees writes nothing, a line that is refused undoes them all.  *)
completeCount(c) ==
    LET difference == [b \in Books |-> IF b \in Counted(c) THEN targetStock(c, b) - stock[b]
                                       ELSE 0]
    IN  /\ sheets[c].status = "COUNTING"
        /\ Counted(c) # {}
        /\ \A b \in Counted(c) : StillAsFrozen(c, b) /\ CoversReserved(c, b)
        /\ stock' = [b \in Books |-> stock[b] + difference[b]]
        /\ ledger' = [b \in Books |-> [sellable |-> ledger[b].sellable + difference[b],
                                       physical |-> ledger[b].physical + difference[b]]]
        /\ missing' = [b \in Books |-> missing[b] + difference[b]]
        /\ sheets' = [sheets EXCEPT ![c] = Ended("COMPLETED")]
        /\ forgetLast({b \in Books : difference[b] # 0})
        /\ outdate(c)
        /\ UNCHANGED <<reserved, cost, documents, rows>>

----------------------------------------------------------------------------
(* What the rest of the shop does to the counters meanwhile                *)

placeOrder(b) ==
    /\ applyMovement("SALE_OUT", One(b))
    /\ UNCHANGED <<cost, documents, rows, sheets, clerks, missing, last>>

cancelOrder(b) ==
    /\ applyMovement("RESERVE_IN", One(b))
    /\ UNCHANGED <<cost, documents, rows, sheets, clerks, missing, last>>

(* The parcel takes a copy off the shelf, if there is one to take.         *)
dispatch(b) ==
    /\ Shelf(b) > 0
    /\ applyMovement("SHIP_OUT", One(b))
    /\ forgetLast({b})
    /\ UNCHANGED <<cost, documents, rows, sheets, clerks, missing>>

receiveReturn(b) ==
    /\ OnHand(b) < MaxOnHand
    /\ applyMovement("RETURN_IN", One(b))
    /\ forgetLast({b})
    /\ UNCHANGED <<cost, documents, rows, sheets, clerks, missing>>

(* A copy goes missing and nobody writes it down.                          *)
lose(b) ==
    /\ missing[b] < MaxMissing /\ Shelf(b) > 0
    /\ missing' = [missing EXCEPT ![b] = @ + 1]
    /\ UNCHANGED <<stockVars, cost, documents, rows, sheets, clerks, last>>

----------------------------------------------------------------------------
Init ==
    /\ stock = [b \in Books |-> Opening]
    /\ reserved = [b \in Books |-> 0]
    /\ ledger = [b \in Books |-> [sellable |-> Opening, physical |-> Opening]]
    /\ cost = [b \in Books |-> OpeningCost]
    /\ documents = [d \in Documents |-> [status |-> "none", items |-> NoItems]]
    /\ rows = [d \in Documents |-> NoRows]
    /\ sheets = [c \in Sheets |-> NoSheet]
    /\ clerks = [k \in Clerks |-> Idle]
    /\ missing = [b \in Books |-> 0]
    /\ last = [b \in Books |-> None]

Paperwork ==
    \/ \E d \in Documents : \/ \E items \in Items(d) : createDocument(d, items)
                            \/ voidDraft(d)
    \/ \E r \in Receipts : confirmReceipt(r) \/ cancelReceipt(r)
    \/ \E i \in Issues : confirmIssue(i) \/ cancelIssue(i)
    \/ \E b \in Books, delta \in {-1, 1} : adjust(b, delta)
    \/ \E c \in Sheets : createCount(c) \/ completeCount(c)

Edit(k) ==
    \/ \E d \in Documents : openDraft(k, d)
    \/ \E d \in Documents : \E items \in Items(d) : saveDraft(k, items)
    \/ \E c \in Sheets : \/ \E b \in Books : countShelf(k, c, b)
                         \/ readBaseline(k, c)
                         \/ openForCancel(k, c)
    \/ openSheet(k) \/ saveCountedQuantities(k) \/ refreshBaseline(k) \/ cancelCount(k)
    \/ saveRefused(k)

Trade == \E b \in Books : \/ placeOrder(b) \/ cancelOrder(b) \/ dispatch(b)
                          \/ receiveReturn(b) \/ lose(b)

Next == Paperwork \/ (\E k \in Clerks : Edit(k)) \/ Trade

Spec == Init /\ [][Next]_vars

----------------------------------------------------------------------------
(* Properties                                                              *)

Line == [quantity : Nat, unitCost : Nat]

(* The shape of the state: among it, that no counter and no cost of        *)
(* models/Book falls below zero, whatever is confirmed, counted or         *)
(* cancelled while copies are promised to orders.                          *)
TypeOK ==
    /\ StockTypeOK
    /\ cost \in [Books -> Nat]
    /\ \A d \in Documents : /\ documents[d].status \in {"none", "DRAFT", "CONFIRMED", "CANCELLED"}
                            /\ documents[d].items \in [Books -> Line]
                            /\ rows[d] \in [Books -> [in : Nat, out : Nat, unitCost : Nat]]
    /\ \A c \in Sheets : /\ sheets[c].status \in {"none", "COUNTING", "COMPLETED", "CANCELLED"}
                         /\ sheets[c].baseline \in [Books -> Nat]
                         /\ sheets[c].counted \in [Books -> Nat \union {None}]
                         /\ sheets[c].lost \in [Books -> Int]
    /\ \A k \in Clerks : /\ clerks[k].doc \in Documents \union Sheets \union {None}
                         /\ clerks[k].fresh \in BOOLEAN
    /\ missing \in [Books -> Int]

(* What a document is on paper is what it did to the stock: the rows of a  *)
(* confirmed receipt or issue add up to its lines as they read now, those  *)
(* of a draft or a cancelled one to nothing (confirmReceipt, cancelReceipt,*)
(* confirmIssue, cancelIssue against the edits that race them).            *)
DocumentMovesOnce ==
    \A d \in Documents, b \in Books :
        LET moved == rows[d][b].in - rows[d][b].out
            sign == IF d \in Receipts THEN 1 ELSE -1
        IN  moved = IF documents[d].status = "CONFIRMED"
                    THEN sign * documents[d].items[b].quantity ELSE 0

Completes(c) == sheets[c].status = "COUNTING" /\ sheets'[c].status = "COMPLETED"

(* A line that was counted while the books stood at the sheet's figure     *)
(* puts the books right: once the sheet is completed they differ from the  *)
(* shelf by what went missing since the clerk looked, whatever was sold,   *)
(* shipped, received or corrected in between.                              *)
CountIsTrue ==
    [][\A c \in Sheets : Completes(c) =>
         \A b \in Counted(c) :
            sheets[c].counted[b] + sheets[c].lost[b] = sheets[c].baseline[b] =>
                missing'[b] = missing[b] - sheets[c].lost[b]]_vars

(* Cancelling a receipt before the book has moved again gives the average  *)
(* cost back, up to what the two roundings lose: half a unit of money per  *)
(* copy owned and half a unit on the result.  Goods that had (almost) no   *)
(* cost to begin with keep the price they were bought at: with no value    *)
(* left to spread, reverseMovingAverageCost leaves the average alone.      *)
ReversalRestoresCost ==
    [][\A r \in Receipts, b \in Books :
         LET receipt == last[b]
             total == OnHand(b)
         IN  /\ documents[r].status = "CONFIRMED" /\ documents'[r].status = "CANCELLED"
             /\ receipt # None
             /\ receipt.receipt = r
             /\ 2 * receipt.units * receipt.cost > total
             => /\ 2 * receipt.units * (cost'[b] - receipt.cost) <= total + receipt.units
                /\ 2 * receipt.units * (receipt.cost - cost'[b]) <= total + receipt.units]_vars
============================================================================
