---------------------------- MODULE Inventory ----------------------------
(***************************************************************************)
(* The stock counters of a book and the one function that moves them,      *)
(* inventoryService.applyMovement.  Every other part of the system changes *)
(* stock through it (or through setStockTo for a stocktake), inside the    *)
(* transaction of its caller, so both are written here as parts of an      *)
(* action: the modules that EXTEND this one conjoin them with the changes  *)
(* their own document makes.                                               *)
(*                                                                         *)
(* stock[b]     Book.stock, the copies that can still be sold              *)
(* reserved[b]  Book.reserved, the copies promised to an order or a        *)
(*              reshipment and still on the shelf                          *)
(* ledger[b]    the two sums that reconcileStock takes over the rows of    *)
(*              StockLedger: sellable (every row but SHIP_OUT) and         *)
(*              physical (every row but SALE_OUT and RESERVE_IN).          *)
(***************************************************************************)
EXTENDS Integers

CONSTANT Books

VARIABLES stock, reserved, ledger

stockVars == <<stock, reserved, ledger>>

MovementTypes == {"PURCHASE_IN", "SALE_OUT", "SHIP_OUT", "RETURN_IN", "CANCEL_IN",
                  "RESERVE_IN", "ADJUSTMENT", "DAMAGE_OUT", "TRANSFER_OUT",
                  "PURCHASE_REVERSAL"}

INBOUND_TYPES == {"PURCHASE_IN", "RETURN_IN", "CANCEL_IN", "RESERVE_IN", "ADJUSTMENT"}

(* The sign of a movement's effect on Book.stock, on Book.reserved and on  *)
(* the ledger row it writes.                                               *)
StockSign(type) == IF type = "SHIP_OUT" THEN 0 ELSE IF type \in INBOUND_TYPES THEN 1 ELSE -1

ReservedSign(type) == IF type = "SALE_OUT" THEN 1
                      ELSE IF type \in {"RESERVE_IN", "SHIP_OUT"} THEN -1 ELSE 0

LedgerSign(type) == IF type \in INBOUND_TYPES THEN 1 ELSE -1

SellableSign(type) == IF type = "SHIP_OUT" THEN 0 ELSE LedgerSign(type)

(* Mutation: the shelf's sum skips the dispatches, as the sellable one does. *)
MutPhysicalSign(type) ==
    IF type \in {"SALE_OUT", "RESERVE_IN", "SHIP_OUT"} THEN 0 ELSE LedgerSign(type)

PhysicalSign(type) == IF type \in {"SALE_OUT", "RESERVE_IN"} THEN 0 ELSE LedgerSign(type)

(* Mutation: the filter without its condition on stock.                    *)
MutMovementFits(type, copies) ==
    \A b \in Books : ReservedSign(type) = -1 => reserved[b] >= copies[b]

(* The filter of the conditional update: an outbound movement must not     *)
(* drive stock below zero, a release must not drive reserved below zero.   *)
(* Without it the movement throws and the caller's transaction is undone.  *)
MovementFits(type, copies) ==
    \A b \in Books : /\ StockSign(type) = -1 => stock[b] >= copies[b]
                     /\ ReservedSign(type) = -1 => reserved[b] >= copies[b]

(* applyMovement for every line of `copies` (a number of copies per book,  *)
(* zero where the document has no line for it).                            *)
applyMovement(type, copies) ==
    /\ MovementFits(type, copies)
    /\ stock' = [b \in Books |-> stock[b] + StockSign(type) * copies[b]]
    /\ reserved' = [b \in Books |-> reserved[b] + ReservedSign(type) * copies[b]]
    /\ ledger' = [b \in Books |->
                    [sellable |-> ledger[b].sellable + SellableSign(type) * copies[b],
                     physical |-> ledger[b].physical + PhysicalSign(type) * copies[b]]]

(* setStockTo: `counted` copies of b were found on the shelf, `expected`   *)
(* is the figure the sheet was frozen at.  Reserved copies stay reserved;  *)
(* only the sellable remainder moves, and the signed COUNT row records by  *)
(* how much.  The update is refused when anything moved since the sheet.   *)
setStockTo(b, counted, expected) ==
    /\ stock[b] + reserved[b] = expected
    /\ counted >= reserved[b]
    /\ LET difference == counted - reserved[b] - stock[b]
       IN  /\ difference # 0
           /\ stock' = [stock EXCEPT ![b] = @ + difference]
           /\ ledger' = [ledger EXCEPT ![b] = [sellable |-> @.sellable + difference,
                                               physical |-> @.physical + difference]]
    /\ UNCHANGED reserved

StockTypeOK ==
    /\ stock \in [Books -> Nat]
    /\ reserved \in [Books -> Nat]
    /\ ledger \in [Books -> [sellable : Int, physical : Int]]

(* What reconcileStock reports as drift: the rows of the ledger, summed    *)
(* with and without the rows that only shuffle copies between the two      *)
(* counters, explain the sellable figure and the figure on the shelf.      *)
LedgerExplainsStock ==
    \A b \in Books : /\ ledger[b].sellable = stock[b]
                     /\ ledger[b].physical = stock[b] + reserved[b]
==========================================================================
