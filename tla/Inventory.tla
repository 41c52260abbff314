----------------------------- MODULE Inventory -----------------------------
(***************************************************************************)
(* The inventory of a branch (apps/api/src/modules/inventory) at work with *)
(* its cash desk: every operation is one SERIALIZABLE transaction that     *)
(* changes stock and, for a sale or its reversal, the desk as well, and    *)
(* that records its response under the client's idempotency key.           *)
(*                                                                         *)
(* The transaction reads a snapshot (Begin, Retry) and commits later; the  *)
(* commit is refused when a row it locks, reads or inserts was written     *)
(* since, and `mutate` starts the whole transaction again.                 *)
(***************************************************************************)
EXTENDS CashDesk

CONSTANTS
    Products,       \* rows of inventory_products
    Prices,         \* sale prices
    Quantities,     \* units of a line or of an adjustment
    Keys,           \* idempotency keys
    Calls,          \* HTTP requests to the inventory that can be in flight
    FirstStock,     \* units of each product before the first modelled operation
    None,           \* no operation under a key, no call in flight
    MaxStock        \* 2147483647 in changeStock

ASSUME InventoryAssumption ==
    /\ Prices \subseteq Nat \ {0}
    /\ Quantities \subseteq Nat \ {0}
    /\ MaxStock \in Nat
    /\ FirstStock \in 0..MaxStock

VARIABLES
    products,       \* price and activity of each product
    stock,          \* table inventory_stock
    moves,          \* table inventory_stock_movements, by product, in order
    sales,          \* table inventory_sales, with the items
    operations,     \* table inventory_operations, by key
    calls           \* the transaction of each call in flight

inventory == <<products, stock, moves, sales, operations, calls>>
shopVars == <<vars, inventory>>

-----------------------------------------------------------------------------
Items == UNION {[P -> Quantities] : P \in SUBSET Products \ {{}}}

Product == [price : Prices, active : BOOLEAN]
Move == [type : {"STOCK", "SALE", "REVERSAL"}, quantity : Int, balanceAfter : 0..MaxStock,
         sale : Nat]
Sale == [movement : Nat, items : Items, total : Amounts, reversal : Nat]

\* What the fingerprint of an operation tells apart.  RESTOCK and ADJUSTMENT
\* differ in the quantities they accept only.
Bodies ==
    [op : {"update"}, user : Users, product : Products, to : Product]
    \cup [op : {"adjust"}, user : Users, product : Products,
          quantity : Quantities \cup {-n : n \in Quantities}]
    \cup [op : {"sell"}, user : Users, method : Methods, items : Items]
    \cup [op : {"reverse"}, user : Users, sale : 1..MaxMovements]

\* None is no row.
ASSUME NoneAssumption ==
    /\ None \notin Sale
    /\ None \notin [body : Bodies, result : Nat]

\* The products whose rows a transaction locks.
Touched(b) ==
    CASE b.op = "sell" -> DOMAIN b.items
      [] b.op = "reverse" -> DOMAIN sales[b.sale].items
      [] OTHER -> {b.product}

\* The snapshot of a transaction, as far as it reads it.  An update does not
\* look at the stock, only a reversal looks at a sale.
Snapshot(k, b) ==
    [used |-> operations[k],
     products |-> Restrict(products, Touched(b)),
     stock |-> Restrict(stock, IF b.op = "update" THEN {} ELSE Touched(b)),
     sale |-> IF b.op = "reverse" THEN sales[b.sale] ELSE None]

-----------------------------------------------------------------------------
InventoryInit ==
    /\ products = [p \in Products |-> [price |-> CHOOSE n \in Prices : TRUE, active |-> TRUE]]
    /\ stock = [p \in Products |-> FirstStock]
    /\ moves = [p \in Products |-> <<>>]
    /\ sales = <<>>
    /\ operations = [k \in Keys |-> None]
    /\ calls = [c \in Calls |-> None]

ShopInit == Init /\ InventoryInit

\* A request arrives and its transaction takes its snapshot.  A reversal finds
\* its sale before that.  A key that was used before is answered at once, and
\* nothing changes.
Begin(c, k, b) ==
    /\ calls[c] = None
    /\ operations[k] = None
    /\ b.op = "reverse" => b.sale \in DOMAIN sales
    /\ calls' = [calls EXCEPT ![c] = [key |-> k, body |-> b, seen |-> Snapshot(k, b)]]
    /\ UNCHANGED <<vars, products, stock, moves, sales, operations>>

\* Another request used the key in the meantime: the stored response, or a
\* refusal when the fingerprint is another.
Answer(c) ==
    /\ calls[c] # None
    /\ calls[c].seen.used # None
    /\ calls' = [calls EXCEPT ![c] = None]
    /\ UNCHANGED <<vars, products, stock, moves, sales, operations>>

\* A serialization failure, a deadlock or a duplicate of the key: the whole
\* transaction again.  PostgreSQL may refuse a transaction at any time; the
\* count of attempts is left out, the last one is a CallFails.
Retry(c) ==
    /\ calls[c] # None
    /\ calls' = [calls EXCEPT ![c].seen = Snapshot(calls[c].key, calls[c].body)]
    /\ UNCHANGED <<vars, products, stock, moves, sales, operations>>

\* A refusal, the last attempt, a crash: no effect.
CallFails(c) ==
    /\ calls[c] # None
    /\ calls' = [calls EXCEPT ![c] = None]
    /\ UNCHANGED <<vars, products, stock, moves, sales, operations>>

\* Mutant: the stock is read and written without a lock or a conflict.
UndisturbedButStock(c) == operations[calls[c].key] = None

\* Mutant: keys are not unique.
UndisturbedButKey(c) ==
    LET seen == calls[c].seen IN
    /\ \A p \in DOMAIN seen.products : products[p] = seen.products[p]
    /\ \A p \in DOMAIN seen.stock : stock[p] = seen.stock[p]

\* No row the transaction locks, writes or inserts was written since its
\* snapshot.
Undisturbed(c) ==
    LET seen == calls[c].seen IN
    /\ operations[calls[c].key] = None
    /\ \A p \in DOMAIN seen.products : products[p] = seen.products[p]
    /\ \A p \in DOMAIN seen.stock : stock[p] = seen.stock[p]
    /\ seen.sale # None => sales[calls[c].body.sale] = seen.sale

\* Effect and response commit together.
Commits(c, op, result) ==
    /\ calls[c] # None
    /\ calls[c].body.op = op
    /\ calls[c].seen.used = None
    /\ Undisturbed(c)
    /\ operations' = [operations EXCEPT ![calls[c].key] =
                         [body |-> calls[c].body, result |-> result]]
    /\ calls' = [calls EXCEPT ![c] = None]

\* changeStock, for every product of an operation: `delta` maps them to units.
ChangeStock(old, delta, type, sale) ==
    /\ \A p \in DOMAIN delta : old[p] + delta[p] \in 0..MaxStock
    /\ stock' = [p \in Products |-> IF p \in DOMAIN delta THEN old[p] + delta[p] ELSE stock[p]]
    /\ moves' = [p \in Products |->
          IF p \in DOMAIN delta
          THEN Append(moves[p], [type |-> type, quantity |-> delta[p],
                                 balanceAfter |-> old[p] + delta[p], sale |-> sale])
          ELSE moves[p]]

UpdateProduct(c) ==
    /\ Commits(c, "update", 0)
    /\ products' = [products EXCEPT ![calls[c].body.product] = calls[c].body.to]
    /\ UNCHANGED <<vars, stock, moves, sales>>

Adjust(c) ==
    LET b == calls[c].body IN
    /\ Commits(c, "adjust", 0)
    /\ ChangeStock(calls[c].seen.stock, [p \in {b.product} |-> b.quantity], "STOCK", 0)
    /\ UNCHANGED <<vars, products, sales>>

\* What a sale amounts to, by the prices of its snapshot.
Total(c) ==
    LET items == calls[c].body.items IN
    MapThenSumSet(LAMBDA p : calls[c].seen.products[p].price * items[p], DOMAIN items)

\* A sale: the seller's own open session, active products, prices frozen at
\* the snapshot, a total the desk can hold (MAX_MONEY), stock for every line.
Sell(c) ==
    LET b == calls[c].body
        seen == calls[c].seen
        total == Total(c)
    IN
    /\ Commits(c, "sell", Len(sales) + 1)
    /\ \A p \in DOMAIN b.items : seen.products[p].active
    /\ total \in Amounts
    /\ \E s \in DOMAIN sessions : sessions[s].user = b.user /\ SellProducts(s, b.method, total)
    /\ sales' = Append(sales, [movement |-> Len(movements) + 1, items |-> b.items,
                               total |-> total, reversal |-> 0])
    /\ ChangeStock(seen.stock, [p \in DOMAIN b.items |-> -b.items[p]], "SALE", Len(sales) + 1)
    /\ UNCHANGED products

\* Its reversal, in the session of the sale while its owner has it open: the
\* units come back and the desk undoes the movement in the same commit.
ReverseSold(c) ==
    LET b == calls[c].body
        sale == calls[c].seen.sale
    IN
    /\ Commits(c, "reverse", b.sale)
    /\ sessions[movements[sale.movement].session].user = b.user
    /\ sale.reversal = 0
    /\ ReverseSale(sale.movement)
    /\ sales' = [sales EXCEPT ![b.sale].reversal = Len(movements) + 1]
    /\ ChangeStock(calls[c].seen.stock, sale.items, "REVERSAL", b.sale)
    /\ UNCHANGED products

-----------------------------------------------------------------------------
ShopNext ==
    \/ DeskStep /\ UNCHANGED inventory
    \/ \E c \in Calls :
          \/ \E k \in Keys, b \in Bodies : Begin(c, k, b)
          \/ Answer(c)
          \/ Retry(c)
          \/ CallFails(c)
          \/ UpdateProduct(c)
          \/ Adjust(c)
          \/ Sell(c)
          \/ ReverseSold(c)

ShopSpec == ShopInit /\ [][ShopNext]_shopVars

-----------------------------------------------------------------------------
(* Properties. *)

ShopTypeOK ==
    /\ products \in [Products -> Product]
    /\ stock \in [Products -> 0..MaxStock]
    /\ moves \in [Products -> Seq(Move)]
    /\ sales \in Seq(Sale)
    /\ \A k \in Keys : operations[k] # None =>
          operations[k].body \in Bodies /\ operations[k].result \in 0..Len(sales)
    /\ \A c \in Calls : calls[c] # None =>
          /\ calls[c].key \in Keys
          /\ calls[c].body \in Bodies

\* Every unit is accounted for: the movements of a product continue each other
\* from the first to the quantity in stock, whichever sales, reversals and
\* adjustments of the product were computed from snapshots at the same time.
StockIsCounted ==
    \A p \in Products :
        /\ \A i \in DOMAIN moves[p] :
              moves[p][i].balanceAfter =
                  (IF i = 1 THEN FirstStock ELSE moves[p][i - 1].balanceAfter) + moves[p][i].quantity
        /\ stock[p] = IF moves[p] = <<>> THEN FirstStock ELSE moves[p][Len(moves[p])].balanceAfter

\* The movements of type `type` that sale n made of product p.
MovesOfSale(n, p, type) ==
    {i \in DOMAIN moves[p] : moves[p][i].sale = n /\ moves[p][i].type = type}

\* Desk and stock agree on every sale: its units left once; they came back,
\* once, exactly when the desk undid the income of the sale, by the movement
\* the sale names.  Neither the desk's own reversals nor two calls for one
\* sale return the money without the units.  And the desk has no income from
\* sales that no sale explains.
SalesMatchTheDesk ==
    /\ \A n \in DOMAIN sales :
          LET sale == sales[n]
              income == movements[sale.movement]
              undone == {i \in DOMAIN movements : movements[i].reversalOf = sale.movement}
          IN
          /\ income.origin = "sale" /\ income.type = "INCOME" /\ income.amount = sale.total
          /\ undone = IF sale.reversal = 0 THEN {} ELSE {sale.reversal}
          /\ \A p \in Products :
                /\ Cardinality(MovesOfSale(n, p, "SALE")) = IF p \in DOMAIN sale.items THEN 1 ELSE 0
                /\ Cardinality(MovesOfSale(n, p, "REVERSAL")) =
                      IF p \in DOMAIN sale.items /\ sale.reversal # 0 THEN 1 ELSE 0
                /\ \A i \in MovesOfSale(n, p, "REVERSAL") : moves[p][i].quantity = sale.items[p]
    /\ \A i \in DOMAIN movements :
          movements[i].origin = "sale" /\ movements[i].reversalOf = 0 =>
              Cardinality({n \in DOMAIN sales : sales[n].movement = i}) = 1

\* A key stands for one effect and an effect for one key: duplicates in
\* flight, retries after a conflict and retries after a lost answer neither
\* sell twice nor lose the record of what they did.
OneEffectPerKey ==
    LET Used(op) == {k \in Keys : operations[k] # None /\ operations[k].body.op = op} IN
    /\ \A n \in DOMAIN sales :
          /\ \E k \in Used("sell") :
                operations[k].result = n /\ operations[k].body.items = sales[n].items
          /\ sales[n].reversal # 0 => \E k \in Used("reverse") : operations[k].result = n
    /\ Cardinality(Used("sell")) = Len(sales)
    /\ Cardinality(Used("reverse")) = Cardinality({n \in DOMAIN sales : sales[n].reversal # 0})
    /\ \A p \in Products :
          Cardinality({k \in Used("adjust") : operations[k].body.product = p})
              = Cardinality(MovesOfSale(0, p, "STOCK"))
=============================================================================
