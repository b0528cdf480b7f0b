--------------------------- MODULE InventoryLists --------------------------
(***************************************************************************)
(* The two pages of the back office that only read the inventory:          *)
(* components/inventory/ProductsPage and OrdersPage, one list each, over   *)
(* getProducts and getOrders of lib/inventory.                             *)
(***************************************************************************)
EXTENDS Naturals, FiniteSets

CONSTANTS MaxStock,     \* most stock of the one product on record
          MaxOrders,    \* most orders on record
          MaxRequests   \* bound: times the list is read

VARIABLES
    page,               \* "products" or "orders"
    sent,               \* bound
    stored,             \* what the API holds: the product's stock, or the number of orders
    known, items,       \* a list is held, and its rows
    error,
    reads               \* reads of the effect under way

vars == <<page, sent, stored, known, items, error, reads>>

Read == [active |-> TRUE, served |-> FALSE, answer |-> {}]

\* stockLevel: the thresholds of the badge, 10 units standing for MaxStock here.
StockLevel(stock) ==
    CASE stock = 0 -> "Out of stock"
      [] stock \in 1 .. MaxStock - 1 -> "Low stock"
      [] OTHER -> "Healthy stock"

\* What the JSX shows: one row per product with its badge and its two order links.
ProductsShown ==
    [count |-> IF known THEN "products" ELSE IF error THEN "unavailable" ELSE "loading",
     retry |-> error, empty |-> known /\ items = {},
     rows |-> {[level |-> StockLevel(stock), orders |-> {"inbound", "outbound"}] :
                  stock \in items}]
OrdersShown ==
    [count |-> IF known THEN "orders" ELSE IF error THEN "unavailable" ELSE "loading",
     retry |-> error, empty |-> known /\ items = {},
     rows |-> items]
Shown == IF page = "products" THEN ProductsShown.count ELSE OrdersShown.count
RetryShown == IF page = "products" THEN ProductsShown.retry ELSE OrdersShown.retry

Init ==
    /\ page \in {"products", "orders"} /\ sent = 1
    /\ stored \in IF page = "products" THEN {{}} \cup {{s} : s \in 0 .. MaxStock}
                  ELSE {1 .. n : n \in 0 .. MaxOrders}
    /\ known = FALSE /\ items = {} /\ error = FALSE /\ reads = {Read}

\* retry: the attempt number is the effect's dependency.
Retry ==
    /\ RetryShown /\ sent < MaxRequests
    /\ error' = FALSE /\ known' = FALSE /\ items' = {} /\ sent' = sent + 1
    /\ reads' = {[r EXCEPT !.active = FALSE] : r \in reads} \cup {Read}
    /\ UNCHANGED <<page, stored>>

ApiLists(r) ==
    /\ ~r.served
    /\ reads' = (reads \ {r}) \cup {[r EXCEPT !.served = TRUE, !.answer = stored]}
    /\ UNCHANGED <<page, sent, stored, known, items, error>>

HearList(r) ==
    /\ r.served
    /\ reads' = reads \ {r}
    /\ items' = (IF r.active THEN r.answer ELSE items) /\ known' = (r.active \/ known)
    /\ UNCHANGED <<page, sent, stored, error>>

ListFails(r) ==
    /\ reads' = reads \ {r}
    /\ error' = (r.active \/ error)
    /\ UNCHANGED <<page, sent, stored, known, items>>

\* Elsewhere: stock moves, orders are registered.
Elsewhere ==
    /\ stored # {}
    /\ IF page = "products" THEN \E s \in 0 .. MaxStock : stored' = {s}
       ELSE stored' = 1 .. Cardinality(stored) + 1 /\ Cardinality(stored) < MaxOrders
    /\ UNCHANGED <<page, sent, known, items, error, reads>>

Hear == \E r \in reads : ApiLists(r) \/ HearList(r) \/ ListFails(r)
Next == Retry \/ Hear \/ Elsewhere
Spec == Init /\ [][Next]_vars
=============================================================================
