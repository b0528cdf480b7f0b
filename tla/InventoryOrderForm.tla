------------------------- MODULE InventoryOrderForm ------------------------
(***************************************************************************)
(* components/inventory/InventoryOrderForm of the back office: an inbound  *)
(* or an outbound order of one product, over the requests of lib/inventory.*)
(* The inventory API (module Inventory) is summed up here as the stock of  *)
(* each product: it refuses an outbound order that exceeds it, and other   *)
(* people's orders move it.                                                *)
(*                                                                         *)
(* A quantity is 0 when the field holds no acceptable number.              *)
(***************************************************************************)
EXTENDS FlowTelemetry, FiniteSets

CONSTANTS Products,     \* products on record
          MaxQuantity,  \* MAX_QUANTITY of an order, here also the most stock there is
          MaxRequests,  \* bound: requests the form sends after the list
          MaxElsewhere  \* bound: times the stock moves by other orders

VARIABLES
    sent, elsewhere,    \* bounds
    current,            \* the API's current_stock of each product
    outbound,           \* the direction of the form
    initialProduct,     \* product_id of the address, "" when it has none
    products,           \* the list holds the products
    listError, listReads,
    selectionTouched, productId, quantity,
    fieldErrors, formError, confirmation,
    stockAttempt, stock, stockReads,
    post,               \* the order under way
    flow,
    doubted             \* history: the API refused an order on the stock that is shown

listVars == <<products, listError, listReads, initialProduct>>
stockVars == <<stockAttempt, stock, stockReads>>
messageVars == <<fieldErrors, formError, confirmation>>
world == <<current, elsewhere, outbound>>
vars == <<sent, world, listVars, selectionTouched, productId, quantity, messageVars,
          stockVars, post, flow, doubted>>

NoPost == [status |-> "none", product |-> "", quantity |-> 0]
NoStock == [of |-> "", attempt |-> 0, known |-> FALSE, value |-> 0]
StockRead(product, attempt) ==
    [of |-> product, attempt |-> attempt, active |-> TRUE, served |-> FALSE, value |-> 0]
Sends == sent < MaxRequests /\ sent' = sent + 1

\* Mutant: the stock held counts whatever it was read for.
CurrentStockUnkeyed(held, product, attempt) == held.of # ""

\* The stock held counts only for the product and the attempt it was read for.
CurrentStock(held, product, attempt) == held.of = product /\ held.attempt = attempt

Shown == productId # "" /\ CurrentStock(stock, productId, stockAttempt)
Available == Shown /\ stock.known
ExceedsStock == outbound /\ Available /\ quantity > stock.value

\* What the JSX disables.
IsSubmitting == post # NoPost
SelectEnabled == products /\ ~IsSubmitting
QuantityEnabled == SelectEnabled /\ (outbound => Available)
SubmitEnabled ==
    /\ products /\ ~IsSubmitting /\ ~ExceedsStock
    /\ outbound => Available /\ stock.value > 0
StockRetryShown == outbound /\ Shown /\ ~stock.known

Init ==
    /\ current \in [Products -> 0 .. MaxQuantity] /\ elsewhere = 0 /\ sent = 0
    /\ outbound \in BOOLEAN /\ initialProduct \in Products \cup {"", "unknown"}
    /\ products = FALSE /\ listError = FALSE /\ listReads = {"active"}
    /\ selectionTouched = FALSE /\ productId = "" /\ quantity = 0
    /\ fieldErrors = {} /\ formError = FALSE /\ confirmation = FALSE
    /\ stockAttempt = 0 /\ stock = NoStock /\ stockReads = {}
    /\ post = NoPost /\ flow = NewFlow /\ doubted = FALSE

\* The stock effect: its dependencies changed to this product and attempt.
ReadStock(product, attempt) ==
    LET superseded == {[r EXCEPT !.active = FALSE] : r \in stockReads} IN
    IF outbound /\ product # ""
    THEN Sends /\ stockReads' = superseded \cup {StockRead(product, attempt)}
    ELSE UNCHANGED sent /\ stockReads' = superseded

-----------------------------------------------------------------------------
(* The list of products: one read, retried only after it failed. *)

HearProducts ==
    /\ listReads = {"active"} /\ listReads' = {} /\ products' = TRUE
    /\ IF selectionTouched \/ initialProduct = "" THEN UNCHANGED <<sent, productId, fieldErrors, stockReads>>
       ELSE IF initialProduct \in Products
            THEN /\ productId' = initialProduct /\ ReadStock(initialProduct, stockAttempt)
                 /\ UNCHANGED fieldErrors
            ELSE fieldErrors' = {"product_id"} /\ UNCHANGED <<sent, productId, stockReads>>
    /\ UNCHANGED <<world, listError, initialProduct, selectionTouched, quantity, formError,
                   confirmation, stockAttempt, stock, post, flow, doubted>>

ProductsFail ==
    /\ listReads = {"active"} /\ listReads' = {} /\ listError' = TRUE
    /\ UNCHANGED <<sent, world, products, initialProduct, selectionTouched, productId, quantity,
                   messageVars, stockVars, post, flow, doubted>>

RetryProducts ==
    /\ listError /\ Sends
    /\ products' = FALSE /\ listError' = FALSE /\ listReads' = {"active"}
    /\ UNCHANGED <<world, initialProduct, selectionTouched, productId, quantity, messageVars,
                   stockVars, post, flow, doubted>>

-----------------------------------------------------------------------------
(* The form. *)

SelectProduct(product) ==
    /\ SelectEnabled /\ product # productId
    /\ selectionTouched' = TRUE /\ flow' = FieldEdited(flow)
    /\ productId' = product /\ quantity' = 0 /\ stock' = NoStock
    /\ fieldErrors' = {} /\ formError' = FALSE /\ confirmation' = FALSE
    /\ ReadStock(product, stockAttempt)
    /\ doubted' = FALSE
    /\ UNCHANGED <<world, listVars, stockAttempt, post>>

TypeQuantity(value) ==
    /\ QuantityEnabled /\ value # quantity
    /\ flow' = FieldEdited(flow)
    /\ quantity' = value
    /\ fieldErrors' = fieldErrors \ {"quantity"} /\ formError' = FALSE /\ confirmation' = FALSE
    /\ UNCHANGED <<sent, world, listVars, selectionTouched, productId, stockVars, post, doubted>>

SubmitErrors ==
    {f \in {"product_id", "quantity"} :
        \/ f = "product_id" /\ productId \notin Products
        \/ f = "quantity" /\ quantity \notin 1 .. MaxQuantity
        \/ f = "quantity" /\ outbound /\ ~Available
        \/ f = "quantity" /\ ExceedsStock}

RejectSubmit ==
    /\ SubmitEnabled /\ SubmitErrors # {}
    /\ fieldErrors' = SubmitErrors /\ formError' = FALSE /\ confirmation' = FALSE
    /\ flow' = SubmitFailed(flow)
    /\ UNCHANGED <<sent, world, listVars, selectionTouched, productId, quantity, stockVars, post,
                   doubted>>

\* submit up to its await.
Submit ==
    /\ SubmitEnabled /\ SubmitErrors = {} /\ Sends
    /\ fieldErrors' = {} /\ formError' = FALSE /\ confirmation' = FALSE
    /\ flow' = SubmitAttempted(flow)
    /\ post' = [status |-> "sent", product |-> productId, quantity |-> quantity]
    /\ UNCHANGED <<world, listVars, selectionTouched, productId, quantity, stockVars, doubted>>

\* POST /inventory/products/inbound or /outbound.
ApiOrders ==
    /\ post.status = "sent"
    /\ LET p == post.product IN
       IF outbound /\ current[p] < post.quantity
       THEN post' = [post EXCEPT !.status = "insufficient"] /\ UNCHANGED current
       ELSE /\ post' = [post EXCEPT !.status = "stored"]
            /\ IF outbound THEN current' = [current EXCEPT ![p] = @ - post.quantity]
               ELSE \E s \in 0 .. MaxQuantity :
                       s >= current[p] /\ current' = [current EXCEPT ![p] = s]
    /\ UNCHANGED <<sent, elsewhere, outbound, listVars, selectionTouched, productId, quantity,
                   messageVars, stockVars, flow, doubted>>

HearOrdered ==
    /\ post.status = "stored"
    /\ post' = NoPost
    /\ flow' = Completed(flow)
    /\ selectionTouched' = TRUE /\ productId' = "" /\ quantity' = 0 /\ stock' = NoStock
    /\ fieldErrors' = {} /\ confirmation' = TRUE
    /\ ReadStock("", stockAttempt)
    /\ doubted' = FALSE
    /\ UNCHANGED <<world, listVars, formError, stockAttempt>>

\* The catch branch for a 400: the stock shown was wrong, so it is read again.
HearInsufficient ==
    /\ post.status = "insufficient"
    /\ post' = NoPost
    /\ flow' = SubmitFailed(flow)
    /\ stockAttempt' = stockAttempt + 1
    /\ ReadStock(productId, stockAttempt + 1)
    /\ fieldErrors' = {"quantity"} /\ formError' = FALSE
    /\ doubted' = TRUE
    /\ UNCHANGED <<world, listVars, selectionTouched, productId, quantity, confirmation, stock>>

\* Any other refusal, or an answer that never came.
OrderFails ==
    /\ post # NoPost
    /\ post' = NoPost
    /\ flow' = SubmitFailed(flow)
    /\ fieldErrors' \in {{}, {"product_id"}} /\ formError' = (fieldErrors' = {})
    /\ UNCHANGED <<sent, world, listVars, selectionTouched, productId, quantity, confirmation,
                   stockVars, doubted>>

-----------------------------------------------------------------------------
(* The stock of the product selected. *)

RetryStock ==
    /\ StockRetryShown
    /\ stockAttempt' = stockAttempt + 1
    /\ ReadStock(productId, stockAttempt + 1)
    /\ UNCHANGED <<world, listVars, selectionTouched, productId, quantity, messageVars, stock,
                   post, flow, doubted>>

\* GET /inventory/products/{id}.
ApiReadsStock(r) ==
    /\ ~r.served
    /\ stockReads' = (stockReads \ {r}) \cup {[r EXCEPT !.served = TRUE, !.value = current[r.of]]}
    /\ UNCHANGED <<sent, world, listVars, selectionTouched, productId, quantity, messageVars,
                   stockAttempt, stock, post, flow, doubted>>

HearStock(r) ==
    /\ stockReads' = stockReads \ {r}
    /\ IF r.active
       THEN \E known \in {r.served, FALSE} :
               /\ stock' = [of |-> r.of, attempt |-> r.attempt, known |-> known,
                            value |-> IF known THEN r.value ELSE 0]
               /\ doubted' = (doubted /\ ~known)
       ELSE UNCHANGED <<stock, doubted>>
    /\ UNCHANGED <<sent, world, listVars, selectionTouched, productId, quantity, messageVars,
                   stockAttempt, post, flow>>

\* Other people's orders.
Elsewhere ==
    /\ elsewhere < MaxElsewhere /\ elsewhere' = elsewhere + 1
    /\ \E p \in Products, s \in 0 .. MaxQuantity :
          s # current[p] /\ current' = [current EXCEPT ![p] = s]
    /\ UNCHANGED <<sent, outbound, listVars, selectionTouched, productId, quantity, messageVars,
                   stockVars, post, flow, doubted>>

Hear ==
    \/ HearProducts \/ ProductsFail \/ ApiOrders \/ HearOrdered \/ HearInsufficient \/ OrderFails
    \/ \E r \in stockReads : ApiReadsStock(r) \/ HearStock(r)

Next ==
    \/ RetryProducts \/ RejectSubmit \/ Submit \/ RetryStock
    \/ \E p \in Products \cup {""} : SelectProduct(p)
    \/ \E q \in 0 .. MaxQuantity : TypeQuantity(q)
    \/ Hear \/ Elsewhere

Spec == Init /\ [][Next]_vars

-----------------------------------------------------------------------------
\* Once the API has refused an order for lack of stock, the product cannot be ordered
\* again before its stock was read anew: neither a failed read, nor the figure the order
\* was refused on, opens the form (InventoryOrderForm.tsx:33, 137-140).
RefusalReadsStockAgain == doubted /\ SubmitEnabled => ~outbound
=============================================================================
