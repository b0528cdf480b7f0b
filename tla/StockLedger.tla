---------------------------- MODULE StockLedger ----------------------------
(***************************************************************************)
(* What the inventory promises its callers: a request, or an execution of  *)
(* the seed script, takes effect at one instant or not at all, and its     *)
(* answer is true of the products and the stock at that instant.           *)
(***************************************************************************)
EXTENDS Integers

CONSTANTS Requests, Seeds,  \* who calls
          NItems,           \* the products the seed script brings, 1 .. NItems
          Keys, NoKey,      \* pairs of a sku and a warehouse
          ItemKey,          \* of the seed's products: key, stock to leave, quantity sold
          TargetStock,
          OutboundQuantity,
          Quantities        \* bound: quantities of an order

VARIABLES asked,            \* asked[r]: what request r asks for
          state,            \* state[t]: "idle", "asked", or the answer t has got
          rows,             \* the products
          inbound,          \* inbound[i], outbound[i]: what came in and went out
          outbound

vars == <<asked, state, rows, inbound, outbound>>

Items == 1 .. NItems
Ids == Requests \cup Items
Directions == {"inbound", "outbound"}

Key(i) == IF i \in Items THEN ItemKey[i] ELSE asked[i].key
Has(k) == \E i \in rows : Key(i) = k
Stock(i) == inbound[i] - outbound[i]

Init == /\ asked = [r \in Requests |->
                      [kind |-> "create", key |-> NoKey, product |-> 1, quantity |-> 0]]
        /\ state = [t \in Requests \cup Seeds |-> IF t \in Requests THEN "idle" ELSE "asked"]
        /\ rows = {}
        /\ inbound = [i \in Ids |-> 0]
        /\ outbound = [i \in Ids |-> 0]

\* A request creates the product it is named for, or moves stock of a product.
Creation(r) == [kind : {"create"}, key : Keys, product : {r}, quantity : {0}]
Movement == [kind : Directions, key : {NoKey}, product : Ids, quantity : Quantities]

Ask(r) == /\ state[r] = "idle" /\ state' = [state EXCEPT ![r] = "asked"]
          /\ \E a \in Creation(r) \cup Movement : asked' = [asked EXCEPT ![r] = a]
          /\ UNCHANGED <<rows, inbound, outbound>>

Answer(t, a) == state[t] = "asked" /\ state' = [state EXCEPT ![t] = a] /\ UNCHANGED asked

\* What was done is acknowledged, or the acknowledgement is lost.
Done(t) == Answer(t, "created") \/ Answer(t, "error")

Create(r) == /\ Done(r)
             /\ asked[r].kind = "create" /\ ~Has(asked[r].key)
             /\ rows' = rows \cup {r}
             /\ UNCHANGED <<inbound, outbound>>

Move(r) == LET i == asked[r].product
               q == asked[r].quantity
           IN /\ Done(r)
              /\ i \in rows
              /\ \/ /\ asked[r].kind = "inbound"
                    /\ inbound' = [inbound EXCEPT ![i] = @ + q]
                    /\ UNCHANGED outbound
                 \/ /\ asked[r].kind = "outbound" /\ q <= Stock(i)
                    /\ outbound' = [outbound EXCEPT ![i] = @ + q]
                    /\ UNCHANGED inbound
              /\ UNCHANGED rows

\* All the seed's products with their movements, under keys nobody has.
Seed(s) == /\ Done(s)
           /\ rows \cap Items = {}
           /\ \A i \in Items, j \in rows \cup Items : Key(i) = Key(j) => i = j
           /\ rows' = rows \cup Items
           /\ inbound' = [i \in Ids |-> IF i \in Items THEN TargetStock[i] + OutboundQuantity[i]
                                                       ELSE inbound[i]]
           /\ outbound' = [i \in Ids |-> IF i \in Items THEN OutboundQuantity[i] ELSE outbound[i]]

\* A second execution finds everything there.
SeedAgain(s) == Done(s) /\ Items \subseteq rows /\ UNCHANGED <<rows, inbound, outbound>>

Exists(r) == Answer(r, "exists") /\ asked[r].kind = "create" /\ Has(asked[r].key)

NotFound(r) == /\ Answer(r, "not_found")
               /\ asked[r].kind \in Directions /\ asked[r].product \notin rows

RefuseOrder(r) == /\ Answer(r, "refused")
                  /\ asked[r].kind = "outbound" /\ asked[r].product \in rows
                  /\ asked[r].quantity > Stock(asked[r].product)

\* A key of the seed is taken, be it by another item, or by another execution, whose
\* products and movements may differ from its own.
RefuseSeed(s) == /\ Answer(s, "refused")
                 /\ \E i \in Items : \E j \in rows \cup (Items \ {i}) : Key(i) = Key(j)

Fail(t) == Answer(t, "error")

NoEffect == UNCHANGED <<rows, inbound, outbound>>

Next == \/ \E r \in Requests : Ask(r) \/ Create(r) \/ Move(r)
        \/ \E s \in Seeds : Seed(s) \/ SeedAgain(s)
        \/ NoEffect /\ \/ \E r \in Requests : Exists(r) \/ NotFound(r) \/ RefuseOrder(r) \/ Fail(r)
                       \/ \E s \in Seeds : RefuseSeed(s) \/ Fail(s)

Spec == Init /\ [][Next]_vars
=============================================================================
