----------------------------- MODULE Inventory -----------------------------
(***************************************************************************)
(* services/inventory and scripts/seed_inventory.py: products and stock    *)
(* movements over PostgreSQL, one transaction per request, many at once.   *)
(*                                                                         *)
(* A transaction's writes are its draft until it commits.  Each SQL        *)
(* statement is a step and reads what is committed then (READ COMMITTED)   *)
(* and its own draft.  An insert waits for a draft with the same unique    *)
(* key, SELECT FOR UPDATE for the row's lock.                              *)
(***************************************************************************)
EXTENDS Integers

CONSTANTS Requests,     \* requests to the API
          Seeds,        \* executions of the seed script
          NItems,       \* the number of SEED_PRODUCTS
          Keys,         \* pairs of a sku and a warehouse
          ItemKey,      \* ItemKey[i], TargetStock[i], OutboundQuantity[i]: of seed product i
          TargetStock,
          OutboundQuantity,
          Quantities,   \* bound: quantities the requests ask for
          MaxFaults     \* bound: database errors

Items == 1 .. NItems
NoOne == "no_one"

ASSUME InventoryAssumption ==
    /\ Requests \cap Seeds = {} /\ Requests \cap Items = {}
    /\ NoOne \notin Requests \cup Seeds
    /\ NItems \in Nat \ {0}
    /\ ItemKey \in [Items -> Keys]
    /\ TargetStock \in [Items -> Nat] /\ OutboundQuantity \in [Items -> Nat]
    /\ Quantities \subseteq Nat \ {0}
    /\ MaxFaults \in Nat

VARIABLES pc,        \* pc[t]: the next line of transaction t
          at,        \* at[s]: how far seed s is in its three loops
          ask,       \* ask[t]: what t is doing
          seen,      \* seen[t]: the inbound sum t read
          lock,      \* lock[i]: the transaction that holds the row of product i
          draft,     \* draft[t]: what t has written and not committed
          rows,      \* the committed products
          inbound,   \* inbound[i], outbound[i]: committed sums of the movements
          outbound,
          moved,     \* committed movements of the seed, by their fixed identifiers
          faults

vars == <<pc, at, ask, seen, lock, draft, rows, inbound, outbound, moved, faults>>

Txs == Requests \cup Seeds
\* A product is named by what creates it: a request (uuid4) or an item (record_id).
Ids == Requests \cup Items
Directions == {"inbound", "outbound"}
NoKey == "no_key"
Ask == [kind : Directions \cup {"create"}, key : Keys \cup {NoKey}, product : Ids, quantity : Nat]
NoDraft == [rows |-> {}, inbound |-> [i \in Ids |-> 0], outbound |-> [i \in Ids |-> 0],
            moved |-> {}]
Draft == [rows : SUBSET Ids, inbound : [Ids -> Nat], outbound : [Ids -> Nat],
          moved : SUBSET (Items \X Directions)]
InTransaction == {"insert", "lock", "sum", "check", "add", "next", "commit"}
Answers == {"created", "exists", "not_found", "refused", "error"}

KeyOf(i) == IF i \in Items THEN ItemKey[i] ELSE ask[i].key
Visible(t) == rows \cup draft[t].rows

Init == /\ pc = [t \in Txs |-> IF t \in Requests THEN "idle" ELSE "next"]
        /\ at = [s \in Seeds |-> 1]
        /\ ask = [t \in Txs |-> [kind |-> "create", key |-> NoKey, product |-> 1, quantity |-> 0]]
        /\ seen = [t \in Txs |-> 0]
        /\ lock = [i \in Ids |-> NoOne]
        /\ draft = [t \in Txs |-> NoDraft]
        /\ rows = {}
        /\ inbound = [i \in Ids |-> 0]
        /\ outbound = [i \in Ids |-> 0]
        /\ moved = {}
        /\ faults = 0

Goes(t, from, to) == pc[t] = from /\ pc' = [pc EXCEPT ![t] = to]

Fault == faults < MaxFaults /\ faults' = faults + 1

\* Where a request or a seed goes on after a write.
Onward(t) == IF t \in Requests THEN "commit" ELSE "next"
SeedGoesOn(t) == at' = [s \in Seeds |-> IF s = t THEN at[s] + 1 ELSE at[s]]

\* The end of t's transaction: its locks are free again, and its draft and its
\* local variables are gone.
Unlocked(t) == [i \in Ids |-> IF lock[i] = t THEN NoOne ELSE lock[i]]
Close(t) == /\ lock' = Unlocked(t)
            /\ draft' = [draft EXCEPT ![t] = NoDraft]
            /\ seen' = [seen EXCEPT ![t] = 0]
            /\ at' = [s \in Seeds |-> IF s = t THEN 1 ELSE at[s]]
Rollback(t) == Close(t) /\ UNCHANGED <<rows, inbound, outbound, moved>>

-----------------------------------------------------------------------------
(* Requests arrive *)

AskCreate(r) == /\ Goes(r, "idle", "insert")
                /\ \E k \in Keys :
                     ask' = [ask EXCEPT ![r] = [kind |-> "create", key |-> k, product |-> r,
                                                quantity |-> 0]]
                /\ UNCHANGED <<at, seen, lock, draft, rows, inbound, outbound, moved, faults>>

AskOrder(r) == /\ Goes(r, "idle", "lock")
               /\ \E d \in Directions, i \in Ids, q \in Quantities :
                    ask' = [ask EXCEPT ![r] = [kind |-> d, key |-> NoKey, product |-> i,
                                               quantity |-> q]]
               /\ UNCHANGED <<at, seen, lock, draft, rows, inbound, outbound, moved, faults>>

-----------------------------------------------------------------------------
(* create_product, and the insert of _seed_product *)

KeyTaken(k, ids) == \E i \in ids : KeyOf(i) = k

Insert(t) == /\ Goes(t, "insert", Onward(t))
             /\ \A u \in Txs : ~KeyTaken(KeyOf(ask[t].product), Visible(u))
             /\ draft' = [draft EXCEPT ![t].rows = @ \cup {ask[t].product}]
             /\ SeedGoesOn(t)
             /\ UNCHANGED <<ask, seen, lock, rows, inbound, outbound, moved, faults>>

\* IntegrityError: the transaction is over; create_product looks for the owner.
InsertRefused(t) == /\ Goes(t, "insert", IF t \in Requests THEN "look" ELSE "refused")
                    /\ KeyTaken(KeyOf(ask[t].product), rows)
                    /\ Rollback(t)
                    /\ UNCHANGED <<ask, faults>>

Look(r) == /\ Goes(r, "look", IF KeyTaken(ask[r].key, rows) THEN "exists" ELSE "error")
           /\ UNCHANGED <<at, ask, seen, lock, draft, rows, inbound, outbound, moved, faults>>

-----------------------------------------------------------------------------
(* record_order *)

AfterLock(t) == IF ask[t].kind = "outbound" THEN "sum" ELSE "add"

\* Mutant: the product is read without FOR UPDATE.
ReadProduct(t) == /\ Goes(t, "lock", AfterLock(t))
                  /\ ask[t].product \in Visible(t)
                  /\ UNCHANGED <<at, ask, seen, lock, draft, rows, inbound, outbound, moved, faults>>

LockProduct(t) == /\ Goes(t, "lock", AfterLock(t))
                  /\ ask[t].product \in Visible(t)
                  /\ lock[ask[t].product] \in {NoOne, t}
                  /\ lock' = [lock EXCEPT ![ask[t].product] = t]
                  /\ UNCHANGED <<at, ask, seen, draft, rows, inbound, outbound, moved, faults>>

NotFound(t) == /\ Goes(t, "lock", "not_found")
               /\ ask[t].product \notin Visible(t)
               /\ Rollback(t)
               /\ UNCHANGED <<ask, faults>>

\* _current_stock reads the two sums in two statements.
SumInbound(t) ==
    /\ Goes(t, "sum", "check")
    /\ LET i == ask[t].product IN seen' = [seen EXCEPT ![t] = inbound[i] + draft[t].inbound[i]]
    /\ UNCHANGED <<at, ask, lock, draft, rows, inbound, outbound, moved, faults>>

Stock(t) == LET i == ask[t].product IN seen[t] - (outbound[i] + draft[t].outbound[i])

Check(t) == /\ Goes(t, "check", "add")
            /\ ask[t].quantity <= Stock(t)
            /\ UNCHANGED <<at, ask, seen, lock, draft, rows, inbound, outbound, moved, faults>>

\* Mutant: the lock is kept after the refusal.
RefuseLocked(t) == /\ Goes(t, "check", "refused")
                   /\ ask[t].quantity > Stock(t)
                   /\ UNCHANGED <<at, ask, seen, lock, draft, rows, inbound, outbound, moved, faults>>

Refuse(t) == /\ Goes(t, "check", "refused")
             /\ ask[t].quantity > Stock(t)
             /\ Rollback(t)
             /\ UNCHANGED <<ask, faults>>

Added(d, t) == LET a == ask[t] IN
    [d EXCEPT !.inbound[a.product] = IF a.kind = "inbound" THEN @ + a.quantity ELSE @,
              !.outbound[a.product] = IF a.kind = "outbound" THEN @ + a.quantity ELSE @,
              !.moved = IF t \in Seeds THEN @ \cup {<<a.product, a.kind>>} ELSE @]

Add(t) == /\ Goes(t, "add", Onward(t))
          /\ draft' = [draft EXCEPT ![t] = Added(@, t)]
          /\ SeedGoesOn(t)
          /\ UNCHANGED <<ask, seen, lock, rows, inbound, outbound, moved, faults>>

-----------------------------------------------------------------------------
(* The ends of a transaction *)

Write(t) == /\ rows' = rows \cup draft[t].rows
            /\ inbound' = [i \in Ids |-> inbound[i] + draft[t].inbound[i]]
            /\ outbound' = [i \in Ids |-> outbound[i] + draft[t].outbound[i]]
            /\ moved' = moved \cup draft[t].moved
            /\ Close(t)

Commit(t) == /\ Goes(t, "commit", "created")
             /\ Write(t)
             /\ UNCHANGED <<ask, faults>>

\* The answer of the database is lost.
CommitUnacknowledged(t) == /\ Goes(t, "commit", "error")
                           /\ Write(t)
                           /\ Fault
                           /\ UNCHANGED ask

\* A statement fails, or the process dies.
Fail(t) == /\ pc[t] \in InTransaction \cup {"look"}
           /\ pc' = [pc EXCEPT ![t] = "error"]
           /\ Rollback(t)
           /\ Fault
           /\ UNCHANGED ask

-----------------------------------------------------------------------------
(* seed_inventory: products, then inbound, then outbound, in one transaction *)

InLoop(s, n) == pc[s] = "next" /\ at[s] \in n * NItems + 1 .. (n + 1) * NItems
Item(s, n) == at[s] - n * NItems

Owners(s, i) == {p \in Visible(s) : KeyOf(p) = ItemKey[i]}

SeedMissing(s) ==
    /\ InLoop(s, 0) /\ Owners(s, Item(s, 0)) = {}
    /\ pc' = [pc EXCEPT ![s] = "insert"]
    /\ ask' = [ask EXCEPT ![s] = [kind |-> "create", key |-> NoKey, product |-> Item(s, 0),
                                  quantity |-> 0]]
    /\ UNCHANGED <<at, seen, lock, draft, rows, inbound, outbound, moved, faults>>

\* The product is there, and it is the seed's own (one without an owner is claimed) or
\* someone else's.
SeedExisting(s) ==
    /\ InLoop(s, 0)
    /\ \E p \in Owners(s, Item(s, 0)) :
         /\ lock[p] \in {NoOne, s}
         /\ IF p = Item(s, 0)
            THEN /\ lock' = [lock EXCEPT ![p] = s]
                 /\ SeedGoesOn(s)
                 /\ UNCHANGED <<pc, seen, draft, rows, inbound, outbound, moved>>
            ELSE /\ pc' = [pc EXCEPT ![s] = "refused"]
                 /\ Rollback(s)
    /\ UNCHANGED <<ask, faults>>

SeedQuantity(i, d) == IF d = "inbound" THEN TargetStock[i] + OutboundQuantity[i]
                                       ELSE OutboundQuantity[i]

SeedMovement(s) ==
    \E n \in {1, 2} :
      /\ InLoop(s, n)
      /\ LET i == Item(s, n)
             d == IF n = 1 THEN "inbound" ELSE "outbound"
         IN IF SeedQuantity(i, d) = 0 \/ <<i, d>> \in moved \cup draft[s].moved
            THEN SeedGoesOn(s) /\ UNCHANGED <<pc, ask>>
            ELSE /\ pc' = [pc EXCEPT ![s] = "lock"]
                 /\ ask' = [ask EXCEPT ![s] = [kind |-> d, key |-> NoKey, product |-> i,
                                               quantity |-> SeedQuantity(i, d)]]
                 /\ UNCHANGED at
      /\ UNCHANGED <<seen, lock, draft, rows, inbound, outbound, moved, faults>>

\* SeedError: what is stored under the identifiers of the seed differs from what it would
\* store: a product with another name or owner, a movement by another user.  What an
\* earlier execution stored, and by whom, is left open.
SeedDiffers(s) ==
    /\ \/ /\ InLoop(s, 0) /\ Item(s, 0) \in rows
          /\ lock[Item(s, 0)] \in {NoOne, s}
       \/ InLoop(s, 1) /\ <<Item(s, 1), "inbound">> \in moved
       \/ InLoop(s, 2) /\ <<Item(s, 2), "outbound">> \in moved
    /\ pc' = [pc EXCEPT ![s] = "refused"]
    /\ Rollback(s)
    /\ UNCHANGED <<ask, faults>>

\* Mutant: the seed commits after its products.
SeedEndEarly(s) == /\ Goes(s, "next", "commit") /\ at[s] > NItems
                   /\ UNCHANGED <<at, ask, seen, lock, draft, rows, inbound, outbound, moved, faults>>

SeedEnd(s) == /\ Goes(s, "next", "commit") /\ at[s] > 3 * NItems
              /\ UNCHANGED <<at, ask, seen, lock, draft, rows, inbound, outbound, moved, faults>>

-----------------------------------------------------------------------------
Order(t) == LockProduct(t) \/ NotFound(t) \/ SumInbound(t) \/ Check(t) \/ Refuse(t) \/ Add(t)
Create(t) == Insert(t) \/ InsertRefused(t)
Step(t) == \/ Order(t) \/ Create(t) \/ Commit(t)
           \/ t \in Requests /\ Look(t)
           \/ t \in Seeds /\ (SeedMissing(t) \/ SeedExisting(t) \/ SeedMovement(t) \/ SeedEnd(t))
           \/ t \in Seeds /\ SeedDiffers(t)

Over == (\A t \in Txs : pc[t] \in Answers) /\ UNCHANGED vars

Next == \/ \E r \in Requests : AskCreate(r) \/ AskOrder(r)
        \/ \E t \in Txs : Step(t) \/ CommitUnacknowledged(t) \/ Fail(t)
        \/ Over

Spec == Init /\ [][Next]_vars

-----------------------------------------------------------------------------
(* Properties *)

TypeOK == /\ pc \in [Txs -> InTransaction \cup Answers \cup {"idle", "look"}]
          /\ at \in [Seeds -> Nat]
          /\ ask \in [Txs -> Ask]
          /\ seen \in [Txs -> Nat]
          /\ lock \in [Ids -> Txs \cup {NoOne}]
          /\ draft \in [Txs -> Draft]
          /\ rows \subseteq Ids
          /\ inbound \in [Ids -> Nat]
          /\ outbound \in [Ids -> Nat]
          /\ moved \subseteq Items \X Directions
          /\ faults \in 0 .. MaxFaults

\* Stock is never negative, whatever outbound orders compete for it: the balance
\* record_order checks is still the balance when it commits.
NeverOversold == \A i \in Ids : outbound[i] <= inbound[i]

\* A sku names one product of a warehouse, and only products have movements.
OneProductPerKey == /\ \A i, j \in rows : KeyOf(i) = KeyOf(j) => i = j
                    /\ \A i \in Ids \ rows : inbound[i] = 0

\* The seed is all or nothing: no product of it without every other and without
\* every movement, however it meets requests and another seed.
SeedIsWhole ==
    \A i \in Items : i \in rows
        => /\ Items \subseteq rows
           /\ \A j \in Items, d \in Directions : SeedQuantity(j, d) > 0 => <<j, d>> \in moved

\* Where a transaction waits for another: an insert for a draft with its key, FOR
\* UPDATE (of record_order, of the seed's look at a product) for the row's holder.
Taken(p, t) == lock[p] \notin {NoOne, t}
Waits(t) ==
    \/ /\ pc[t] = "insert"
       /\ ~KeyTaken(KeyOf(ask[t].product), rows)
       /\ \E u \in Txs : KeyTaken(KeyOf(ask[t].product), draft[u].rows)
    \/ pc[t] = "lock" /\ ask[t].product \in Visible(t) /\ Taken(ask[t].product, t)
    \/ /\ t \in Seeds /\ InLoop(t, 0)
       /\ LET owners == Owners(t, Item(t, 0))
          IN owners # {} /\ \A p \in owners : Taken(p, t)

Unanswered(t) == pc[t] \in InTransaction \cup {"look"}
GoesOn(t) == Unanswered(t) /\ ~Waits(t)

\* No ring of waiting transactions: the row locks are taken in one order and
\* released on every path, so while a request or a seed is not answered, one of
\* them waits for nobody.
SomeoneGoesOn == (\E t \in Txs : Unanswered(t)) => \E t \in Txs : GoesOn(t)

\* A seed that is past its first product is the only one: it holds that product,
\* as a row of its draft or by its lock, until its transaction ends.
SeedsTakeTurns ==
    \A s, u \in Seeds : (\A v \in {s, u} : pc[v] \in InTransaction /\ at[v] > 1) => s = u

\* To its callers the inventory is a ledger: every request and every seed takes
\* effect at its commit or not at all, and is told what is true there.  A line of
\* a transaction changes nothing the ledger shows.
Ledger == INSTANCE StockLedger WITH
              asked <- [r \in Requests |-> ask[r]],
              state <- [t \in Txs |-> IF Unanswered(t) THEN "asked" ELSE pc[t]]
KeepsLedger == Ledger!Spec
=============================================================================
