-------------------------- MODULE InventoryProofs --------------------------
(* Theorems about Inventory, for every value of the constants. *)
EXTENDS Inventory, TLAPS

-----------------------------------------------------------------------------
(* Types *)

OrderLines == {"lock", "sum", "check", "add"}

\* What t is doing fits the line it is at.
AskFits(t) ==
    /\ pc[t] \in OrderLines => ask[t].kind \in Directions /\ (t \in Seeds => ask[t].product \in Items)
    /\ pc[t] \in {"sum", "check"} => ask[t].kind = "outbound"

TypeInv == TypeOK /\ \A t \in Txs : AskFits(t)

LEMMA NoDraftType == NoDraft \in Draft
BY DEF NoDraft, Draft

\* After the end of a transaction the types hold of what the end changes.
LEMMA CloseType ==
    ASSUME NEW t \in Txs, TypeOK, Close(t)
    PROVE  /\ lock' \in [Ids -> Txs \cup {NoOne}]
           /\ draft' \in [Txs -> Draft]
           /\ seen' \in [Txs -> Nat]
           /\ at' \in [Seeds -> Nat]
BY NoDraftType DEF TypeOK, Close, Unlocked

LEMMA FaultType == TypeOK /\ Fault => faults' \in 0 .. MaxFaults
BY InventoryAssumption DEF TypeOK, Fault

LEMMA AddedType ==
    ASSUME NEW d \in Draft, NEW t \in Txs, ask[t] \in Ask,
           t \in Seeds => ask[t].kind \in Directions /\ ask[t].product \in Items
    PROVE  Added(d, t) \in Draft
<1> DEFINE a == ask[t]
<1>1. [d.inbound EXCEPT ![a.product] = IF a.kind = "inbound" THEN @ + a.quantity ELSE @] \in [Ids -> Nat]
  BY DEF Draft, Ask
<1>2. [d.outbound EXCEPT ![a.product] = IF a.kind = "outbound" THEN @ + a.quantity ELSE @] \in [Ids -> Nat]
  BY DEF Draft, Ask
<1>3. (IF t \in Seeds THEN d.moved \cup {<<a.product, a.kind>>} ELSE d.moved) \in SUBSET (Items \X Directions)
  BY DEF Draft
<1> HIDE DEF a
<1> QED BY <1>1, <1>2, <1>3 DEF Draft, Added, a

LEMMA InitTypes == Init => TypeInv
<1> SUFFICES ASSUME Init PROVE TypeInv
  OBVIOUS
<1>1. 1 \in Items
  BY InventoryAssumption DEF Items
<1>2. [kind |-> "create", key |-> NoKey, product |-> 1, quantity |-> 0] \in Ask
  BY <1>1 DEF Ask, Ids
<1>3. TypeOK
  BY <1>2, NoDraftType, InventoryAssumption DEF Init, TypeOK, InTransaction, Answers
<1>4. \A t \in Txs : AskFits(t)
  BY DEF Init, AskFits, OrderLines
<1> QED BY <1>3, <1>4 DEF TypeInv

LEMMA NextTypes == TypeInv /\ [Next]_vars => TypeInv'
<1> SUFFICES ASSUME TypeOK, \A t \in Txs : AskFits(t), [Next]_vars PROVE TypeInv'
  BY DEF TypeInv
<1> USE DEF Goes
<1>1. ASSUME NEW r \in Requests, AskCreate(r) PROVE TypeInv'
  <2>1. PICK k \in Keys : ask' = [ask EXCEPT ![r] = [kind |-> "create", key |-> k, product |-> r, quantity |-> 0]]
    BY <1>1 DEF AskCreate
  <2>2. TypeOK'
    BY <1>1, <2>1 DEF AskCreate, TypeOK, Ask, Txs, Ids, InTransaction
  <2>3. \A t \in Txs : AskFits(t)'
    BY <1>1, <2>1 DEF AskCreate, AskFits, OrderLines, TypeOK, Txs
  <2> QED BY <2>2, <2>3 DEF TypeInv
<1>2. ASSUME NEW r \in Requests, AskOrder(r) PROVE TypeInv'
  <2>1. PICK d \in Directions, i \in Ids, q \in Quantities :
          ask' = [ask EXCEPT ![r] = [kind |-> d, key |-> NoKey, product |-> i, quantity |-> q]]
    BY <1>2 DEF AskOrder
  <2>2. q \in Nat
    BY InventoryAssumption
  <2>3. TypeOK'
    BY <1>2, <2>1, <2>2 DEF AskOrder, TypeOK, Ask, Txs, InTransaction
  <2>4. r \notin Seeds
    BY InventoryAssumption
  <2>5. \A t \in Txs : AskFits(t)'
    BY <1>2, <2>1, <2>4 DEF AskOrder, AskFits, OrderLines, TypeOK, Txs, Directions
  <2> QED BY <2>3, <2>5 DEF TypeInv
<1>3. ASSUME NEW t \in Txs, Insert(t) PROVE TypeInv'
  <2>1. draft' \in [Txs -> Draft]
    <3>1. ask[t].product \in Ids /\ draft[t] \in Draft
      BY DEF TypeOK, Ask
    <3>2. [draft[t] EXCEPT !.rows = @ \cup {ask[t].product}] \in Draft
      BY <3>1 DEF Draft
    <3>3. draft' = [draft EXCEPT ![t] = [draft[t] EXCEPT !.rows = @ \cup {ask[t].product}]]
      BY <1>3 DEF Insert, TypeOK
    <3> QED BY <3>2, <3>3 DEF TypeOK
  <2>2. at' \in [Seeds -> Nat] /\ pc' \in [Txs -> InTransaction \cup Answers \cup {"idle", "look"}]
    BY <1>3 DEF Insert, SeedGoesOn, TypeOK, Onward, InTransaction
  <2>3. TypeOK'
    BY <1>3, <2>1, <2>2 DEF Insert, TypeOK
  <2>4. \A u \in Txs : AskFits(u)'
    BY <1>3 DEF Insert, AskFits, OrderLines, TypeOK, Onward
  <2> QED BY <2>3, <2>4 DEF TypeInv
<1>4. ASSUME NEW t \in Txs, Rollback(t), UNCHANGED ask, faults' \in 0 .. MaxFaults,
             NEW l \in Answers \cup {"look"}, pc' = [pc EXCEPT ![t] = l]
      PROVE  TypeInv'
  <2>1. TypeOK'
    BY <1>4, CloseType DEF Rollback, TypeOK
  <2>2. \A u \in Txs : AskFits(u)'
    BY <1>4 DEF AskFits, OrderLines, TypeOK, Answers
  <2> QED BY <2>1, <2>2 DEF TypeInv
<1>5. ASSUME NEW t \in Txs, InsertRefused(t) PROVE TypeInv'
  BY <1>4, <1>5 DEF InsertRefused, Answers, TypeOK
<1>6. ASSUME NEW r \in Requests, Look(r) PROVE TypeInv'
  BY <1>6 DEF Look, TypeInv, TypeOK, AskFits, OrderLines, Answers
<1>7. ASSUME NEW t \in Txs, LockProduct(t) PROVE TypeInv'
  <2>1. TypeOK'
    BY <1>7 DEF LockProduct, TypeOK, AfterLock, InTransaction
  <2>2. \A u \in Txs : AskFits(u)'
    BY <1>7 DEF LockProduct, AskFits, OrderLines, TypeOK, AfterLock
  <2> QED BY <2>1, <2>2 DEF TypeInv
<1>8. ASSUME NEW t \in Txs, NotFound(t) PROVE TypeInv'
  BY <1>4, <1>8 DEF NotFound, Answers, TypeOK
<1>9. ASSUME NEW t \in Txs, SumInbound(t) PROVE TypeInv'
  <2>1. inbound[ask[t].product] + draft[t].inbound[ask[t].product] \in Nat
    BY DEF TypeOK, Draft, Ask
  <2>2. TypeOK'
    BY <1>9, <2>1 DEF SumInbound, TypeOK, InTransaction
  <2>3. \A u \in Txs : AskFits(u)'
    BY <1>9 DEF SumInbound, AskFits, OrderLines, TypeOK
  <2> QED BY <2>2, <2>3 DEF TypeInv
<1>10. ASSUME NEW t \in Txs, Check(t) PROVE TypeInv'
  BY <1>10 DEF Check, TypeInv, TypeOK, AskFits, OrderLines, InTransaction
<1>11. ASSUME NEW t \in Txs, Refuse(t) PROVE TypeInv'
  BY <1>4, <1>11 DEF Refuse, Answers, TypeOK
<1>12. ASSUME NEW t \in Txs, Add(t) PROVE TypeInv'
  <2>1. Added(draft[t], t) \in Draft
    BY <1>12, AddedType DEF Add, TypeOK, AskFits, OrderLines
  <2>2. TypeOK'
    BY <1>12, <2>1 DEF Add, SeedGoesOn, TypeOK, Onward, InTransaction
  <2>3. \A u \in Txs : AskFits(u)'
    BY <1>12 DEF Add, AskFits, OrderLines, TypeOK, Onward
  <2> QED BY <2>2, <2>3 DEF TypeInv
<1>13. ASSUME NEW t \in Txs, Write(t), UNCHANGED ask, faults' \in 0 .. MaxFaults,
              NEW l \in Answers, pc' = [pc EXCEPT ![t] = l]
       PROVE  TypeInv'
  <2>1. /\ rows' \subseteq Ids /\ moved' \subseteq Items \X Directions
        /\ inbound' \in [Ids -> Nat] /\ outbound' \in [Ids -> Nat]
    BY <1>13 DEF Write, TypeOK, Draft
  <2>2. TypeOK'
    BY <1>13, <2>1, CloseType DEF Write, TypeOK
  <2>3. \A u \in Txs : AskFits(u)'
    BY <1>13 DEF AskFits, OrderLines, TypeOK, Answers
  <2> QED BY <2>2, <2>3 DEF TypeInv
<1>14. ASSUME NEW t \in Txs, Commit(t) \/ CommitUnacknowledged(t) PROVE TypeInv'
  <2>1. faults' \in 0 .. MaxFaults /\ UNCHANGED ask /\ Write(t)
    BY <1>14, FaultType DEF Commit, CommitUnacknowledged, TypeOK
  <2>2. PICK l \in Answers : pc' = [pc EXCEPT ![t] = l]
    BY <1>14 DEF Commit, CommitUnacknowledged, Answers
  <2> QED BY <1>13, <2>1, <2>2
<1>15. ASSUME NEW t \in Txs, Fail(t) PROVE TypeInv'
  BY <1>4, <1>15, FaultType DEF Fail, Answers
<1>16. ASSUME NEW s \in Seeds, SeedMissing(s) PROVE TypeInv'
  <2>1. Item(s, 0) \in Items
    BY <1>16, InventoryAssumption DEF SeedMissing, InLoop, Item, Items, TypeOK
  <2>2. TypeOK'
    BY <1>16, <2>1 DEF SeedMissing, TypeOK, Ask, Ids, InTransaction
  <2>3. \A u \in Txs : AskFits(u)'
    BY <1>16 DEF SeedMissing, AskFits, OrderLines, TypeOK
  <2> QED BY <2>2, <2>3 DEF TypeInv
<1>17. ASSUME NEW s \in Seeds, SeedExisting(s) PROVE TypeInv'
  <2>1. PICK p \in Owners(s, Item(s, 0)) : SeedExisting(s)!2!(p)
    BY <1>17 DEF SeedExisting
  <2>2. p \in Ids /\ s \in Txs
    BY DEF Owners, Visible, TypeOK, Draft, Txs
  <2>3. CASE p = Item(s, 0)
    <3>1. TypeOK'
      BY <1>17, <2>1, <2>2, <2>3 DEF SeedExisting, SeedGoesOn, TypeOK
    <3>2. \A u \in Txs : AskFits(u)'
      BY <1>17, <2>1, <2>3 DEF SeedExisting, AskFits
    <3> QED BY <3>1, <3>2 DEF TypeInv
  <2>4. CASE p # Item(s, 0)
    BY <1>4, <1>17, <2>1, <2>2, <2>4 DEF SeedExisting, Answers, TypeOK
  <2> QED BY <2>3, <2>4
<1>18. ASSUME NEW s \in Seeds, SeedMovement(s) PROVE TypeInv'
  <2>1. PICK n \in {1, 2} : SeedMovement(s)!(n)
    BY <1>18 DEF SeedMovement
  <2> DEFINE i == Item(s, n)
             d == IF n = 1 THEN "inbound" ELSE "outbound"
  <2>2. i \in Items /\ d \in Directions
    BY <2>1, InventoryAssumption DEF InLoop, Item, Items, TypeOK, Directions
  <2>3. SeedQuantity(i, d) \in Nat
    BY <2>2, InventoryAssumption DEF SeedQuantity
  <2>4. CASE SeedGoesOn(s) /\ UNCHANGED <<pc, ask>>
    BY <2>1, <2>4 DEF SeedGoesOn, TypeInv, TypeOK, AskFits
  <2>5. CASE /\ pc' = [pc EXCEPT ![s] = "lock"]
             /\ ask' = [ask EXCEPT ![s] = [kind |-> d, key |-> NoKey, product |-> i,
                                           quantity |-> SeedQuantity(i, d)]]
             /\ UNCHANGED at
    <3> HIDE DEF i, d
    <3>1. TypeOK'
      BY <2>1, <2>2, <2>3, <2>5 DEF TypeOK, Ask, Ids, InTransaction
    <3>2. \A u \in Txs : AskFits(u)'
      BY <2>2, <2>5 DEF AskFits, TypeOK
    <3> QED BY <3>1, <3>2 DEF TypeInv
  <2> QED BY <2>1, <2>4, <2>5
<1>19. ASSUME NEW s \in Seeds, SeedEnd(s) PROVE TypeInv'
  BY <1>19 DEF SeedEnd, TypeInv, TypeOK, AskFits, OrderLines, InTransaction
<1>20. CASE UNCHANGED vars
  BY <1>20 DEF vars, TypeInv, TypeOK, AskFits
<1>21. ASSUME NEW s \in Seeds, SeedDiffers(s) PROVE TypeInv'
  BY <1>4, <1>21 DEF SeedDiffers, Answers, TypeOK, Txs
<1> QED
  BY <1>1, <1>2, <1>3, <1>5, <1>6, <1>7, <1>8, <1>9, <1>10, <1>11, <1>12, <1>14, <1>15,
     <1>16, <1>17, <1>18, <1>19, <1>20, <1>21 DEF Next, Step, Order, Create, Over

\* Every reachable state is well formed.
THEOREM TypesHold == Spec => []TypeOK
<1>1. TypeInv => TypeOK
  BY DEF TypeInv
<1> QED BY InitTypes, NextTypes, <1>1, PTL DEF Spec

-----------------------------------------------------------------------------
(* Stock *)

\* Whoever reads or changes the sums of a product holds its row.
Locked(t) ==
    /\ pc[t] \in {"sum", "check", "add"} => lock[ask[t].product] = t
    /\ \A i \in Ids : draft[t].inbound[i] # 0 \/ draft[t].outbound[i] # 0 => lock[i] = t

\* The balance t would leave, were it to commit now.
Balanced(t) ==
    \A i \in Ids : outbound[i] + draft[t].outbound[i] <= inbound[i] + draft[t].inbound[i]

\* What t read still holds.
Reads(t) == LET i == ask[t].product IN
    /\ pc[t] = "check" => seen[t] = inbound[i] + draft[t].inbound[i]
    /\ pc[t] = "add" /\ ask[t].kind = "outbound"
         => outbound[i] + draft[t].outbound[i] + ask[t].quantity <= inbound[i] + draft[t].inbound[i]

StockParts == NeverOversold /\ \A t \in Txs : Locked(t) /\ Balanced(t) /\ Reads(t)

LEMMA InitStock == Init => StockParts
BY DEF Init, StockParts, NeverOversold, Locked, Balanced, Reads, NoDraft

\* A transaction rolls back: its draft is empty, and nothing of another's changes.
LEMMA RollbackStock ==
    ASSUME TypeInv, StockParts, NEW t \in Txs, Rollback(t), UNCHANGED ask,
           NEW l \in Answers \cup {"look"}, pc' = [pc EXCEPT ![t] = l]
    PROVE  StockParts'
<1> USE DEF TypeInv, TypeOK
<1>1. NeverOversold'
  BY DEF Rollback, StockParts, NeverOversold
<1>2. ASSUME NEW u \in Txs, u # t PROVE Locked(u)' /\ Balanced(u)' /\ Reads(u)'
  <2>1. /\ draft'[u] = draft[u] /\ seen'[u] = seen[u] /\ pc'[u] = pc[u]
        /\ \A i \in Ids : lock[i] = u => lock'[i] = u
    BY <1>2 DEF Rollback, Close, Unlocked
  <2>2. ask[u].product \in Ids
    BY DEF Ask
  <2> QED BY <2>1, <2>2 DEF StockParts, Locked, Balanced, Reads, Rollback
<1>3. Locked(t)' /\ Balanced(t)' /\ Reads(t)'
  <2>1. draft'[t] = NoDraft /\ pc'[t] \notin {"sum", "check", "add"}
    BY DEF Rollback, Close, Answers
  <2>2. \A i \in Ids : inbound'[i] \in Nat /\ outbound'[i] \in Nat
    BY DEF Rollback
  <2>3. \A i \in Ids : NoDraft.inbound[i] = 0 /\ NoDraft.outbound[i] = 0
    BY DEF NoDraft
  <2> QED BY <2>1, <2>2, <2>3, <1>1 DEF Locked, Balanced, Reads, NeverOversold
<1> QED BY <1>1, <1>2, <1>3 DEF StockParts

\* A transaction commits: the sums it changes are of rows only it holds.
LEMMA WriteStock ==
    ASSUME TypeInv, StockParts, NEW t \in Txs, Write(t), UNCHANGED ask,
           NEW l \in Answers, pc' = [pc EXCEPT ![t] = l]
    PROVE  StockParts'
<1> USE DEF TypeInv, TypeOK
<1>1. \A i \in Ids : /\ inbound'[i] = inbound[i] + draft[t].inbound[i]
                     /\ outbound'[i] = outbound[i] + draft[t].outbound[i]
                     /\ inbound'[i] \in Nat /\ outbound'[i] \in Nat
  BY DEF Write, Draft
<1>2. NeverOversold'
  BY <1>1 DEF StockParts, NeverOversold, Balanced
<1>3. ASSUME NEW u \in Txs, u # t PROVE Locked(u)' /\ Balanced(u)' /\ Reads(u)'
  <2>1. /\ draft'[u] = draft[u] /\ seen'[u] = seen[u] /\ pc'[u] = pc[u]
        /\ \A i \in Ids : lock[i] = u => lock'[i] = u
    BY <1>3 DEF Write, Close, Unlocked
  <2>2. \A i \in Ids : lock[i] = u => inbound'[i] = inbound[i] /\ outbound'[i] = outbound[i]
    BY <1>1, <1>3 DEF StockParts, Locked, Draft
  <2>3. ask[u].product \in Ids
    BY DEF Ask
  <2>4. Locked(u)' /\ Reads(u)'
    BY <2>1, <2>2, <2>3 DEF StockParts, Locked, Reads
  <2>5. ASSUME NEW i \in Ids
        PROVE  outbound'[i] + draft'[u].outbound[i] <= inbound'[i] + draft'[u].inbound[i]
    <3>1. CASE lock[i] = u
      BY <2>1, <2>2, <3>1 DEF StockParts, Balanced
    <3>2. CASE lock[i] # u
      <4>1. draft[u].inbound[i] = 0 /\ draft[u].outbound[i] = 0
        BY <3>2 DEF StockParts, Locked
      <4> QED BY <2>1, <4>1, <1>1, <1>2 DEF NeverOversold
    <3> QED BY <3>1, <3>2
  <2> QED BY <2>4, <2>5 DEF Balanced
<1>4. Locked(t)' /\ Balanced(t)' /\ Reads(t)'
  <2>1. draft'[t] = NoDraft /\ pc'[t] \notin {"sum", "check", "add"}
    BY DEF Write, Close, Answers
  <2>2. \A i \in Ids : NoDraft.inbound[i] = 0 /\ NoDraft.outbound[i] = 0
    BY DEF NoDraft
  <2> QED BY <2>1, <2>2, <1>1, <1>2 DEF Locked, Balanced, Reads, NeverOversold
<1> QED BY <1>2, <1>3, <1>4 DEF StockParts

\* A step of t that changes no sum, takes no row from another and ends before a
\* line of record_order.
LEMMA QuietStock ==
    ASSUME TypeInv, StockParts, NEW t \in Txs, UNCHANGED <<inbound, outbound, seen>>,
           \A u \in Txs : /\ draft'[u].inbound = draft[u].inbound
                          /\ draft'[u].outbound = draft[u].outbound,
           \A i \in Ids : lock[i] # NoOne => lock'[i] = lock[i],
           \A u \in Txs : u # t => pc'[u] = pc[u] /\ ask'[u] = ask[u],
           pc'[t] \notin {"sum", "check", "add"}
    PROVE  StockParts'
<1> USE DEF TypeInv, TypeOK
<1>1. NeverOversold' /\ \A u \in Txs : Balanced(u)'
  BY DEF StockParts, NeverOversold, Balanced
<1>2. ASSUME NEW u \in Txs PROVE Locked(u)' /\ Reads(u)'
  <2>1. u # NoOne
    BY InventoryAssumption DEF Txs
  <2>2. \A i \in Ids : lock[i] = u => lock'[i] = u
    BY <2>1
  <2>3. ask[u].product \in Ids
    BY DEF Ask
  <2>4. CASE u = t
    BY <2>2, <2>4 DEF StockParts, Locked, Reads
  <2>5. CASE u # t
    BY <2>2, <2>3, <2>5 DEF StockParts, Locked, Reads
  <2> QED BY <2>4, <2>5
<1> QED BY <1>1, <1>2 DEF StockParts

LEMMA NextStock == TypeInv /\ StockParts /\ [Next]_vars => StockParts'
<1> SUFFICES ASSUME TypeInv, StockParts, [Next]_vars PROVE StockParts'
  OBVIOUS
<1> USE DEF TypeInv, TypeOK, Goes
<1>1. ASSUME NEW t \in Requests, AskCreate(t) \/ AskOrder(t) \/ Look(t) PROVE StockParts'
  BY <1>1, QuietStock DEF AskCreate, AskOrder, Look, Txs
<1>2. ASSUME NEW t \in Txs, Insert(t) PROVE StockParts'
  BY <1>2, QuietStock DEF Insert, Onward
<1>3. ASSUME NEW t \in Txs,
             InsertRefused(t) \/ NotFound(t) \/ Refuse(t) \/ Fail(t) \/ SeedDiffers(t)
      PROVE  StockParts'
  <2>1. PICK l \in Answers \cup {"look"} : pc' = [pc EXCEPT ![t] = l]
    BY <1>3 DEF InsertRefused, NotFound, Refuse, Fail, SeedDiffers, Answers
  <2> QED BY <1>3, <2>1, RollbackStock DEF InsertRefused, NotFound, Refuse, Fail, SeedDiffers
<1>4. ASSUME NEW t \in Txs, Commit(t) \/ CommitUnacknowledged(t) PROVE StockParts'
  <2>1. PICK l \in Answers : pc' = [pc EXCEPT ![t] = l]
    BY <1>4 DEF Commit, CommitUnacknowledged, Answers
  <2> QED BY <1>4, <2>1, WriteStock DEF Commit, CommitUnacknowledged
<1>5. ASSUME NEW t \in Txs, LockProduct(t) PROVE StockParts'
  <2>1. \A u \in Txs : u # NoOne
    BY InventoryAssumption DEF Txs
  <2>2. \A u \in Txs, i \in Ids : lock[i] = u => lock'[i] = u
    BY <1>5, <2>1 DEF LockProduct
  <2>3. ask[t].product \in Ids /\ lock'[ask[t].product] = t
    BY <1>5 DEF LockProduct, Ask
  <2>4. ASSUME NEW u \in Txs PROVE Locked(u)'
    BY <1>5, <2>2, <2>3 DEF LockProduct, StockParts, Locked, Ask
  <2>5. Reads(t)'
    BY <1>5 DEF LockProduct, AfterLock, Reads
  <2>6. ASSUME NEW u \in Txs, u # t PROVE Reads(u)'
    BY <1>5, <2>6 DEF LockProduct, StockParts, Reads
  <2> QED BY <1>5, <2>4, <2>5, <2>6 DEF LockProduct, StockParts, NeverOversold, Balanced
<1>6. ASSUME NEW t \in Txs, SumInbound(t) PROVE StockParts'
  <2>1. \A u \in Txs : Locked(u)' /\ Balanced(u)'
    BY <1>6 DEF SumInbound, StockParts, Locked, Balanced
  <2>2. \A u \in Txs : Reads(u)'
    BY <1>6 DEF SumInbound, StockParts, Reads
  <2> QED BY <1>6, <2>1, <2>2 DEF SumInbound, StockParts, NeverOversold
<1>7. ASSUME NEW t \in Txs, Check(t) PROVE StockParts'
  <2>1. \A u \in Txs : Locked(u)' /\ Balanced(u)'
    BY <1>7 DEF Check, StockParts, Locked, Balanced
  <2> DEFINE i == ask[t].product
  <2>2. i \in Ids /\ ask[t].quantity \in Nat /\ draft[t] \in Draft
    BY DEF Ask
  <2>3. ask[t].quantity <= (inbound[i] + draft[t].inbound[i]) - (outbound[i] + draft[t].outbound[i])
    <3>1. seen[t] = inbound[i] + draft[t].inbound[i]
      BY <1>7 DEF Check, StockParts, Reads
    <3>2. ask[t].quantity <= seen[t] - (outbound[i] + draft[t].outbound[i])
      BY <1>7 DEF Check, Stock
    <3>3. outbound[i] + draft[t].outbound[i] \in Nat
      BY <2>2 DEF Draft
    <3> HIDE DEF i
    <3> QED BY <3>1, <3>2, <3>3
  <2>4. outbound[i] + draft[t].outbound[i] + ask[t].quantity <= inbound[i] + draft[t].inbound[i]
    BY <2>2, <2>3 DEF Draft
  <2>5. Reads(t)'
    BY <1>7, <2>4 DEF Check, Reads
  <2>6. ASSUME NEW u \in Txs, u # t PROVE Reads(u)'
    BY <1>7, <2>6 DEF Check, StockParts, Reads
  <2> QED BY <1>7, <2>1, <2>5, <2>6 DEF Check, StockParts, NeverOversold
<1>8. ASSUME NEW t \in Txs, Add(t) PROVE StockParts'
  <2> DEFINE p == ask[t].product
  <2>1. p \in Ids /\ ask[t].quantity \in Nat /\ draft[t] \in Draft
    BY DEF Ask
  <2>2. draft'[t] = Added(draft[t], t) /\ \A u \in Txs : u # t => draft'[u] = draft[u]
    BY <1>8 DEF Add
  <2>3. \A i \in Ids :
          /\ draft'[t].inbound[i] = draft[t].inbound[i]
               + (IF i = p /\ ask[t].kind = "inbound" THEN ask[t].quantity ELSE 0)
          /\ draft'[t].outbound[i] = draft[t].outbound[i]
               + (IF i = p /\ ask[t].kind = "outbound" THEN ask[t].quantity ELSE 0)
    BY <2>1, <2>2 DEF Added, Draft
  <2>4. ASSUME NEW u \in Txs, u # t PROVE Locked(u)' /\ Balanced(u)' /\ Reads(u)'
    BY <1>8, <2>2, <2>4 DEF Add, StockParts, Locked, Balanced, Reads
  <2>5. Locked(t)' /\ Reads(t)'
    <3>1. lock[p] = t /\ UNCHANGED <<lock, ask>> /\ pc'[t] \in {"commit", "next"}
      BY <1>8 DEF Add, Onward, StockParts, Locked
    <3>2. ASSUME NEW i \in Ids, draft'[t].inbound[i] # 0 \/ draft'[t].outbound[i] # 0
          PROVE  lock[i] = t
      <4>1. CASE i = p
        BY <3>1, <4>1
      <4>2. CASE i # p
        <5>1. draft'[t].inbound[i] = draft[t].inbound[i] /\ draft'[t].outbound[i] = draft[t].outbound[i]
          BY <2>1, <2>3, <4>2 DEF Draft
        <5> QED BY <3>2, <5>1 DEF StockParts, Locked
      <4> QED BY <4>1, <4>2
    <3> QED BY <3>1, <3>2 DEF Locked, Reads
  <2>6. Balanced(t)'
    <3> SUFFICES ASSUME NEW i \in Ids
                 PROVE  outbound[i] + draft'[t].outbound[i] <= inbound[i] + draft'[t].inbound[i]
      BY <1>8 DEF Add, Balanced
    <3>1. outbound[i] + draft[t].outbound[i] <= inbound[i] + draft[t].inbound[i]
      BY DEF StockParts, Balanced
    <3>2. CASE i = p /\ ask[t].kind = "outbound"
      BY <1>8, <2>1, <2>3, <3>2 DEF Add, StockParts, Reads, Draft
    <3>3. CASE ~(i = p /\ ask[t].kind = "outbound")
      BY <2>1, <2>3, <3>1, <3>3 DEF Draft
    <3> QED BY <3>2, <3>3
  <2> QED BY <1>8, <2>4, <2>5, <2>6 DEF Add, StockParts, NeverOversold
<1>9. ASSUME NEW s \in Seeds, SeedMissing(s) \/ SeedMovement(s) \/ SeedEnd(s) PROVE StockParts'
  <2>1. s \in Txs
    BY DEF Txs
  <2>2. CASE SeedMissing(s)
    BY <2>1, <2>2, QuietStock DEF SeedMissing, InLoop
  <2>3. CASE SeedMovement(s)
    BY <2>1, <2>3, QuietStock DEF SeedMovement, InLoop
  <2>4. CASE SeedEnd(s)
    BY <2>1, <2>4, QuietStock DEF SeedEnd
  <2> QED BY <1>9, <2>2, <2>3, <2>4
<1>10. ASSUME NEW s \in Seeds, SeedExisting(s) PROVE StockParts'
  <2>1. PICK p \in Owners(s, Item(s, 0)) : SeedExisting(s)!2!(p)
    BY <1>10 DEF SeedExisting
  <2>2. p \in Ids /\ s \in Txs
    BY DEF Owners, Visible, Draft, Txs
  <2>3. CASE p = Item(s, 0)
    <3>1. \A i \in Ids : lock[i] # NoOne => lock'[i] = lock[i]
      BY <2>1, <2>2, <2>3
    <3> QED BY <1>10, <2>1, <2>2, <2>3, <3>1, QuietStock DEF SeedExisting, InLoop
  <2>4. CASE p # Item(s, 0)
    BY <1>10, <2>1, <2>2, <2>4, RollbackStock DEF SeedExisting, Answers
  <2> QED BY <2>3, <2>4
<1>11. CASE UNCHANGED vars
  BY <1>11 DEF vars, StockParts, NeverOversold, Locked, Balanced, Reads
<1> QED
  BY <1>1, <1>2, <1>3, <1>4, <1>5, <1>6, <1>7, <1>8, <1>9, <1>10, <1>11
  DEF Next, Step, Order, Create, Over

\* Outbound orders never take more than came in, however many requests and seeds
\* compete: the lock of record_order keeps the checked balance true.
THEOREM StockNeverNegative == Spec => []NeverOversold
<1>1. Init => TypeInv /\ StockParts
  BY InitTypes, InitStock
<1>2. TypeInv /\ StockParts /\ [Next]_vars => (TypeInv /\ StockParts)'
  BY NextTypes, NextStock
<1>3. StockParts => NeverOversold
  BY DEF StockParts
<1> QED BY <1>1, <1>2, <1>3, PTL DEF Spec

-----------------------------------------------------------------------------
(* Products *)

Act(t) == Step(t) \/ CommitUnacknowledged(t) \/ Fail(t) \/ (t \in Requests /\ (AskCreate(t) \/ AskOrder(t)))

LEMMA NextIsAct == [Next]_vars => UNCHANGED vars \/ \E t \in Txs : Act(t)
BY DEF Next, Act, Over, Txs

\* What a step of t leaves alone: everything of the others, and what is committed.
LEMMA Frame ==
    ASSUME TypeInv, NEW t \in Txs, Act(t)
    PROVE  /\ \A u \in Txs : u # t => pc'[u] = pc[u] /\ ask'[u] = ask[u] /\ draft'[u] = draft[u]
           /\ \A u \in Seeds : u # t => at'[u] = at[u]
           /\ rows \subseteq rows' /\ moved \subseteq moved'
<1> USE DEF TypeInv, TypeOK, Goes, Close, Rollback, SeedGoesOn
<1>1. CASE Commit(t) \/ CommitUnacknowledged(t)
  BY <1>1 DEF Commit, CommitUnacknowledged, Write
<1>2. CASE Order(t)
  BY <1>2 DEF Order, LockProduct, NotFound, SumInbound, Check, Refuse, Add
<1>3. CASE Create(t) \/ Look(t) \/ Fail(t) \/ AskCreate(t) \/ AskOrder(t)
  BY <1>3 DEF Create, Insert, InsertRefused, Look, Fail, AskCreate, AskOrder
<1>4. CASE t \in Seeds /\ (SeedMissing(t) \/ SeedMovement(t) \/ SeedEnd(t))
  BY <1>4 DEF SeedMissing, SeedMovement, SeedEnd
<1>5. CASE t \in Seeds /\ (SeedExisting(t) \/ SeedDiffers(t))
  BY <1>5 DEF SeedExisting, SeedDiffers
<1> QED BY <1>1, <1>2, <1>3, <1>4, <1>5 DEF Act, Step

\* A request creates the product it is named for, a seed its items.
Creates(t) ==
    /\ pc[t] = "insert" => IF t \in Requests THEN ask[t].product = t ELSE ask[t].product \in Items
    /\ draft[t].rows \subseteq IF t \in Requests THEN {t} ELSE Items
    /\ t \in Requests /\ t \in Visible(t) => pc[t] # "idle"

UniqueKeys == \A t, u \in Txs : \A i \in Visible(t), j \in Visible(u) : KeyOf(i) = KeyOf(j) => i = j

\* Movements are of products that t sees.
Known(t) == /\ pc[t] \in {"sum", "check", "add"} => ask[t].product \in Visible(t)
            /\ \A i \in Ids \ Visible(t) : draft[t].inbound[i] = 0

KeyParts == OneProductPerKey /\ UniqueKeys /\ \A t \in Txs : Creates(t) /\ Known(t)

LEMMA InitKeys == Init => KeyParts
<1> SUFFICES ASSUME Init PROVE KeyParts
  OBVIOUS
<1>1. \A t \in Txs : Visible(t) = {} /\ draft[t].rows = {} /\ pc[t] \in {"idle", "next"}
  BY DEF Init, Visible, NoDraft
<1>2. \A t \in Txs, i \in Ids : draft[t].inbound[i] = 0
  BY DEF Init, NoDraft
<1>3. OneProductPerKey
  BY DEF Init, OneProductPerKey
<1> QED BY <1>1, <1>2, <1>3 DEF KeyParts, UniqueKeys, Creates, Known

\* What becomes visible to a transaction.
LEMMA NewRows ==
    ASSUME TypeInv, NEW t \in Txs, Act(t)
    PROVE  \/ /\ rows' = rows
              /\ draft'[t].rows \in {draft[t].rows, {}}
           \/ /\ rows' = rows \cup draft[t].rows
              /\ draft'[t].rows = {}
           \/ /\ Insert(t)
              /\ rows' = rows
              /\ draft'[t].rows = draft[t].rows \cup {ask[t].product}
<1> USE DEF TypeInv, TypeOK, Close, Rollback, NoDraft, Draft
<1>1. CASE Commit(t) \/ CommitUnacknowledged(t)
  BY <1>1 DEF Commit, CommitUnacknowledged, Write
<1>2. CASE Add(t)
  <2>1. draft'[t].rows = draft[t].rows
    BY <1>2 DEF Add, Added
  <2> QED BY <1>2, <2>1 DEF Add
<1>6. CASE LockProduct(t) \/ SumInbound(t) \/ Check(t)
  BY <1>6 DEF LockProduct, SumInbound, Check
<1>7. CASE NotFound(t) \/ Refuse(t)
  <2>1. Rollback(t)
    BY <1>7 DEF NotFound, Refuse
  <2>2. draft'[t].rows = {} /\ rows' = rows
    BY <2>1
  <2> QED BY <2>2
<1>3. CASE Create(t) \/ Look(t) \/ Fail(t) \/ AskCreate(t) \/ AskOrder(t)
  BY <1>3 DEF Create, Insert, InsertRefused, Look, Fail, AskCreate, AskOrder
<1>4. CASE t \in Seeds /\ (SeedMissing(t) \/ SeedMovement(t) \/ SeedEnd(t))
  BY <1>4 DEF SeedMissing, SeedMovement, SeedEnd
<1>5. CASE t \in Seeds /\ (SeedExisting(t) \/ SeedDiffers(t))
  BY <1>5 DEF SeedExisting, SeedDiffers
<1> QED BY <1>1, <1>2, <1>3, <1>4, <1>5, <1>6, <1>7 DEF Act, Step, Order

\* A product keeps the key it was created with.
LEMMA KeysStay ==
    ASSUME TypeInv, KeyParts, NEW t \in Txs, Act(t), NEW u \in Txs, NEW i \in Visible(u)
    PROVE  KeyOf(i)' = KeyOf(i)
<1> USE DEF TypeInv, TypeOK, Goes
<1>1. CASE i \in Items
  BY <1>1 DEF KeyOf
<1>2. CASE i \notin Items
  <2>1. i \in Requests
    BY <1>2 DEF Visible, Draft, Ids
  <2>2. CASE i # t
    BY <2>1, <2>2, Frame DEF KeyOf, Txs
  <2>3. CASE i = t
    <3>1. t \in Visible(t)
      <4>1. CASE u = t
        BY <4>1, <2>3
      <4>2. CASE u # t
        <5>1. t \notin draft[u].rows
          BY <1>2, <2>3, <4>2 DEF KeyParts, Creates
        <5> QED BY <2>3, <5>1 DEF Visible
      <4> QED BY <4>1, <4>2
    <3>2. pc[t] # "idle" /\ t \notin Seeds
      BY <2>1, <2>3, <3>1, InventoryAssumption DEF KeyParts, Creates
    <3>3. ask' = ask
      BY <3>2 DEF Act, Step, Order, Create, Insert, InsertRefused, Look, LockProduct, NotFound,
         SumInbound, Check, Refuse, Add, Commit, CommitUnacknowledged, Fail, AskCreate, AskOrder
    <3> QED BY <3>3 DEF KeyOf
  <2> QED BY <2>2, <2>3
<1> QED BY <1>1, <1>2

\* The parts of Creates and Known, one action of t at a time.
LEMMA NextCreates ==
    ASSUME TypeInv, KeyParts, NEW t \in Txs, Act(t), NEW u \in Txs
    PROVE  Creates(u)'
<1> USE DEF TypeInv, TypeOK, Goes
<1>1. \A v \in Txs : v # t => draft'[v] = draft[v] /\ pc'[v] = pc[v] /\ ask'[v] = ask[v]
  BY Frame
<1>2. Creates(t) /\ Creates(u)
  BY DEF KeyParts
<1>3. CASE u # t
  <2>1. u \in Requests /\ u \in Visible(u)' => u \in Visible(u)
    <3>1. u \in Requests => u \notin draft[t].rows
      BY <1>2, <1>3, InventoryAssumption DEF Creates
    <3> QED BY <1>1, <1>3, <3>1, NewRows DEF Visible
  <2> QED BY <1>1, <1>2, <1>3, <2>1 DEF Creates
<1>4. CASE u = t
  <2>1. pc'[t] = "insert" => IF t \in Requests THEN ask'[t].product = t ELSE ask'[t].product \in Items
    <3>1. CASE t \in Requests /\ (AskCreate(t) \/ AskOrder(t))
      BY <3>1 DEF AskCreate, AskOrder, Txs
    <3>2. CASE t \in Seeds /\ SeedMissing(t)
      <4>1. Item(t, 0) \in Items /\ t \notin Requests
        BY <3>2, InventoryAssumption DEF SeedMissing, InLoop, Item, Items
      <4> QED BY <3>2, <4>1 DEF SeedMissing
    <3>3. CASE /\ t \in Seeds
               /\ SeedExisting(t) \/ SeedMovement(t) \/ SeedDiffers(t) \/ SeedEnd(t)
      BY <3>3 DEF SeedExisting, SeedMovement, SeedDiffers, SeedEnd, InLoop
    <3>4. CASE Order(t) \/ Create(t) \/ Look(t) \/ Fail(t) \/ Commit(t) \/ CommitUnacknowledged(t)
      BY <3>4 DEF Order, Create, Insert, InsertRefused, Look, LockProduct, NotFound, SumInbound,
         Check, Refuse, Add, Commit, CommitUnacknowledged, Fail, Onward, AfterLock
    <3> QED BY <3>1, <3>2, <3>3, <3>4 DEF Act, Step
  <2>2. draft'[t].rows \subseteq IF t \in Requests THEN {t} ELSE Items
    <3>1. CASE ~Insert(t)
      BY <1>2, <3>1, NewRows DEF Creates
    <3>2. CASE Insert(t)
      BY <1>2, <3>2, NewRows DEF Creates, Insert
    <3> QED BY <3>1, <3>2
  <2>3. t \in Requests /\ t \in Visible(t)' => pc'[t] # "idle"
    <3>1. pc'[t] = "idle" => pc[t] = "idle" /\ UNCHANGED <<rows, draft>>
      <4>1. CASE AskCreate(t) \/ AskOrder(t)
        BY <4>1 DEF AskCreate, AskOrder
      <4>2. CASE /\ t \in Seeds
                 /\ \/ SeedMissing(t) \/ SeedExisting(t) \/ SeedMovement(t) \/ SeedDiffers(t)
                    \/ SeedEnd(t)
        BY <4>2 DEF SeedMissing, SeedExisting, SeedMovement, SeedDiffers, SeedEnd, InLoop
      <4>3. CASE Order(t) \/ Create(t) \/ Look(t) \/ Fail(t) \/ Commit(t) \/ CommitUnacknowledged(t)
        BY <4>3 DEF Order, Create, Insert, InsertRefused, Look, LockProduct, NotFound, SumInbound,
           Check, Refuse, Add, Commit, CommitUnacknowledged, Fail, Onward, AfterLock
      <4> QED BY <4>1, <4>2, <4>3 DEF Act, Step
    <3> QED BY <1>2, <3>1 DEF Creates, Visible
  <2> QED BY <1>4, <2>1, <2>2, <2>3 DEF Creates
<1> QED BY <1>3, <1>4

LEMMA NextKnown ==
    ASSUME TypeInv, KeyParts, NEW t \in Txs, Act(t), NEW u \in Txs
    PROVE  Known(u)'
<1> USE DEF TypeInv, TypeOK, Goes
<1>1. /\ \A v \in Txs : v # t => draft'[v] = draft[v] /\ pc'[v] = pc[v] /\ ask'[v] = ask[v]
      /\ rows \subseteq rows'
  BY Frame
<1>2. Known(t) /\ Known(u)
  BY DEF KeyParts
<1>3. CASE u # t
  BY <1>1, <1>2, <1>3 DEF Known, Visible
<1>4. CASE u = t /\ draft'[t] = NoDraft /\ pc'[t] \notin {"sum", "check", "add"}
  BY <1>4 DEF Known, NoDraft
<1>5. CASE /\ u = t /\ pc'[t] \notin {"sum", "check", "add"}
           /\ draft'[t].inbound = draft[t].inbound /\ draft[t].rows \subseteq draft'[t].rows
  BY <1>1, <1>2, <1>5 DEF Known, Visible
<1>6. CASE Close(t) /\ pc'[t] \notin {"sum", "check", "add"}
  BY <1>3, <1>4, <1>6 DEF Close
<1>7. CASE \/ Commit(t) \/ CommitUnacknowledged(t) \/ InsertRefused(t) \/ NotFound(t) \/ Refuse(t)
           \/ Fail(t) \/ SeedDiffers(t)
  BY <1>6, <1>7 DEF Commit, CommitUnacknowledged, Write, InsertRefused, NotFound, Refuse, Fail,
                    SeedDiffers, Rollback
<1>8. CASE Insert(t) \/ Look(t) \/ AskCreate(t) \/ AskOrder(t)
  BY <1>3, <1>5, <1>8 DEF Insert, Onward, Look, AskCreate, AskOrder, Draft
<1>9. CASE LockProduct(t) \/ SumInbound(t) \/ Check(t)
  BY <1>2, <1>3, <1>9 DEF LockProduct, SumInbound, Check, Known, Visible
<1>10. CASE Add(t)
  <2>1. draft'[t] = Added(draft[t], t) /\ UNCHANGED rows /\ pc'[t] \notin {"sum", "check", "add"}
    BY <1>10 DEF Add, Onward
  <2>2. /\ draft'[t].rows = draft[t].rows
        /\ \A i \in Ids : i # ask[t].product => draft'[t].inbound[i] = draft[t].inbound[i]
    BY <2>1 DEF Added, Draft
  <2>3. ask[t].product \in Visible(t)
    BY <1>2, <1>10 DEF Add, Known
  <2>4. Known(t)'
    BY <1>2, <2>1, <2>2, <2>3 DEF Known, Visible
  <2> QED BY <1>3, <2>4
<1>11. CASE t \in Seeds /\ (SeedMissing(t) \/ SeedMovement(t) \/ SeedEnd(t))
  BY <1>3, <1>5, <1>11 DEF SeedMissing, SeedMovement, SeedEnd, InLoop
<1>12. CASE t \in Seeds /\ SeedExisting(t)
  BY <1>3, <1>5, <1>6, <1>12 DEF SeedExisting, InLoop, Rollback
<1> QED
  BY <1>7, <1>8, <1>9, <1>10, <1>11, <1>12 DEF Act, Step, Order, Create

LEMMA NextKeys == TypeInv /\ KeyParts /\ [Next]_vars => KeyParts'
<1> SUFFICES ASSUME TypeInv, KeyParts, [Next]_vars PROVE KeyParts'
  OBVIOUS
<1>1. CASE UNCHANGED vars
  BY <1>1 DEF vars, KeyParts, OneProductPerKey, UniqueKeys, Creates, Known, Visible, KeyOf
<1>2. ASSUME NEW t \in Txs, Act(t) PROVE KeyParts'
  <2> USE DEF TypeInv, TypeOK, Goes
  <2>1. \A u \in Txs : u # t => draft'[u] = draft[u]
    BY <1>2, Frame
  <2>2. \A u \in Txs : \A i \in Visible(u) : KeyOf(i)' = KeyOf(i)
    BY <1>2, KeysStay
  <2>3. \A i, j \in rows' : KeyOf(i)' = KeyOf(j)' => i = j
    <3>1. rows' \subseteq Visible(t)
      BY <1>2, NewRows DEF Visible
    <3> QED BY <2>2, <3>1 DEF KeyParts, UniqueKeys
  <2>4. UniqueKeys'
    <3>1. CASE ~Insert(t)
      <4>1. rows' \subseteq Visible(t) /\ Visible(t)' \subseteq Visible(t)
        BY <1>2, <3>1, NewRows DEF Visible
      <4>2. \A u \in Txs : \A i \in Visible(u)' : i \in Visible(u) \/ i \in Visible(t)
        BY <2>1, <4>1 DEF Visible
      <4> QED BY <2>2, <4>2 DEF KeyParts, UniqueKeys
    <3>2. CASE Insert(t)
      <4> PICK p \in Ids : p = ask[t].product
        BY DEF Ask
      <4>1. /\ \A u \in Txs : ~KeyTaken(KeyOf(p), Visible(u))
            /\ KeyOf(p)' = KeyOf(p)
        BY <3>2 DEF Insert, KeyOf
      <4>2. \A u \in Txs : \A i \in Visible(u)' : i \in Visible(u) \/ i = p
        BY <2>1, <3>2 DEF Insert, Visible
      <4>3. \A u \in Txs : \A i \in Visible(u) : KeyOf(i)' # KeyOf(p)'
        BY <2>2, <4>1 DEF KeyTaken
      <4>4. \A u, v \in Txs : \A i \in Visible(u), j \in Visible(v) : KeyOf(i)' = KeyOf(j)' => i = j
        BY <2>2 DEF KeyParts, UniqueKeys
      <4> SUFFICES ASSUME NEW u \in Txs, NEW v \in Txs, NEW i \in Visible(u)', NEW j \in Visible(v)',
                          KeyOf(i)' = KeyOf(j)'
                   PROVE  i = j
        BY DEF UniqueKeys
      <4>5. CASE i \in Visible(u) /\ j \in Visible(v)
        BY <4>4, <4>5
      <4>6. CASE i \notin Visible(u)
        BY <4>2, <4>3, <4>6
      <4>7. CASE j \notin Visible(v)
        BY <4>2, <4>3, <4>7
      <4> QED BY <4>5, <4>6, <4>7
    <3> QED BY <3>1, <3>2
  <2>5. \A i \in Ids \ rows' : inbound'[i] = 0
    <3>1. CASE Write(t)
      BY <3>1 DEF Write, KeyParts, OneProductPerKey, Known, Visible
    <3>2. CASE ~Write(t)
      <4>1. inbound' = inbound /\ rows \subseteq rows'
        BY <1>2, <3>2, Frame DEF Act, Step, Order, Create, Insert, InsertRefused, Look, LockProduct,
           NotFound, SumInbound, Check, Refuse, Add, Commit, CommitUnacknowledged, Fail, AskCreate,
           AskOrder, SeedMissing, SeedExisting, SeedMovement, SeedDiffers, SeedEnd, Rollback
      <4> QED BY <4>1 DEF KeyParts, OneProductPerKey
    <3> QED BY <3>1, <3>2
  <2>6. OneProductPerKey'
    BY <2>3, <2>5 DEF OneProductPerKey
  <2> QED BY <1>2, <2>4, <2>6, NextCreates, NextKnown DEF KeyParts
<1> QED BY <1>1, <1>2, NextIsAct

\* A sku names one product of a warehouse, and movements are of products: the
\* unique constraint decides every race of two creations, a seed's included.
THEOREM SkusAreUnique == Spec => []OneProductPerKey
<1>1. Init => TypeInv /\ KeyParts
  BY InitTypes, InitKeys
<1>2. TypeInv /\ KeyParts /\ [Next]_vars => (TypeInv /\ KeyParts)'
  BY NextTypes, NextKeys
<1>3. KeyParts => OneProductPerKey
  BY DEF KeyParts
<1> QED BY <1>1, <1>2, <1>3, PTL DEF Spec

-----------------------------------------------------------------------------
(* The seed *)

Sees(s, m) == m \in moved \cup draft[s].moved

\* What is behind seed s in its three loops is done, and what it is doing is
\* what its place in them says.
Progress(s) ==
    pc[s] \in InTransaction =>
      /\ at[s] > 0
      /\ pc[s] = "insert" => at[s] = ask[s].product
      /\ pc[s] \in OrderLines =>
           at[s] = ask[s].product + (IF ask[s].kind = "inbound" THEN NItems ELSE 2 * NItems)
      /\ pc[s] = "commit" => at[s] > 3 * NItems
      /\ \A i \in Items :
           /\ at[s] > i => i \in Visible(s)
           /\ at[s] > NItems + i /\ SeedQuantity(i, "inbound") > 0 => Sees(s, <<i, "inbound">>)
           /\ at[s] > 2 * NItems + i /\ SeedQuantity(i, "outbound") > 0 => Sees(s, <<i, "outbound">>)

SeedParts == SeedIsWhole /\ \A s \in Seeds : Progress(s)

LEMMA InitSeeds == Init => SeedParts
<1> SUFFICES ASSUME Init PROVE SeedParts
  OBVIOUS
<1>1. SeedIsWhole
  BY DEF Init, SeedIsWhole
<1>2. ASSUME NEW s \in Seeds PROVE Progress(s)
  <2>1. pc[s] = "next" /\ at[s] = 1
    BY InventoryAssumption DEF Init, Txs
  <2> QED BY <2>1, InventoryAssumption DEF Progress, OrderLines, Items
<1> QED BY <1>1, <1>2 DEF SeedParts

\* A step within the transaction: the seed is where it was, or goes on to the
\* next item with this one done.
LEMMA StaysOrGoesOn ==
    ASSUME TypeInv, NEW s \in Seeds, Progress(s), pc[s] \in InTransaction,
           rows \subseteq rows', moved \subseteq moved',
           draft[s].rows \subseteq draft'[s].rows, draft[s].moved \subseteq draft'[s].moved,
           pc'[s] = "insert" => at'[s] = ask'[s].product,
           pc'[s] \in OrderLines =>
             at'[s] = ask'[s].product + (IF ask'[s].kind = "inbound" THEN NItems ELSE 2 * NItems),
           pc'[s] = "commit" => at'[s] > 3 * NItems,
           \/ at'[s] = at[s]
           \/ /\ at'[s] = at[s] + 1
              /\ \A i \in Items :
                   /\ at[s] = i => i \in Visible(s)'
                   /\ at[s] = NItems + i /\ SeedQuantity(i, "inbound") > 0
                        => Sees(s, <<i, "inbound">>)'
                   /\ at[s] = 2 * NItems + i /\ SeedQuantity(i, "outbound") > 0
                        => Sees(s, <<i, "outbound">>)'
    PROVE  Progress(s)'
<1>1. at[s] \in Nat /\ NItems \in Nat /\ Items \subseteq Nat
  BY InventoryAssumption DEF TypeInv, TypeOK, Items
<1>2. at'[s] > 0
  BY <1>1 DEF Progress
<1>3. ASSUME NEW i \in Items PROVE at'[s] > i => i \in Visible(s)'
  <2>1. at[s] > i => i \in Visible(s)'
    BY DEF Progress, Visible
  <2>2. at'[s] > i => at[s] > i \/ (at'[s] = at[s] + 1 /\ at[s] = i)
    BY <1>1
  <2> QED BY <1>1, <2>1, <2>2
<1>4. ASSUME NEW i \in Items, SeedQuantity(i, "inbound") > 0
      PROVE  at'[s] > NItems + i => Sees(s, <<i, "inbound">>)'
  <2>1. at[s] > NItems + i => Sees(s, <<i, "inbound">>)'
    BY <1>4 DEF Progress, Sees
  <2>2. at'[s] > NItems + i => at[s] > NItems + i \/ (at'[s] = at[s] + 1 /\ at[s] = NItems + i)
    BY <1>1
  <2> QED BY <1>1, <1>4, <2>1, <2>2
<1>5. ASSUME NEW i \in Items, SeedQuantity(i, "outbound") > 0
      PROVE  at'[s] > 2 * NItems + i => Sees(s, <<i, "outbound">>)'
  <2>1. at[s] > 2 * NItems + i => Sees(s, <<i, "outbound">>)'
    BY <1>5 DEF Progress, Sees
  <2>2. at'[s] > 2 * NItems + i
          => at[s] > 2 * NItems + i \/ (at'[s] = at[s] + 1 /\ at[s] = 2 * NItems + i)
    BY <1>1
  <2> QED BY <1>1, <1>5, <2>1, <2>2
<1> QED BY <1>2, <1>3, <1>4, <1>5 DEF Progress, SeedQuantity

LEMMA NextProgress ==
    ASSUME TypeInv, KeyParts, NEW s \in Seeds, Progress(s), Act(s)
    PROVE  Progress(s)'
<1> USE DEF TypeInv, TypeOK, Goes
<1>1. /\ s \in Txs /\ s \notin Requests
      /\ NItems \in Nat \ {0} /\ Items \subseteq Nat /\ at[s] \in Nat
  BY InventoryAssumption DEF Txs, Items
<1>2. rows \subseteq rows' /\ moved \subseteq moved'
  BY <1>1, Frame
<1>3. CASE pc'[s] \notin InTransaction
  BY <1>3 DEF Progress
<1>4. CASE Insert(s)
  <2>1. /\ at[s] = ask[s].product /\ at'[s] = at[s] + 1 /\ pc'[s] = "next"
        /\ draft'[s].rows = draft[s].rows \cup {ask[s].product} /\ draft'[s].moved = draft[s].moved
    BY <1>1, <1>4 DEF Insert, Onward, SeedGoesOn, Progress, InTransaction, Draft
  <2>2. pc[s] \in InTransaction
    BY <1>4 DEF Insert, InTransaction
  <2>3. ask[s].product \in Items
    BY <1>1, <1>4 DEF Insert, KeyParts, Creates
  <2>4. \A i \in Items : /\ at[s] = i => i \in Visible(s)'
                         /\ at[s] # NItems + i /\ at[s] # 2 * NItems + i
    BY <1>1, <2>1, <2>3 DEF Visible, Items
  <2> QED BY <1>2, <2>1, <2>2, <2>4, StaysOrGoesOn DEF OrderLines
<1>5. CASE Add(s)
  <2>1. pc[s] \in OrderLines /\ pc[s] \in InTransaction
    BY <1>5 DEF Add, OrderLines, InTransaction
  <2> PICK m : m = <<ask[s].product, ask[s].kind>>
    OBVIOUS
  <2>2. /\ at'[s] = at[s] + 1 /\ pc'[s] = "next"
        /\ draft'[s].rows = draft[s].rows /\ draft'[s].moved = draft[s].moved \cup {m}
    <3>1. draft'[s] = Added(draft[s], s)
      BY <1>1, <1>5 DEF Add
    <3> QED BY <1>1, <1>5, <3>1 DEF Add, Onward, SeedGoesOn, Added, Draft
  <2>3. ask[s].product \in Items /\ ask[s].kind \in Directions
    BY <1>1, <2>1 DEF AskFits
  <2>4. at[s] = ask[s].product + (IF ask[s].kind = "inbound" THEN NItems ELSE 2 * NItems)
    BY <2>1 DEF Progress
  <2>5. Sees(s, m)'
    BY <1>5, <2>2 DEF Add, Sees
  <2>6. \A i \in Items : /\ at[s] # i
                         /\ at[s] = NItems + i => m = <<i, "inbound">>
                         /\ at[s] = 2 * NItems + i => m = <<i, "outbound">>
    BY <1>1, <2>3, <2>4 DEF Items, Directions
  <2> QED BY <1>2, <2>1, <2>2, <2>5, <2>6, StaysOrGoesOn DEF OrderLines
<1>6. CASE LockProduct(s) \/ SumInbound(s) \/ Check(s)
  <2>1. /\ pc[s] \in OrderLines /\ pc'[s] \in OrderLines /\ pc[s] \in InTransaction
        /\ UNCHANGED <<at, ask, draft>>
    BY <1>1, <1>6 DEF LockProduct, AfterLock, SumInbound, Check, OrderLines, InTransaction
  <2> QED BY <1>2, <2>1, StaysOrGoesOn DEF OrderLines, Progress
<1>7. CASE SeedMissing(s)
  <2>1. /\ pc[s] = "next" /\ pc'[s] = "insert" /\ ask'[s].product = Item(s, 0)
        /\ UNCHANGED <<at, draft>>
    BY <1>1, <1>7 DEF SeedMissing, InLoop
  <2>2. Item(s, 0) = at[s]
    BY <1>1 DEF Item
  <2> QED BY <1>2, <2>1, <2>2, StaysOrGoesOn DEF OrderLines, InTransaction
<1>8. CASE SeedExisting(s)
  <2>1. PICK p \in Owners(s, Item(s, 0)) : SeedExisting(s)!2!(p)
    BY <1>8 DEF SeedExisting
  <2>2. CASE p = Item(s, 0)
    <3>1. /\ pc[s] = "next" /\ at'[s] = at[s] + 1 /\ p = at[s] /\ p \in Visible(s) /\ at[s] \in Items
          /\ UNCHANGED <<pc, draft, rows, moved>>
      BY <1>1, <1>8, <2>1, <2>2 DEF SeedExisting, InLoop, SeedGoesOn, Item, Owners, Items
    <3>2. \A i \in Items : /\ at[s] = i => i \in Visible(s)'
                           /\ at[s] # NItems + i /\ at[s] # 2 * NItems + i
      BY <1>1, <3>1 DEF Visible, Items
    <3> QED BY <1>2, <3>1, <3>2, StaysOrGoesOn DEF OrderLines, InTransaction
  <2>3. CASE p # Item(s, 0)
    BY <1>1, <1>3, <2>1, <2>3 DEF InTransaction
  <2> QED BY <2>2, <2>3
<1>9. CASE SeedMovement(s)
  <2>1. PICK n \in {1, 2} : SeedMovement(s)!(n)
    BY <1>9 DEF SeedMovement
  <2> DEFINE d == IF n = 1 THEN "inbound" ELSE "outbound"
  <2> PICK i : i = Item(s, n)
    OBVIOUS
  <2>2. /\ pc[s] = "next" /\ UNCHANGED <<draft, moved>>
        /\ i \in Items /\ at[s] = i + (IF n = 1 THEN NItems ELSE 2 * NItems)
    BY <1>1, <2>1 DEF InLoop, Item, Items
  <2>3. CASE /\ SeedQuantity(i, d) = 0 \/ <<i, d>> \in moved \cup draft[s].moved
             /\ SeedGoesOn(s) /\ UNCHANGED <<pc, ask>>
    <3>1. at'[s] = at[s] + 1
      BY <2>3 DEF SeedGoesOn
    <3>2. SeedQuantity(i, d) > 0 => Sees(s, <<i, d>>)'
      BY <2>2, <2>3 DEF Sees
    <3>3. \A j \in Items : /\ at[s] # j
                           /\ at[s] = NItems + j => j = i /\ d = "inbound"
                           /\ at[s] = 2 * NItems + j => j = i /\ d = "outbound"
      BY <1>1, <2>2 DEF Items
    <3> HIDE DEF d
    <3> QED BY <1>2, <2>2, <2>3, <3>1, <3>2, <3>3, StaysOrGoesOn DEF OrderLines, InTransaction
  <2>4. CASE /\ pc' = [pc EXCEPT ![s] = "lock"]
             /\ ask' = [ask EXCEPT ![s] = [kind |-> d, key |-> NoKey, product |-> i,
                                           quantity |-> SeedQuantity(i, d)]]
             /\ UNCHANGED at
    <3>1. /\ pc'[s] = "lock" /\ ask'[s].product = i /\ ask'[s].kind = d /\ at'[s] = at[s]
      BY <1>1, <2>4
    <3>2. at'[s] = ask'[s].product + (IF ask'[s].kind = "inbound" THEN NItems ELSE 2 * NItems)
      BY <2>2, <3>1
    <3> QED BY <1>2, <2>2, <3>1, <3>2, StaysOrGoesOn DEF OrderLines, InTransaction
  <2> QED BY <2>1, <2>3, <2>4
<1>10. CASE SeedEnd(s)
  <2>1. pc[s] = "next" /\ pc'[s] = "commit" /\ at[s] > 3 * NItems /\ UNCHANGED <<at, draft>>
    BY <1>1, <1>10 DEF SeedEnd
  <2> QED BY <1>2, <2>1, StaysOrGoesOn DEF OrderLines, InTransaction
<1>11. CASE \/ InsertRefused(s) \/ NotFound(s) \/ Refuse(s) \/ Commit(s)
            \/ CommitUnacknowledged(s) \/ Fail(s) \/ SeedDiffers(s)
  <2>1. pc'[s] \notin InTransaction
    BY <1>1, <1>11
    DEF InsertRefused, NotFound, Refuse, Commit, CommitUnacknowledged, Fail, SeedDiffers,
        InTransaction
  <2> QED BY <1>3, <2>1
<1> QED
  BY <1>1, <1>4, <1>5, <1>6, <1>7, <1>8, <1>9, <1>10, <1>11 DEF Act, Step, Order, Create

LEMMA NextWhole ==
    ASSUME TypeInv, KeyParts, SeedParts, NEW t \in Txs, Act(t)
    PROVE  SeedIsWhole'
<1> USE DEF TypeInv, TypeOK, Goes
<1>1. rows \subseteq rows' /\ moved \subseteq moved'
  BY Frame
<1>2. CASE \A i \in Items : i \in rows' => i \in rows
  BY <1>1, <1>2 DEF SeedParts, SeedIsWhole, SeedQuantity
<1>3. CASE Write(t) /\ pc[t] = "commit" /\ t \in Seeds
  <2>1. at[t] > 3 * NItems
    BY <1>3 DEF SeedParts, Progress, InTransaction
  <2>2. \A i \in Items : i \in Nat /\ at[t] > i /\ at[t] > NItems + i /\ at[t] > 2 * NItems + i
    BY <2>1, <1>3, InventoryAssumption DEF Items
  <2>3. rows' = Visible(t) /\ moved' = moved \cup draft[t].moved
    BY <1>3 DEF Write, Visible
  <2>4. \A j \in Items : /\ j \in rows'
                         /\ SeedQuantity(j, "inbound") > 0 => <<j, "inbound">> \in moved'
                         /\ SeedQuantity(j, "outbound") > 0 => <<j, "outbound">> \in moved'
    BY <1>3, <2>2, <2>3 DEF SeedParts, Progress, Sees, InTransaction
  <2> QED BY <2>4 DEF SeedIsWhole, SeedQuantity, Directions
<1>4. CASE Write(t) /\ t \in Requests
  <2>1. draft[t].rows \cap Items = {}
    BY <1>4, InventoryAssumption DEF KeyParts, Creates
  <2> QED BY <1>2, <1>4, <2>1 DEF Write
<1>5. CASE ~Write(t)
  <2>1. rows' = rows
    BY <1>5 DEF Act, Step, Order, Create, Insert, InsertRefused, Look, LockProduct, NotFound,
       SumInbound, Check, Refuse, Add, Commit, CommitUnacknowledged, Fail, AskCreate, AskOrder,
       SeedMissing, SeedExisting, SeedMovement, SeedDiffers, SeedEnd, Rollback
  <2> QED BY <1>2, <2>1
<1>6. CASE Write(t) /\ pc[t] # "commit"
  <2>1. rows' = rows
    BY <1>6 DEF Act, Step, Order, Create, Insert, InsertRefused, Look, LockProduct, NotFound,
       SumInbound, Check, Refuse, Add, Commit, CommitUnacknowledged, Fail, AskCreate, AskOrder,
       SeedMissing, SeedExisting, SeedMovement, SeedDiffers, SeedEnd, Rollback
  <2> QED BY <1>2, <2>1
<1> QED BY <1>3, <1>4, <1>5, <1>6 DEF Txs

LEMMA NextSeeds == TypeInv /\ KeyParts /\ SeedParts /\ [Next]_vars => SeedParts'
<1> SUFFICES ASSUME TypeInv, KeyParts, SeedParts, [Next]_vars PROVE SeedParts'
  OBVIOUS
<1>1. CASE UNCHANGED vars
  BY <1>1 DEF vars, SeedParts, SeedIsWhole, Progress, Visible, Sees, SeedQuantity
<1>2. ASSUME NEW t \in Txs, Act(t), NEW s \in Seeds PROVE Progress(s)'
  <2>1. CASE s = t
    BY <1>2, <2>1, NextProgress DEF SeedParts
  <2>2. CASE s # t
    <3>1. /\ pc'[s] = pc[s] /\ ask'[s] = ask[s] /\ draft'[s] = draft[s] /\ at'[s] = at[s]
          /\ rows \subseteq rows' /\ moved \subseteq moved'
      BY <1>2, <2>2, Frame DEF Txs
    <3> QED BY <3>1 DEF SeedParts, Progress, Visible, Sees, SeedQuantity
  <2> QED BY <2>1, <2>2
<1> QED BY <1>1, <1>2, NextIsAct, NextWhole DEF SeedParts

\* The seed is all or nothing, however it meets requests and another seed.
THEOREM SeedsAreWhole == Spec => []SeedIsWhole
<1>1. Init => TypeInv /\ KeyParts /\ SeedParts
  BY InitTypes, InitKeys, InitSeeds
<1>2. TypeInv /\ KeyParts /\ SeedParts /\ [Next]_vars => (TypeInv /\ KeyParts /\ SeedParts)'
  BY NextTypes, NextKeys, NextSeeds
<1>3. SeedParts => SeedIsWhole
  BY DEF SeedParts
<1> QED BY <1>1, <1>2, <1>3, PTL DEF Spec

-----------------------------------------------------------------------------
(* Waiting *)

\* Where a request holds a row, and where a seed may.
HoldsLines == {"sum", "check", "add", "commit"}
InTurn(s) == pc[s] \in InTransaction /\ at[s] > 1
Holder(t) == IF t \in Requests THEN pc[t] \in HoldsLines ELSE InTurn(t)

\* What t locks it sees, and who holds a lock or a draft is past its first wait.
Holds(t) == /\ \A i \in Ids : lock[i] = t => i \in Visible(t) /\ Holder(t)
            /\ draft[t].rows # {} => Holder(t)

\* Nobody creates what another has created.
Apart(t) == /\ draft[t].rows \cap rows = {}
            /\ \A u \in Txs : t # u => draft[t].rows \cap draft[u].rows = {}

HasFirst(s) == InTurn(s) => 1 \in draft[s].rows \/ lock[1] = s

\* A seed never waits for a product of its own.
Fresh(s) == pc[s] = "insert" => \A i \in draft[s].rows : ItemKey[i] # ItemKey[ask[s].product]

HoldParts == /\ \A t \in Txs : Holds(t) /\ Apart(t)
             /\ \A s \in Seeds : HasFirst(s) /\ Fresh(s)

LEMMA InitHolds == Init => HoldParts
<1> SUFFICES ASSUME Init PROVE HoldParts
  OBVIOUS
<1>1. \A t \in Txs : draft[t].rows = {} /\ \A i \in Ids : lock[i] # t
  BY InventoryAssumption DEF Init, NoDraft, Txs
<1>2. \A s \in Seeds : pc[s] = "next" /\ at[s] = 1
  BY InventoryAssumption DEF Init, Txs
<1> QED BY <1>1, <1>2 DEF HoldParts, Holds, Apart, HasFirst, Fresh, InTurn

\* The seed's look at a product of its own.
LEMMA OwnProduct ==
    ASSUME TypeInv, NEW s \in Seeds, SeedExisting(s), ~Close(s)
    PROVE  /\ at[s] \in Items /\ at[s] \in Visible(s) /\ at'[s] = at[s] + 1 /\ pc[s] = "next"
           /\ lock' = [lock EXCEPT ![at[s]] = s]
           /\ UNCHANGED <<pc, ask, draft, rows>>
<1> USE DEF TypeInv, TypeOK
<1>1. PICK p \in Owners(s, Item(s, 0)) : SeedExisting(s)!2!(p)
  BY DEF SeedExisting
<1>2. p = Item(s, 0)
  BY <1>1 DEF Rollback
<1>3. at[s] \in Items /\ Item(s, 0) = at[s] /\ pc[s] = "next"
  BY InventoryAssumption DEF SeedExisting, InLoop, Item, Items
<1> QED BY <1>1, <1>2, <1>3 DEF SeedExisting, SeedGoesOn, Owners

\* The two kinds of step: the end of a transaction, and a line of one.
Ends(t) == Close(t) /\ pc'[t] \in Answers \cup {"look"}
Works(t) ==
    \/ LockProduct(t) \/ SumInbound(t) \/ Check(t) \/ Add(t) \/ Insert(t)
    \/ t \in Requests /\ (AskCreate(t) \/ AskOrder(t) \/ Look(t))
    \/ t \in Seeds /\ (SeedMissing(t) \/ (SeedExisting(t) /\ ~Close(t)) \/ SeedMovement(t) \/ SeedEnd(t))

LEMMA EndsOrWorks == ASSUME TypeInv, NEW t \in Txs, Act(t) PROVE Ends(t) \/ Works(t)
<1> USE DEF TypeInv, TypeOK, Goes
<1>1. CASE \/ InsertRefused(t) \/ NotFound(t) \/ Refuse(t) \/ Commit(t)
           \/ CommitUnacknowledged(t) \/ Fail(t) \/ SeedDiffers(t)
  <2>1. Close(t)
    BY <1>1 DEF InsertRefused, NotFound, Refuse, Commit, CommitUnacknowledged, Fail, SeedDiffers,
                Write, Rollback
  <2>2. PICK l \in Answers \cup {"look"} : pc' = [pc EXCEPT ![t] = l]
    BY <1>1 DEF InsertRefused, NotFound, Refuse, Commit, CommitUnacknowledged, Fail, SeedDiffers,
                Answers
  <2> QED BY <2>1, <2>2 DEF Ends
<1>2. CASE t \in Seeds /\ SeedExisting(t) /\ Close(t)
  <2>1. PICK p \in Owners(t, Item(t, 0)) : SeedExisting(t)!2!(p)
    BY <1>2 DEF SeedExisting
  <2>2. CASE p # Item(t, 0)
    <3>1. "refused" \in Answers
      BY DEF Answers
    <3> QED BY <1>2, <2>1, <2>2, <3>1 DEF Ends
  <2>3. CASE p = Item(t, 0)
    <3>1. at[t] \in Nat \ {0}
      BY <1>2, InventoryAssumption DEF SeedExisting, InLoop
    <3>2. at'[t] = at[t] + 1 /\ at'[t] = 1
      BY <1>2, <2>1, <2>3 DEF SeedGoesOn, Close
    <3> QED BY <3>1, <3>2
  <2> QED BY <2>2, <2>3
<1> QED BY <1>1, <1>2 DEF Act, Step, Order, Create, Works

\* A transaction's step neither takes nor gives a lock of another.
LEMMA LockFrame ==
    ASSUME TypeInv, NEW t \in Txs, Act(t), NEW u \in Txs, u # t, NEW i \in Ids
    PROVE  lock'[i] = u <=> lock[i] = u
<1> USE DEF TypeInv, TypeOK
<1>1. u # NoOne /\ t # NoOne
  BY InventoryAssumption DEF Txs
<1>2. CASE Close(t)
  BY <1>1, <1>2 DEF Close, Unlocked
<1>3. CASE LockProduct(t)
  BY <1>1, <1>3 DEF LockProduct, Ask
<1>4. CASE t \in Seeds /\ SeedExisting(t) /\ ~Close(t)
  <2>1. PICK p \in Owners(t, Item(t, 0)) : SeedExisting(t)!2!(p)
    BY <1>4 DEF SeedExisting
  <2>2. lock[p] \in {NoOne, t} /\ lock' = [lock EXCEPT ![p] = t]
    BY <1>4, <2>1 DEF Rollback
  <2> QED BY <1>1, <2>2
<1>5. CASE UNCHANGED lock
  BY <1>5
<1>6. CASE Works(t)
  BY <1>3, <1>4, <1>5, <1>6
  DEF Works, Insert, Look, SumInbound, Check, Add, AskCreate, AskOrder, SeedMissing, SeedMovement, SeedEnd
<1> QED BY <1>2, <1>6, EndsOrWorks DEF Ends

LEMMA EndHolds ==
    ASSUME TypeInv, HoldParts, NEW t \in Txs, Act(t), Ends(t)
    PROVE  Holds(t)' /\ (t \in Seeds => HasFirst(t)' /\ Fresh(t)')
<1>1. draft'[t].rows = {} /\ \A i \in Ids : lock'[i] # t
  BY InventoryAssumption DEF TypeInv, TypeOK, Ends, Close, Unlocked, NoDraft, Txs
<1>2. pc'[t] \notin InTransaction
  BY DEF Ends, Answers, InTransaction
<1> QED BY <1>1, <1>2 DEF Holds, HasFirst, Fresh, InTurn, InTransaction

\* A request holds at most one product, and only on the lines that do not wait.
LEMMA RequestHolds ==
    ASSUME TypeInv, HoldParts, NEW t \in Requests, Act(t), Works(t)
    PROVE  Holds(t)'
<1> USE DEF TypeInv, TypeOK, Goes
<1>1. t \in Txs /\ t \notin Seeds
  BY InventoryAssumption DEF Txs
<1>2. Holds(t)
  BY <1>1 DEF HoldParts
<1>3. CASE AskCreate(t) \/ AskOrder(t) \/ Look(t)
  <2>1. pc[t] \notin HoldsLines /\ UNCHANGED <<lock, draft>>
    BY <1>3 DEF AskCreate, AskOrder, Look, HoldsLines
  <2> QED BY <1>2, <2>1 DEF Holds, Holder
<1>4. CASE Insert(t)
  <2>1. pc'[t] = "commit" /\ pc[t] \notin HoldsLines /\ UNCHANGED lock
    BY <1>1, <1>4 DEF Insert, Onward, HoldsLines
  <2> QED BY <1>2, <2>1 DEF Holds, Holder, HoldsLines
<1>5. CASE LockProduct(t)
  <2>1. /\ pc'[t] \in HoldsLines /\ ask[t].product \in Visible(t)
        /\ lock' = [lock EXCEPT ![ask[t].product] = t] /\ UNCHANGED <<rows, draft>>
    BY <1>1, <1>5 DEF LockProduct, AfterLock, HoldsLines
  <2>2. \A i \in Ids : lock'[i] = t => lock[i] = t \/ i = ask[t].product
    BY <2>1 DEF Ask
  <2> QED BY <1>2, <2>1, <2>2 DEF Holds, Holder, Visible
<1>6. CASE SumInbound(t) \/ Check(t)
  <2>1. pc'[t] \in HoldsLines /\ UNCHANGED <<lock, draft, rows>>
    BY <1>1, <1>6 DEF SumInbound, Check, HoldsLines
  <2> QED BY <1>2, <2>1 DEF Holds, Holder, Visible
<1>7. CASE Add(t)
  <2>1. /\ pc'[t] \in HoldsLines /\ UNCHANGED <<lock, rows>>
        /\ draft'[t].rows = draft[t].rows
    BY <1>1, <1>7 DEF Add, Added, Onward, HoldsLines
  <2> QED BY <1>2, <2>1 DEF Holds, Holder, Visible
<1> QED BY <1>1, <1>3, <1>4, <1>5, <1>6, <1>7 DEF Works

\* A line of a seed that creates no product and locks none it has not seen.
LEMMA SeedKeeps ==
    ASSUME TypeInv, HoldParts, NEW s \in Seeds,
           pc[s] \in InTransaction, pc'[s] \in InTransaction,
           at[s] > 0, at'[s] \in {at[s], at[s] + 1}, rows' = rows, draft'[s].rows = draft[s].rows,
           \/ UNCHANGED lock /\ (at[s] = 1 => at'[s] = 1)
           \/ /\ \E p \in Visible(s) : lock' = [lock EXCEPT ![p] = s] /\ (at[s] = 1 => p = 1)
              /\ at'[s] > 1
    PROVE  Holds(s)' /\ HasFirst(s)'
<1> USE DEF TypeInv, TypeOK
<1>1. s \in Txs /\ s \notin Requests /\ at[s] \in Nat
  BY InventoryAssumption DEF Txs
<1>2. Holds(s) /\ HasFirst(s) /\ (InTurn(s) <=> at[s] > 1) /\ (InTurn(s)' <=> at'[s] > 1)
  BY <1>1 DEF HoldParts, InTurn
<1>3. InTurn(s) => InTurn(s)'
  BY <1>1, <1>2
<1>4. CASE UNCHANGED lock /\ (at[s] = 1 => at'[s] = 1)
  <2>1. InTurn(s)' => InTurn(s)
    BY <1>1, <1>2, <1>4
  <2> QED BY <1>1, <1>2, <1>3, <1>4, <2>1 DEF Holds, Holder, HasFirst, Visible
<1>5. CASE /\ \E p \in Visible(s) : lock' = [lock EXCEPT ![p] = s] /\ (at[s] = 1 => p = 1)
           /\ at'[s] > 1
  <2>1. PICK p \in Visible(s) : lock' = [lock EXCEPT ![p] = s] /\ (at[s] = 1 => p = 1)
    BY <1>5
  <2>2. p \in Ids
    BY <1>1 DEF Visible, Draft
  <2>3. InTurn(s)'
    BY <1>2, <1>5
  <2>4. \A i \in Ids : lock'[i] = s => lock[i] = s \/ i = p
    BY <2>1
  <2>5. Holds(s)'
    BY <1>1, <1>2, <2>3, <2>4 DEF Holds, Holder, Visible
  <2>6. CASE at[s] = 1
    <3>1. lock'[1] = s
      BY <2>1, <2>2, <2>6
    <3> QED BY <2>5, <3>1 DEF HasFirst
  <2>7. CASE at[s] # 1
    <3>1. InTurn(s)
      BY <1>1, <1>2, <2>7
    <3>2. 1 \in draft[s].rows \/ lock[1] = s
      BY <1>2, <3>1 DEF HasFirst
    <3>3. 1 \in Ids
      BY InventoryAssumption DEF Ids, Items
    <3>4. 1 \in draft'[s].rows \/ lock'[1] = s
      BY <2>1, <2>2, <3>2, <3>3
    <3> QED BY <2>5, <3>4 DEF HasFirst
  <2> QED BY <2>6, <2>7
<1> QED BY <1>4, <1>5

LEMMA SeedHolds ==
    ASSUME TypeInv, KeyParts, SeedParts, HoldParts, NEW s \in Seeds, Act(s), Works(s)
    PROVE  Holds(s)' /\ HasFirst(s)' /\ Fresh(s)'
<1> USE DEF TypeInv, TypeOK, Goes
<1>1. /\ s \in Txs /\ s \notin Requests /\ at[s] \in Nat
      /\ NItems \in Nat \ {0} /\ Items \subseteq Nat \ {0} /\ Items \subseteq Ids
  BY InventoryAssumption DEF Txs, Items, Ids
<1>2. Progress(s) /\ Creates(s) /\ Holds(s) /\ HasFirst(s)
  BY <1>1 DEF SeedParts, KeyParts, HoldParts
<1>3. CASE LockProduct(s) \/ SumInbound(s) \/ Check(s) \/ Add(s)
  <2>1. pc[s] \in OrderLines /\ pc[s] \in InTransaction
    BY <1>3 DEF LockProduct, SumInbound, Check, Add, OrderLines, InTransaction
  <2>2. ask[s].product \in Items
    BY <1>1, <2>1 DEF AskFits
  <2>3. at[s] > 1
    <3>1. at[s] = ask[s].product + (IF ask[s].kind = "inbound" THEN NItems ELSE 2 * NItems)
      BY <1>2, <2>1 DEF Progress
    <3>2. at[s] = ask[s].product + NItems \/ at[s] = ask[s].product + 2 * NItems
      BY <3>1
    <3>3. ask[s].product \in Nat \ {0}
      BY <1>1, <2>2
    <3> HIDE DEF TypeInv, TypeOK
    <3> QED BY <1>1, <3>2, <3>3
  <2>4. /\ pc'[s] \in InTransaction \ {"insert"} /\ rows' = rows
        /\ at'[s] \in {at[s], at[s] + 1}
    BY <1>1, <1>3 DEF LockProduct, AfterLock, SumInbound, Check, Add, Onward, SeedGoesOn, InTransaction
  <2>5. draft'[s].rows = draft[s].rows
    <3>1. CASE Add(s)
      <4>1. draft'[s] = Added(draft[s], s)
        BY <1>1, <3>1 DEF Add
      <4> QED BY <1>1, <4>1 DEF Added, Draft
    <3> QED BY <1>3, <3>1 DEF LockProduct, SumInbound, Check
  <2>6. \/ UNCHANGED lock
        \/ \E p \in Visible(s) : lock' = [lock EXCEPT ![p] = s]
    BY <1>3 DEF LockProduct, SumInbound, Check, Add
  <2>7. at'[s] > 1 /\ at[s] # 1 /\ at[s] > 0
    BY <1>1, <2>3, <2>4
  <2>8. Holds(s)' /\ HasFirst(s)'
    BY <2>1, <2>4, <2>5, <2>6, <2>7, SeedKeeps
  <2> QED BY <2>4, <2>8 DEF Fresh
<1>4. CASE Insert(s)
  <2>1. /\ pc[s] = "insert" /\ pc'[s] = "next" /\ at'[s] = at[s] + 1 /\ UNCHANGED <<rows, lock>>
        /\ draft'[s].rows = draft[s].rows \cup {ask[s].product}
    BY <1>1, <1>4 DEF Insert, Onward, SeedGoesOn, Draft
  <2>2. at[s] = ask[s].product /\ at[s] > 0
    BY <1>2, <2>1 DEF Progress, InTransaction
  <2>3. InTurn(s)'
    BY <1>1, <2>1, <2>2 DEF InTurn, InTransaction
  <2>4. Holds(s)'
    BY <1>1, <1>2, <2>1, <2>3 DEF Holds, Holder, Visible
  <2>5. 1 \in draft'[s].rows \/ lock'[1] = s
    <3>1. CASE at[s] = 1
      BY <2>1, <2>2, <3>1
    <3>2. CASE at[s] # 1
      <4>1. InTurn(s)
        BY <1>1, <2>1, <2>2, <3>2 DEF InTurn, InTransaction
      <4> QED BY <1>2, <2>1, <4>1 DEF HasFirst
    <3> QED BY <3>1, <3>2
  <2> QED BY <2>1, <2>4, <2>5 DEF HasFirst, Fresh
<1>5. CASE SeedMissing(s)
  <2>1. /\ pc[s] = "next" /\ pc'[s] = "insert" /\ ask'[s].product = Item(s, 0)
        /\ UNCHANGED <<at, lock, draft, rows>>
    BY <1>1, <1>5 DEF SeedMissing, InLoop
  <2>2. at[s] > 0
    BY <1>2, <2>1 DEF Progress, InTransaction
  <2>3. Holds(s)' /\ HasFirst(s)'
    BY <2>1, <2>2, SeedKeeps DEF InTransaction
  <2>4. \A i \in draft[s].rows : i \in Items /\ KeyOf(i) # ItemKey[Item(s, 0)]
    BY <1>1, <1>2, <1>5 DEF SeedMissing, Owners, Visible, Creates
  <2>5. Fresh(s)'
    BY <2>1, <2>4 DEF Fresh, KeyOf
  <2> QED BY <2>3, <2>5
<1>6. CASE SeedExisting(s) /\ ~Close(s)
  <2>1. /\ at[s] \in Items /\ at[s] \in Visible(s) /\ at'[s] = at[s] + 1 /\ pc[s] = "next" /\ pc' = pc
        /\ lock' = [lock EXCEPT ![at[s]] = s] /\ draft' = draft /\ rows' = rows
    BY <1>6, OwnProduct
  <2>2. at[s] > 0 /\ at'[s] > 1
    BY <1>1, <2>1
  <2>3. Holds(s)' /\ HasFirst(s)'
    BY <2>1, <2>2, SeedKeeps DEF InTransaction
  <2> QED BY <2>1, <2>3 DEF Fresh
<1>7. CASE SeedMovement(s)
  <2>1. PICK n \in {1, 2} : SeedMovement(s)!(n)
    BY <1>7 DEF SeedMovement
  <2>2. /\ pc[s] = "next" /\ pc'[s] \in {"next", "lock"} /\ UNCHANGED <<lock, draft, rows>>
        /\ at'[s] \in {at[s], at[s] + 1}
    BY <1>1, <2>1 DEF InLoop, SeedGoesOn
  <2>3. at[s] > 1
    BY <1>1, <2>1 DEF InLoop
  <2>4. at[s] # 1 /\ at[s] > 0
    BY <1>1, <2>3
  <2>5. Holds(s)' /\ HasFirst(s)'
    BY <2>2, <2>4, SeedKeeps DEF InTransaction
  <2> QED BY <2>2, <2>5 DEF Fresh
<1>8. CASE SeedEnd(s)
  <2>1. pc[s] = "next" /\ pc'[s] = "commit" /\ UNCHANGED <<at, lock, draft, rows>>
    BY <1>1, <1>8 DEF SeedEnd
  <2>2. at[s] > 0
    BY <1>2, <2>1 DEF Progress, InTransaction
  <2>3. Holds(s)' /\ HasFirst(s)'
    BY <2>1, <2>2, SeedKeeps DEF InTransaction
  <2> QED BY <2>1, <2>3 DEF Fresh
<1> QED BY <1>1, <1>3, <1>4, <1>5, <1>6, <1>7, <1>8 DEF Works

LEMMA OthersHold ==
    ASSUME TypeInv, HoldParts, NEW t \in Txs, Act(t), NEW u \in Txs, u # t
    PROVE  Holds(u)' /\ (u \in Seeds => HasFirst(u)' /\ Fresh(u)')
<1>1. /\ pc'[u] = pc[u] /\ ask'[u] = ask[u] /\ draft'[u] = draft[u]
      /\ u \in Seeds => at'[u] = at[u]
      /\ rows \subseteq rows'
  BY Frame
<1>2. \A i \in Ids : lock'[i] = u <=> lock[i] = u
  BY LockFrame
<1>3. 1 \in Ids
  BY InventoryAssumption DEF Ids, Items
<1>4. Holder(u) => Holder(u)'
  BY <1>1 DEF Holder, InTurn, Txs
<1>5. Holds(u)'
  BY <1>1, <1>2, <1>4 DEF HoldParts, Holds, Visible
<1>6. ASSUME u \in Seeds PROVE HasFirst(u)' /\ Fresh(u)'
  BY <1>1, <1>2, <1>3, <1>6 DEF HoldParts, HasFirst, Fresh, InTurn
<1> QED BY <1>5, <1>6

LEMMA NextApart ==
    ASSUME TypeInv, HoldParts, NEW t \in Txs, Act(t), NEW u \in Txs
    PROVE  Apart(u)'
<1>1. \A v \in Txs : v # t => draft'[v] = draft[v]
  BY Frame
<1>2. Apart(u) /\ Apart(t)
  BY DEF HoldParts
<1>3. CASE rows' = rows /\ draft'[t].rows \in {draft[t].rows, {}}
  BY <1>1, <1>2, <1>3 DEF Apart
<1>4. CASE rows' = rows \cup draft[t].rows /\ draft'[t].rows = {}
  BY <1>1, <1>2, <1>4 DEF Apart
<1>5. CASE Insert(t) /\ rows' = rows /\ draft'[t].rows = draft[t].rows \cup {ask[t].product}
  <2>1. \A v \in Txs : ask[t].product \notin draft[v].rows /\ ask[t].product \notin rows
    BY <1>5 DEF Insert, KeyTaken, Visible
  <2> QED BY <1>1, <1>2, <1>5, <2>1 DEF Apart
<1> QED BY <1>3, <1>4, <1>5, NewRows

LEMMA NextHolds == TypeInv /\ KeyParts /\ SeedParts /\ HoldParts /\ [Next]_vars => HoldParts'
<1> SUFFICES ASSUME TypeInv, KeyParts, SeedParts, HoldParts, [Next]_vars PROVE HoldParts'
  OBVIOUS
<1>1. CASE UNCHANGED vars
  BY <1>1 DEF vars, HoldParts, Holds, Apart, HasFirst, Fresh, Holder, InTurn, Visible
<1>2. ASSUME NEW t \in Txs, Act(t), NEW u \in Txs
      PROVE  Holds(u)' /\ (u \in Seeds => HasFirst(u)' /\ Fresh(u)')
  <2>1. CASE u # t
    BY <1>2, <2>1, OthersHold
  <2>2. CASE u = t /\ Ends(t)
    BY <1>2, <2>2, EndHolds
  <2>3. CASE u = t /\ Works(t) /\ t \in Seeds
    BY <1>2, <2>3, SeedHolds
  <2>4. CASE u = t /\ Works(t) /\ t \notin Seeds
    BY <1>2, <2>4, RequestHolds DEF Txs
  <2> QED BY <1>2, <2>1, <2>2, <2>3, <2>4, EndsOrWorks
<1>3. \A s \in Seeds : s \in Txs
  BY DEF Txs
<1> QED BY <1>1, <1>2, <1>3, NextIsAct, NextApart DEF HoldParts

-----------------------------------------------------------------------------
(* No ring of waiting transactions *)

\* The first product is held by one seed at a time.
LEMMA TurnsExclude == TypeInv /\ HoldParts => SeedsTakeTurns
<1> SUFFICES ASSUME TypeInv, HoldParts, NEW s \in Seeds, NEW u \in Seeds, s # u, InTurn(s), InTurn(u)
             PROVE  FALSE
  BY DEF SeedsTakeTurns, InTurn
<1>1. s \in Txs /\ u \in Txs /\ 1 \in Ids
  BY InventoryAssumption DEF Txs, Ids, Items
<1>2. /\ 1 \in draft[s].rows \/ lock[1] = s
      /\ 1 \in draft[u].rows \/ lock[1] = u
  BY DEF HoldParts, HasFirst
<1>3. /\ lock[1] = s => 1 \in rows \cup draft[s].rows
      /\ lock[1] = u => 1 \in rows \cup draft[u].rows
  BY <1>1 DEF HoldParts, Holds, Visible
<1>4. /\ draft[s].rows \cap rows = {} /\ draft[u].rows \cap rows = {}
      /\ draft[s].rows \cap draft[u].rows = {}
  BY <1>1 DEF HoldParts, Apart
<1> QED BY <1>2, <1>3, <1>4

\* Whoever waits, waits for someone else who holds what it waits for.
LEMMA WaitsForHolder ==
    ASSUME TypeInv, KeyParts, HoldParts, NEW t \in Txs, Waits(t)
    PROVE  \E u \in Txs : u # t /\ Holder(u)
<1> USE DEF TypeInv, TypeOK
<1>1. Holds(t)
  BY DEF HoldParts
<1>2. ASSUME NEW p \in Ids, Taken(p, t) PROVE \E u \in Txs : u # t /\ Holder(u)
  <2>1. lock[p] \in Txs /\ lock[p] # t
    BY <1>2 DEF Taken
  <2> QED BY <2>1 DEF HoldParts, Holds
<1>3. CASE pc[t] = "insert" /\ \E u \in Txs : KeyTaken(KeyOf(ask[t].product), draft[u].rows)
  <2>1. PICK u \in Txs : KeyTaken(KeyOf(ask[t].product), draft[u].rows)
    BY <1>3
  <2>2. draft[u].rows # {}
    BY <2>1 DEF KeyTaken
  <2>3. Holder(u)
    BY <2>2 DEF HoldParts, Holds
  <2>4. CASE t \in Requests
    BY <1>3, <2>3, <2>4 DEF Holder, HoldsLines
  <2>5. CASE t \notin Requests
    <3>1. t \in Seeds /\ Fresh(t) /\ Creates(t)
      BY <2>5 DEF HoldParts, KeyParts, Txs
    <3>2. ask[t].product \in Items /\ draft[t].rows \subseteq Items
      BY <1>3, <2>5, <3>1 DEF Creates
    <3>3. ~KeyTaken(KeyOf(ask[t].product), draft[t].rows)
      BY <1>3, <3>1, <3>2 DEF Fresh, KeyTaken, KeyOf
    <3> QED BY <2>1, <2>3, <3>3
  <2> QED BY <2>4, <2>5
<1>4. CASE pc[t] = "lock" /\ Taken(ask[t].product, t)
  BY <1>2, <1>4 DEF Ask
<1>5. CASE t \in Seeds /\ \E p \in Owners(t, Item(t, 0)) : Taken(p, t)
  BY <1>2, <1>5 DEF Owners, Visible, Draft
<1> QED BY <1>3, <1>4, <1>5 DEF Waits

LEMMA ChainsAreShort == TypeInv /\ KeyParts /\ HoldParts => SomeoneGoesOn
<1> SUFFICES ASSUME TypeInv, KeyParts, HoldParts, NEW t \in Txs, Unanswered(t)
             PROVE  \E u \in Txs : GoesOn(u)
  BY DEF SomeoneGoesOn
<1>1. ASSUME NEW r \in Requests, Holder(r) PROVE GoesOn(r)
  <2>1. r \notin Seeds /\ pc[r] \in HoldsLines
    BY <1>1, InventoryAssumption DEF Holder
  <2> QED BY <2>1 DEF GoesOn, Waits, Unanswered, HoldsLines, InTransaction
\* A seed in its turn waits for requests only, and those do not wait.
<1>2. ASSUME NEW s \in Seeds, InTurn(s) PROVE \E u \in Txs : GoesOn(u)
  <2>1. s \in Txs /\ Unanswered(s)
    BY <1>2 DEF Txs, InTurn, Unanswered
  <2>2. CASE ~Waits(s)
    BY <2>1, <2>2 DEF GoesOn
  <2>3. CASE Waits(s)
    <3>1. PICK u \in Txs : u # s /\ Holder(u)
      BY <2>1, <2>3, WaitsForHolder
    <3>2. CASE u \in Requests
      BY <1>1, <3>1, <3>2
    <3>3. CASE u \notin Requests
      <4>1. u \in Seeds /\ InTurn(u)
        BY <3>1, <3>3 DEF Txs, Holder
      <4>2. s = u
        BY <1>2, <4>1, TurnsExclude DEF SeedsTakeTurns, InTurn
      <4> QED BY <3>1, <4>2
    <3> QED BY <3>2, <3>3
  <2> QED BY <2>2, <2>3
<1>3. CASE ~Waits(t)
  BY <1>3 DEF GoesOn
<1>4. CASE Waits(t)
  <2>1. PICK u \in Txs : u # t /\ Holder(u)
    BY <1>4, WaitsForHolder
  <2> QED BY <1>1, <1>2, <2>1 DEF Holder, Txs
<1> QED BY <1>3, <1>4

\* The inductive invariant of the two theorems below.
WaitInv == TypeInv /\ KeyParts /\ SeedParts /\ HoldParts

LEMMA WaitInductive == (Init => WaitInv) /\ (WaitInv /\ [Next]_vars => WaitInv')
BY InitTypes, InitKeys, InitSeeds, InitHolds, NextTypes, NextKeys, NextSeeds, NextHolds DEF WaitInv

\* Two executions of the seed script never meet past the first product: its
\* insert or its row lock makes the later one wait for the end of the other.
THEOREM SeedsAreSerial == Spec => []SeedsTakeTurns
<1>1. WaitInv => SeedsTakeTurns
  BY TurnsExclude DEF WaitInv
<1> QED BY <1>1, WaitInductive, PTL DEF Spec

\* No ring of waiting transactions: a transaction waits for a request that waits
\* for nobody, or for the one seed in its turn, which waits for requests only.
THEOREM NoWaitingRing == Spec => []SomeoneGoesOn
<1>1. WaitInv => SomeoneGoesOn
  BY ChainsAreShort DEF WaitInv
<1> QED BY <1>1, WaitInductive, PTL DEF Spec

-----------------------------------------------------------------------------
(* What drafts hold *)

\* A request writes one thing, and writes it right before its commit.
OneMovement(r, i, d) ==
    IF pc[r] = "commit" /\ ask[r].kind = d /\ ask[r].product = i THEN ask[r].quantity ELSE 0
RequestWrites(r) ==
    /\ pc[r] \in {"insert", "look"} => ask[r].kind = "create"
    /\ pc[r] = "commit" /\ ask[r].kind # "create" => ask[r].product \in rows
    /\ draft[r].rows = IF pc[r] = "commit" /\ ask[r].kind = "create" THEN {r} ELSE {}
    /\ draft[r].moved = {}
    /\ \A i \in Ids : /\ draft[r].inbound[i] = OneMovement(r, i, "inbound")
                      /\ draft[r].outbound[i] = OneMovement(r, i, "outbound")

\* A seed that finds products of its own writes nothing, and one that does not
\* writes each movement once, after its product.
SeedSum(s, i, d) ==
    IF i \in Items /\ <<i, d>> \in draft[s].moved THEN SeedQuantity(i, d) ELSE 0
SeedWrites(s) ==
    /\ rows \cap Items # {} => draft[s].rows = {} /\ pc[s] \notin OrderLines
    /\ \A m \in draft[s].moved : m[1] \in draft[s].rows
    /\ \A i \in Ids : /\ draft[s].inbound[i] = SeedSum(s, i, "inbound")
                      /\ draft[s].outbound[i] = SeedSum(s, i, "outbound")
    /\ pc[s] \in OrderLines =>
         /\ ask[s].quantity = SeedQuantity(ask[s].product, ask[s].kind)
         /\ <<ask[s].product, ask[s].kind>> \notin draft[s].moved

DraftParts == /\ \A m \in moved : m[1] \in rows
              /\ \A r \in Requests : RequestWrites(r)
              /\ \A s \in Seeds : SeedWrites(s)

LEMMA InitDrafts == Init => DraftParts
<1> SUFFICES ASSUME Init PROVE DraftParts
  OBVIOUS
<1>1. ASSUME NEW t \in Txs
      PROVE  /\ draft[t].rows = {} /\ draft[t].moved = {} /\ pc[t] \in {"idle", "next"}
             /\ \A i \in Ids : draft[t].inbound[i] = 0 /\ draft[t].outbound[i] = 0
  BY DEF Init, NoDraft
<1>2. \A r \in Requests : RequestWrites(r)
  BY <1>1 DEF RequestWrites, OneMovement, Txs
<1>3. \A s \in Seeds : SeedWrites(s)
  BY <1>1 DEF SeedWrites, SeedSum, OrderLines, Txs
<1>4. moved = {}
  BY DEF Init
<1> QED BY <1>2, <1>3, <1>4 DEF DraftParts

\* The end of a transaction leaves no draft.
LEMMA EndDrafts ==
    ASSUME TypeInv, DraftParts, NEW t \in Txs, Act(t), Ends(t)
    PROVE  /\ t \in Requests => RequestWrites(t)'
           /\ t \in Seeds => SeedWrites(t)'
<1>1. /\ draft'[t].rows = {} /\ draft'[t].moved = {}
      /\ \A i \in Ids : draft'[t].inbound[i] = 0 /\ draft'[t].outbound[i] = 0
  BY DEF TypeInv, TypeOK, Ends, Close, NoDraft
<1>2. pc'[t] \notin InTransaction
  BY DEF Ends, Answers, InTransaction
<1>3. t \in Requests /\ pc'[t] = "look" => ask'[t].kind = "create"
  <2>1. SUFFICES ASSUME t \in Requests, pc'[t] = "look" PROVE ask'[t].kind = "create"
    OBVIOUS
  <2>2. t \notin Seeds /\ RequestWrites(t)
    BY <2>1, InventoryAssumption DEF DraftParts
  <2>3. pc'[t] # pc[t] => InsertRefused(t)
    BY <2>1, <2>2 DEF TypeInv, TypeOK, Goes, Act, Step, Order, Create, Insert, InsertRefused, Look,
       LockProduct, AfterLock, NotFound, SumInbound, Check, Refuse, Add, Onward, Commit,
       CommitUnacknowledged, Fail, AskCreate, AskOrder
  <2>4. pc'[t] # pc[t]
    BY <2>1, <2>2 DEF TypeInv, TypeOK, Goes, Act, Step, Order, Create, Insert, InsertRefused, Look,
       LockProduct, AfterLock, NotFound, SumInbound, Check, Refuse, Add, Onward, Commit,
       CommitUnacknowledged, Fail, AskCreate, AskOrder
  <2> QED BY <2>2, <2>3, <2>4 DEF InsertRefused, Goes, RequestWrites
<1>4. pc'[t] \notin {"insert", "commit"} /\ pc'[t] \notin OrderLines
  BY <1>2 DEF InTransaction, OrderLines
<1>5. t \in Requests => RequestWrites(t)'
  BY <1>1, <1>3, <1>4 DEF RequestWrites, OneMovement
<1>6. t \in Seeds => SeedWrites(t)'
  BY <1>1, <1>4 DEF SeedWrites, SeedSum
<1> QED BY <1>5, <1>6

LEMMA RequestDrafts ==
    ASSUME TypeInv, KeyParts, DraftParts, NEW r \in Requests, Act(r), Works(r)
    PROVE  RequestWrites(r)'
<1> USE DEF TypeInv, TypeOK, Goes
<1>1. r \in Txs /\ r \notin Seeds /\ RequestWrites(r) /\ Creates(r) /\ Known(r) /\ draft[r] \in Draft
  BY InventoryAssumption DEF Txs, DraftParts, KeyParts
\* A line before the commit that writes nothing.
<1>2. CASE /\ draft'[r] = draft[r] /\ pc[r] # "commit" /\ pc'[r] # "commit"
           /\ pc'[r] \in {"insert", "look"} => ask'[r].kind = "create"
  BY <1>1, <1>2 DEF RequestWrites, OneMovement
<1>3. CASE AskCreate(r) \/ AskOrder(r) \/ Look(r)
  BY <1>1, <1>2, <1>3 DEF AskCreate, AskOrder, Look
<1>4. CASE LockProduct(r) \/ SumInbound(r) \/ Check(r)
  BY <1>1, <1>2, <1>4 DEF LockProduct, AfterLock, SumInbound, Check
<1>5. CASE Insert(r)
  <2>1. /\ pc[r] = "insert" /\ pc'[r] = "commit" /\ ask' = ask /\ ask[r].product = r
        /\ draft'[r].rows = draft[r].rows \cup {r} /\ draft'[r].moved = draft[r].moved
        /\ draft'[r].inbound = draft[r].inbound /\ draft'[r].outbound = draft[r].outbound
    BY <1>1, <1>5 DEF Insert, Onward, Creates, Draft
  <2> QED BY <1>1, <2>1 DEF RequestWrites, OneMovement
<1>6. CASE Add(r)
  <2>1. /\ pc[r] = "add" /\ pc'[r] = "commit" /\ ask' = ask /\ rows' = rows
        /\ draft'[r] = Added(draft[r], r)
    BY <1>1, <1>6 DEF Add, Onward
  <2>2. ask[r].kind \in Directions /\ ask[r].product \in Ids /\ ask[r].quantity \in Nat
    BY <1>1, <2>1 DEF AskFits, OrderLines, Ask
  <2>3. draft'[r].rows = {} /\ draft'[r].moved = {}
    BY <1>1, <2>1 DEF Added, RequestWrites
  <2>4. ask[r].product \in rows
    BY <1>1, <2>1 DEF Known, Visible, RequestWrites
  <2>5. ASSUME NEW i \in Ids
        PROVE  /\ draft'[r].inbound[i] = OneMovement(r, i, "inbound")'
               /\ draft'[r].outbound[i] = OneMovement(r, i, "outbound")'
    <3>1. draft[r].inbound[i] = 0 /\ draft[r].outbound[i] = 0
      BY <1>1, <2>1 DEF RequestWrites, OneMovement
    <3>2. /\ draft'[r].inbound[i] = draft[r].inbound[i]
               + (IF i = ask[r].product /\ ask[r].kind = "inbound" THEN ask[r].quantity ELSE 0)
          /\ draft'[r].outbound[i] = draft[r].outbound[i]
               + (IF i = ask[r].product /\ ask[r].kind = "outbound" THEN ask[r].quantity ELSE 0)
      BY <1>1, <2>1, <2>2 DEF Added, Draft
    <3> QED BY <2>1, <2>2, <3>1, <3>2 DEF OneMovement
  <2>6. ask[r].kind # "create"
    BY <2>2 DEF Directions
  <2> QED BY <2>1, <2>3, <2>4, <2>5, <2>6 DEF RequestWrites
<1> QED BY <1>1, <1>3, <1>4, <1>5, <1>6 DEF Works

\* Where the seed's products are, its movements are.
LEMMA NothingMissing ==
    ASSUME SeedParts, rows \cap Items # {}
    PROVE  /\ Items \subseteq rows
           /\ \A i \in Items, d \in Directions : SeedQuantity(i, d) > 0 => <<i, d>> \in moved
BY DEF SeedParts, SeedIsWhole

LEMMA SeedDrafts ==
    ASSUME TypeInv, KeyParts, SeedParts, DraftParts, NEW s \in Seeds, Act(s), Works(s)
    PROVE  SeedWrites(s)'
<1> USE DEF TypeInv, TypeOK, Goes
<1>1. /\ s \in Txs /\ s \notin Requests /\ SeedWrites(s) /\ Creates(s) /\ Known(s)
      /\ draft[s] \in Draft /\ Items \subseteq Ids
      /\ \A i \in Items, d \in Directions : SeedQuantity(i, d) \in Nat
  BY InventoryAssumption DEF Txs, DraftParts, KeyParts, SeedQuantity, Ids
\* A line that writes nothing and is not the first of a movement.
<1>2. CASE /\ UNCHANGED <<rows, draft>>
           /\ pc'[s] \in OrderLines => pc[s] \in OrderLines /\ ask' = ask
  BY <1>1, <1>2 DEF SeedWrites, SeedSum, SeedQuantity
<1>3. CASE LockProduct(s) \/ SumInbound(s) \/ Check(s)
  <2>1. pc[s] \in OrderLines /\ UNCHANGED <<rows, draft, ask>>
    BY <1>3 DEF LockProduct, SumInbound, Check, OrderLines
  <2> QED BY <1>2, <2>1
<1>4. CASE SeedMissing(s) \/ SeedEnd(s)
  BY <1>1, <1>2, <1>4 DEF SeedMissing, SeedEnd, OrderLines
<1>5. CASE SeedExisting(s) /\ ~Close(s)
  <2>1. pc[s] = "next" /\ UNCHANGED <<pc, ask, draft, rows>>
    BY <1>5, OwnProduct
  <2> QED BY <1>2, <2>1 DEF OrderLines
<1>6. CASE Insert(s)
  <2>1. /\ ask[s].product \in Items /\ UNCHANGED rows /\ pc'[s] = "next"
        /\ ~KeyTaken(KeyOf(ask[s].product), Visible(s))
        /\ draft'[s].rows = draft[s].rows \cup {ask[s].product} /\ draft'[s].moved = draft[s].moved
        /\ draft'[s].inbound = draft[s].inbound /\ draft'[s].outbound = draft[s].outbound
    BY <1>1, <1>6 DEF Insert, Onward, Creates, Draft
  <2>2. ask[s].product \notin rows
    BY <2>1 DEF KeyTaken, Visible
  <2>3. rows \cap Items = {}
    BY <2>1, <2>2, NothingMissing
  <2> QED BY <1>1, <2>1, <2>3 DEF SeedWrites, SeedSum, OrderLines, SeedQuantity
<1>7. CASE Add(s)
  <2> DEFINE p == ask[s].product
             k == ask[s].kind
  <2>1. pc[s] = "add" /\ pc'[s] = "next" /\ rows' = rows /\ draft'[s] = Added(draft[s], s)
    BY <1>1, <1>7 DEF Add, Onward
  <2>2. p \in Items /\ k \in Directions /\ ask[s].quantity \in Nat
    BY <1>1, <2>1 DEF AskFits, OrderLines, Ask
  <2>3. rows \cap Items = {} /\ ask[s].quantity = SeedQuantity(p, k) /\ <<p, k>> \notin draft[s].moved
    BY <1>1, <2>1 DEF SeedWrites, OrderLines
  <2>4. p \in draft[s].rows
    BY <1>1, <2>1, <2>2, <2>3 DEF Known, Visible
  <2>5. draft'[s].rows = draft[s].rows /\ draft'[s].moved = draft[s].moved \cup {<<p, k>>}
    BY <1>1, <2>1 DEF Added, Draft
  <2>6. \A m \in draft'[s].moved : m[1] \in draft'[s].rows
    BY <1>1, <2>4, <2>5 DEF SeedWrites
  <2>7. ASSUME NEW i \in Ids
        PROVE  /\ draft'[s].inbound[i] = SeedSum(s, i, "inbound")'
               /\ draft'[s].outbound[i] = SeedSum(s, i, "outbound")'
    <3>1. /\ draft'[s].inbound[i] = draft[s].inbound[i]
               + (IF i = p /\ k = "inbound" THEN ask[s].quantity ELSE 0)
          /\ draft'[s].outbound[i] = draft[s].outbound[i]
               + (IF i = p /\ k = "outbound" THEN ask[s].quantity ELSE 0)
      BY <1>1, <2>1, <2>2 DEF Added, Draft
    <3>2. /\ draft[s].inbound[i] = SeedSum(s, i, "inbound")
          /\ draft[s].outbound[i] = SeedSum(s, i, "outbound")
      BY <1>1 DEF SeedWrites
    <3>3. ASSUME NEW d \in Directions
          PROVE  SeedSum(s, i, d)' = SeedSum(s, i, d) + (IF i = p /\ k = d THEN SeedQuantity(i, d) ELSE 0)
      <4>1. SeedQuantity(i, d)' = SeedQuantity(i, d)
        BY DEF SeedQuantity
      <4>2. CASE i = p /\ k = d
        <5>1. SeedSum(s, i, d) = 0
          BY <2>3, <4>2 DEF SeedSum
        <5>2. SeedSum(s, i, d)' = SeedQuantity(i, d)
          BY <2>2, <2>5, <4>1, <4>2 DEF SeedSum
        <5> QED BY <1>1, <2>2, <4>2, <5>1, <5>2
      <4>3. CASE ~(i = p /\ k = d)
        <5>1. <<i, d>> \in draft'[s].moved <=> <<i, d>> \in draft[s].moved
          BY <2>5, <4>3
        <5>2. SeedSum(s, i, d)' = SeedSum(s, i, d) /\ SeedSum(s, i, d) \in Nat
          BY <1>1, <4>1, <5>1 DEF SeedSum
        <5> QED BY <4>3, <5>2
      <4> QED BY <4>2, <4>3
    <3>4. /\ SeedSum(s, i, "inbound")' = SeedSum(s, i, "inbound")
               + (IF i = p /\ k = "inbound" THEN SeedQuantity(i, "inbound") ELSE 0)
          /\ SeedSum(s, i, "outbound")' = SeedSum(s, i, "outbound")
               + (IF i = p /\ k = "outbound" THEN SeedQuantity(i, "outbound") ELSE 0)
      BY <3>3 DEF Directions
    <3> QED BY <2>3, <3>1, <3>2, <3>4
  <2> QED BY <2>1, <2>3, <2>6, <2>7 DEF SeedWrites, OrderLines
<1>8. CASE SeedMovement(s)
  <2>1. PICK n \in {1, 2} : SeedMovement(s)!(n)
    BY <1>8 DEF SeedMovement
  <2> DEFINE d == IF n = 1 THEN "inbound" ELSE "outbound"
             i == Item(s, n)
  <2>2. i \in Items /\ d \in Directions /\ UNCHANGED <<rows, draft>> /\ pc[s] = "next"
    BY <2>1, InventoryAssumption DEF InLoop, Item, Items, Directions
  <2>3. CASE UNCHANGED <<pc, ask>>
    BY <1>2, <2>2, <2>3 DEF OrderLines
  <2>4. CASE ~UNCHANGED <<pc, ask>>
    <3>1. /\ SeedQuantity(i, d) # 0 /\ <<i, d>> \notin moved \cup draft[s].moved
          /\ pc' = [pc EXCEPT ![s] = "lock"]
          /\ ask' = [ask EXCEPT ![s] = [kind |-> d, key |-> NoKey, product |-> i,
                                        quantity |-> SeedQuantity(i, d)]]
      BY <2>1, <2>4
    <3>2. ask'[s].kind = d /\ ask'[s].product = i /\ ask'[s].quantity = SeedQuantity(i, d)
      BY <1>1, <3>1
    <3>3. SeedQuantity(i, d) > 0
      BY <1>1, <2>2, <3>1
    <3> HIDE DEF d, i
    <3>4. rows \cap Items = {}
      BY <2>2, <3>1, <3>3, NothingMissing
    <3>5. /\ ask'[s].quantity = SeedQuantity(ask'[s].product, ask'[s].kind)
          /\ <<ask'[s].product, ask'[s].kind>> \notin draft'[s].moved
      BY <2>2, <3>1, <3>2
    <3> QED BY <1>1, <2>2, <3>4, <3>5 DEF SeedWrites, SeedSum, SeedQuantity
  <2> QED BY <2>3, <2>4
<1> QED BY <1>1, <1>3, <1>4, <1>5, <1>6, <1>7, <1>8 DEF Works

\* A seed with anything to lose, or past its products, is in its turn.
LEMMA WritersInTurn ==
    ASSUME TypeInv, SeedParts, HoldParts, DraftParts, NEW s \in Seeds,
           draft[s].rows # {} \/ draft[s].moved # {} \/ pc[s] \in OrderLines
    PROVE  InTurn(s)
<1>1. s \in Txs /\ s \notin Requests /\ Holds(s) /\ SeedWrites(s) /\ Progress(s)
  BY InventoryAssumption DEF Txs, HoldParts, DraftParts, SeedParts
<1>2. CASE draft[s].rows # {} \/ draft[s].moved # {}
  <2>1. draft[s].rows # {}
    BY <1>1, <1>2 DEF SeedWrites
  <2> QED BY <1>1, <2>1 DEF Holds, Holder
<1>3. CASE pc[s] \in OrderLines
  <2>1. at[s] = ask[s].product + (IF ask[s].kind = "inbound" THEN NItems ELSE 2 * NItems)
    <3>1. pc[s] \in InTransaction
      BY <1>3 DEF OrderLines, InTransaction
    <3> QED BY <1>1, <1>3, <3>1 DEF Progress
  <2>2. ask[s].product \in Nat \ {0} /\ NItems \in Nat \ {0}
    BY <1>1, <1>3, InventoryAssumption DEF TypeInv, AskFits, Items
  <2>3. at[s] > 1
    BY <2>1, <2>2
  <2> QED BY <1>3, <2>3 DEF InTurn, OrderLines, InTransaction
<1> QED BY <1>2, <1>3

LEMMA OtherDrafts ==
    ASSUME WaitInv, DraftParts, NEW t \in Txs, Act(t), NEW u \in Txs, u # t
    PROVE  /\ u \in Requests => RequestWrites(u)'
           /\ u \in Seeds => SeedWrites(u)'
<1> USE DEF WaitInv
<1>1. /\ pc'[u] = pc[u] /\ ask'[u] = ask[u] /\ draft'[u] = draft[u] /\ rows \subseteq rows'
  BY Frame
<1>2. ASSUME u \in Requests PROVE RequestWrites(u)'
  <2>1. RequestWrites(u)
    BY <1>2 DEF DraftParts
  <2>2. \A i \in Ids, d \in Directions : OneMovement(u, i, d)' = OneMovement(u, i, d)
    BY <1>1 DEF OneMovement
  <2>3. ask'[u].product \in rows' \/ ask[u].product \notin rows
    BY <1>1
  <2> QED BY <1>1, <2>1, <2>2, <2>3 DEF RequestWrites, Directions
<1>3. ASSUME u \in Seeds PROVE SeedWrites(u)'
  <2>1. SeedWrites(u)
    BY <1>3 DEF DraftParts
  <2>2. ASSUME rows' \cap Items # {} PROVE draft[u].rows = {} /\ pc[u] \notin OrderLines
    <3>1. CASE rows \cap Items # {}
      BY <2>1, <3>1 DEF SeedWrites
    <3>2. CASE rows \cap Items = {}
      <4>1. rows' = rows \cup draft[t].rows /\ draft[t].rows \cap Items # {}
        BY <2>2, <3>2, NewRows
      <4>2. t \in Seeds
        BY <4>1, InventoryAssumption DEF KeyParts, Creates, Txs
      <4>3. InTurn(t)
        BY <4>1, <4>2, WritersInTurn
      <4>4. InTurn(u) => u = t
        BY <1>3, <4>2, <4>3, TurnsExclude DEF SeedsTakeTurns, InTurn
      <4> QED BY <1>3, <4>4, WritersInTurn
    <3> QED BY <3>1, <3>2
  <2> QED BY <1>1, <2>1, <2>2 DEF SeedWrites, SeedSum, SeedQuantity
<1> QED BY <1>2, <1>3

LEMMA NextDrafts == WaitInv /\ DraftParts /\ [Next]_vars => DraftParts'
<1> SUFFICES ASSUME WaitInv, DraftParts, [Next]_vars PROVE DraftParts'
  OBVIOUS
<1>1. CASE UNCHANGED vars
  BY <1>1 DEF vars, DraftParts, RequestWrites, SeedWrites, OneMovement, SeedSum, SeedQuantity
<1>2. ASSUME NEW t \in Txs, Act(t) PROVE DraftParts'
  <2> USE DEF WaitInv
  <2>1. ASSUME NEW m \in moved' PROVE m[1] \in rows'
    <3>1. rows \subseteq rows'
      BY <1>2, Frame
    <3>2. CASE m \in moved
      BY <3>1, <3>2 DEF DraftParts
    <3>3. CASE m \notin moved
      <4>1. Write(t)
        BY <1>2, <3>3 DEF Act, Step, Order, Create, Insert, InsertRefused, Look, LockProduct,
           NotFound, SumInbound, Check, Refuse, Add, Commit, CommitUnacknowledged, Fail, AskCreate,
           AskOrder, SeedMissing, SeedExisting, SeedMovement, SeedDiffers, SeedEnd, Rollback
      <4>2. m \in draft[t].moved /\ rows' = rows \cup draft[t].rows
        BY <3>3, <4>1 DEF Write
      <4> QED BY <4>2 DEF DraftParts, RequestWrites, SeedWrites, Txs
    <3> QED BY <3>2, <3>3
  <2>2. ASSUME NEW u \in Txs
        PROVE  (u \in Requests => RequestWrites(u)') /\ (u \in Seeds => SeedWrites(u)')
    <3>1. CASE u # t
      BY <1>2, <3>1, OtherDrafts
    <3>2. CASE u = t /\ Ends(t)
      BY <1>2, <3>2, EndDrafts
    <3>3. CASE u = t /\ Works(t) /\ t \in Seeds
      BY <1>2, <3>3, SeedDrafts, InventoryAssumption
    <3>4. CASE u = t /\ Works(t) /\ t \notin Seeds
      BY <1>2, <3>4, RequestDrafts DEF Txs
    <3> QED BY <1>2, <3>1, <3>2, <3>3, <3>4, EndsOrWorks
  <2> QED BY <2>1, <2>2 DEF DraftParts, Txs
<1> QED BY <1>1, <1>2, NextIsAct

-----------------------------------------------------------------------------
(* The ledger *)

\* The inductive invariant of the refinement.
LedgerInv == WaitInv /\ StockParts /\ DraftParts

LEMMA LedgerInductive == (Init => LedgerInv) /\ (LedgerInv /\ [Next]_vars => LedgerInv')
<1>1. Init => LedgerInv
  BY WaitInductive, InitStock, InitDrafts DEF LedgerInv
<1>2. LedgerInv /\ [Next]_vars => WaitInv' /\ StockParts' /\ DraftParts'
  BY WaitInductive, NextStock, NextDrafts DEF LedgerInv, WaitInv
<1> QED BY <1>1, <1>2 DEF LedgerInv

LEMMA SameNames == Ledger!Items = Items /\ Ledger!Ids = Ids /\ Ledger!Directions = Directions
BY DEF Ledger!Items, Items, Ledger!Ids, Ids, Ledger!Directions, Directions

LEMMA SameKeys == \A i \in Ids : Ledger!Key(i) = KeyOf(i)
BY SameNames DEF Ledger!Key, KeyOf, Ids

\* A step of a transaction that stays unanswered and commits nothing.
LEMMA Unnoticed ==
    ASSUME TypeInv, NEW t \in Txs, Act(t), Unanswered(t), Unanswered(t)',
           \A r \in Requests : ask'[r] = ask[r], UNCHANGED <<rows, inbound, outbound>>
    PROVE  UNCHANGED Ledger!vars
<1>1. [r \in Requests |-> ask[r]]' = [r \in Requests |-> ask[r]]
  OBVIOUS
<1>2. ASSUME NEW u \in Txs
      PROVE  (IF Unanswered(u) THEN "asked" ELSE pc[u])' = IF Unanswered(u) THEN "asked" ELSE pc[u]
  BY <1>2, Frame DEF Unanswered
<1>3. [u \in Txs |-> IF Unanswered(u) THEN "asked" ELSE pc[u]]'
        = [u \in Txs |-> IF Unanswered(u) THEN "asked" ELSE pc[u]]
  BY <1>2
<1> QED BY <1>1, <1>3 DEF Ledger!vars

\* A transaction gets its answer.
LEMMA Answered ==
    ASSUME TypeInv, NEW t \in Txs, Act(t), Unanswered(t),
           NEW a \in Answers, pc'[t] = a, \A r \in Requests : ask'[r] = ask[r]
    PROVE  Ledger!Answer(t, a)
<1> DEFINE state == [u \in Txs |-> IF Unanswered(u) THEN "asked" ELSE pc[u]]
<1>1. [r \in Requests |-> ask[r]]' = [r \in Requests |-> ask[r]]
  OBVIOUS
<1>2. state[t] = "asked"
  OBVIOUS
<1>3. ASSUME NEW u \in Txs
      PROVE  (IF Unanswered(u) THEN "asked" ELSE pc[u])' = [state EXCEPT ![t] = a][u]
  <2>1. CASE u = t
    <3>1. ~Unanswered(t)'
      BY DEF Unanswered, Answers, InTransaction
    <3> QED BY <2>1, <3>1
  <2>2. CASE u # t
    <3>1. pc'[u] = pc[u]
      BY <2>2, Frame
    <3> QED BY <2>2, <3>1 DEF Unanswered
  <2> QED BY <2>1, <2>2
<1>4. state' = [state EXCEPT ![t] = a]
  BY <1>3
<1> QED BY <1>1, <1>2, <1>4 DEF Ledger!Answer

LEMMA AskStep ==
    ASSUME TypeInv, NEW r \in Requests, AskCreate(r) \/ AskOrder(r)
    PROVE  Ledger!Ask(r)
<1> USE DEF TypeInv, TypeOK, Goes
<1> DEFINE asked == [q \in Requests |-> ask[q]]
           state == [u \in Txs |-> IF Unanswered(u) THEN "asked" ELSE pc[u]]
<1>1. /\ r \in Txs /\ pc[r] = "idle" /\ ~Unanswered(r)
      /\ UNCHANGED <<rows, inbound, outbound>>
      /\ \A u \in Txs : u # r => pc'[u] = pc[u] /\ ask'[u] = ask[u]
  BY DEF AskCreate, AskOrder, Txs, Unanswered, InTransaction
<1>2. Unanswered(r)'
  BY <1>1 DEF AskCreate, AskOrder, Unanswered, InTransaction
<1>3. state[r] = "idle"
  BY <1>1
<1>4. state' = [state EXCEPT ![r] = "asked"]
  <2>1. ASSUME NEW u \in Txs
        PROVE  (IF Unanswered(u) THEN "asked" ELSE pc[u])' = [state EXCEPT ![r] = "asked"][u]
    BY <1>1, <1>2 DEF Unanswered
  <2> QED BY <2>1
<1>5. ask'[r] \in Ledger!Creation(r) \cup Ledger!Movement
  <2>1. CASE AskCreate(r)
    <3>1. PICK k \in Keys : ask' = [ask EXCEPT ![r] = [kind |-> "create", key |-> k, product |-> r,
                                                       quantity |-> 0]]
      BY <2>1 DEF AskCreate
    <3>2. ask'[r] = [kind |-> "create", key |-> k, product |-> r, quantity |-> 0]
      BY <1>1, <3>1
    <3> QED BY <3>2 DEF Ledger!Creation
  <2>2. CASE AskOrder(r)
    <3>1. PICK d \in Directions, i \in Ids, q \in Quantities :
            ask' = [ask EXCEPT ![r] = [kind |-> d, key |-> NoKey, product |-> i, quantity |-> q]]
      BY <2>2 DEF AskOrder
    <3>2. ask'[r] = [kind |-> d, key |-> NoKey, product |-> i, quantity |-> q]
      BY <1>1, <3>1
    <3> QED BY <3>2, SameNames DEF Ledger!Movement
  <2> QED BY <2>1, <2>2
<1>6. asked' = [asked EXCEPT ![r] = ask'[r]]
  <2>1. ASSUME NEW q \in Requests PROVE ask'[q] = [asked EXCEPT ![r] = ask'[r]][q]
    BY <1>1 DEF Txs
  <2> QED BY <2>1
<1> QED BY <1>1, <1>3, <1>4, <1>5, <1>6 DEF Ledger!Ask

\* The lines of a transaction that nobody sees.
LEMMA LineStep ==
    ASSUME TypeInv, NEW t \in Txs, Act(t), Works(t),
           ~(t \in Requests /\ (AskCreate(t) \/ AskOrder(t) \/ Look(t)))
    PROVE  UNCHANGED Ledger!vars
<1> USE DEF TypeInv, TypeOK, Goes
<1>1. t \in Seeds => \A r \in Requests : r # t /\ r \in Txs /\ ask'[r] = ask[r]
  BY Frame, InventoryAssumption DEF Txs
<1>2. CASE LockProduct(t) \/ SumInbound(t) \/ Check(t) \/ Add(t) \/ Insert(t)
  BY <1>2, Unnoticed DEF LockProduct, AfterLock, SumInbound, Check, Add, Insert, Onward, Unanswered,
     InTransaction
<1>3. CASE t \in Seeds /\ (SeedMissing(t) \/ SeedEnd(t))
  <2>1. /\ pc[t] = "next" /\ pc'[t] \in {"insert", "commit"}
        /\ UNCHANGED <<rows, inbound, outbound>>
    BY <1>3 DEF SeedMissing, SeedEnd, InLoop
  <2> QED BY <1>1, <1>3, <2>1, Unnoticed DEF Unanswered, InTransaction
<1>4. CASE t \in Seeds /\ SeedMovement(t)
  <2>1. pc[t] = "next" /\ pc'[t] \in {"next", "lock"} /\ UNCHANGED <<rows, inbound, outbound>>
    BY <1>4 DEF SeedMovement, InLoop
  <2> QED BY <1>1, <1>4, <2>1, Unnoticed DEF Unanswered, InTransaction
<1>5. CASE t \in Seeds /\ SeedExisting(t) /\ ~Close(t)
  <2>1. /\ pc[t] = "next" /\ UNCHANGED <<pc, ask, rows>>
    BY <1>5, OwnProduct
  <2>2. UNCHANGED <<inbound, outbound>>
    BY <1>5 DEF SeedExisting, Rollback
  <2> QED BY <2>1, <2>2, Unnoticed DEF Unanswered, InTransaction
<1> QED BY <1>2, <1>3, <1>4, <1>5 DEF Works

\* A transaction ends without a trace: its answer is true of what is committed.
LEMMA LookStep ==
    ASSUME LedgerInv, NEW r \in Requests, Look(r)
    PROVE  Ledger!NoEffect /\ (Ledger!Exists(r) \/ Ledger!Fail(r))
<1> USE DEF LedgerInv, WaitInv
<1>1. r \in Txs /\ Act(r) /\ RequestWrites(r) /\ Unanswered(r) /\ pc[r] = "look"
  BY DEF Txs, Act, Step, DraftParts, Look, Goes, Unanswered
<1>2. Ledger!NoEffect
  BY DEF Look, Ledger!NoEffect
<1>3. CASE KeyTaken(ask[r].key, rows)
  <2>1. pc'[r] = "exists" /\ ask' = ask
    BY <1>1, <1>3 DEF Look, Goes, TypeInv, TypeOK
  <2>2. Ledger!Answer(r, "exists")
    BY <1>1, <2>1, Answered DEF Answers
  <2>3. PICK i \in rows : KeyOf(i) = ask[r].key
    BY <1>3 DEF KeyTaken
  <2>4. Ledger!Has(ask[r].key)
    BY <2>3, SameKeys DEF Ledger!Has, TypeInv, TypeOK
  <2>5. ask[r].kind = "create"
    BY <1>1 DEF RequestWrites
  <2> QED BY <1>2, <2>2, <2>4, <2>5 DEF Ledger!Exists
<1>4. CASE ~KeyTaken(ask[r].key, rows)
  <2>1. pc'[r] = "error" /\ ask' = ask
    BY <1>1, <1>4 DEF Look, Goes, TypeInv, TypeOK
  <2> QED BY <1>1, <1>2, <2>1, Answered DEF Answers, Ledger!Fail
<1> QED BY <1>3, <1>4

LEMMA FailStep ==
    ASSUME TypeInv, NEW t \in Txs, Fail(t)
    PROVE  Ledger!NoEffect /\ Ledger!Fail(t)
<1>1. Act(t) /\ Unanswered(t) /\ pc'[t] = "error" /\ ask' = ask /\ UNCHANGED <<rows, inbound, outbound>>
  BY DEF Act, Fail, Rollback, Unanswered, TypeInv, TypeOK
<1> QED BY <1>1, Answered DEF Answers, Ledger!NoEffect, Ledger!Fail

LEMMA NotFoundStep ==
    ASSUME LedgerInv, NEW t \in Txs, NotFound(t)
    PROVE  t \in Requests /\ Ledger!NoEffect /\ Ledger!NotFound(t)
<1> USE DEF LedgerInv, WaitInv
<1>1. /\ Act(t) /\ Unanswered(t) /\ pc[t] = "lock" /\ pc'[t] = "not_found" /\ ask' = ask
      /\ UNCHANGED <<rows, inbound, outbound>> /\ ask[t].product \notin Visible(t)
  BY DEF Act, Step, Order, NotFound, Goes, Rollback, Unanswered, InTransaction, TypeInv, TypeOK
<1>2. AskFits(t) /\ ask[t].kind \in Directions
  BY <1>1 DEF TypeInv, AskFits, OrderLines
<1>3. CASE t \in Seeds
  <2>1. ask[t].product \in Items /\ Progress(t)
    BY <1>1, <1>2, <1>3 DEF AskFits, OrderLines, SeedParts
  <2>2. at[t] = ask[t].product + (IF ask[t].kind = "inbound" THEN NItems ELSE 2 * NItems)
    BY <1>1, <2>1 DEF Progress, OrderLines, InTransaction
  <2>3. ask[t].product \in Nat /\ NItems \in Nat \ {0}
    BY <2>1, InventoryAssumption DEF Items
  <2>4. at[t] > ask[t].product
    <3> HIDE DEF LedgerInv, WaitInv
    <3> QED BY <2>2, <2>3
  <2>5. ask[t].product \in Visible(t)
    BY <1>1, <2>1, <2>4 DEF Progress, InTransaction
  <2> QED BY <1>1, <2>5
<1>4. CASE t \in Requests
  <2>1. ask[t].product \notin rows
    BY <1>1 DEF Visible
  <2>2. Ledger!Answer(t, "not_found")
    BY <1>1, Answered DEF Answers
  <2> QED BY <1>1, <1>2, <1>4, <2>1, <2>2, SameNames DEF Ledger!NotFound, Ledger!NoEffect
<1> QED BY <1>3, <1>4 DEF Txs

LEMMA InsertRefusedStep ==
    ASSUME LedgerInv, NEW t \in Txs, InsertRefused(t)
    PROVE  \/ UNCHANGED Ledger!vars
           \/ t \in Seeds /\ Ledger!NoEffect /\ Ledger!RefuseSeed(t)
<1> USE DEF LedgerInv, WaitInv
<1>1. /\ Act(t) /\ Unanswered(t) /\ pc[t] = "insert" /\ ask' = ask
      /\ UNCHANGED <<rows, inbound, outbound>> /\ KeyTaken(KeyOf(ask[t].product), rows)
      /\ pc'[t] = IF t \in Requests THEN "look" ELSE "refused"
  BY DEF Act, Step, Create, InsertRefused, Goes, Rollback, Unanswered, InTransaction, TypeInv, TypeOK
<1>2. CASE t \in Requests
  BY <1>1, <1>2, Unnoticed DEF Unanswered
<1>3. CASE t \notin Requests
  <2>1. t \in Seeds /\ ask[t].product \in Items
    BY <1>1, <1>3 DEF Txs, KeyParts, Creates
  <2>2. Ledger!Answer(t, "refused")
    BY <1>1, <1>3, Answered DEF Answers
  <2>3. PICK j \in rows : KeyOf(j) = KeyOf(ask[t].product)
    BY <1>1 DEF KeyTaken
  <2>4. Ledger!Key(ask[t].product) = Ledger!Key(j)
    BY <2>1, <2>3, SameKeys DEF Ids, TypeInv, TypeOK
  <2> QED BY <1>1, <2>1, <2>2, <2>3, <2>4, SameNames DEF Ledger!RefuseSeed, Ledger!NoEffect
<1> QED BY <1>2, <1>3

\* The seed finds a key of its own under another product.
LEMMA SeedExistingStep ==
    ASSUME LedgerInv, NEW s \in Seeds, SeedExisting(s), Close(s)
    PROVE  Ledger!NoEffect /\ Ledger!RefuseSeed(s)
<1> USE DEF LedgerInv, WaitInv
<1>1. s \in Txs /\ Act(s) /\ s \notin Requests /\ Creates(s)
  BY InventoryAssumption DEF Txs, Act, Step, KeyParts
<1>2. PICK p \in Owners(s, Item(s, 0)) : SeedExisting(s)!2!(p)
  BY DEF SeedExisting
<1>3. Item(s, 0) \in Items /\ pc[s] = "next" /\ at[s] \in Nat \ {0}
  BY InventoryAssumption DEF SeedExisting, InLoop, Item, Items, TypeInv, TypeOK
<1>4. p # Item(s, 0)
  <2>1. SUFFICES ASSUME p = Item(s, 0) PROVE FALSE
    OBVIOUS
  <2>2. at'[s] = at[s] + 1 /\ at'[s] = 1
    BY <1>2, <2>1 DEF SeedGoesOn, Close
  <2> QED BY <1>3, <2>2
<1>5. pc'[s] = "refused" /\ ask' = ask /\ UNCHANGED <<rows, inbound, outbound>>
  BY <1>1, <1>2, <1>4 DEF SeedExisting, Rollback, TypeInv, TypeOK
<1>6. Ledger!Answer(s, "refused")
  BY <1>1, <1>3, <1>5, Answered DEF Answers, Unanswered, InTransaction
<1>7. p \in rows \cup (Items \ {Item(s, 0)}) /\ KeyOf(p) = KeyOf(Item(s, 0))
  BY <1>1, <1>3, <1>4 DEF Owners, Visible, Creates, KeyOf
<1>8. Ledger!Key(Item(s, 0)) = Ledger!Key(p)
  BY <1>3, <1>7, SameKeys DEF Ids, TypeInv, TypeOK
<1> QED BY <1>3, <1>5, <1>6, <1>7, <1>8, SameNames DEF Ledger!RefuseSeed, Ledger!NoEffect

\* What a seed in its movements finds of its own products, and what it needs.
LEMMA SeedBalance ==
    ASSUME LedgerInv, NEW s \in Seeds, pc[s] = "check"
    PROVE  ask[s].quantity <= Stock(s)
<1> USE DEF LedgerInv, WaitInv
<1> DEFINE p == ask[s].product
<1>1. s \in Txs /\ SeedWrites(s) /\ Progress(s) /\ pc[s] \in OrderLines /\ pc[s] \in InTransaction
  BY DEF Txs, DraftParts, SeedParts, OrderLines, InTransaction
<1>2. p \in Items /\ p \in Ids /\ ask[s].kind = "outbound"
  BY <1>1 DEF TypeInv, AskFits, Ids
<1>3. TargetStock[p] \in Nat /\ OutboundQuantity[p] \in Nat
  BY <1>2, InventoryAssumption
<1>4. ask[s].quantity = OutboundQuantity[p] /\ <<p, "outbound">> \notin draft[s].moved
  BY <1>1, <1>2 DEF SeedWrites, SeedQuantity
<1>5. rows \cap Items = {} /\ p \notin rows
  BY <1>1, <1>2 DEF SeedWrites
<1>6. inbound[p] = 0 /\ outbound[p] = 0
  <2>1. inbound[p] = 0
    BY <1>2, <1>5 DEF KeyParts, OneProductPerKey
  <2>2. outbound[p] <= inbound[p] /\ outbound[p] \in Nat
    BY <1>2 DEF StockParts, NeverOversold, TypeInv, TypeOK
  <2> HIDE DEF LedgerInv, WaitInv
  <2> QED BY <2>1, <2>2
<1>7. draft[s].outbound[p] = 0
  BY <1>1, <1>2, <1>4 DEF SeedWrites, SeedSum
<1>8. SeedQuantity(p, "inbound") > 0 => draft[s].inbound[p] = SeedQuantity(p, "inbound")
  <2>1. at[s] = p + 2 * NItems
    BY <1>1, <1>2 DEF Progress
  <2>2. at[s] > NItems + p
    <3>1. p \in Nat /\ NItems \in Nat \ {0}
      BY <1>2, InventoryAssumption DEF Items
    <3> HIDE DEF p, LedgerInv, WaitInv
    <3> QED BY <2>1, <3>1
  <2>3. SeedQuantity(p, "inbound") > 0 => Sees(s, <<p, "inbound">>)
    BY <1>1, <1>2, <2>2 DEF Progress
  <2>4. <<p, "inbound">> \notin moved
    BY <1>5 DEF DraftParts
  <2> QED BY <1>1, <1>2, <2>3, <2>4 DEF SeedWrites, SeedSum, Sees
<1>9. draft[s].inbound[p] >= OutboundQuantity[p] /\ draft[s].inbound[p] \in Nat
  <2>1. SeedQuantity(p, "inbound") = TargetStock[p] + OutboundQuantity[p]
    BY DEF SeedQuantity
  <2>2. draft[s].inbound[p] \in Nat
    BY <1>1, <1>2 DEF TypeInv, TypeOK, Draft
  <2> HIDE DEF p, LedgerInv, WaitInv
  <2> QED BY <1>3, <1>8, <2>1, <2>2
<1>10. seen[s] = inbound[p] + draft[s].inbound[p]
  BY <1>1 DEF StockParts, Reads
<1>11. Stock(s) = draft[s].inbound[p]
  <2>1. Stock(s) = seen[s] - (outbound[p] + draft[s].outbound[p])
    BY DEF Stock
  <2> HIDE DEF p, LedgerInv, WaitInv
  <2> QED BY <1>6, <1>7, <1>9, <1>10, <2>1
<1> QED BY <1>4, <1>9, <1>11

LEMMA RefuseStep ==
    ASSUME LedgerInv, NEW t \in Txs, Refuse(t)
    PROVE  t \in Requests /\ Ledger!NoEffect /\ Ledger!RefuseOrder(t)
<1> USE DEF LedgerInv, WaitInv
<1>1. /\ Act(t) /\ Unanswered(t) /\ pc[t] = "check" /\ pc'[t] = "refused" /\ ask' = ask
      /\ UNCHANGED <<rows, inbound, outbound>> /\ ask[t].quantity > Stock(t)
  BY DEF Act, Step, Order, Refuse, Goes, Rollback, Unanswered, InTransaction, TypeInv, TypeOK
<1>2. CASE t \in Seeds
  <2>1. ask[t].quantity <= Stock(t)
    BY <1>1, <1>2, SeedBalance
  <2>2. ask[t].quantity \in Nat /\ Stock(t) \in Int
    BY DEF Stock, Ask, Draft, TypeInv, TypeOK
  <2> HIDE DEF LedgerInv, WaitInv
  <2> QED BY <1>1, <2>1, <2>2
<1>3. CASE t \in Requests
  <2> DEFINE p == ask[t].product
  <2>1. p \in Ids /\ RequestWrites(t) /\ ask[t].kind = "outbound"
    BY <1>1, <1>3 DEF DraftParts, TypeInv, TypeOK, AskFits, Ask
  <2>2. p \in rows
    BY <1>1, <2>1 DEF KeyParts, Known, Visible, RequestWrites
  <2>3. draft[t].inbound[p] = 0 /\ draft[t].outbound[p] = 0
    BY <1>1, <2>1 DEF RequestWrites, OneMovement
  <2>4. seen[t] = inbound[p] + draft[t].inbound[p]
    BY <1>1 DEF StockParts, Reads
  <2>5. inbound[p] \in Nat /\ outbound[p] \in Nat
    BY <2>1 DEF TypeInv, TypeOK
  <2>6. Stock(t) = inbound[p] - outbound[p]
    <3>1. Stock(t) = seen[t] - (outbound[p] + draft[t].outbound[p])
      BY DEF Stock
    <3> HIDE DEF p, LedgerInv, WaitInv
    <3> QED BY <2>3, <2>4, <2>5, <3>1
  <2>7. Ledger!Answer(t, "refused")
    BY <1>1, Answered DEF Answers
  <2>8. ask[t].quantity > Ledger!Stock(p)
    BY <1>1, <2>6 DEF Ledger!Stock
  <2> QED BY <1>1, <1>3, <2>1, <2>2, <2>7, <2>8 DEF Ledger!RefuseOrder, Ledger!NoEffect
<1> QED BY <1>2, <1>3 DEF Txs

\* The commit: where a request or a seed takes effect.
Commits(t) == Commit(t) \/ CommitUnacknowledged(t)

LEMMA CommitAnswers ==
    ASSUME TypeInv, NEW t \in Txs, Commits(t)
    PROVE  /\ Ledger!Done(t) /\ pc[t] = "commit"
           /\ rows' = rows \cup draft[t].rows
           /\ inbound' = [i \in Ids |-> inbound[i] + draft[t].inbound[i]]
           /\ outbound' = [i \in Ids |-> outbound[i] + draft[t].outbound[i]]
<1>1. Act(t) /\ Unanswered(t) /\ pc[t] = "commit" /\ pc'[t] \in {"created", "error"} /\ ask' = ask
  BY DEF Commits, Act, Step, Commit, CommitUnacknowledged, Goes, Unanswered, InTransaction, TypeInv,
     TypeOK
<1>2. Ledger!Answer(t, "created") \/ Ledger!Answer(t, "error")
  BY <1>1, Answered DEF Answers
<1>3. Write(t)
  BY DEF Commits, Commit, CommitUnacknowledged
<1> QED BY <1>1, <1>2, <1>3 DEF Ledger!Done, Write

LEMMA CommitOfRequest ==
    ASSUME LedgerInv, NEW r \in Requests, Commits(r)
    PROVE  Ledger!Create(r) \/ Ledger!Move(r)
<1> USE DEF LedgerInv, WaitInv
<1>1. /\ r \in Txs /\ RequestWrites(r) /\ Ledger!Done(r) /\ pc[r] = "commit"
      /\ rows' = rows \cup draft[r].rows
      /\ inbound' = [i \in Ids |-> inbound[i] + draft[r].inbound[i]]
      /\ outbound' = [i \in Ids |-> outbound[i] + draft[r].outbound[i]]
  BY CommitAnswers DEF Txs, DraftParts
<1>2. /\ inbound \in [Ids -> Nat] /\ outbound \in [Ids -> Nat]
      /\ ask[r].kind \in Directions \cup {"create"} /\ ask[r].product \in Ids /\ ask[r].quantity \in Nat
  BY <1>1 DEF TypeInv, TypeOK, Ask
<1>3. CASE ask[r].kind = "create"
  <2>1. draft[r].rows = {r}
    BY <1>1, <1>3 DEF RequestWrites
  <2>2. \A i \in Ids : draft[r].inbound[i] = 0 /\ draft[r].outbound[i] = 0
    BY <1>1, <1>3 DEF RequestWrites, OneMovement
  <2>3. inbound' = inbound /\ outbound' = outbound
    BY <1>1, <1>2, <2>2
  <2>4. \A i \in rows : KeyOf(i) # ask[r].key
    <3>1. SUFFICES ASSUME NEW i \in rows, KeyOf(i) = ask[r].key PROVE FALSE
      OBVIOUS
    <3>2. KeyOf(r) = ask[r].key
      BY InventoryAssumption DEF KeyOf
    <3>3. i \in Visible(r) /\ r \in Visible(r)
      BY <2>1 DEF Visible
    <3>4. i = r
      BY <1>1, <3>1, <3>2, <3>3 DEF KeyParts, UniqueKeys
    <3> QED BY <1>1, <2>1, <3>4 DEF HoldParts, Apart
  <2>5. ~Ledger!Has(ask[r].key)
    BY <2>4, SameKeys DEF Ledger!Has, TypeInv, TypeOK
  <2> QED BY <1>1, <1>3, <2>1, <2>3, <2>5 DEF Ledger!Create
<1>4. CASE ask[r].kind # "create"
  <2> DEFINE p == ask[r].product
             q == ask[r].quantity
  <2>1. ask[r].kind \in Directions
    BY <1>2, <1>4
  <2>2. draft[r].rows = {} /\ p \in rows
    BY <1>1, <1>4 DEF RequestWrites
  <2>3. \A i \in Ids : /\ draft[r].inbound[i] = IF ask[r].kind = "inbound" /\ p = i THEN q ELSE 0
                       /\ draft[r].outbound[i] = IF ask[r].kind = "outbound" /\ p = i THEN q ELSE 0
    BY <1>1 DEF RequestWrites, OneMovement
  <2>4. rows' = rows
    BY <1>1, <2>2
  <2>5. CASE ask[r].kind = "inbound"
    <3>1. inbound' = [inbound EXCEPT ![p] = @ + q] /\ outbound' = outbound
      <4>1. ASSUME NEW i \in Ids
            PROVE  /\ inbound[i] + draft[r].inbound[i] = [inbound EXCEPT ![p] = @ + q][i]
                   /\ outbound[i] + draft[r].outbound[i] = outbound[i]
        <5>1. /\ draft[r].inbound[i] = IF p = i THEN q ELSE 0
              /\ draft[r].outbound[i] = 0
          BY <2>3, <2>5
        <5>2. inbound[i] \in Nat /\ outbound[i] \in Nat
          BY <1>2
        <5> HIDE DEF q, LedgerInv, WaitInv
        <5> QED BY <1>2, <5>1, <5>2
      <4>2. inbound' = [i \in Ids |-> [inbound EXCEPT ![p] = @ + q][i]] /\ outbound' = [i \in Ids |-> outbound[i]]
        BY <1>1, <4>1
      <4> HIDE DEF p, q, LedgerInv, WaitInv
      <4> QED BY <1>2, <4>2
    <3> QED BY <1>1, <2>2, <2>4, <2>5, <3>1 DEF Ledger!Move
  <2>6. CASE ask[r].kind = "outbound"
    <3>1. outbound' = [outbound EXCEPT ![p] = @ + q] /\ inbound' = inbound
      <4>1. ASSUME NEW i \in Ids
            PROVE  /\ outbound[i] + draft[r].outbound[i] = [outbound EXCEPT ![p] = @ + q][i]
                   /\ inbound[i] + draft[r].inbound[i] = inbound[i]
        <5>1. /\ draft[r].outbound[i] = IF p = i THEN q ELSE 0
              /\ draft[r].inbound[i] = 0
          BY <2>3, <2>6
        <5>2. outbound[i] \in Nat /\ inbound[i] \in Nat
          BY <1>2
        <5> HIDE DEF q, LedgerInv, WaitInv
        <5> QED BY <1>2, <5>1, <5>2
      <4>2. outbound' = [i \in Ids |-> [outbound EXCEPT ![p] = @ + q][i]] /\ inbound' = [i \in Ids |-> inbound[i]]
        BY <1>1, <4>1
      <4> HIDE DEF p, q, LedgerInv, WaitInv
      <4> QED BY <1>2, <4>2
    <3>2. outbound[p] + draft[r].outbound[p] <= inbound[p] + draft[r].inbound[p]
      BY <1>1, <1>2 DEF StockParts, Balanced
    <3>3. draft[r].outbound[p] = q /\ draft[r].inbound[p] = 0
      BY <1>2, <2>3, <2>6
    <3>4. outbound[p] \in Nat /\ inbound[p] \in Nat /\ q \in Nat
      BY <1>2
    <3>5. q <= inbound[p] - outbound[p]
      <4> HIDE DEF p, q, LedgerInv, WaitInv
      <4> QED BY <3>2, <3>3, <3>4
    <3>6. q <= Ledger!Stock(p)
      BY <3>5 DEF Ledger!Stock
    <3> QED BY <1>1, <2>2, <2>4, <2>6, <3>1, <3>6 DEF Ledger!Move
  <2> QED BY <2>1, <2>5, <2>6 DEF Directions
<1> QED BY <1>3, <1>4

LEMMA CommitOfSeed ==
    ASSUME LedgerInv, NEW s \in Seeds, Commits(s)
    PROVE  Ledger!Seed(s) \/ Ledger!SeedAgain(s)
<1> USE DEF LedgerInv, WaitInv
<1>1. /\ s \in Txs /\ SeedWrites(s) /\ Progress(s) /\ Creates(s) /\ Ledger!Done(s) /\ pc[s] = "commit"
      /\ s \notin Requests
      /\ rows' = rows \cup draft[s].rows
      /\ inbound' = [i \in Ids |-> inbound[i] + draft[s].inbound[i]]
      /\ outbound' = [i \in Ids |-> outbound[i] + draft[s].outbound[i]]
  BY CommitAnswers, InventoryAssumption DEF Txs, DraftParts, SeedParts, KeyParts
<1>2. inbound \in [Ids -> Nat] /\ outbound \in [Ids -> Nat] /\ rows \subseteq Ids /\ Items \subseteq Ids
  BY DEF TypeInv, TypeOK, Ids
<1>3. at[s] > 3 * NItems /\ at[s] \in Nat /\ NItems \in Nat
  BY <1>1, InventoryAssumption DEF Progress, InTransaction, TypeInv, TypeOK
<1>4. ASSUME NEW i \in Items
      PROVE  /\ i \in Visible(s)
             /\ SeedQuantity(i, "inbound") > 0 => Sees(s, <<i, "inbound">>)
             /\ SeedQuantity(i, "outbound") > 0 => Sees(s, <<i, "outbound">>)
  <2>1. at[s] > i /\ at[s] > NItems + i /\ at[s] > 2 * NItems + i
    <3>1. i \in 1 .. NItems
      BY DEF Items
    <3> HIDE DEF LedgerInv, WaitInv
    <3> QED BY <1>3, <3>1
  <2> QED BY <1>1, <2>1 DEF Progress, InTransaction
<1>5. CASE rows \cap Items # {}
  <2>1. Items \subseteq rows /\ draft[s].rows = {}
    BY <1>1, <1>5, NothingMissing DEF SeedWrites
  <2>2. draft[s].moved = {}
    BY <1>1, <2>1 DEF SeedWrites
  <2>3. \A i \in Ids : draft[s].inbound[i] = 0 /\ draft[s].outbound[i] = 0
    BY <1>1, <2>2 DEF SeedWrites, SeedSum
  <2>4. UNCHANGED <<rows, inbound, outbound>>
    BY <1>1, <1>2, <2>1, <2>3
  <2> QED BY <1>1, <2>1, <2>4, SameNames DEF Ledger!SeedAgain
<1>6. CASE rows \cap Items = {}
  <2>1. draft[s].rows = Items
    BY <1>1, <1>4, <1>6 DEF Creates, Visible
  <2>2. Visible(s) = rows \cup Items
    BY <2>1 DEF Visible
  <2>3. \A i \in Items, j \in rows \cup Items : Ledger!Key(i) = Ledger!Key(j) => i = j
    BY <1>1, <1>2, <2>2, SameKeys DEF KeyParts, UniqueKeys
  <2>4. ASSUME NEW i \in Items
        PROVE  /\ inbound[i] + draft[s].inbound[i] = TargetStock[i] + OutboundQuantity[i]
               /\ outbound[i] + draft[s].outbound[i] = OutboundQuantity[i]
    <3>1. inbound[i] = 0 /\ outbound[i] = 0
      <4>1. inbound[i] = 0
        BY <1>2, <1>6 DEF KeyParts, OneProductPerKey
      <4>2. outbound[i] <= inbound[i] /\ outbound[i] \in Nat
        BY <1>2 DEF StockParts, NeverOversold
      <4> HIDE DEF LedgerInv, WaitInv
      <4> QED BY <4>1, <4>2
    <3>2. <<i, "inbound">> \notin moved /\ <<i, "outbound">> \notin moved
      BY <1>6 DEF DraftParts
    <3>3. TargetStock[i] \in Nat /\ OutboundQuantity[i] \in Nat
      BY InventoryAssumption
    <3>4. /\ SeedQuantity(i, "inbound") = TargetStock[i] + OutboundQuantity[i]
          /\ SeedQuantity(i, "outbound") = OutboundQuantity[i]
      BY DEF SeedQuantity
    <3>5. /\ draft[s].inbound[i] = SeedSum(s, i, "inbound")
          /\ draft[s].outbound[i] = SeedSum(s, i, "outbound")
      BY <1>1, <1>2 DEF SeedWrites
    <3>6. /\ SeedSum(s, i, "inbound") = SeedQuantity(i, "inbound") \/ SeedQuantity(i, "inbound") = 0
          /\ SeedSum(s, i, "outbound") = SeedQuantity(i, "outbound") \/ SeedQuantity(i, "outbound") = 0
      BY <1>4, <3>2, <3>3, <3>4 DEF SeedSum, Sees
    <3>7. /\ SeedSum(s, i, "inbound") \in {0, SeedQuantity(i, "inbound")}
          /\ SeedSum(s, i, "outbound") \in {0, SeedQuantity(i, "outbound")}
      BY DEF SeedSum
    <3> HIDE DEF LedgerInv, WaitInv
    <3> QED BY <3>1, <3>3, <3>4, <3>5, <3>6, <3>7
  <2>5. ASSUME NEW i \in Ids \ Items
        PROVE  inbound[i] + draft[s].inbound[i] = inbound[i] /\ outbound[i] + draft[s].outbound[i] = outbound[i]
    <3>1. draft[s].inbound[i] = 0 /\ draft[s].outbound[i] = 0
      BY <1>1, <2>5 DEF SeedWrites, SeedSum
    <3> QED BY <1>2, <3>1
  <2>6. /\ inbound' = [i \in Ids |-> IF i \in Items THEN TargetStock[i] + OutboundQuantity[i] ELSE inbound[i]]
        /\ outbound' = [i \in Ids |-> IF i \in Items THEN OutboundQuantity[i] ELSE outbound[i]]
    BY <1>1, <2>4, <2>5
  <2> QED BY <1>1, <1>6, <2>1, <2>3, <2>6, SameNames DEF Ledger!Seed
<1> QED BY <1>5, <1>6

\* The seed finds its own products, or movements of them, stored otherwise.
LEMMA SeedDiffersStep ==
    ASSUME LedgerInv, NEW s \in Seeds, SeedDiffers(s)
    PROVE  Ledger!NoEffect /\ Ledger!RefuseSeed(s)
<1> USE DEF LedgerInv, WaitInv
<1>1. s \in Txs /\ Act(s) /\ pc[s] = "next"
  BY DEF SeedDiffers, InLoop, Txs, Act, Step
<1>2. pc'[s] = "refused" /\ ask' = ask /\ UNCHANGED <<rows, inbound, outbound>>
  BY <1>1 DEF SeedDiffers, Rollback, TypeInv, TypeOK
<1>3. Ledger!Answer(s, "refused")
  BY <1>1, <1>2, Answered DEF Answers, Unanswered, InTransaction
<1>4. PICK i \in Items : i \in rows
  <2>1. \A m \in moved : m[1] \in rows /\ m[1] \in Items
    BY DEF DraftParts, TypeInv, TypeOK
  <2>2. InLoop(s, 0) => Item(s, 0) \in Items
    BY InventoryAssumption DEF InLoop, Item, Items, TypeInv, TypeOK
  <2> QED BY <2>1, <2>2 DEF SeedDiffers
<1> QED BY <1>2, <1>3, <1>4, SameNames DEF Ledger!RefuseSeed, Ledger!NoEffect

LEMMA ActIsLedgered ==
    ASSUME LedgerInv, NEW t \in Txs, Act(t)
    PROVE  Ledger!Next \/ UNCHANGED Ledger!vars
<1>1. TypeInv
  BY DEF LedgerInv, WaitInv
<1>2. CASE t \in Requests /\ (AskCreate(t) \/ AskOrder(t))
  BY <1>1, <1>2, AskStep DEF Ledger!Next
<1>3. CASE t \in Requests /\ Look(t)
  BY <1>3, LookStep DEF Ledger!Next
<1>4. CASE Fail(t)
  BY <1>1, <1>4, FailStep DEF Ledger!Next, Txs
<1>5. CASE NotFound(t)
  BY <1>5, NotFoundStep DEF Ledger!Next
<1>6. CASE InsertRefused(t)
  BY <1>6, InsertRefusedStep DEF Ledger!Next
<1>7. CASE Refuse(t)
  BY <1>7, RefuseStep DEF Ledger!Next
<1>8. CASE Commits(t)
  BY <1>8, CommitOfRequest, CommitOfSeed DEF Ledger!Next, Txs
<1>9. CASE t \in Seeds /\ SeedExisting(t) /\ Close(t)
  BY <1>9, SeedExistingStep DEF Ledger!Next
<1>11. CASE t \in Seeds /\ SeedDiffers(t)
  BY <1>11, SeedDiffersStep DEF Ledger!Next
<1>10. CASE Works(t) /\ ~(t \in Requests /\ (AskCreate(t) \/ AskOrder(t) \/ Look(t)))
  BY <1>1, <1>10, LineStep
<1> QED
  BY <1>2, <1>3, <1>4, <1>5, <1>6, <1>7, <1>8, <1>9, <1>10, <1>11
     DEF Act, Step, Order, Create, Works, Commits

LEMMA InitLedger == Init => Ledger!Init
<1> SUFFICES ASSUME Init PROVE Ledger!Init
  OBVIOUS
<1>1. \A t \in Txs : pc[t] = IF t \in Requests THEN "idle" ELSE "next"
  BY DEF Init
<1>2. [t \in Txs |-> IF Unanswered(t) THEN "asked" ELSE pc[t]]
        = [t \in Requests \cup Seeds |-> IF t \in Requests THEN "idle" ELSE "asked"]
  BY <1>1 DEF Unanswered, InTransaction, Txs
<1>3. [r \in Requests |-> ask[r]]
        = [r \in Requests |-> [kind |-> "create", key |-> NoKey, product |-> 1, quantity |-> 0]]
  BY DEF Init, Txs
<1> QED BY <1>2, <1>3, SameNames DEF Init, Ledger!Init

\* For its callers the inventory is one ledger: whatever the statements of the
\* transactions interleave, each takes effect at its commit, or not at all, and
\* is answered what the products and the stock were.
THEOREM ImplementsLedger == Spec => KeepsLedger
<1>1. LedgerInv /\ [Next]_vars => [Ledger!Next]_(Ledger!vars)
  <2> SUFFICES ASSUME LedgerInv, [Next]_vars PROVE Ledger!Next \/ UNCHANGED Ledger!vars
    OBVIOUS
  <2>1. CASE UNCHANGED vars
    BY <2>1 DEF vars, Ledger!vars, Unanswered
  <2> QED BY <2>1, NextIsAct, ActIsLedgered
<1> QED BY <1>1, InitLedger, LedgerInductive, PTL DEF Spec, KeepsLedger, Ledger!Spec
=============================================================================
