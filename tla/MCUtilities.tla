---------------------------- MODULE MCUtilities ----------------------------
(***************************************************************************)
(* The helpers of src/utils on small inputs: a list that grows item by     *)
(* item under the searches and sorts of module Collections, and a record   *)
(* whose author corrects, in one round, every field that the validators of *)
(* module Validations name.                                                *)
(***************************************************************************)
EXTENDS Collections

V == INSTANCE Validations

CONSTANT MaxItems   \* bound: items in the list

VARIABLES items, record

Item(price, date, status, category, places) ==
    [id |-> 0, price |-> price, date |-> date, status |-> status, category |-> category,
     locations |-> places]
Spain == [word |-> "spain", spelled |-> "Spain"]
SPAIN == [word |-> "spain", spelled |-> " SPAIN"]
Items == {Item(-1, 1, "Pending", "urgent", {Spain}), Item(1, 2, "Pending", "standard", {}),
          Item(2, Invalid, "Delivered", "urgent", {SPAIN}), Item(2, 1, "Delivered", "standard", {}),
          Item(Undefined, 2, "Pending", "urgent", {Spain})}

Texts == {"orderID", "returnID", "returningReason", "packageSize", "destination", "carrierID",
          "warehouseID", "client", "name", "departmentID", "location", "managerID", "workerID",
          "position"}
Good == [product |-> "given", quantity |-> 1]
Sound == [type |-> "order", texts |-> [t \in Texts |-> "given"], start |-> 1, end |-> 1,
          packageQuantity |-> 1, weight |-> 1, status |-> "valid", productCondition |-> "valid",
          country |-> "valid", managementSystem |-> "valid", service |-> "valid",
          location |-> <<"valid">>, needs |-> "array", products |-> <<Good>>]
NoRecord == [Sound EXCEPT !.type = "none"]

Shipments == [type : {"order", "return"},
              texts : {[Sound.texts EXCEPT ![t] = v] : t \in Texts, v \in {"blank", "missing"}},
              start : {1, 2, V!Invalid}, end : {1, V!Invalid},
              packageQuantity : {0, 1}, weight : {0, 1}, status : {"valid", "unknown"},
              productCondition : {"valid", "unknown"}, country : {"valid"},
              managementSystem : {"valid"}, service : {"valid"}, location : {<<"valid">>},
              needs : {"array"}, products : {<<>>, <<Good, [product |-> "blank", quantity |-> 0]>>}]
Masters == [type : {"department", "warehouse", "worker", "carrier"},
            texts : {[Sound.texts EXCEPT ![t] = "blank", ![u] = "missing"] : t, u \in Texts},
            start : {1}, end : {1}, packageQuantity : {1}, weight : {1}, status : {"valid"},
            productCondition : {"valid"}, country : {"valid", "unknown"},
            managementSystem : {"unknown"}, service : {"unknown"},
            location : {<<>>, <<"valid", "unknown">>}, needs : {"array", "other"},
            products : {<<Good>>}]

Errors(r) ==
    CASE r.type = "order" -> V!ValidateOrder(r)
      [] r.type = "return" -> V!ValidateReturn(r)
      [] r.type = "department" -> V!ValidateDepartment(r)
      [] r.type = "warehouse" -> V!ValidateWarehouse(r)
      [] r.type = "worker" -> V!ValidateWorker(r)
      [] r.type = "carrier" -> V!ValidateCarrier(r)
      [] OTHER -> {}

\* The author gives every field that is named a value that is right for it.
Corrected(r) ==
    LET wrong == Errors(r)
        Right(field, now, right) == IF field \in wrong THEN right ELSE now
        starts == {"placedAt", "requestedAt"} \cap wrong # {}
    IN [r EXCEPT
          !.texts = [t \in Texts |-> Right(t, @[t], "given")],
          !.start = IF starts \/ "dates" \in wrong THEN 1 ELSE @,
          !.end = IF {"expectedDelivery", "expectedArrival"} \cap wrong # {} THEN 2 ELSE @,
          !.packageQuantity = Right("packageQuantity", @, 1),
          !.weight = Right("weight", @, 1), !.status = Right("status", @, "valid"),
          !.productCondition = Right("productCondition", @, "valid"),
          !.country = IF {"country", "location"} \cap wrong # {} THEN "valid" ELSE @,
          !.managementSystem = Right("managementSystem", @, "valid"),
          !.service = Right("service", @, "valid"),
          !.location = Right("location", @, <<"valid">>),
          !.needs = Right("needs", @, "array"),
          !.products = IF {"products", "product", "quantity"} \cap wrong # {} THEN <<Good>> ELSE @]

Init == items = <<>> /\ record = NoRecord

AddItem ==
    /\ record = NoRecord /\ Len(items) < MaxItems
    /\ \E item \in Items : items' = Append(items, [item EXCEPT !.id = Len(items) + 1])
    /\ UNCHANGED record

Write == items = <<>> /\ record = NoRecord /\ record' \in Shipments \cup Masters /\ UNCHANGED items

Correct == record # NoRecord /\ record' = Corrected(record) /\ UNCHANGED items

Next == AddItem \/ Write \/ Correct
Spec == Init /\ [][Next]_<<items, record>>

-----------------------------------------------------------------------------
Prices == {Undefined, 1, 2}
Dates == {Undefined, Invalid, 1, 2}
CriteriaGiven(low, high, from, to, status, category, place) ==
    [name \in {n \in {"minPrice", "maxPrice", "fromDate", "toDate"} :
                   CASE n = "minPrice" -> low # Undefined [] n = "maxPrice" -> high # Undefined
                     [] n = "fromDate" -> from # Undefined [] OTHER -> to # Undefined}
              \cup (IF status = "" THEN {} ELSE {"status"})
              \cup (IF category = "" THEN {} ELSE {"category"})
              \cup (IF place THEN {"location"} ELSE {}) |->
        CASE name = "minPrice" -> low [] name = "maxPrice" -> high [] name = "fromDate" -> from
          [] name = "toDate" -> to [] name = "status" -> status
          [] name = "category" -> category [] OTHER -> SPAIN]

Between(value, one, other) ==
    LET bounds == {one, other} \ {Undefined, Invalid} IN
    /\ IsNumber(value)
    /\ IF Cardinality(bounds) = 2
       THEN \E low, high \in bounds : low <= value /\ value <= high
       ELSE /\ IsNumber(one) => one <= value
            /\ IsNumber(other) => value <= other

Searches == Range(Accessors) \cup {{"category", "price", "status", "date", "location"}}

\* A search returns, in the order of the list, the items that meet every criterion that was
\* given and can be asked of them: bounds in either order, text in any spelling
\* (collections.ts:153-182).
SearchIsConjunction ==
    items # <<>> => \A low, high \in Prices, from, to \in Dates, asked \in Searches,
        status \in {"", "Pending"}, category \in {"", "urgent"}, place \in BOOLEAN :
        SearchByCriteria(items, CriteriaGiven(low, high, from, to, status, category, place), asked)
            = SelectSeq(items, LAMBDA item :
                /\ "price" \in asked /\ ~(low = Undefined /\ high = Undefined)
                   => Between(item.price, low, high)
                /\ "date" \in asked /\ ~(from = Undefined /\ to = Undefined)
                   => Between(item.date, from, to)
                /\ "status" \in asked => status \in {"", item.status}
                /\ "category" \in asked => category \in {"", item.category}
                /\ place => \E at \in item.locations : at.word = "spain")

\* Sorted by several fields, an item stands before another if the first field that tells
\* them apart says so, and as it stood in the list if none does; a missing value goes last,
\* first when descending.  The sort by one field agrees where it ascends (collections.ts:250-255,
\* 301-325).  It is so unless a value of these fields is an invalid date or number, which
\* ties with every other.
SortIsLexicographic ==
    LET Field(name, direction) == [field |-> name, direction |-> direction]
        Names == {name \in {"price", "date"} : \A i \in DOMAIN items : items[i][name] # Invalid}
        Fields == {Field(name, way) : name \in Names, way \in {"asc", "desc"}}
        Before(f, a, b) == IF f.direction = "asc" THEN a[f.field] < b[f.field]
                           ELSE a[f.field] > b[f.field]
        Tied(f, a, b) == a[f.field] = b[f.field]
    IN \A f, g \in Fields : \A sorted \in SortByMultipleFields(items, <<f, g>>) :
        /\ Len(sorted) = Len(items)
        /\ \A i, j \in DOMAIN sorted : i < j =>
              \/ Before(f, sorted[i], sorted[j])
              \/ Tied(f, sorted[i], sorted[j]) /\ Before(g, sorted[i], sorted[j])
              \/ /\ Tied(f, sorted[i], sorted[j]) /\ Tied(g, sorted[i], sorted[j])
                 /\ sorted[i].id < sorted[j].id
        /\ SortByField(items, f.field, "asc")
              = SortByMultipleFields(items, <<Field(f.field, "asc")>>)

\* Once a list is sorted, the binary search finds a value exactly if the linear one does, and
\* at a place that holds it; its ends are the minimum and the maximum of the numeric report,
\* the average lies between them, and what is no number counts nowhere (search.ts:28-36, 63-84,
\* transformation.ts:53-112).
SearchesAgree ==
    \A byPrice \in SortByField(items, "price", "asc") :
        LET prices == [i \in DOMAIN items |-> items[i].price]
            sorted == SelectSeq([i \in DOMAIN byPrice |-> byPrice[i].price], IsNumber)
            report == BuildNumericReport(prices)
        IN /\ \A target \in -1 .. 3 :
                 LET found == BinarySearch(sorted, target) IN
                 /\ (found = -1) = (LinearSearchIndex(sorted, {target}) = -1)
                 /\ found # -1 => sorted[found + 1] = target
           /\ IF sorted = <<>> THEN report.maximum = Undefined /\ report.minimum = Undefined
              ELSE /\ report.minimum = Head(sorted) /\ report.maximum = Last(sorted)
                   /\ report.minimum * report.average[2] <= report.average[1]
                   /\ report.average[1] <= report.maximum * report.average[2]

\* Validation names every field that is wrong at once: who corrects the fields named is
\* not refused again for one that was wrong all along (validations.ts:81-87).
OneRoundIsEnough == [][Correct => Errors(record') = {}]_<<items, record>>
=============================================================================
