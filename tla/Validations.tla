----------------------------- MODULE Validations ---------------------------
(***************************************************************************)
(* src/utils/validations.ts: what each validator says of a record, as the  *)
(* set of the fields it names (the wording of the messages is left out).   *)
(*                                                                         *)
(* A text is "given", "blank" or "missing"; a member of an enumeration is  *)
(* "valid" or not.  A date or number that is absent or not one (NaN) is    *)
(* `Invalid`.  The fields that no validator looks into are a record's      *)
(* `texts`, of which it requires some; the other fields it requires (dates,*)
(* status, products) are named by the check of their own as well.          *)
(***************************************************************************)
EXTENDS Integers, Sequences

Invalid == -1
NoMaximum == 1000   \* no maximum was passed

InRange(value, min, max) == value # Invalid /\ value >= min /\ value <= max
IsNonEmptyString(value) == value = "given"

\* Mutant: the results are combined only as far as the first that has errors.
CombineResultsToFirst(results) ==
    IF \A i \in DOMAIN results : results[i] = {} THEN {}
    ELSE LET first == CHOOSE i \in DOMAIN results :
                         results[i] # {} /\ \A j \in 1 .. i - 1 : results[j] = {}
         IN results[first]

CombineResults(results) == UNION {results[i] : i \in DOMAIN results}

ValidateRequiredFields(source, required) == {f \in required : ~IsNonEmptyString(source[f])}

ValidateNumericRange(field, value, min, max) == IF InRange(value, min, max) THEN {} ELSE {field}

\* Dates that are not dates are named one by one, an order that is wrong as a pair.
ValidateDateCoherence(startField, start, endField, end) ==
    {f \in {startField} : start = Invalid} \cup {f \in {endField} : end = Invalid}
        \cup {f \in {"dates"} : start # Invalid /\ end # Invalid /\ end < start}

ValidateStringField(field, value) == IF IsNonEmptyString(value) THEN {} ELSE {field}
ValidateEnumField(field, value) == IF value = "valid" THEN {} ELSE {field}
ValidateCountryArray(field, countries) ==
    IF countries = <<>> THEN {field}
    ELSE UNION {ValidateEnumField(field, countries[i]) : i \in DOMAIN countries}
ValidatePositiveNumber(field, value) == ValidateNumericRange(field, value, 1, NoMaximum)
ValidateMinNumber(field, value, min) == ValidateNumericRange(field, value, min, NoMaximum)
ValidateProductItems(items) ==
    IF items = <<>> THEN {"products"}
    ELSE UNION {ValidateStringField("product", items[i].product)
                    \cup ValidateNumericRange("quantity", items[i].quantity, 1, NoMaximum) :
                i \in DOMAIN items}

-----------------------------------------------------------------------------
Strings(record, fields) == {f \in fields : ~IsNonEmptyString(record.texts[f])}

ValidateDepartment(department) ==
    CombineResults(<<Strings(department, {"name", "departmentID"}),
                     ValidateCountryArray("location", department.location),
                     {f \in {"needs"} : department.needs # "array"},
                     Strings(department, {"managerID"})>>)

ValidateWarehouse(warehouse) ==
    CombineResults(<<Strings(warehouse, {"warehouseID", "location"}),
                     ValidateEnumField("country", warehouse.country),
                     ValidateEnumField("managementSystem", warehouse.managementSystem)>>)

ValidateWorker(worker) ==
    CombineResults(<<Strings(worker, {"name", "workerID"}),
                     ValidateEnumField("location", worker.country),
                     Strings(worker, {"departmentID", "position"})>>)

ValidateCarrier(carrier) ==
    CombineResults(<<Strings(carrier, {"name", "carrierID"}),
                     ValidateCountryArray("location", carrier.location),
                     ValidateEnumField("service", carrier.service)>>)

ValidateOrder(order) ==
    CombineResults(<<
        ValidateRequiredFields(order.texts, {"orderID", "packageSize", "destination", "carrierID",
                                             "warehouseID", "client"}),
        ValidateDateCoherence("placedAt", order.start, "expectedDelivery", order.end),
        ValidateMinNumber("packageQuantity", order.packageQuantity, 1),
        ValidatePositiveNumber("weight", order.weight),
        ValidateEnumField("status", order.status),
        ValidateProductItems(order.products)>>)

ValidateReturn(returned) ==
    CombineResults(<<
        ValidateRequiredFields(returned.texts, {"orderID", "returnID", "returningReason",
                                                "packageSize", "carrierID", "warehouseID",
                                                "client"}),
        ValidateDateCoherence("requestedAt", returned.start, "expectedArrival", returned.end),
        ValidateMinNumber("packageQuantity", returned.packageQuantity, 1),
        ValidatePositiveNumber("weight", returned.weight),
        ValidateEnumField("status", returned.status),
        ValidateEnumField("productCondition", returned.productCondition),
        ValidateProductItems(returned.products)>>)
=============================================================================
