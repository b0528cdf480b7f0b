----------------------------- MODULE Collections ---------------------------
(***************************************************************************)
(* The searches and sorts of src/utils/collections.ts, the searches of     *)
(* search.ts and the figures of transformation.ts.                         *)
(*                                                                         *)
(* A number stands for what the helpers order: prices, times, ranks of     *)
(* strings.  `Undefined` and `Invalid` (NaN, an invalid date) are numbers  *)
(* out of the range of the others.  Text is compared after trim and lower  *)
(* case: a text is a record of what remains and of how it is spelled.      *)
(***************************************************************************)
EXTENDS Integers, SequencesExt

Undefined == 1000
Invalid == 1001
IsNumber(value) == value \notin {Undefined, Invalid}

NormalizeText(text) == text.word

-----------------------------------------------------------------------------
(* collections.ts: search *)

\* Mutant: a range given the wrong way round is taken as it is.
NormalizeRangeAsGiven(low, high) == <<low, high>>

NormalizeRange(low, high) ==
    IF low # Undefined /\ high # Undefined /\ low > high THEN <<high, low>> ELSE <<low, high>>

IsNumberInRange(value, range) ==
    /\ IsNumber(value)
    /\ range[1] # Undefined => value >= range[1]
    /\ range[2] # Undefined => value <= range[2]

FilterByCategory(items, category) == SelectSeq(items, LAMBDA item : item.category = category)
FilterByStatus(items, status) == SelectSeq(items, LAMBDA item : item.status = status)

FilterByPriceRange(items, low, high) ==
    IF low = Undefined /\ high = Undefined THEN items
    ELSE SelectSeq(items, LAMBDA item : IsNumberInRange(item.price, NormalizeRange(low, high)))

\* An invalid bound is no bound, but an item without a valid date is still left out.
FilterByDateRange(items, from, to) ==
    LET Bound(date) == IF IsNumber(date) THEN date ELSE Undefined
        range == NormalizeRange(Bound(from), Bound(to))
    IN IF from = Undefined /\ to = Undefined THEN items
       ELSE SelectSeq(items, LAMBDA item : IsNumberInRange(item.date, range))

FilterByLocation(items, location) ==
    SelectSeq(items, LAMBDA item :
        \E place \in item.locations : NormalizeText(place) = NormalizeText(location))

\* `criteria` maps the criteria given, `accessors` names those the items have.
SearchByCriteria(items, criteria, accessors) ==
    LET Given(name) == name \in DOMAIN criteria
        Value(name) == IF Given(name) THEN criteria[name] ELSE Undefined
        byCategory == IF Given("category") /\ "category" \in accessors
                      THEN FilterByCategory(items, Value("category")) ELSE items
        byPrice == IF (Given("minPrice") \/ Given("maxPrice")) /\ "price" \in accessors
                   THEN FilterByPriceRange(byCategory, Value("minPrice"), Value("maxPrice"))
                   ELSE byCategory
        byStatus == IF Given("status") /\ "status" \in accessors
                    THEN FilterByStatus(byPrice, Value("status")) ELSE byPrice
        byDate == IF (Given("fromDate") \/ Given("toDate")) /\ "date" \in accessors
                  THEN FilterByDateRange(byStatus, Value("fromDate"), Value("toDate"))
                  ELSE byStatus
    IN IF Given("location") /\ "location" \in accessors
       THEN FilterByLocation(byDate, criteria["location"]) ELSE byDate

\* What the searches of each model can ask an item for.
Accessors == [orders |-> {"status", "date", "location"}, returns |-> {"status", "date", "location"},
              carriers |-> {"category", "location"}, warehouses |-> {"category", "location"}]

-----------------------------------------------------------------------------
(* collections.ts: sorting.  The values of one selector are of one type, or null. *)

CompareNullable(left, right) ==
    IF left = right THEN 0 ELSE IF left = Undefined THEN 1 ELSE -1

\* The difference from an invalid date or number, also to another one, is NaN.
CompareSortValues(left, right) ==
    IF Undefined \in {left, right} THEN CompareNullable(left, right)
    ELSE IF Invalid \in {left, right} THEN Invalid ELSE left - right

\* The lists that Array.prototype.sort may return.  It takes NaN for 0.  It is stable: an item
\* goes after those that do not come after it.  If the comparisons fit no order, as when what
\* is no number ties with both of two that differ, the order is the implementation's.
Sorted(items, compare) ==
    LET NotAfter(a, b) == compare[a, b] = Invalid \/ compare[a, b] <= 0
        After(item, sorted) == Len(SelectSeq(sorted, LAMBDA other : NotAfter(other, item)))
        inserted == FoldLeft(LAMBDA sorted, item : InsertAt(sorted, After(item, sorted) + 1, item),
                             <<>>, items)
        consistent == \A a, b, c \in Range(items) :
                          NotAfter(a, b) /\ NotAfter(b, c) => NotAfter(a, c)
    IN IF consistent THEN {inserted}
       ELSE {[i \in DOMAIN items |-> items[at[i]]] : at \in Permutations(DOMAIN items)}

SortByField(items, field, direction) ==
    LET compare == [a, b \in Range(items) |-> CompareSortValues(a[field], b[field])]
        sorted == Sorted(items, compare)
    IN IF direction = "asc" THEN sorted ELSE {Reverse(list) : list \in sorted}

\* The first field whose comparison is not 0 decides; NaN is not 0, and its opposite is NaN.
CompareByFields(left, right, fields) ==
    LET Base(f) == CompareSortValues(left[f.field], right[f.field])
        telling == SelectSeq(fields, LAMBDA f : Base(f) # 0)
    IN IF telling = <<>> THEN 0
       ELSE IF Head(telling).direction = "asc" \/ Base(Head(telling)) = Invalid
       THEN Base(Head(telling)) ELSE -Base(Head(telling))

\* Mutant: the list is sorted by one field after the other, so the last one wins.
SortByMultipleFieldsInTurn(items, fields) ==
    FoldLeft(LAMBDA lists, f : UNION {SortByField(list, f.field, f.direction) : list \in lists},
             {items}, fields)

SortByMultipleFields(items, fields) ==
    IF fields = <<>> THEN {items}
    ELSE Sorted(items, [a, b \in Range(items) |-> CompareByFields(a, b, fields)])

-----------------------------------------------------------------------------
(* search.ts.  Indexes start at 0; -1 says that there is none. *)

\* `passing` holds the items that pass the predicate.
LinearSearchIndex(items, passing) ==
    IF \E i \in DOMAIN items : items[i] \in passing
    THEN (CHOOSE i \in DOMAIN items : items[i] \in passing
                                     /\ \A j \in 1 .. i - 1 : items[j] \notin passing) - 1
    ELSE -1

DefaultCompare(left, right) == IF left = right THEN 0 ELSE IF left < right THEN -1 ELSE 1

\* Mutant: the loop ends while one candidate is left.
BinarySearchStopsEarly(sortedItems, target) ==
    LET search[low \in 0 .. Len(sortedItems), high \in -1 .. Len(sortedItems) - 1] ==
            LET mid == (low + high) \div 2
                comparison == DefaultCompare(sortedItems[mid + 1], target)
            IN CASE low >= high -> -1
                 [] low < high /\ comparison = 0 -> mid
                 [] low < high /\ comparison < 0 -> search[mid + 1, high]
                 [] OTHER -> search[low, mid - 1]
    IN search[0, Len(sortedItems) - 1]

BinarySearch(sortedItems, target) ==
    LET search[low \in 0 .. Len(sortedItems), high \in -1 .. Len(sortedItems) - 1] ==
            LET mid == (low + high) \div 2
                comparison == DefaultCompare(sortedItems[mid + 1], target)
            IN CASE low > high -> -1
                 [] low <= high /\ comparison = 0 -> mid
                 [] low <= high /\ comparison < 0 -> search[mid + 1, high]
                 [] OTHER -> search[low, mid - 1]
    IN search[0, Len(sortedItems) - 1]

-----------------------------------------------------------------------------
(* transformation.ts.  A result that is null is Undefined here. *)

GetValidNumbers(values) == SelectSeq(values, IsNumber)

CalculateTotal(values) == FoldLeft(+, 0, GetValidNumbers(values))

\* The first valid number that no other one beats.
Best(values, Beats(_, _)) ==
    LET numbers == GetValidNumbers(values) IN
    IF numbers = <<>> THEN Undefined
    ELSE FoldLeft(LAMBDA best, value : IF Beats(value, best) THEN value ELSE best,
                  Head(numbers), Tail(numbers))
FindMaximum(values) == Best(values, >)
FindMinimum(values) == Best(values, <)

\* The average is a fraction: its two terms.
CalculateAverage(values) ==
    IF GetValidNumbers(values) = <<>> THEN <<Undefined, 1>>
    ELSE <<CalculateTotal(values), Len(GetValidNumbers(values))>>

BuildNumericReport(values) ==
    [total |-> CalculateTotal(values), average |-> CalculateAverage(values),
     maximum |-> FindMaximum(values), minimum |-> FindMinimum(values)]
=============================================================================
