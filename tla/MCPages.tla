------------------------------ MODULE MCPages ------------------------------
(* A small instance of every page for TLC. *)
EXTENDS Pages

MCOrigin == [i \in {"i1"} |-> "warehouse"]
MCFilterValues == [status |-> {"open"}, origin |-> {}]
MCIds == <<"s1", "s2">>
MCCountry == [s \in {"s1", "s2"} |-> "USA"]
MCWeeks == 1 .. 4
MCStatus == [c \in {"c1", "c2", "c3"} |-> IF c = "c2" THEN "hired" ELSE "active"]

MCRequests == [incidents |-> 3, suppliers |-> 2, order |-> 3, inventory |-> 3, dashboard |-> 4,
               candidates |-> 5, candidate |-> 2]
MCSubmits == [report |-> 3, account |-> 3]
MCOthersChange == [suppliers |-> 1, order |-> 1]
=============================================================================
