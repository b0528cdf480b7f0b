--------------------------- MODULE MCWeeklyRollup ---------------------------
(* Small instances of WeeklyRollup for TLC: what two emitters report. *)
EXTENDS WeeklyRollup

CONSTANTS monterrey, zaragoza, elsewhere, acme, brio, p1, p2, o1

MCProducts == {[product_id |-> p1, client_id |-> acme, warehouse |-> monterrey],
               [product_id |-> p2, client_id |-> NoValue, warehouse |-> zaragoza]}

\* The seed claims the product that had no owner.
MCNewProducts == {[product_id |-> p2, client_id |-> brio, warehouse |-> zaragoza]}

Report(type, warehouse, client, product, quantity, ref, band) ==
    [event_type |-> type, warehouse |-> warehouse, client_id |-> client, product_id |-> product,
     quantity |-> quantity, ref |-> ref, threshold_band |-> band]

Delivery(quantity) == Report(INBOUND, monterrey, NoValue, p1, quantity, o1, NoValue)
Order(warehouse, product, ref) == Report(OUTBOUND, warehouse, brio, product, 1, ref, NoValue)
Crossing(band) == Report(THRESHOLD, monterrey, acme, p1, NoValue, o1, band)
Recount == Report(DISCREPANCY, monterrey, NoValue, p1, NoValue, o1, NoValue)

\* An order and a count that may be told twice.
MCReports == {Order(monterrey, p1, o1), Recount}

Stored(id, time, said) ==
    [id |-> id, timestamp |-> time, created_at |-> time, event_type |-> said.event_type,
     warehouse |-> said.warehouse, client_id |-> said.client_id,
     product_id |-> said.product_id, quantity |-> said.quantity, ref |-> said.ref,
     threshold_band |-> said.threshold_band]

\* In week 1: two orders of acme, so that a count makes the rate a half, one of brio by a
\* clock that is ahead, a delivery told twice, and one event for each reason to leave
\* one out.
MCHistory == {Stored(11, 3, Report(OUTBOUND, monterrey, acme, p1, 1, NoValue, NoValue)),
              Stored(12, 3, Report(OUTBOUND, monterrey, acme, p1, 1, NoValue, NoValue)),
              [Stored(18, 3, Order(monterrey, p1, o1)) EXCEPT !.timestamp = 7],
              Stored(13, 2, Recount),
              Stored(14, 3, Order(elsewhere, p1, NoValue)),
              Stored(20, 2, Delivery(2)),
              Stored(21, 3, Delivery(3)),
              Stored(15, 3, Delivery(0)),
              Stored(16, 3, Report(DISCREPANCY, zaragoza, NoValue, p2, NoValue, NoValue, NoValue)),
              Stored(17, 3, Crossing("high")),
              Stored(19, 3, Crossing("low"))}

MCLateReports == {Order(monterrey, p1, NoValue)}
=============================================================================
