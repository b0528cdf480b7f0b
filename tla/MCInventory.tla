---------------------------- MODULE MCInventory ----------------------------
(* A small instance of Inventory for TLC. *)
EXTENDS Inventory, TLC

CONSTANTS k1, k2

MCKeys == {k1, k2}
MCItemKey == <<k1, k2>>
\* The first item has one unit left after one went out.
MCTargetStock == <<1, 0>>
MCOutboundQuantity == <<1, 0>>
MCSymmetry == Permutations(Seeds)

\* Waits names every wait of the code and no other: who does not wait has a next
\* statement, faults aside, and who waits has none.  To be added to the
\* configuration by hand; TLC evaluates ENABLED, the provers do not.
GoesOnIfEnabled == \A t \in Txs : GoesOn(t) <=> ENABLED Step(t)
=============================================================================
