---------------------------- MODULE MCIncidents ----------------------------
(* Small instances of Incidents for TLC; the requests are interchangeable. *)
EXTENDS Incidents, TLC

MCSymmetry == Permutations(Requests)
=============================================================================
