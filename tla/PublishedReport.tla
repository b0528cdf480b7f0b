-------------------------- MODULE PublishedReport --------------------------
(***************************************************************************)
(* What the weekly report promises its readers, whichever runs produced    *)
(* it: a week is published only once it has closed, several weeks appear   *)
(* together or not at all, and figures read from an older snapshot never   *)
(* replace those of a newer one that is on record for the week.  A         *)
(* publication goes on record for the weeks it publishes, except that the  *)
(* newest of them may stay off record.                                     *)
(***************************************************************************)
EXTENDS Naturals

CONSTANTS Weeks,      \* weeks 1, 2, ...: week w is over at time w * WeekLength
          WeekLength,
          Horizon     \* bound: the latest snapshot

VARIABLES report,   \* report[w]: the snapshot week w shows, 0 before any
          onRecord  \* onRecord[w]: the snapshots on record for week w

Init == /\ report = [w \in Weeks |-> 0]
        /\ onRecord = [w \in Weeks |-> {}]

Publish(weeks, cutoff, last) ==
    /\ \A w \in weeks : w * WeekLength <= cutoff /\ \A t \in onRecord[w] : t <= cutoff
    /\ report' = [w \in Weeks |-> IF w \in weeks THEN cutoff ELSE report[w]]
    /\ onRecord' = [w \in Weeks |-> IF w \in weeks /\ w <= last
                                    THEN onRecord[w] \cup {cutoff} ELSE onRecord[w]]

Next == \E weeks \in SUBSET Weeks, cutoff, last \in 0 .. Horizon : Publish(weeks, cutoff, last)

Spec == Init /\ [][Next]_<<report, onRecord>>
=============================================================================
