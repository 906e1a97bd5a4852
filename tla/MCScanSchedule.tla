--------------------------- MODULE MCScanSchedule ---------------------------
(* Days of three hours each, in a zone without clock changes, one that   *)
(* puts the clocks forward and one that puts them back.                      *)
EXTENDS ScanSchedule
CONSTANTS j1, j2
MCZones == {[m \in 3..8 |-> 0],
            [m \in 3..8 |-> IF m < 4 THEN 0 ELSE 2],
            [m \in 3..8 |-> IF m < 6 THEN 2 ELSE 0]}
MCTimes == {1, 2}
=============================================================================
