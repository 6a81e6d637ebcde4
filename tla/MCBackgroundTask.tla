-------------------------- MODULE MCBackgroundTask --------------------------
(* Instances of BackgroundTask for TLC. *)
EXTENDS BackgroundTask, TLC

CONSTANTS t1, t2, w1, w2, r1, s1

TwoTasks   == {t1, t2}
OneTask    == {t1}
TwoWorkers == {w1, w2}
OneRetrier == {r1}
OneSweeper == {s1}
None == {}

\* Both tasks share one lane.
SharedLane == [t \in Tasks |-> "Archive"]
LimitOne   == [l \in {"Archive"} |-> 1]

\* Slots are interchangeable.
Slots == Permutations(TwoWorkers)

\* No step waits for a scratch directory: progress is checked without them.
LiveNext == Next /\ UNCHANGED scratch
LiveSpec == Init /\ [][LiveNext]_vars /\ Fairness
=============================================================================
