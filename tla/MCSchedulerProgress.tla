------------------------- MODULE MCSchedulerProgress -------------------------
(* Instances of the scheduler over unbounded time.                         *)
EXTENDS SchedulerProgress

MCHashes == 1..MaxTokens
MCTwoCounts == 1..2
MCThreeCounts == 1..3
MCTimes == 0..(Present + LockFor + DefaultTTL)
=============================================================================
