----------------------------- MODULE MCScheduler -----------------------------
(* Instances of the scheduler: a few traces shared by two workers.         *)
EXTENDS Scheduler, TLC

MCHashes == 1..MaxTokens
MCTwoCounts == 1..2
MCThreeCounts == 1..3
MCTimes == 0..(MaxClock + LockFor + DefaultTTL)

SymmetryOfWorkers == Permutations(Workers)
=============================================================================
