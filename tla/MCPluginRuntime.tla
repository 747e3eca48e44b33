--------------------------- MODULE MCPluginRuntime ---------------------------
(* An instance of the whole runtime.                                       *)
EXTENDS PluginRuntime, TLC

MCHashes == 1..MaxTokens
MCTwoCounts == 1..2
MCTimes == 0..(MaxClock + LockFor + DefaultTTL)

SymmetryOfWorkers == Permutations(Workers)
=============================================================================
