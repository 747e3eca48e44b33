------------------------------- MODULE MCServer -------------------------------
(* Instances of the server: one invocation and the callback requests a     *)
(* third party makes for it.                                               *)
EXTENDS Server, TLC

MCHashes == 1..MaxTokens
MCTwoCounts == 1..2
MCTimes == 0..(MaxClock + DefaultTTL)

SymmetryOfPosts == Permutations(Posts)
=============================================================================
