--------------------------- MODULE MCScheduleStore ---------------------------
(* Instances of the store: one row under every statement, and several rows *)
(* under the statements that make them due.                                *)
EXTENDS ScheduleStore, TLC

MCTimes == 0..2
MCTwoCounts == 1..2
MCOneCount == 1..1

SymmetryOfTraces == Permutations(Traces)

(* Rows in every phase a claim can meet, three at a time. *)
DueNext ==
  \E t \in Traces :
    \/ Create(t, 1, 0)
    \/ \E next \in Times : MarkPoll(t, 1, next)
    \/ \E hash \in Hashes, expires \in Times : MarkCallback(t, 1, hash, expires)
    \/ \E hash \in Hashes, now \in Times :
         ReceiveCallback(t, hash, EmptyMap, now)
    \/ \E w \in Workers, state \in {"POLL", "CALLBACK"}, now \in Times :
         ClaimDueItem(t, state, w, now, now + 1)

DueSpec == StoreInit /\ [][DueNext]_rows
=============================================================================
