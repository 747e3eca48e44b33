-------------------------- MODULE SchedulerProgress --------------------------
(***************************************************************************)
(* The workers over unbounded time: what must eventually happen.           *)
(*                                                                         *)
(* Scheduler counts time up to MaxClock; here time never ends.  The clock  *)
(* stands at Present, and when time passes every instant on record moves   *)
(* one tick back; an instant in the past stops at 0, for no statement      *)
(* tells two instants in the past apart except to put them in order.       *)
(*                                                                         *)
(* Added to Scheduler: the ticker that paces the rounds of Worker.Run, and *)
(* the platform that starts a worker process again after it died.          *)
(***************************************************************************)
EXTENDS Scheduler

CONSTANT Present  \* where the clock stands

(* What progress rests on: hosts are not late with their statements and    *)
(* agree on the time, and tokens expire on a tick.                         *)
ASSUME ProgressAssumption == /\ Present \in Nat \ {0}
                             /\ Prompt
                             /\ Fast = {}
                             /\ SecondTicks = 1

VARIABLE ticker  \* ticker[w]: w's ticker has fired since its last round

progressVars == <<rows, clock, tokens, worker, notified, faults, ticker>>

-----------------------------------------------------------------------------
(* Time passes.                                                            *)

Earlier(instant) ==
  IF instant = Null THEN Null
  ELSE IF instant > 0 THEN instant - 1 ELSE 0

AgedRow(r) ==
  [r EXCEPT !.nextRunAt = Earlier(@), !.expiresAt = Earlier(@),
            !.receivedAt = Earlier(@), !.lockedUntil = Earlier(@)]

(* No lease runs out while its owner still has the item in its batch,      *)
(* queued behind a slow step or running: where it does, two workers run    *)
(* the item (the run lease_of_queued_item), and the later mark may leave a *)
(* row that no worker ever claims.                                         *)
HoldsItsLeases(w) ==
  \A i \in DOMAIN worker[w].batch :
    LET r == rows[worker[w].batch[i].trace]
    IN  r.lockedBy = w => r.lockedUntil >= Present + 1

Pass ==
  /\ \A w \in Workers : OnTime(w) /\ HoldsItsLeases(w)
  /\ rows' = [t \in Traces |-> IF Stored(t) THEN AgedRow(rows[t]) ELSE Null]
  /\ tokens' = [i \in DOMAIN tokens |->
                  [tokens[i] EXCEPT !.expiresAt = Earlier(@)]]
  /\ worker' = [w \in Workers |->
                  [worker[w] EXCEPT !.now = Earlier(@),
                                    !.renewAt = Earlier(@)]]
  /\ ticker' = [w \in Workers |-> TRUE]
  /\ UNCHANGED <<clock, notified, faults>>

-----------------------------------------------------------------------------
(* Worker.Run begins a round when its ticker has fired, and at its start.  *)
Round(w) ==
  /\ ticker[w]
  /\ BeginRound(w)
  /\ ticker' = [ticker EXCEPT ![w] = FALSE]

(* The statements of a round. *)
Statement(w) ==
  /\ \/ SelectOverdue(w) \/ ExpireRow(w) \/ ExpireGet(w)
     \/ SelectPoll(w) \/ SelectCallback(w) \/ Claim(w) \/ ReadBack(w)
  /\ UNCHANGED ticker

StepReturns(w) == StepEnds(w) /\ UNCHANGED ticker

Heartbeat(w) == Renew(w) /\ UNCHANGED ticker

(* The platform starts the process again, with a new worker id.  Under the *)
(* old id it behaves the same: RenewLock is the only statement that tests  *)
(* the id, and the running item was claimed by this very process.          *)
Restart(w) ==
  /\ worker[w].pc = "dead"
  /\ worker' = [worker EXCEPT ![w] = Idle]
  /\ ticker' = [ticker EXCEPT ![w] = TRUE]
  /\ UNCHANGED <<rows, clock, tokens, notified, faults>>

(* A worker process goes on: one round after the other, each to its end    *)
(* (worker.go:65-85).                                                      *)
GoesOn(w) == Round(w) \/ Statement(w) \/ StepReturns(w) \/ Restart(w)

Elsewhere ==
  /\ \/ ServerStep
     \/ \E w \in Workers :
          StepWrites(w) \/ StepPrepares(w) \/ SchedulerFault(w)
  /\ UNCHANGED ticker

ProgressInit ==
  /\ StoreInit
  /\ clock = Present
  /\ tokens = <<>>
  /\ faults = 0
  /\ worker = [w \in Workers |-> Idle]
  /\ FinishCallbackInit
  /\ ticker = [w \in Workers |-> TRUE]

ProgressNext ==
  \/ Pass
  \/ \E w \in Workers : GoesOn(w) \/ Heartbeat(w)
  \/ Elsewhere

(* Time passes; a worker process goes on, which includes that a step of    *)
(* the plugin returns and that a dead process is started again; and while  *)
(* a step runs, the heartbeat goroutine ticks.  Nothing is asked of the    *)
(* server, of third parties or of what a step does before it returns.      *)
Fairness ==
  /\ WF_progressVars(Pass)
  /\ \A w \in Workers : /\ WF_progressVars(GoesOn(w))
                        /\ WF_progressVars(Heartbeat(w))

ProgressSpec == ProgressInit /\ [][ProgressNext]_progressVars /\ Fairness

-----------------------------------------------------------------------------
(* Properties                                                              *)

(* Every trace whose first step has been marked is carried to its end and  *)
(* the end is reported, over any number of rounds, lapsed leases and       *)
(* restarts: the finish callback is missing only if a statement failed or  *)
(* a worker died after the last time the trace was seen unfinished         *)
(* (worker.go:120-129, gorm_store.go:292-296).                             *)
EndIsReported ==
  \A t \in Traces, f \in 0..MaxFaults :
    Phase(t) \in {"POLL", "waiting", "answered"} /\ faults = f
      ~> notified[t] > 0 \/ faults > f

(* Workers that die, lose statements and miss heartbeats still implement   *)
(* the lifecycle the caller of a plugin sees, and carry every trace on:    *)
(* a row orphaned by any of these gets its next step all the same          *)
(* (ScheduleLifecycle).                                                    *)
ImplementsFairLifecycle == Lifecycle!FairSpec
=============================================================================
