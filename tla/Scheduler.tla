------------------------------ MODULE Scheduler ------------------------------
(***************************************************************************)
(* The worker processes (internal/scheduler/worker.go).                    *)
(*                                                                         *)
(* Each worker repeats RunOnce: fail overdue callbacks, claim due rows,    *)
(* run the claimed items one after the other.  An action is one database   *)
(* statement together with the computation up to the next one, so any      *)
(* number of statements of other processes may fall in between.  A         *)
(* heartbeat renews the lease of the item that is running, and of no other *)
(* item of the batch.                                                      *)
(*                                                                         *)
(* The server is seen here only through the statements it issues           *)
(* (ServerStep); PluginRuntime replaces it by the handlers.                *)
(***************************************************************************)
EXTENDS ExecuteRuntime, FinishCallback

CONSTANTS
  Limit,      \* Config.Limit; NewWorker turns 0 into a default
  LockFor,    \* Config.LockFor, in ticks; so does it here
  Prompt,     \* TRUE: statements and heartbeats are never late
  Fast,       \* workers on a host whose clock is ahead of the servers'
  Skew        \* by how many ticks it is ahead

ASSUME SchedulerAssumption == /\ Limit \in Nat \ {0}
                              /\ LockFor \in Nat \ {0}
                              /\ Prompt \in BOOLEAN
                              /\ Fast \subseteq Workers
                              /\ Skew \in Nat
                              /\ 2 \in InvokeCounts

VARIABLE worker  \* worker[w]: where w is in RunOnce, what it holds in memory

vars == <<rows, clock, tokens, worker, notified, faults>>

(* The statement a worker issues next, or what it does between statements. *)
Phases == {"idle", "expire", "expireRow", "expireGet",
           "poll", "callback", "claim", "run", "stepped", "dead"}

Idle == [pc       |-> "idle",
         now      |-> 0,      \* RunOnce's now
         overdue  |-> <<>>,   \* traces ExpireCallbacks has still to fail
         failed   |-> <<>>,   \* traces it failed, with the state it read back
         found    |-> <<>>,   \* items ClaimDue selected and has not tried
         batch    |-> <<>>,   \* items claimed and not yet run; Head is running
         renewAt  |-> Null,   \* next tick of the heartbeat, Null when stopped
         prepared |-> Null]   \* token prepared by the running step

Goto(w, pc) == worker' = [worker EXCEPT ![w].pc = pc]

(* time.Now() on the host of a worker.  What one worker writes to the      *)
(* table is compared with the clock of another.                            *)
HostClock(w) == clock + (IF w \in Fast THEN Skew ELSE 0)

-----------------------------------------------------------------------------
(* RunOnce begins: now is read once and used by every statement of the     *)
(* round.                                                                  *)
BeginRound(w) ==
  /\ worker[w].pc = "idle"
  /\ worker' = [worker EXCEPT ![w].pc = "expire",
                              ![w].now = HostClock(w)]
  /\ UNCHANGED <<rows, clock, tokens, notified, faults>>

(* ExpireCallbacks: the select. *)
SelectOverdue(w) ==
  /\ worker[w].pc = "expire"
  /\ \E s \in ExpireCandidates(worker[w].now, Limit) :
       worker' = [worker EXCEPT
                    ![w].pc = IF s = <<>> THEN "poll" ELSE "expireRow",
                    ![w].overdue = s]
  /\ UNCHANGED <<rows, clock, tokens, notified, faults>>

(* After the last overdue row, expireStuckCallbacks launches the finish    *)
(* callbacks of the rows that were failed, as they were read back.         *)
ExpireNext(w, overdue, failed) ==
  IF overdue # <<>>
  THEN /\ worker' = [worker EXCEPT ![w].pc = "expireRow",
                                   ![w].overdue = overdue,
                                   ![w].failed = failed]
       /\ UNCHANGED notified
  ELSE /\ worker' = [worker EXCEPT ![w].pc = "poll",
                                   ![w].overdue = <<>>,
                                   ![w].failed = <<>>]
       /\ NotifyFinish({failed[i] : i \in DOMAIN failed})

(* ExpireCallbacks: the conditional update of one row. *)
ExpireRow(w) ==
  LET t == Head(worker[w].overdue)
  IN  /\ worker[w].pc = "expireRow"
      /\ IF ExpireMatches(rows[t])
         THEN /\ ExpireCallback(t)
              /\ Goto(w, "expireGet")
              /\ UNCHANGED notified
         ELSE /\ ExpireNext(w, Tail(worker[w].overdue), worker[w].failed)
              /\ UNCHANGED rows
      /\ UNCHANGED <<clock, tokens, faults>>

(* ExpireCallbacks: the Get of the row it has just failed. *)
ExpireGet(w) ==
  LET t == Head(worker[w].overdue)
  IN  /\ worker[w].pc = "expireGet"
      /\ ExpireNext(w, Tail(worker[w].overdue),
                    Append(worker[w].failed,
                           [trace |-> t, state |-> rows[t].state]))
      /\ UNCHANGED <<rows, clock, tokens, faults>>

(* A database error in ExpireCallbacks is logged and the round goes on to  *)
(* claim; the rows failed before the error are forgotten.  The statement   *)
(* may have taken effect all the same.                                     *)
ExpireError(w) ==
  /\ worker[w].pc \in {"expire", "expireRow", "expireGet"}
  /\ \/ UNCHANGED rows
     \/ worker[w].pc = "expireRow" /\ ExpireCallback(Head(worker[w].overdue))
  /\ worker' = [worker EXCEPT ![w].pc = "poll",
                              ![w].overdue = <<>>, ![w].failed = <<>>]
  /\ Fault
  /\ UNCHANGED <<clock, tokens, notified>>

-----------------------------------------------------------------------------
(* ClaimDue                                                                *)

HeartbeatInterval_Whole == LockFor

HeartbeatInterval == LockFor \div 3

(* runItem starts on the first item of the batch, with a heartbeat; the    *)
(* round ends with the batch.                                              *)
RunNext(w, batch) ==
  worker' = [worker EXCEPT ![w] =
    IF batch = <<>> THEN Idle
    ELSE [Idle EXCEPT !.pc = "run", !.batch = batch,
                      !.renewAt = IF HeartbeatInterval > 0
                                  THEN clock + HeartbeatInterval ELSE Null]]

SelectPoll(w) ==
  /\ worker[w].pc = "poll"
  /\ \E s \in PollCandidates(worker[w].now, Limit) :
       worker' = [worker EXCEPT ![w].pc = "callback", ![w].found = s]
  /\ UNCHANGED <<rows, clock, tokens, notified, faults>>

SelectCallback(w) ==
  /\ worker[w].pc = "callback"
  /\ \E s \in CallbackCandidates(worker[w].now, Limit) :
       LET found == MergeDueCandidates(worker[w].found, s, Limit)
       IN  worker' = [worker EXCEPT ![w] =
             IF found = <<>> THEN Idle
             ELSE [@ EXCEPT !.pc = "claim", !.found = found]]
  /\ UNCHANGED <<rows, clock, tokens, notified, faults>>

LockUntil(w) == worker[w].now + LockFor

(* claimDueItem for the next item found; an item whose row no longer       *)
(* matches is left out of the batch.                                       *)
Claim(w) ==
  LET item    == Head(worker[w].found)
      rest    == Tail(worker[w].found)
      matches == ClaimMatches(rows[item.trace], item.state, worker[w].now)
      batch   == IF matches THEN Append(worker[w].batch, item)
                            ELSE worker[w].batch
  IN  /\ worker[w].pc = "claim"
      /\ IF matches
         THEN ClaimDueItem(item.trace, item.state, w,
                           worker[w].now, LockUntil(w))
         ELSE UNCHANGED rows
      /\ IF rest = <<>>
         THEN RunNext(w, batch)
         ELSE worker' = [worker EXCEPT ![w].found = rest, ![w].batch = batch]
      /\ UNCHANGED <<clock, tokens, notified, faults>>

(* A database error in ClaimDue ends the round: rows claimed before it     *)
(* stay locked until their lease runs out.                                 *)
ClaimError(w) ==
  LET item == Head(worker[w].found)
  IN  /\ worker[w].pc \in {"poll", "callback", "claim"}
      /\ \/ UNCHANGED rows
         \/ /\ worker[w].pc = "claim"
            /\ ClaimDueItem(item.trace, item.state, w,
                            worker[w].now, LockUntil(w))
      /\ worker' = [worker EXCEPT ![w] = Idle]
      /\ Fault
      /\ UNCHANGED <<clock, tokens, notified>>

-----------------------------------------------------------------------------
(* runItem: the plugin's step, run with the invoke count of the snapshot   *)
(* plus one.  It writes data, may prepare a callback, and ends in a mark.  *)

RunningItem(w) == Head(worker[w].batch)

StepCount_Same(w) == RunningItem(w).invokeCount

StepCount(w) == RunningItem(w).invokeCount + 1

StepWrites(w) ==
  /\ worker[w].pc = "run"
  /\ \E data \in Written : \/ WriteOutputs(RunningItem(w).trace, data)
                           \/ WriteContext(RunningItem(w).trace, data)
  /\ UNCHANGED <<clock, worker, notified, faults>>

StepPrepares(w) ==
  /\ worker[w].pc = "run"
  /\ \E timeout \in Timeouts :
         PrepareCallback(RunningItem(w).trace, HostClock(w), timeout)
  /\ worker' = [worker EXCEPT ![w].prepared = NewHash]
  /\ UNCHANGED <<clock, notified, faults>>

(* A step may wait again only while the invoke count has not reached its   *)
(* bound.                                                                  *)
MayWait(n) == n + 1 \in InvokeCounts

StepMark(w, t, n) ==
  \/ /\ MayWait(n)
     /\ \E after \in Delays : SetPoll(t, n, HostClock(w), after)
  \/ /\ MayWait(n)
     /\ \E timeout \in Timeouts :
          SetCallback(t, n, worker[w].prepared, HostClock(w), timeout)
  \/ SetSuccess(t, n)
  \/ SetFail(t, n)

StepEnds(w) ==
  /\ worker[w].pc = "run"
  /\ StepMark(w, RunningItem(w).trace, StepCount(w))
  /\ Goto(w, "stepped")
  /\ UNCHANGED <<clock, notified, faults>>

(* The mark did not reach the database: ScheduleWithState returns an error *)
(* that runItem only logs.                                                 *)
StepError(w) ==
  /\ worker[w].pc = "run"
  /\ Goto(w, "stepped")
  /\ Fault
  /\ UNCHANGED <<rows, clock, tokens, notified>>

(* The heartbeat, until stopHeartbeat returns: it ends by itself when the  *)
(* lease is no longer this worker's, and the step goes on.                 *)
Renew(w) ==
  LET t == RunningItem(w).trace
  IN  /\ worker[w].pc \in {"run", "stepped"}
      /\ worker[w].renewAt # Null
      /\ clock >= worker[w].renewAt
      /\ IF RenewMatches(rows[t], w)
         THEN /\ RenewLock(t, w, HostClock(w) + LockFor)
              /\ worker' = [worker EXCEPT ![w].renewAt =
                              clock + HeartbeatInterval]
         ELSE /\ worker' = [worker EXCEPT ![w].renewAt = Null]
              /\ UNCHANGED rows
      /\ UNCHANGED <<clock, tokens, notified, faults>>

RenewError(w) ==
  /\ worker[w].pc \in {"run", "stepped"}
  /\ worker[w].renewAt # Null
  /\ clock >= worker[w].renewAt
  /\ worker' = [worker EXCEPT ![w].renewAt = clock + HeartbeatInterval]
  /\ Fault
  /\ UNCHANGED <<rows, clock, tokens, notified>>

ReadBack_SuccessOnly(w) ==
  LET t == RunningItem(w).trace
  IN  /\ worker[w].pc = "stepped"
      /\ NotifyFinish({r \in {[trace |-> t, state |-> rows[t].state]} :
                           r.state = "SUCCESS"})
      /\ RunNext(w, Tail(worker[w].batch))
      /\ UNCHANGED <<rows, clock, tokens, faults>>

ReadBack_KeepItem(w) ==
  LET t == RunningItem(w).trace
  IN  /\ worker[w].pc = "stepped"
      /\ NotifyFinish({[trace |-> t, state |-> rows[t].state]})
      /\ RunNext(w, worker[w].batch)
      /\ UNCHANGED <<rows, clock, tokens, faults>>

ReadBack_Always(w) ==
  LET t == RunningItem(w).trace
  IN  /\ worker[w].pc = "stepped"
      /\ NotifyFinish({[trace |-> t, state |-> "FAIL"]})
      /\ RunNext(w, Tail(worker[w].batch))
      /\ UNCHANGED <<rows, clock, tokens, faults>>

(* stopHeartbeat, then the Get after the step: the finish callback is      *)
(* launched if the state read back is final, whoever made it so.           *)
ReadBack(w) ==
  LET t == RunningItem(w).trace
  IN  /\ worker[w].pc = "stepped"
      /\ NotifyFinish({[trace |-> t, state |-> rows[t].state]})
      /\ RunNext(w, Tail(worker[w].batch))
      /\ UNCHANGED <<rows, clock, tokens, faults>>

ReadBackError(w) ==
  /\ worker[w].pc = "stepped"
  /\ RunNext(w, Tail(worker[w].batch))
  /\ Fault
  /\ UNCHANGED <<rows, clock, tokens, notified>>

(* The process dies, or is told to stop, which makes every later statement *)
(* fail: its leases stay in the table.  A restarted process has a new id.  *)
Crash(w) ==
  /\ worker[w].pc # "dead"
  /\ worker' = [worker EXCEPT ![w] = [Idle EXCEPT !.pc = "dead"]]
  /\ Fault
  /\ UNCHANGED <<rows, clock, tokens, notified>>

-----------------------------------------------------------------------------
(* Time passes.  Where Prompt holds it does not pass while a worker is     *)
(* between two statements or a heartbeat is due; a step may take any time. *)
OnTime(w) ==
  /\ worker[w].pc \in {"idle", "run", "dead"}
  /\ worker[w].renewAt # Null => worker[w].renewAt > clock

Tick ==
  /\ clock < MaxClock
  /\ Prompt => \A w \in Workers : OnTime(w)
  /\ clock' = clock + 1
  /\ UNCHANGED <<rows, tokens, worker, notified, faults>>

(* The statements of the server: Invoke creates the row and runs the first *)
(* step, Callback records a third party's answer to a token that verifies. *)
ServerStep ==
  /\ \/ \E t \in Traces : Create(t, 1, clock) /\ UNCHANGED tokens
     \/ \E t \in Traces :
          /\ Stored(t) /\ rows[t].state = "EMPTY"
          /\ \/ \E after \in Delays : SetPoll(t, 1, clock, after)
             \/ \E timeout \in Timeouts : SetCallback(t, 1, Null, clock, timeout)
     \/ \E hash \in DOMAIN tokens, data \in Payloads :
          /\ Verifies(clock, tokens[hash].expiresAt)
          /\ ReceiveCallback(tokens[hash].trace, hash, data, clock)
          /\ UNCHANGED tokens
  /\ UNCHANGED <<clock, worker, notified, faults>>

SchedulerStep(w) ==
  \/ BeginRound(w) \/ SelectOverdue(w) \/ ExpireRow(w) \/ ExpireGet(w)
  \/ SelectPoll(w) \/ SelectCallback(w) \/ Claim(w)
  \/ StepWrites(w) \/ StepPrepares(w) \/ StepEnds(w)
  \/ Renew(w) \/ ReadBack(w)

SchedulerFault(w) ==
  \/ ExpireError(w) \/ ClaimError(w) \/ StepError(w)
  \/ RenewError(w) \/ ReadBackError(w) \/ Crash(w)

SchedulerInit ==
  /\ StoreInit
  /\ RuntimeInit
  /\ worker = [w \in Workers |-> Idle]
  /\ FinishCallbackInit

SchedulerNext ==
  \/ \E w \in Workers : SchedulerStep(w) \/ SchedulerFault(w)
  \/ ServerStep
  \/ Tick

SchedulerSpec == SchedulerInit /\ [][SchedulerNext]_vars

-----------------------------------------------------------------------------
(* Properties                                                              *)

(* Every variable is well typed.                                           *)
SchedulerTypeOK ==
  /\ StoreTypeOK
  /\ RuntimeTypeOK
  /\ worker \in [Workers -> [pc       : Phases,
                             now      : Nat,
                             overdue  : Seq(Traces),
                             failed   : Seq(ReadBackType),
                             found    : Seq(ItemType),
                             batch    : Seq(ItemType),
                             renewAt  : Nat \cup {Null},
                             prepared : Hashes \cup {Null}]]
  /\ FinishCallbackTypeOK

Running(w, t) == worker[w].pc = "run" /\ RunningItem(w).trace = t

(* No two workers execute a step of the same trace at the same time: a     *)
(* running step is not re-claimed and re-executed by another worker        *)
(* (worker.go:107-108, gorm_store.go:194-197).                             *)
StepMutex ==
  \A t \in Traces, v, w \in Workers : Running(v, t) /\ Running(w, t) => v = w

(* While a step runs, its worker holds a lease on an unfinished row that   *)
(* no host takes for expired, those with a fast clock included: this is    *)
(* what the heartbeat is for (worker.go:150-153, 171).                     *)
LeaseCoversStep ==
  \A t \in Traces, w \in Workers : Running(w, t) =>
    /\ rows[t].lockedBy = w
    /\ \A v \in Workers : rows[t].lockedUntil >= HostClock(v)
    /\ ~rows[t].finished

(* A leased row is in the batch of the worker its lease names: without     *)
(* faults no row waits out a lease nobody is using, and a heartbeat that   *)
(* races the end of its step cannot take the lease back.                   *)
LeasedRowIsHeld ==
  faults = 0 =>
    \A t \in Traces, w \in Workers :
      Stored(t) /\ rows[t].lockedBy = w =>
        \E i \in DOMAIN worker[w].batch : worker[w].batch[i].trace = t

(* A step runs on what the row holds: the state, invoke count and payload  *)
(* of the snapshot taken before the claim are still those of the row.      *)
StepFollowsRow ==
  \A t \in Traces, w \in Workers : Running(w, t) =>
    /\ rows[t].state = RunningItem(w).state
    /\ rows[t].invokeCount = RunningItem(w).invokeCount
    /\ rows[t].callbackData = RunningItem(w).callbackData

(* What the caller was told is final: nothing in a SUCCESS or FAIL row     *)
(* changes any more, outputs and error included.                           *)
FinalRowFrozen ==
  [][\A t \in Traces : Stored(t) /\ IsFinal(rows[t].state) =>
       rows'[t] = rows[t]]_vars

(* w is about to read t back and will notify if t is final.                *)
OwesNotification(w, t) ==
  \/ worker[w].pc = "stepped" /\ RunningItem(w).trace = t
  \/ worker[w].pc = "expireGet" /\ Head(worker[w].overdue) = t
  \/ \E i \in DOMAIN worker[w].failed : worker[w].failed[i].trace = t

(* A finish callback is sent only for a trace whose state is final, and    *)
(* stays true: the caller is never told of an end that did not last.       *)
NotifiedIsFinal ==
  \A t \in Traces : notified[t] > 0 => Stored(t) /\ IsFinal(rows[t].state)

(* The scheduler implements the lifecycle the caller of a plugin sees:     *)
(* every trace goes through its phases in order, and its step count grows  *)
(* by one with every step (ScheduleLifecycle).                             *)
Lifecycle == INSTANCE ScheduleLifecycle
               WITH phase <- [t \in Traces |-> Phase(t)],
                    steps <- [t \in Traces |-> StepsDone(t)]

ImplementsLifecycle == Lifecycle!Spec
=============================================================================
