---------------------------- MODULE SchedulerProofs ----------------------------
(***************************************************************************)
(* The invariants of the workers, for any number of traces, workers,       *)
(* tokens and faults and any clock.                                        *)
(*                                                                         *)
(* WorkerInv, what a worker holds in memory, holds whatever the settings.  *)
(* LeaseInv needs the settings of Punctual: one row to a round, and        *)
(* statements and heartbeats that come in time.                            *)
(* FollowInv, that a step runs on what its row holds, and the refinement   *)
(* of ScheduleLifecycle need more: polls after more than the clocks of the *)
(* hosts differ by, and no answer to a later wait that overtakes the claim *)
(* of an earlier one (AnswersAwaitClaims).                                 *)
(***************************************************************************)
EXTENDS Scheduler, ExecuteRuntimeProofs

-----------------------------------------------------------------------------
(* The inductive invariants.                                               *)

WorkerType == [pc       : Phases,
               now      : Nat,
               overdue  : Seq(Traces),
               failed   : Seq(ReadBackType),
               found    : Seq(ItemType),
               batch    : Seq(ItemType),
               renewAt  : Nat \cup {Null},
               prepared : Hashes \cup {Null}]

(* A row or an item a step may be run for leaves room for its count. *)
Countable(r) ==
  r.state \in {"POLL", "CALLBACK"} => r.invokeCount + 1 \in InvokeCounts

Steppable(items) ==
  \A i \in 1..Len(items) : items[i].invokeCount + 1 \in InvokeCounts

(* What a worker in memory r has at hand fits where it is. *)
FitsPhase(r) ==
  /\ r.pc \in {"expireRow", "expireGet"} => r.overdue # <<>>
  /\ r.pc = "claim" => r.found # <<>>
  /\ r.pc \in {"run", "stepped"} => r.batch # <<>>
  /\ r.pc \notin {"claim", "run", "stepped"} => r.batch = <<>>
  /\ r.prepared # Null => r.pc \in {"run", "stepped"}
  /\ Steppable(r.found) /\ Steppable(r.batch)

(* ... and so does what it knows of the table and of the tokens. *)
FitsTable(r) ==
  /\ \A i \in 1..Len(r.overdue) : Stored(r.overdue[i])
  /\ r.prepared # Null => PreparedFor(Head(r.batch).trace, r.prepared)

WorkerInv ==
  /\ SchedulerTypeOK
  /\ StoreInv
  /\ FiniteTable
  /\ \A t \in Traces : Stored(t) => Countable(rows[t])
  /\ \A w \in Workers : FitsPhase(worker[w]) /\ FitsTable(worker[w])

(* Without faults a step that has ended has given its lease back. *)
HeldInv ==
  /\ LeasedRowIsHeld
  /\ faults = 0 =>
       \A w \in Workers :
         worker[w].pc = "stepped" /\ Stored(RunningItem(w).trace) =>
           rows[RunningItem(w).trace].lockedBy # w

(* The settings under which leases cover steps. *)
Punctual ==
  /\ Prompt
  /\ Limit = 1
  /\ HeartbeatInterval > 0
  /\ (MaxFaults + 1) * HeartbeatInterval + Skew <= LockFor

SkewOf(w) == IF w \in Fast THEN Skew ELSE 0

(* The lease of a running step outlasts its next heartbeat by all but one  *)
(* interval, and one more for each heartbeat that may have failed.         *)
Leases(w) ==
  LET r == rows[RunningItem(w).trace]
  IN  /\ Stored(RunningItem(w).trace)
      /\ ~r.finished
      /\ DueCallback(r) \/ r.state = "POLL"
      /\ r.lockedBy = w
      /\ worker[w].renewAt \in Nat
      /\ clock <= worker[w].renewAt
      /\ r.lockedUntil + (faults + 1) * HeartbeatInterval
           >= worker[w].renewAt + LockFor + SkewOf(w)

(* Between two statements no time passes, and a round has one item. *)
RoundOf(w) ==
  /\ worker[w].pc \notin {"idle", "run", "stepped", "dead"} =>
       worker[w].now = HostClock(w)
  /\ Len(worker[w].found) <= 1 /\ Len(worker[w].batch) <= 1
  /\ worker[w].pc = "claim" => worker[w].batch = <<>>

(* What was or will be read back is there, and final for good if it was     *)
(* read as final.                                                          *)
FailedOf(w) ==
  /\ worker[w].pc = "stepped" => Stored(RunningItem(w).trace)
  /\ \A i \in 1..Len(worker[w].failed) :
       IsFinal(worker[w].failed[i].state) =>
         /\ Stored(worker[w].failed[i].trace)
         /\ IsFinal(rows[worker[w].failed[i].trace].state)

LeaseInv ==
  /\ WorkerInv
  /\ NotifiedIsFinal
  /\ \A w \in Workers : /\ RoundOf(w)
                        /\ worker[w].pc = "run" => Leases(w)
                        /\ FailedOf(w)

-----------------------------------------------------------------------------
(* Sequences, and the fields of a worker.                                  *)

(* Taking the first element of a sequence off it. *)
LEMMA HeadAndTail ==
  ASSUME NEW S, NEW s \in Seq(S), s # <<>>
  PROVE  /\ Head(s) = s[1] /\ Head(s) \in S /\ 1 \in 1..Len(s)
         /\ Tail(s) \in Seq(S) /\ Len(Tail(s)) = Len(s) - 1
         /\ \A i \in 1..Len(Tail(s)) : i + 1 \in 1..Len(s) /\ Tail(s)[i] = s[i + 1]
OBVIOUS

(* Adding an element at the end of a sequence. *)
LEMMA AppendOne ==
  ASSUME NEW S, NEW s \in Seq(S), NEW e \in S
  PROVE  /\ Append(s, e) \in Seq(S) /\ Append(s, e) # <<>>
         /\ Len(Append(s, e)) = Len(s) + 1
         /\ \A i \in 1..Len(Append(s, e)) :
              IF i = Len(s) + 1 THEN Append(s, e)[i] = e
              ELSE i \in 1..Len(s) /\ Append(s, e)[i] = s[i]
OBVIOUS

(* The types, as the proofs use them. *)
LEMMA WorkerTypes ==
  ASSUME WorkerInv
  PROVE  /\ StoreInv /\ RuntimeTypeOK /\ FinishCallbackTypeOK /\ FiniteTable
         /\ rows \in [Traces -> Schedule \cup {Null}]
         /\ clock \in Nat /\ faults \in 0..MaxFaults /\ MaxFaults \in Nat
         /\ worker \in [Workers -> WorkerType]
         /\ Limit \in Nat /\ Limit # 0 /\ LockFor \in Nat /\ Skew \in Nat
         /\ HeartbeatInterval \in Nat
         /\ 1 \in InvokeCounts /\ 2 \in InvokeCounts
         /\ \A w \in Workers : HostClock(w) \in Nat /\ HostClock(w) = clock + SkewOf(w)
                               /\ SkewOf(w) \in Nat
<1>1. /\ StoreInv /\ RuntimeTypeOK /\ FinishCallbackTypeOK /\ FiniteTable
      /\ rows \in [Traces -> Schedule \cup {Null}]
      /\ worker \in [Workers -> WorkerType]
  BY DEF WorkerInv, SchedulerTypeOK, WorkerType, StoreTypeOK
<1>2. clock \in Nat /\ faults \in 0..MaxFaults /\ MaxFaults \in Nat
  BY <1>1, RuntimeAssumption DEF RuntimeTypeOK
<1>3. HeartbeatInterval \in Nat
  BY SchedulerAssumption DEF HeartbeatInterval
<1>4. \A w \in Workers : HostClock(w) \in Nat /\ HostClock(w) = clock + SkewOf(w)
                         /\ SkewOf(w) \in Nat
  BY <1>2, SchedulerAssumption DEF HostClock, SkewOf
<1>. QED BY <1>1, <1>2, <1>3, <1>4, SchedulerAssumption, RuntimeAssumption

(* The memory of one worker. *)
LEMMA WorkerFields ==
  ASSUME WorkerInv, NEW w \in Workers
  PROVE  /\ worker[w] \in WorkerType
         /\ FitsPhase(worker[w]) /\ FitsTable(worker[w])
         /\ worker[w].now \in Nat
         /\ worker[w].overdue \in Seq(Traces)
         /\ worker[w].failed \in Seq(ReadBackType)
         /\ worker[w].found \in Seq(ItemType) /\ worker[w].batch \in Seq(ItemType)
         /\ worker[w].prepared \in Hashes \cup {Null}
         /\ worker[w].renewAt \in Nat \cup {Null}
         /\ LockUntil(w) \in Nat
<1>1. worker[w] \in WorkerType /\ LockFor \in Nat
  BY WorkerTypes
<1>2. worker[w].now \in Nat
  BY <1>1 DEF WorkerType
<1>. QED BY <1>1, <1>2 DEF WorkerType, WorkerInv, LockUntil

(* The step of the running item. *)
LEMMA RunningStep ==
  ASSUME WorkerInv, NEW w \in Workers, worker[w].pc \in {"run", "stepped"}
  PROVE  /\ RunningItem(w) \in ItemType /\ RunningItem(w).trace \in Traces
         /\ RunningItem(w) = worker[w].batch[1]
         /\ worker[w].batch # <<>>
         /\ StepCount(w) \in InvokeCounts /\ StepCount(w) \in Nat
         /\ PreparedFor(RunningItem(w).trace, worker[w].prepared)
<1>1. worker[w].batch \in Seq(ItemType) /\ worker[w].batch # <<>>
  BY WorkerFields DEF FitsPhase
<1>2. /\ RunningItem(w) \in ItemType /\ RunningItem(w) = worker[w].batch[1]
      /\ 1 \in 1..Len(worker[w].batch)
  BY <1>1, HeadAndTail DEF RunningItem
<1>3. StepCount(w) \in InvokeCounts
  BY <1>2, WorkerFields DEF FitsPhase, Steppable, StepCount
<1>4. PreparedFor(RunningItem(w).trace, worker[w].prepared)
  BY WorkerFields DEF FitsTable, RunningItem, PreparedFor
<1>. QED BY <1>1, <1>2, <1>3, <1>4, InvokeCountsAssumption DEF ItemType

-----------------------------------------------------------------------------
(* What the statements of a worker do to the table.                        *)

(* How a mark leaves the row of a step that ends at now. *)
MarkedRow(r, n, now, s) ==
  \/ /\ n + 1 \in InvokeCounts
     /\ \/ \E after \in Delays : s = PollRow(r, n, now + after)
        \/ \E hash \in Hashes, expires \in Nat : s = CallbackRow(r, n, hash, expires)
  \/ s = SuccessRow(r, n)
  \/ s = FailRow(r, n)

(* A marked row is free, and may be stepped once more if it waits. *)
LEMMA MarkedRowEffect ==
  ASSUME NEW r \in Schedule, NEW n \in InvokeCounts, NEW now, NEW s,
         MarkedRow(r, n, now, s)
  PROVE  s.lockedBy = Null /\ Countable(s)
<1>1. /\ s.lockedBy = Null
      /\ \/ s.state \in {"SUCCESS", "FAIL"}
         \/ n + 1 \in InvokeCounts /\ s.invokeCount = n
  <2>1. CASE /\ n + 1 \in InvokeCounts
             /\ \E after \in Delays : s = PollRow(r, n, now + after)
    BY <2>1 DEF PollRow, Schedule
  <2>2. CASE n + 1 \in InvokeCounts /\ \E hash \in Hashes, expires \in Nat :
               s = CallbackRow(r, n, hash, expires)
    BY <2>2 DEF CallbackRow, Schedule
  <2>3. CASE s = SuccessRow(r, n) \/ s = FailRow(r, n)
    BY <2>3 DEF SuccessRow, FailRow, Schedule
  <2>. QED BY <2>1, <2>2, <2>3 DEF MarkedRow
<1>. QED BY <1>1 DEF Countable

(* One statement of worker w on the row of t. *)
RowBy(w, t) ==
  /\ Stored(t) /\ Statement(t)
  /\ \/ /\ worker[w].pc = "expireRow"
        /\ ExpireMatches(rows[t])
        /\ rows'[t] = ExpiredRow(rows[t])
     \/ /\ worker[w].pc = "claim" /\ t = Head(worker[w].found).trace
        /\ ClaimMatches(rows[t], Head(worker[w].found).state, worker[w].now)
        /\ rows'[t] = [rows[t] EXCEPT !.lockedBy = w, !.lockedUntil = LockUntil(w)]
     \/ /\ worker[w].pc = "run" /\ t = RunningItem(w).trace
        /\ \E data \in Payloads : \/ rows'[t] = [rows[t] EXCEPT !.outputs = data]
                                  \/ rows'[t] = [rows[t] EXCEPT !.contextData = data]
     \/ /\ worker[w].pc = "run" /\ t = RunningItem(w).trace
        /\ worker'[w].pc = "stepped"
        /\ MarkedRow(rows[t], StepCount(w), HostClock(w), rows'[t])
     \/ /\ worker[w].pc \in {"run", "stepped"} /\ t = RunningItem(w).trace
        /\ RenewMatches(rows[t], w)
        /\ rows'[t] = [rows[t] EXCEPT !.lockedUntil = HostClock(w) + LockFor]

(* The row stays a row a step may be run for; its lease changes hands only *)
(* by a claim.                                                             *)
LEMMA RowByEffect ==
  ASSUME WorkerInv, NEW w \in Workers, NEW t \in Traces, RowBy(w, t)
  PROVE  /\ Statement(t) /\ rows'[t] # Null /\ Countable(rows'[t])
         /\ \A u \in Traces : u # t => rows'[u] = rows[u]
         /\ \/ rows'[t].lockedBy \in {Null, rows[t].lockedBy}
            \/ /\ rows'[t].lockedBy = w /\ worker[w].pc = "claim"
               /\ t = Head(worker[w].found).trace
<1>1. /\ StoreInv /\ rows[t] \in Schedule /\ Countable(rows[t])
      /\ rows \in [Traces -> Schedule \cup {Null}]
      /\ Statement(t) /\ Stored(t)
  BY WorkerTypes, StoredRow DEF WorkerInv, RowBy
<1>2. rows'[t] # Null /\ \A u \in Traces : u # t => rows'[u] = rows[u]
  BY <1>1, OtherRowsAreKept, RowsAreKept DEF AnyStatement
<1>3. /\ Countable(rows'[t])
      /\ \/ rows'[t].lockedBy \in {Null, rows[t].lockedBy}
         \/ /\ rows'[t].lockedBy = w /\ worker[w].pc = "claim"
            /\ t = Head(worker[w].found).trace
  <2>1. CASE /\ ExpireMatches(rows[t]) /\ rows'[t] = ExpiredRow(rows[t])
    BY <1>1, <2>1 DEF ExpiredRow, Schedule, Countable
  <2>2. CASE /\ worker[w].pc = "claim" /\ t = Head(worker[w].found).trace
             /\ rows'[t] = [rows[t] EXCEPT !.lockedBy = w,
                                           !.lockedUntil = LockUntil(w)]
    BY <1>1, <2>2 DEF Schedule, Countable
  <2>3. CASE \E data \in Payloads :
               \/ rows'[t] = [rows[t] EXCEPT !.outputs = data]
               \/ rows'[t] = [rows[t] EXCEPT !.contextData = data]
    BY <1>1, <2>3 DEF Schedule, Countable
  <2>4. CASE /\ worker[w].pc = "run"
             /\ MarkedRow(rows[t], StepCount(w), HostClock(w), rows'[t])
    BY <1>1, <2>4, RunningStep, MarkedRowEffect
  <2>5. CASE rows'[t] = [rows[t] EXCEPT !.lockedUntil = HostClock(w) + LockFor]
    BY <1>1, <2>5 DEF Schedule, Countable
  <2>. QED BY <2>1, <2>2, <2>3, <2>4, <2>5 DEF RowBy
<1>. QED BY <1>1, <1>2, <1>3

-----------------------------------------------------------------------------
(* What a step of worker w may touch; r is what it leaves in its memory.   *)

WorkerFrame(w, r) ==
  /\ UNCHANGED clock
  /\ UNCHANGED faults \/ Fault
  /\ UNCHANGED notified \/ \E readBack : NotifyFinish(readBack)
  /\ r \in WorkerType /\ worker' = [worker EXCEPT ![w] = r]
  /\ UNCHANGED rows \/ \E t \in Traces : RowBy(w, t)
  /\ \E t : TokensGrow(t)
  /\ FitsPhase(r)
  /\ \A i \in 1..Len(r.overdue) : rows'[r.overdue[i]] # Null
  /\ r.prepared # Null =>
       /\ r.prepared \in DOMAIN tokens'
       /\ tokens'[r.prepared].trace = Head(r.batch).trace

(* A statement of anybody else keeps what a worker knows. *)
LEMMA FitsStill ==
  ASSUME WorkerInv, [AnyStatement]_rows, NEW t, TokensGrow(t),
         NEW w \in Workers, worker'[w] = worker[w]
  PROVE  FitsPhase(worker[w])' /\ FitsTable(worker[w])'
<1>1. /\ FitsPhase(worker[w]) /\ FitsTable(worker[w])
      /\ worker[w].overdue \in Seq(Traces) /\ StoreInv
  BY WorkerFields, WorkerTypes
<1>2. \A i \in 1..Len(worker[w].overdue) : worker[w].overdue[i] \in Traces
  BY <1>1
<1>3. \A i \in 1..Len(worker[w].overdue) : rows'[worker[w].overdue[i]] # Null
  BY <1>1, <1>2, RowsAreKept DEF FitsTable
<1>4. worker[w].prepared # Null =>
        /\ worker[w].prepared \in DOMAIN tokens'
        /\ tokens'[worker[w].prepared].trace = Head(worker[w].batch).trace
  BY <1>1 DEF FitsTable, PreparedFor, Issued, TokensGrow
<1>5. FitsTable(worker[w])'
  BY <1>3, <1>4 DEF FitsTable, PreparedFor, Issued, Stored
<1>6. FitsPhase(worker[w])'
  BY <1>1 DEF FitsPhase, Steppable
<1>. QED BY <1>5, <1>6

(* A step within the frame keeps the invariant. *)
LEMMA WorkerFrameInv ==
  ASSUME WorkerInv, NEW w \in Workers, NEW r, WorkerFrame(w, r)
  PROVE  WorkerInv'
<1>1. /\ StoreInv /\ RuntimeTypeOK /\ FinishCallbackTypeOK /\ FiniteTable
      /\ worker \in [Workers -> WorkerType]
  BY WorkerTypes
<1>2. [AnyStatement]_rows
  BY DEF WorkerFrame, RowBy, AnyStatement
<1>3. StoreInv' /\ FiniteTable'
  BY <1>1, <1>2, StatementInv, StatementKeepsFinite
<1>4. PICK t : TokensGrow(t)
  BY DEF WorkerFrame
<1>5. SchedulerTypeOK'
  <2>1. RuntimeTypeOK'
    BY <1>1, <1>4, FaultCounts DEF WorkerFrame, TokensGrow, RuntimeTypeOK, Token
  <2>2. FinishCallbackTypeOK'
    BY <1>1, NotifyType DEF WorkerFrame, FinishCallbackTypeOK
  <2>3. worker' \in [Workers -> WorkerType]
    BY <1>1 DEF WorkerFrame
  <2>. QED BY <1>3, <2>1, <2>2, <2>3 DEF SchedulerTypeOK, StoreInv, WorkerType
<1>6. ASSUME NEW u \in Traces, rows'[u] # Null
      PROVE  Countable(rows'[u])
  <2>1. CASE UNCHANGED rows
    BY <1>6, <2>1 DEF WorkerInv, Stored
  <2>2. ASSUME NEW s \in Traces, RowBy(w, s)
        PROVE  Countable(rows'[u])
    BY <1>6, <2>2, RowByEffect DEF WorkerInv, Stored
  <2>. QED BY <2>1, <2>2 DEF WorkerFrame
<1>7. ASSUME NEW v \in Workers
      PROVE  FitsPhase(worker[v])' /\ FitsTable(worker[v])'
  <2>1. CASE v # w
    <3>1. worker'[v] = worker[v]
      BY <1>1, <2>1 DEF WorkerFrame
    <3>. QED BY <1>2, <1>4, <3>1, FitsStill
  <2>2. CASE v = w
    <3>1. worker'[v] = r
      BY <1>1, <2>2 DEF WorkerFrame
    <3>2. FitsPhase(worker[v])'
      BY <3>1 DEF WorkerFrame, FitsPhase, Steppable
    <3>3. FitsTable(worker[v])'
      BY <3>1 DEF WorkerFrame, FitsTable, PreparedFor, Issued, Stored
    <3>. QED BY <3>2, <3>3
  <2>. QED BY <2>1, <2>2
<1>. QED BY <1>3, <1>5, <1>6, <1>7 DEF WorkerInv, Stored

-----------------------------------------------------------------------------
(* Expiring callbacks.                                                     *)

(* A worker between two rounds. *)
LEMMA IdleType ==
  /\ Idle \in WorkerType /\ FitsPhase(Idle)
  /\ Idle.pc = "idle" /\ Idle.overdue = <<>> /\ Idle.prepared = Null
  /\ Idle.batch = <<>> /\ Idle.found = <<>> /\ Idle.failed = <<>>
<1>1. Idle \in WorkerType
  BY DEF Idle, WorkerType, Phases
<1>2. /\ Idle.pc = "idle" /\ Idle.overdue = <<>> /\ Idle.prepared = Null
      /\ Idle.batch = <<>> /\ Idle.found = <<>> /\ Idle.failed = <<>>
  BY DEF Idle
<1>. QED BY <1>1, <1>2 DEF FitsPhase, Steppable

(* The rows ExpireCallbacks selects wait for a callback. *)
LEMMA OverdueSelected ==
  ASSUME WorkerInv, NEW now, NEW s \in ExpireCandidates(now, Limit)
  PROVE  s \in Seq(Traces)
         /\ \A i \in 1..Len(s) : Stored(s[i]) /\ rows[s[i]].state = "CALLBACK"
<1> DEFINE S == {t \in Traces : Stored(t) /\ Overdue(rows[t], now)}
           key == [t \in S |-> rows[t].expiresAt]
<1>1. s \in OrderedResults(S, key, Limit)
  BY DEF ExpireCandidates
<1>2. IsFiniteSet(S)
  BY WorkerTypes, FS_Subset DEF FiniteTable, StoredTraces
<1>3. key \in [S -> Nat]
  BY WorkerTypes, StoredRow DEF Overdue, Schedule
<1>4. s \in Seq(S)
  BY <1>1, <1>2, <1>3, WorkerTypes, ResultsOfQuery
<1>. QED BY <1>4 DEF Overdue

(* The frame of a step that changes only what the worker remembers. *)
LEMMA MemoryStep ==
  ASSUME WorkerInv, NEW w \in Workers, NEW r \in WorkerType,
         UNCHANGED <<rows, clock, tokens>>, UNCHANGED faults \/ Fault,
         UNCHANGED notified \/ \E readBack : NotifyFinish(readBack),
         worker' = [worker EXCEPT ![w] = r], FitsPhase(r), FitsTable(r)
  PROVE  \E s : WorkerFrame(w, s)
<1>1. TokensGrow(w)
  BY WorkerTypes, NoNewToken
<1>2. WorkerFrame(w, r)
  BY <1>1 DEF WorkerFrame, FitsTable, PreparedFor, Issued, Stored
<1>. QED BY <1>2

(* The begin of a round reads the time.                                    *)
LEMMA BeginFrame ==
  ASSUME WorkerInv, NEW w \in Workers, BeginRound(w)
  PROVE  \E r : WorkerFrame(w, r)
<1> DEFINE r == [worker[w] EXCEPT !.pc = "expire", !.now = HostClock(w)]
<1>1. worker' = [worker EXCEPT ![w] = r]
  BY WorkerTypes DEF BeginRound
<1>2. /\ r \in WorkerType /\ r.pc = "expire" /\ r.prepared = worker[w].prepared
      /\ r.overdue = worker[w].overdue /\ r.found = worker[w].found
      /\ r.batch = worker[w].batch
  BY WorkerTypes, WorkerFields DEF WorkerType, Phases
<1>3. worker[w].pc = "idle" /\ FitsPhase(worker[w]) /\ FitsTable(worker[w])
  BY WorkerFields DEF BeginRound
<1> HIDE DEF r
<1>4. FitsPhase(r) /\ FitsTable(r)
  BY <1>2, <1>3 DEF FitsPhase, FitsTable
<1>. QED BY <1>1, <1>2, <1>4, MemoryStep DEF BeginRound

(* The overdue waits are selected; nothing is written.                     *)
LEMMA SelectOverdueFrame ==
  ASSUME WorkerInv, NEW w \in Workers, SelectOverdue(w)
  PROVE  \E r : WorkerFrame(w, r)
<1>1. PICK s \in ExpireCandidates(worker[w].now, Limit) :
        worker' = [worker EXCEPT
                    ![w].pc = IF s = <<>> THEN "poll" ELSE "expireRow",
                    ![w].overdue = s]
  BY DEF SelectOverdue
<1> DEFINE pc == IF s = <<>> THEN "poll" ELSE "expireRow"
           r == [worker[w] EXCEPT !.pc = pc, !.overdue = s]
<1>2. worker' = [worker EXCEPT ![w] = r]
  BY <1>1, WorkerTypes
<1>3. s \in Seq(Traces) /\ \A i \in 1..Len(s) : Stored(s[i])
  BY OverdueSelected
<1>4. /\ r \in WorkerType /\ r.pc = pc /\ r.prepared = worker[w].prepared
      /\ r.overdue = s /\ r.found = worker[w].found
      /\ r.batch = worker[w].batch
  BY <1>3, WorkerFields DEF WorkerType, Phases
<1>5. worker[w].pc = "expire" /\ FitsPhase(worker[w]) /\ FitsTable(worker[w])
  BY WorkerFields DEF SelectOverdue
<1> HIDE DEF r
<1>6. FitsPhase(r) /\ FitsTable(r)
  BY <1>3, <1>4, <1>5 DEF FitsPhase, FitsTable
<1>. QED BY <1>2, <1>4, <1>6, MemoryStep DEF SelectOverdue

(* What ExpireNext leaves in memory. *)
LEMMA ExpireNextEffect ==
  ASSUME WorkerInv, NEW w \in Workers, worker[w].pc \in {"expireRow", "expireGet"},
         NEW overdue \in Seq(Traces), NEW failed \in Seq(ReadBackType),
         ExpireNext(w, overdue, failed)
  PROVE  \E r \in WorkerType :
           /\ worker' = [worker EXCEPT ![w] = r]
           /\ FitsPhase(r) /\ r.overdue = overdue /\ r.prepared = Null
           /\ r.found = worker[w].found /\ r.batch = worker[w].batch
           /\ r.pc \in {"expireRow", "poll"}
           /\ UNCHANGED notified \/ \E readBack : NotifyFinish(readBack)
           /\ \/ r.pc = "expireRow" /\ r.failed = failed /\ UNCHANGED notified
              \/ /\ r.pc = "poll" /\ r.failed = <<>>
                 /\ NotifyFinish({failed[i] : i \in DOMAIN failed})
<1> DEFINE r == IF overdue # <<>>
                THEN [worker[w] EXCEPT !.pc = "expireRow", !.overdue = overdue,
                                       !.failed = failed]
                ELSE [worker[w] EXCEPT !.pc = "poll", !.overdue = <<>>,
                                       !.failed = <<>>]
<1>1. worker' = [worker EXCEPT ![w] = r]
  BY WorkerTypes DEF ExpireNext
<1>2. /\ r \in WorkerType /\ r.pc \in {"expireRow", "poll"}
      /\ r.pc = "expireRow" => overdue # <<>>
      /\ r.prepared = worker[w].prepared /\ r.found = worker[w].found
      /\ r.batch = worker[w].batch /\ r.overdue = overdue
      /\ r.failed = IF overdue # <<>> THEN failed ELSE <<>>
      /\ r.pc = IF overdue # <<>> THEN "expireRow" ELSE "poll"
  <2>. worker[w] \in WorkerType /\ <<>> \in Seq(Traces) /\ <<>> \in Seq(ReadBackType)
    BY WorkerFields
  <2>1. CASE overdue # <<>>
    <3>1. r = [worker[w] EXCEPT !.pc = "expireRow", !.overdue = overdue,
                                !.failed = failed]
      BY <2>1
    <3>. QED BY <2>1, <3>1 DEF WorkerType, Phases
  <2>2. CASE overdue = <<>>
    <3>1. r = [worker[w] EXCEPT !.pc = "poll", !.overdue = <<>>, !.failed = <<>>]
      BY <2>2
    <3>. QED BY <2>2, <3>1 DEF WorkerType, Phases
  <2>. QED BY <2>1, <2>2
<1>3. IF overdue # <<>> THEN UNCHANGED notified
      ELSE NotifyFinish({failed[i] : i \in DOMAIN failed})
  BY DEF ExpireNext
<1> HIDE DEF r
<1>4. FitsPhase(r) /\ r.prepared = Null
  BY <1>2, WorkerFields DEF FitsPhase
<1>5. UNCHANGED notified \/ \E readBack : NotifyFinish(readBack)
  BY <1>3
<1>. QED BY <1>1, <1>2, <1>3, <1>4, <1>5

(* One overdue wait is failed, or was taken up meanwhile.                  *)
LEMMA ExpireRowFrame ==
  ASSUME WorkerInv, NEW w \in Workers, ExpireRow(w)
  PROVE  \E r : WorkerFrame(w, r)
<1> DEFINE t == Head(worker[w].overdue)
           rest == Tail(worker[w].overdue)
<1>1. /\ worker[w].pc = "expireRow" /\ worker[w].overdue # <<>>
      /\ UNCHANGED <<clock, tokens, faults>>
  BY WorkerFields DEF ExpireRow, FitsPhase
<1>2. /\ t \in Traces /\ t = worker[w].overdue[1] /\ 1 \in 1..Len(worker[w].overdue)
      /\ rest \in Seq(Traces)
      /\ \A i \in 1..Len(rest) : /\ i + 1 \in 1..Len(worker[w].overdue)
                                 /\ rest[i] = worker[w].overdue[i + 1]
  BY <1>1, WorkerFields, HeadAndTail
<1>3. \A i \in 1..Len(worker[w].overdue) : Stored(worker[w].overdue[i])
  BY WorkerFields DEF FitsTable
<1>4. TokensGrow(w)
  BY <1>1, WorkerTypes, NoNewToken
<1> HIDE DEF t, rest
<1>5. CASE ExpireMatches(rows[t])
  <2> DEFINE r == [worker[w] EXCEPT !.pc = "expireGet"]
  <2>1. /\ ExpireCallback(t) /\ UNCHANGED notified
        /\ worker' = [worker EXCEPT ![w] = r]
    BY <1>5, WorkerTypes DEF ExpireRow, Goto, t
  <2>2. /\ r \in WorkerType /\ r.pc = "expireGet"
        /\ r.prepared = worker[w].prepared /\ r.found = worker[w].found
        /\ r.batch = worker[w].batch /\ r.overdue = worker[w].overdue
    BY WorkerFields DEF WorkerType, Phases
  <2> HIDE DEF r
  <2>3. Statement(t) /\ Stored(t) /\ [AnyStatement]_rows
    BY <1>2, <2>1 DEF Statement, AnyStatement, ExpireCallback
  <2>4. rows'[t] = ExpiredRow(rows[t])
    BY <1>2, <2>1, WorkerTypes DEF ExpireCallback
  <2>5. RowBy(w, t)
    BY <1>1, <1>5, <2>3, <2>4 DEF RowBy
  <2>6. FitsPhase(r) /\ r.prepared = Null
    BY <1>1, <2>2, WorkerFields DEF FitsPhase
  <2>7. \A i \in 1..Len(r.overdue) : rows'[r.overdue[i]] # Null
    <3>1. \A i \in 1..Len(r.overdue) : r.overdue[i] \in Traces
      BY <2>2, WorkerFields
    <3>. QED BY <1>3, <2>2, <2>3, <3>1, RowsAreKept, WorkerTypes
  <2>8. WorkerFrame(w, r)
    BY <1>1, <1>2, <1>4, <2>1, <2>2, <2>5, <2>6, <2>7 DEF WorkerFrame
  <2>. QED BY <2>8
<1>6. CASE ~ExpireMatches(rows[t])
  <2>1. ExpireNext(w, rest, worker[w].failed) /\ UNCHANGED rows
    BY <1>6 DEF ExpireRow, t, rest
  <2>2. worker[w].failed \in Seq(ReadBackType)
    BY WorkerFields
  <2>3. PICK r \in WorkerType :
          /\ worker' = [worker EXCEPT ![w] = r]
          /\ FitsPhase(r) /\ r.overdue = rest /\ r.prepared = Null
          /\ UNCHANGED notified \/ \E readBack : NotifyFinish(readBack)
    BY <1>1, <1>2, <2>1, <2>2, ExpireNextEffect
  <2>4. FitsTable(r)
    BY <1>2, <1>3, <2>3 DEF FitsTable
  <2>. QED BY <1>1, <2>1, <2>3, <2>4, MemoryStep
<1>. QED BY <1>5, <1>6

(* A failed row is read back.                                              *)
LEMMA ExpireGetFrame ==
  ASSUME WorkerInv, NEW w \in Workers, ExpireGet(w)
  PROVE  \E r : WorkerFrame(w, r)
<1> DEFINE t == Head(worker[w].overdue)
           rest == Tail(worker[w].overdue)
           read == [trace |-> t, state |-> rows[t].state]
           failed == Append(worker[w].failed, read)
<1>1. /\ worker[w].pc = "expireGet" /\ worker[w].overdue # <<>>
      /\ UNCHANGED <<rows, clock, tokens, faults>>
      /\ ExpireNext(w, rest, failed)
  BY WorkerFields DEF ExpireGet, FitsPhase
<1>2. /\ t \in Traces /\ t = worker[w].overdue[1] /\ 1 \in 1..Len(worker[w].overdue)
      /\ rest \in Seq(Traces)
      /\ \A i \in 1..Len(rest) : /\ i + 1 \in 1..Len(worker[w].overdue)
                                 /\ rest[i] = worker[w].overdue[i + 1]
  BY <1>1, WorkerFields, HeadAndTail
<1>3. \A i \in 1..Len(worker[w].overdue) : Stored(worker[w].overdue[i])
  BY WorkerFields DEF FitsTable
<1> HIDE DEF t, rest
<1>4. read \in ReadBackType
  BY <1>2, <1>3, WorkerTypes, StoredRow DEF ReadBackType, Schedule
<1> HIDE DEF read
<1>5. failed \in Seq(ReadBackType)
  BY <1>4, WorkerFields, AppendOne
<1> HIDE DEF failed
<1>6. PICK r \in WorkerType :
        /\ worker' = [worker EXCEPT ![w] = r]
        /\ FitsPhase(r) /\ r.overdue = rest /\ r.prepared = Null
        /\ UNCHANGED notified \/ \E readBack : NotifyFinish(readBack)
  BY <1>1, <1>2, <1>5, ExpireNextEffect
<1>7. FitsTable(r)
  BY <1>2, <1>3, <1>6 DEF FitsTable
<1>. QED BY <1>1, <1>6, <1>7, MemoryStep

(* An error among the expiries gives up the rest of them.                  *)
LEMMA ExpireErrorFrame ==
  ASSUME WorkerInv, NEW w \in Workers, ExpireError(w)
  PROVE  \E r : WorkerFrame(w, r)
<1> DEFINE r == [worker[w] EXCEPT !.pc = "poll", !.overdue = <<>>, !.failed = <<>>]
           t == Head(worker[w].overdue)
<1>. worker[w] \in WorkerType /\ <<>> \in Seq(Traces) /\ <<>> \in Seq(ReadBackType)
  BY WorkerFields
<1>1. /\ worker[w].pc \in {"expire", "expireRow", "expireGet"}
      /\ worker' = [worker EXCEPT ![w] = r]
      /\ Fault /\ UNCHANGED <<clock, tokens, notified>>
  BY WorkerTypes DEF ExpireError
<1>2. /\ r \in WorkerType /\ r.pc = "poll" /\ r.overdue = <<>>
      /\ r.prepared = worker[w].prepared /\ r.found = worker[w].found
      /\ r.batch = worker[w].batch
  BY DEF WorkerType, Phases
<1> HIDE DEF r
<1>3. FitsPhase(r) /\ r.prepared = Null
  BY <1>1, <1>2, WorkerFields DEF FitsPhase
<1>4. CASE UNCHANGED rows
  <2>1. FitsTable(r)
    BY <1>2, <1>3 DEF FitsTable
  <2>. QED BY <1>1, <1>2, <1>3, <1>4, <2>1, MemoryStep
<1>5. CASE worker[w].pc = "expireRow" /\ ExpireCallback(t)
  <2>1. t \in Traces
    BY <1>5, WorkerFields, HeadAndTail DEF FitsPhase
  <2> HIDE DEF t
  <2>2. /\ Statement(t) /\ Stored(t) /\ ExpireMatches(rows[t])
        /\ rows'[t] = ExpiredRow(rows[t])
    BY <1>5, <2>1, WorkerTypes DEF Statement, ExpireCallback
  <2>3. RowBy(w, t)
    BY <1>5, <2>2 DEF RowBy
  <2>4. TokensGrow(w)
    BY <1>1, WorkerTypes, NoNewToken
  <2>5. WorkerFrame(w, r)
    BY <1>1, <1>2, <1>3, <2>1, <2>3, <2>4 DEF WorkerFrame
  <2>. QED BY <2>5
<1>. QED BY <1>1, <1>4, <1>5 DEF ExpireError

-----------------------------------------------------------------------------
(* Claiming rows.                                                          *)

(* The items of rows that are due can be stepped. *)
LEMMA FoundByQuery ==
  ASSUME WorkerInv, NEW now,
         NEW s \in PollCandidates(now, Limit) \cup CallbackCandidates(now, Limit)
  PROVE  /\ s \in Seq(ItemType) /\ Steppable(s) /\ Len(s) <= Limit
         /\ \A i \in 1..Len(s) : /\ s[i].trace \in Traces /\ Stored(s[i].trace)
                                 /\ rows[s[i].trace].state \in {"POLL", "CALLBACK"}
<1>1. PICK S \in {PollRows(now), CallbackRows(now)} :
        IsFiniteSet(S) /\ IsSelection(s, S, Limit)
  BY WorkerTypes, CandidatesAreSelections
<1>2. \A t \in S : /\ t \in Traces /\ Stored(t)
                   /\ rows[t].state \in {"POLL", "CALLBACK"}
  BY <1>1 DEF PollRows, CallbackRows, DuePoll, DueCallback
<1>3. s \in Seq(ItemType) /\ Len(s) = Smaller(Cardinality(S), Limit)
  BY <1>1 DEF IsSelection
<1>4. Len(s) <= Limit
  <2>1. Cardinality(S) \in Nat /\ Limit \in Nat
    BY <1>1, WorkerTypes, FS_CardinalityType
  <2>2. Smaller(Cardinality(S), Limit) <= Limit
    BY <2>1 DEF Smaller
  <2>. QED BY <1>3, <2>2
<1>5. ASSUME NEW i \in 1..Len(s)
      PROVE  s[i].invokeCount + 1 \in InvokeCounts
  <2>1. s[i].trace \in S /\ s[i] = Item(s[i].trace)
    BY <1>1 DEF IsSelection
  <2>2. s[i].invokeCount = rows[s[i].trace].invokeCount
    BY <2>1 DEF Item
  <2>. QED BY <1>2, <2>1, <2>2 DEF WorkerInv, Countable
<1>6. \A i \in 1..Len(s) : s[i].trace \in S
  BY <1>1 DEF IsSelection
<1>. QED BY <1>2, <1>3, <1>4, <1>5, <1>6 DEF Steppable

(* A merge of such items is one. *)
LEMMA FoundByMerge ==
  ASSUME WorkerInv, NEW poll \in Seq(ItemType), NEW callback \in Seq(ItemType),
         Steppable(poll), Steppable(callback)
  PROVE  LET m == MergeDueCandidates(poll, callback, Limit)
         IN  /\ m \in Seq(ItemType) /\ Steppable(m) /\ Len(m) <= Limit
             /\ \A k \in 1..Len(m) : \/ \E i \in 1..Len(poll) : m[k] = poll[i]
                                     \/ \E i \in 1..Len(callback) : m[k] = callback[i]
<1> DEFINE all == poll \o callback
           m   == MergeDueCandidates(poll, callback, Limit)
           len == Smaller(Len(all), Limit)
<1>1. /\ all \in Seq(ItemType) /\ Len(all) = Len(poll) + Len(callback)
      /\ Len(poll) \in Nat /\ Len(callback) \in Nat
      /\ \A i \in 1..Len(all) :
           all[i] = IF i <= Len(poll) THEN poll[i] ELSE callback[i - Len(poll)]
  OBVIOUS
<1>2. ASSUME NEW i \in 1..Len(all)
      PROVE  /\ all[i] \in ItemType /\ all[i].invokeCount + 1 \in InvokeCounts
             /\ \/ \E j \in 1..Len(poll) : all[i] = poll[j]
                \/ \E j \in 1..Len(callback) : all[i] = callback[j]
  <2>1. CASE i <= Len(poll)
    BY <1>1, <2>1 DEF Steppable
  <2>2. CASE ~(i <= Len(poll))
    <3>1. i - Len(poll) \in 1..Len(callback)
      BY <1>1, <2>2
    <3>. QED BY <1>1, <2>2, <3>1 DEF Steppable
  <2>. QED BY <2>1, <2>2
<1>3. Len(all) \in Nat /\ DOMAIN all = 1..Len(all)
  BY <1>1
<1>4. \A i \in 1..Len(all) : all[i].dueAt \in Int
  BY <1>2 DEF ItemType
<1>5. len \in Nat /\ len <= Limit
  BY <1>3, WorkerTypes, SmallerIs
<1>6. \E at : IsMergeOf(m, all, Limit, at)
  <2> HIDE DEF m
  <2>1. \A i \in 1..Len(poll \o callback) : (poll \o callback)[i].dueAt \in Int
    BY <1>4
  <2>. QED BY <1>3, <2>1, WorkerTypes, MergeSorts DEF m
<1> HIDE DEF m, all
<1>7. PICK at : /\ m = [k \in 1..len |-> all[at[k]]]
                /\ at \in [1..len -> 1..Len(all)]
  BY <1>6 DEF IsMergeOf
<1> HIDE DEF len
<1>8. m \in Seq(ItemType) /\ Len(m) = len
  <2>1. \A k \in 1..len : all[at[k]] \in ItemType
    BY <1>2, <1>7
  <2>. QED BY <1>5, <1>7, <2>1
<1>9. Steppable(m)
  BY <1>2, <1>5, <1>7, <1>8 DEF Steppable
<1>10. \A k \in 1..Len(m) : \/ \E i \in 1..Len(poll) : m[k] = poll[i]
                            \/ \E i \in 1..Len(callback) : m[k] = callback[i]
  BY <1>2, <1>5, <1>7, <1>8
<1>. QED BY <1>5, <1>8, <1>9, <1>10 DEF m

(* The due polls are selected.                                             *)
LEMMA SelectPollFrame ==
  ASSUME WorkerInv, NEW w \in Workers, SelectPoll(w)
  PROVE  \E r : WorkerFrame(w, r)
<1>1. PICK s \in PollCandidates(worker[w].now, Limit) :
        worker' = [worker EXCEPT ![w].pc = "callback", ![w].found = s]
  BY DEF SelectPoll
<1> DEFINE r == [worker[w] EXCEPT !.pc = "callback", !.found = s]
<1>2. worker' = [worker EXCEPT ![w] = r]
  BY <1>1, WorkerTypes
<1>3. s \in Seq(ItemType) /\ Steppable(s)
  BY FoundByQuery
<1>4. /\ r \in WorkerType /\ r.pc = "callback" /\ r.prepared = worker[w].prepared
      /\ r.overdue = worker[w].overdue /\ r.found = s
      /\ r.batch = worker[w].batch
  BY <1>3, WorkerFields DEF WorkerType, Phases
<1>5. worker[w].pc = "poll" /\ FitsPhase(worker[w]) /\ FitsTable(worker[w])
  BY WorkerFields DEF SelectPoll
<1> HIDE DEF r
<1>6. FitsPhase(r) /\ FitsTable(r)
  BY <1>3, <1>4, <1>5 DEF FitsPhase, FitsTable
<1>. QED BY <1>2, <1>4, <1>6, MemoryStep DEF SelectPoll

(* The due callbacks are selected and merged with the polls.               *)
LEMMA SelectCallbackFrame ==
  ASSUME WorkerInv, NEW w \in Workers, SelectCallback(w)
  PROVE  \E r : WorkerFrame(w, r)
<1>1. PICK s \in CallbackCandidates(worker[w].now, Limit) :
        LET found == MergeDueCandidates(worker[w].found, s, Limit)
        IN  worker' = [worker EXCEPT ![w] =
              IF found = <<>> THEN Idle
              ELSE [@ EXCEPT !.pc = "claim", !.found = found]]
  BY DEF SelectCallback
<1> DEFINE found == MergeDueCandidates(worker[w].found, s, Limit)
           r == [worker[w] EXCEPT !.pc = "claim", !.found = found]
<1>2. worker[w].pc = "callback" /\ FitsPhase(worker[w]) /\ FitsTable(worker[w])
      /\ UNCHANGED <<rows, clock, tokens, notified, faults>>
  BY WorkerFields DEF SelectCallback
<1>3. found \in Seq(ItemType) /\ Steppable(found)
  <2>1. s \in Seq(ItemType) /\ Steppable(s)
    BY FoundByQuery
  <2>2. worker[w].found \in Seq(ItemType) /\ Steppable(worker[w].found)
    BY WorkerFields DEF FitsPhase
  <2>. QED BY <2>1, <2>2, FoundByMerge
<1> HIDE DEF found
<1>4. CASE found = <<>>
  <2>1. worker' = [worker EXCEPT ![w] = Idle]
    BY <1>1, <1>4, WorkerTypes DEF found
  <2>2. FitsTable(Idle)
    BY IdleType DEF FitsTable
  <2>. QED BY <1>2, <2>1, <2>2, IdleType, MemoryStep
<1>5. CASE found # <<>>
  <2>1. worker' = [worker EXCEPT ![w] = r]
    BY <1>1, <1>5, WorkerTypes DEF found
  <2>2. /\ r \in WorkerType /\ r.pc = "claim" /\ r.prepared = worker[w].prepared
        /\ r.overdue = worker[w].overdue /\ r.found = found
        /\ r.batch = worker[w].batch
    BY <1>3, WorkerFields DEF WorkerType, Phases
  <2> HIDE DEF r
  <2>3. FitsPhase(r) /\ FitsTable(r)
    BY <1>2, <1>3, <1>5, <2>2 DEF FitsPhase, FitsTable
  <2>. QED BY <1>2, <2>1, <2>2, <2>3, MemoryStep
<1>. QED BY <1>4, <1>5

(* What RunNext leaves in memory. *)
LEMMA RunNextEffect ==
  ASSUME WorkerInv, NEW w \in Workers, NEW batch \in Seq(ItemType),
         Steppable(batch), RunNext(w, batch)
  PROVE  \E r \in WorkerType :
           /\ worker' = [worker EXCEPT ![w] = r]
           /\ FitsPhase(r) /\ r.batch = batch
           /\ r.overdue = <<>> /\ r.prepared = Null /\ r.failed = <<>>
           /\ r.found = <<>>
           /\ r.pc = IF batch = <<>> THEN "idle" ELSE "run"
           /\ batch # <<>> /\ HeartbeatInterval > 0 =>
                r.renewAt = clock + HeartbeatInterval
<1>1. CASE batch = <<>>
  BY <1>1, IdleType DEF RunNext
<1>2. CASE batch # <<>>
  <2> DEFINE at == IF HeartbeatInterval > 0 THEN clock + HeartbeatInterval ELSE Null
             r == [Idle EXCEPT !.pc = "run", !.batch = batch, !.renewAt = at]
  <2>1. worker' = [worker EXCEPT ![w] = r]
    BY <1>2 DEF RunNext
  <2>2. at \in Nat \cup {Null}
    BY WorkerTypes
  <2> HIDE DEF at
  <2>3. /\ r \in WorkerType /\ r.pc = "run" /\ r.batch = batch /\ r.renewAt = at
        /\ r.overdue = <<>> /\ r.prepared = Null /\ r.failed = <<>>
        /\ r.found = <<>>
    BY <2>2, IdleType DEF WorkerType, Phases
  <2> HIDE DEF r
  <2>4. FitsPhase(r)
    BY <1>2, <2>3 DEF FitsPhase, Steppable
  <2>. QED BY <1>2, <2>1, <2>3, <2>4 DEF at
<1>. QED BY <1>1, <1>2

(* The claim of the item at hand. *)
LEMMA ClaimedRow ==
  ASSUME WorkerInv, NEW w \in Workers, worker[w].pc = "claim",
         ClaimDueItem(Head(worker[w].found).trace, Head(worker[w].found).state, w,
                      worker[w].now, LockUntil(w))
  PROVE  Head(worker[w].found).trace \in Traces
         /\ RowBy(w, Head(worker[w].found).trace)
<1> DEFINE item == Head(worker[w].found)
<1>1. item \in ItemType
  BY WorkerFields, HeadAndTail DEF FitsPhase
<1>2. item.trace \in Traces /\ item.state \in States
  BY <1>1 DEF ItemType
<1> HIDE DEF item
<1>3. /\ ClaimMatches(rows[item.trace], item.state, worker[w].now)
      /\ Stored(item.trace)
      /\ rows' = [rows EXCEPT ![item.trace] =
                    [@ EXCEPT !.lockedBy = w, !.lockedUntil = LockUntil(w)]]
  BY DEF ClaimDueItem, item
<1>4. item.state \in {"POLL", "CALLBACK"}
  BY <1>3 DEF ClaimMatches
<1>5. Statement(item.trace)
  BY <1>2, <1>4, WorkerFields DEF Statement, item
<1>6. rows'[item.trace] = [rows[item.trace] EXCEPT !.lockedBy = w,
                                                  !.lockedUntil = LockUntil(w)]
  BY <1>2, <1>3, WorkerTypes
<1>7. RowBy(w, item.trace)
  BY <1>3, <1>5, <1>6 DEF RowBy, item
<1>. QED BY <1>2, <1>7 DEF item

(* The next of the rows found is claimed, or left to its owner.            *)
LEMMA ClaimFrame ==
  ASSUME WorkerInv, NEW w \in Workers, Claim(w)
  PROVE  \E r : WorkerFrame(w, r)
<1> DEFINE item    == Head(worker[w].found)
           rest    == Tail(worker[w].found)
           matches == ClaimMatches(rows[item.trace], item.state, worker[w].now)
           batch   == IF matches THEN Append(worker[w].batch, item)
                                 ELSE worker[w].batch
<1>1. /\ worker[w].pc = "claim"
      /\ IF matches
         THEN ClaimDueItem(item.trace, item.state, w,
                           worker[w].now, LockUntil(w))
         ELSE UNCHANGED rows
      /\ IF rest = <<>>
         THEN RunNext(w, batch)
         ELSE worker' = [worker EXCEPT ![w].found = rest, ![w].batch = batch]
      /\ UNCHANGED <<clock, tokens, notified, faults>>
  BY DEF Claim
<1>2. /\ item \in ItemType /\ item.invokeCount + 1 \in InvokeCounts
      /\ rest \in Seq(ItemType) /\ Steppable(rest)
  <2>1. worker[w].found # <<>> /\ Steppable(worker[w].found)
    BY <1>1, WorkerFields DEF FitsPhase
  <2>. QED BY <2>1, WorkerFields, HeadAndTail DEF Steppable
<1>3. batch \in Seq(ItemType) /\ Steppable(batch)
  <2>1. worker[w].batch \in Seq(ItemType) /\ Steppable(worker[w].batch)
    BY WorkerFields DEF FitsPhase
  <2>2. CASE matches
    <3>1. Append(worker[w].batch, item) \in Seq(ItemType)
      BY <1>2, <2>1, AppendOne
    <3>2. Steppable(Append(worker[w].batch, item))
      BY <1>2, <2>1, AppendOne DEF Steppable
    <3>. QED BY <2>2, <3>1, <3>2
  <2>3. CASE ~matches
    BY <2>1, <2>3
  <2>. QED BY <2>2, <2>3
<1>4. UNCHANGED rows \/ \E t \in Traces : RowBy(w, t)
  BY <1>1, ClaimedRow
<1>5. TokensGrow(w)
  BY <1>1, WorkerTypes, NoNewToken
<1> HIDE DEF item, rest, matches, batch
<1>6. CASE rest = <<>>
  <2>1. PICK r \in WorkerType :
          /\ worker' = [worker EXCEPT ![w] = r]
          /\ FitsPhase(r) /\ r.overdue = <<>> /\ r.prepared = Null
    BY <1>1, <1>3, <1>6, RunNextEffect
  <2>2. WorkerFrame(w, r)
    BY <1>1, <1>4, <1>5, <2>1 DEF WorkerFrame
  <2>. QED BY <2>2
<1>7. CASE rest # <<>>
  <2> DEFINE r == [worker[w] EXCEPT !.found = rest, !.batch = batch]
  <2>1. worker' = [worker EXCEPT ![w] = r]
    BY <1>1, <1>7, WorkerTypes
  <2>2. /\ r \in WorkerType /\ r.pc = "claim" /\ r.prepared = worker[w].prepared
        /\ r.overdue = worker[w].overdue /\ r.found = rest /\ r.batch = batch
    BY <1>1, <1>2, <1>3, WorkerFields DEF WorkerType
  <2> HIDE DEF r
  <2>3. FitsPhase(r) /\ r.prepared = Null
    BY <1>1, <1>2, <1>3, <1>7, <2>2, WorkerFields DEF FitsPhase
  <2>4. \A i \in 1..Len(r.overdue) : rows'[r.overdue[i]] # Null
    <3>1. [AnyStatement]_rows /\ StoreInv
      BY <1>4, WorkerTypes DEF RowBy, AnyStatement
    <3>2. \A i \in 1..Len(r.overdue) : r.overdue[i] \in Traces /\ Stored(r.overdue[i])
      BY <2>2, WorkerFields DEF FitsTable
    <3>. QED BY <3>1, <3>2, RowsAreKept
  <2>5. WorkerFrame(w, r)
    BY <1>1, <1>4, <1>5, <2>1, <2>2, <2>3, <2>4 DEF WorkerFrame
  <2>. QED BY <2>5
<1>. QED BY <1>6, <1>7

(* An error among the claims gives up the round.                           *)
LEMMA ClaimErrorFrame ==
  ASSUME WorkerInv, NEW w \in Workers, ClaimError(w)
  PROVE  \E r : WorkerFrame(w, r)
<1>1. /\ worker' = [worker EXCEPT ![w] = Idle]
      /\ Fault /\ UNCHANGED <<clock, tokens, notified>>
  BY DEF ClaimError
<1>2. UNCHANGED rows \/ \E t \in Traces : RowBy(w, t)
  BY ClaimedRow DEF ClaimError
<1>3. TokensGrow(w)
  BY <1>1, WorkerTypes, NoNewToken
<1>4. WorkerFrame(w, Idle)
  BY <1>1, <1>2, <1>3, IdleType DEF WorkerFrame
<1>. QED BY <1>4

-----------------------------------------------------------------------------
(* Running a step.                                                         *)

(* A step that keeps the batch and the token prepared for its head. *)
LEMMA RunningFrame ==
  ASSUME WorkerInv, NEW w \in Workers, NEW r \in WorkerType,
         worker[w].pc \in {"run", "stepped"},
         UNCHANGED <<clock, notified>>, UNCHANGED faults \/ Fault,
         UNCHANGED rows \/ RowBy(w, RunningItem(w).trace), TokensGrow(w) \/ TokensGrow(RunningItem(w).trace),
         worker' = [worker EXCEPT ![w] = r],
         r.pc \in {"run", "stepped"}, r.overdue = worker[w].overdue,
         r.found = worker[w].found, r.batch = worker[w].batch,
         r.prepared # Null =>
           /\ r.prepared \in DOMAIN tokens'
           /\ tokens'[r.prepared].trace = RunningItem(w).trace
  PROVE  \E s : WorkerFrame(w, s)
<1>1. FitsPhase(r)
  BY WorkerFields DEF FitsPhase
<1>2. \A i \in 1..Len(r.overdue) : rows'[r.overdue[i]] # Null
  <2>1. [AnyStatement]_rows /\ StoreInv
    BY RunningStep, WorkerTypes DEF RowBy, AnyStatement
  <2>2. \A i \in 1..Len(r.overdue) : r.overdue[i] \in Traces /\ Stored(r.overdue[i])
    BY WorkerFields DEF FitsTable
  <2>. QED BY <2>1, <2>2, RowsAreKept
<1>3. WorkerFrame(w, r)
  BY <1>1, <1>2, RunningStep DEF WorkerFrame, RunningItem
<1>. QED BY <1>3

(* The running step writes data.                                           *)
LEMMA StepWritesFrame ==
  ASSUME WorkerInv, NEW w \in Workers, StepWrites(w)
  PROVE  \E r : WorkerFrame(w, r)
<1> DEFINE t == RunningItem(w).trace
<1>1. /\ worker[w].pc = "run" /\ UNCHANGED <<clock, worker, notified, faults, tokens>>
      /\ \E data \in Payloads : UpdateOutputs(t, data) \/ UpdateContextData(t, data)
  BY RuntimeAssumption DEF StepWrites, WriteOutputs, WriteContext
<1>2. t \in Traces /\ PreparedFor(t, worker[w].prepared)
  BY <1>1, RunningStep
<1>3. RowBy(w, t)
  <2>1. PICK data \in Payloads : UpdateOutputs(t, data) \/ UpdateContextData(t, data)
    BY <1>1
  <2>2. Stored(t) /\ Statement(t)
    BY <2>1 DEF Statement, UpdateOutputs, UpdateContextData
  <2>3. \/ rows'[t] = [rows[t] EXCEPT !.outputs = data]
        \/ rows'[t] = [rows[t] EXCEPT !.contextData = data]
    BY <1>2, <2>1, WorkerTypes DEF UpdateOutputs, UpdateContextData
  <2>. QED BY <1>1, <2>2, <2>3 DEF RowBy
<1>4. TokensGrow(t)
  BY <1>1, WorkerTypes, NoNewToken
<1>5. worker' = [worker EXCEPT ![w] = worker[w]]
  BY <1>1, WorkerTypes
<1>. QED BY <1>1, <1>2, <1>3, <1>4, <1>5, WorkerFields, RunningFrame
         DEF PreparedFor, Issued

(* The running step issues a token.                                        *)
LEMMA StepPreparesFrame ==
  ASSUME WorkerInv, NEW w \in Workers, StepPrepares(w)
  PROVE  \E r : WorkerFrame(w, r)
<1> DEFINE t == RunningItem(w).trace
           r == [worker[w] EXCEPT !.prepared = NewHash]
<1>1. PICK timeout \in Int : PrepareCallback(t, HostClock(w), timeout)
  BY RuntimeAssumption DEF StepPrepares
<1>2. /\ worker[w].pc = "run" /\ UNCHANGED <<rows, clock, notified, faults>>
      /\ worker' = [worker EXCEPT ![w] = r]
  BY <1>1, WorkerTypes DEF StepPrepares, PrepareCallback
<1>3. t \in Traces
  BY <1>2, RunningStep
<1>4. /\ TokensGrow(t) /\ NewHash \in DOMAIN tokens'
      /\ NewHash \in Hashes /\ tokens'[NewHash].trace = t
  BY <1>1, <1>3, IssuedToken, WorkerTypes DEF PrepareCallback
<1>5. /\ r \in WorkerType /\ r.pc = "run" /\ r.prepared = NewHash
      /\ r.overdue = worker[w].overdue /\ r.found = worker[w].found
      /\ r.batch = worker[w].batch
  BY <1>2, <1>4, WorkerFields DEF WorkerType
<1> HIDE DEF r
<1>. QED BY <1>2, <1>4, <1>5, RunningFrame

(* The mark of a step. *)
LEMMA MarkedByStep ==
  ASSUME WorkerInv, NEW w \in Workers, worker[w].pc = "run", worker'[w].pc = "stepped",
         StepMark(w, RunningItem(w).trace, StepCount(w))
  PROVE  /\ RowBy(w, RunningItem(w).trace) /\ TokensGrow(RunningItem(w).trace)
         /\ rows'[RunningItem(w).trace].lockedBy = Null
         /\ MarkedRow(rows[RunningItem(w).trace], StepCount(w), HostClock(w),
                      rows'[RunningItem(w).trace])
<1> DEFINE t == RunningItem(w).trace
           n == StepCount(w)
<1>1. /\ t \in Traces /\ n \in InvokeCounts /\ PreparedFor(t, worker[w].prepared)
      /\ HostClock(w) \in Nat /\ RuntimeTypeOK
      /\ rows \in [Traces -> Schedule \cup {Null}]
  BY RunningStep, WorkerTypes
<1> HIDE DEF t, n
<1>2. ASSUME NEW s, rows' = [rows EXCEPT ![t] = s], Stored(t), Statement(t),
             MarkedRow(rows[t], n, HostClock(w), s)
      PROVE  /\ RowBy(w, t) /\ rows'[t].lockedBy = Null
             /\ MarkedRow(rows[t], n, HostClock(w), rows'[t])
  <2>1. rows'[t] = s
    BY <1>1, <1>2
  <2>2. s.lockedBy = Null
    BY <1>1, <1>2, WorkerTypes, StoredRow, MarkedRowEffect
  <2>. QED BY <1>1, <1>2, <2>1, <2>2 DEF RowBy, t, n
<1>3. CASE MayWait(n) /\ \E after \in Delays : SetPoll(t, n, HostClock(w), after)
  <2>1. PICK after \in Delays : SetPoll(t, n, HostClock(w), after)
    BY <1>3
  <2> DEFINE next == HostClock(w) + after
  <2>2. next \in Nat /\ MarkPoll(t, n, next) /\ UNCHANGED tokens
    BY <1>1, <2>1, RuntimeAssumption DEF SetPoll
  <2>3. MarkedRow(rows[t], n, HostClock(w), PollRow(rows[t], n, next))
    BY <1>3 DEF MarkedRow, MayWait
  <2> HIDE DEF next
  <2>4. /\ rows' = [rows EXCEPT ![t] = PollRow(rows[t], n, next)]
        /\ Stored(t) /\ Statement(t)
    BY <1>1, <2>2 DEF MarkPoll, Statement
  <2>. QED BY <1>1, <1>2, <2>2, <2>3, <2>4, NoNewToken DEF t, n
<1>4. CASE MayWait(n) /\ \E timeout \in Timeouts :
             SetCallback(t, n, worker[w].prepared, HostClock(w), timeout)
  <2>1. PICK timeout \in Int :
          SetCallback(t, n, worker[w].prepared, HostClock(w), timeout)
    BY <1>4, RuntimeAssumption
  <2>2. TokensGrow(t)
    BY <1>1, <2>1, SetCallbackEffect
  <2>3. PICK hash \in Hashes :
          /\ tokens'[hash].expiresAt \in Nat
          /\ MarkCallback(t, n, hash, tokens'[hash].expiresAt)
    BY <1>1, <2>1, SetCallbackEffect
  <2> DEFINE expires == tokens'[hash].expiresAt
  <2>4. expires \in Nat /\ MarkCallback(t, n, hash, expires)
    BY <2>3
  <2> HIDE DEF expires
  <2>5. /\ rows' = [rows EXCEPT ![t] = CallbackRow(rows[t], n, hash, expires)]
        /\ Stored(t) /\ Statement(t)
    BY <1>1, <2>4 DEF MarkCallback, Statement
  <2>6. MarkedRow(rows[t], n, HostClock(w), CallbackRow(rows[t], n, hash, expires))
    BY <1>4, <2>4 DEF MarkedRow, MayWait
  <2>. QED BY <1>2, <2>2, <2>5, <2>6 DEF t, n
<1>5. CASE SetSuccess(t, n)
  <2>1. /\ rows' = [rows EXCEPT ![t] = SuccessRow(rows[t], n)]
        /\ Stored(t) /\ Statement(t) /\ UNCHANGED tokens
    BY <1>1, <1>5 DEF SetSuccess, MarkSuccess, Statement
  <2>2. MarkedRow(rows[t], n, HostClock(w), SuccessRow(rows[t], n))
    BY DEF MarkedRow
  <2>. QED BY <1>1, <1>2, <2>1, <2>2, NoNewToken DEF t, n
<1>6. CASE SetFail(t, n)
  <2>1. /\ rows' = [rows EXCEPT ![t] = FailRow(rows[t], n)]
        /\ Stored(t) /\ Statement(t) /\ UNCHANGED tokens
    BY <1>1, <1>6 DEF SetFail, MarkFail, Statement
  <2>2. MarkedRow(rows[t], n, HostClock(w), FailRow(rows[t], n))
    BY DEF MarkedRow
  <2>. QED BY <1>1, <1>2, <2>1, <2>2, NoNewToken DEF t, n
<1>. QED BY <1>3, <1>4, <1>5, <1>6 DEF StepMark, t, n

(* The running step ends with a mark.                                      *)
LEMMA StepEndsFrame ==
  ASSUME WorkerInv, NEW w \in Workers, StepEnds(w) \/ StepError(w)
  PROVE  \E r : WorkerFrame(w, r)
<1> DEFINE r == [worker[w] EXCEPT !.pc = "stepped"]
<1>1. /\ worker[w].pc = "run" /\ worker' = [worker EXCEPT ![w] = r]
      /\ UNCHANGED <<clock, notified>> /\ (UNCHANGED faults \/ Fault)
      /\ \/ StepMark(w, RunningItem(w).trace, StepCount(w))
         \/ UNCHANGED <<rows, tokens>>
  BY WorkerTypes DEF StepEnds, StepError, Goto
<1>2. /\ r \in WorkerType /\ r.pc = "stepped" /\ r.prepared = worker[w].prepared
      /\ r.overdue = worker[w].overdue /\ r.found = worker[w].found
      /\ r.batch = worker[w].batch
  BY WorkerFields DEF WorkerType, Phases
<1> HIDE DEF r
<1>3. worker'[w].pc = "stepped"
  BY <1>1, <1>2, WorkerTypes
<1>4. /\ UNCHANGED rows \/ RowBy(w, RunningItem(w).trace)
      /\ TokensGrow(RunningItem(w).trace)
  BY <1>1, <1>3, MarkedByStep, WorkerTypes, NoNewToken
<1>5. r.prepared # Null =>
        /\ r.prepared \in DOMAIN tokens'
        /\ tokens'[r.prepared].trace = RunningItem(w).trace
  BY <1>1, <1>2, <1>4, RunningStep DEF PreparedFor, Issued, TokensGrow
<1>. QED BY <1>1, <1>2, <1>4, <1>5, RunningFrame

(* A heartbeat, which succeeds or finds the lease gone.                    *)
LEMMA RenewFrame ==
  ASSUME WorkerInv, NEW w \in Workers, Renew(w) \/ RenewError(w)
  PROVE  \E r : WorkerFrame(w, r)
<1> DEFINE t == RunningItem(w).trace
           Memory(at) == [worker[w] EXCEPT !.renewAt = at]
<1>1. /\ worker[w].pc \in {"run", "stepped"}
      /\ UNCHANGED <<clock, tokens, notified>> /\ (UNCHANGED faults \/ Fault)
  BY DEF Renew, RenewError
<1>2. PICK at \in Nat \cup {Null} : worker' = [worker EXCEPT ![w] = Memory(at)]
  <2>1. clock + HeartbeatInterval \in Nat
    BY WorkerTypes
  <2>. QED BY <2>1, WorkerTypes DEF Renew, RenewError
<1> DEFINE r == Memory(at)
<1>3. /\ r \in WorkerType /\ r.pc = worker[w].pc /\ r.prepared = worker[w].prepared
      /\ r.overdue = worker[w].overdue /\ r.found = worker[w].found
      /\ r.batch = worker[w].batch
  BY WorkerFields DEF WorkerType
<1> HIDE DEF Memory
<1>4. t \in Traces /\ PreparedFor(t, worker[w].prepared)
  BY <1>1, RunningStep
<1> HIDE DEF t
<1>5. UNCHANGED rows \/ RowBy(w, t)
  <2>1. CASE RenewMatches(rows[t], w) /\ RenewLock(t, w, HostClock(w) + LockFor)
    <3>1. HostClock(w) + LockFor \in Nat
      BY WorkerTypes
    <3>2. Stored(t) /\ Statement(t)
      BY <2>1, <3>1 DEF Statement, RenewLock
    <3>3. rows'[t] = [rows[t] EXCEPT !.lockedUntil = HostClock(w) + LockFor]
      BY <1>4, <2>1, WorkerTypes DEF RenewLock
    <3>. QED BY <1>1, <2>1, <3>2, <3>3 DEF RowBy, t
  <2>2. CASE UNCHANGED rows
    BY <2>2
  <2>. QED BY <2>1, <2>2 DEF Renew, RenewError, t
<1>6. TokensGrow(w)
  BY <1>1, WorkerTypes, NoNewToken
<1> HIDE DEF r
<1>7. worker' = [worker EXCEPT ![w] = r]
  BY <1>2 DEF r
<1>. QED BY <1>1, <1>3, <1>4, <1>5, <1>6, <1>7, RunningFrame
         DEF PreparedFor, Issued, t

(* The row is read back and the next item taken up.                        *)
LEMMA ReadBackFrame ==
  ASSUME WorkerInv, NEW w \in Workers, ReadBack(w) \/ ReadBackError(w)
  PROVE  \E r : WorkerFrame(w, r)
<1> DEFINE rest == Tail(worker[w].batch)
<1>1. /\ worker[w].pc = "stepped" /\ RunNext(w, rest)
      /\ UNCHANGED <<rows, clock, tokens>> /\ (UNCHANGED faults \/ Fault)
      /\ UNCHANGED notified \/ \E readBack : NotifyFinish(readBack)
  BY DEF ReadBack, ReadBackError
<1>2. rest \in Seq(ItemType) /\ Steppable(rest)
  <2>1. worker[w].batch # <<>> /\ Steppable(worker[w].batch)
    BY <1>1, WorkerFields DEF FitsPhase
  <2>. QED BY <2>1, WorkerFields, HeadAndTail DEF Steppable
<1> HIDE DEF rest
<1>3. PICK r \in WorkerType :
        /\ worker' = [worker EXCEPT ![w] = r]
        /\ FitsPhase(r) /\ r.overdue = <<>> /\ r.prepared = Null
  BY <1>1, <1>2, RunNextEffect
<1>4. FitsTable(r)
  BY <1>3 DEF FitsTable
<1>. QED BY <1>1, <1>3, <1>4, MemoryStep

(* A crash loses what was in memory.                                       *)
LEMMA CrashFrame ==
  ASSUME WorkerInv, NEW w \in Workers, Crash(w)
  PROVE  \E r : WorkerFrame(w, r)
<1> DEFINE r == [Idle EXCEPT !.pc = "dead"]
<1>1. /\ r \in WorkerType /\ r.pc = "dead" /\ r.prepared = Null
      /\ r.overdue = <<>> /\ r.found = <<>> /\ r.batch = <<>>
  BY IdleType DEF WorkerType, Phases
<1>2. worker' = [worker EXCEPT ![w] = r]
  BY DEF Crash
<1> HIDE DEF r
<1>3. FitsPhase(r) /\ FitsTable(r)
  BY <1>1 DEF FitsPhase, FitsTable, Steppable
<1>. QED BY <1>1, <1>2, <1>3, MemoryStep DEF Crash

(* Every action of a worker stays within the frame. *)
LEMMA WorkerStepFrame ==
  ASSUME WorkerInv, NEW w \in Workers, SchedulerStep(w) \/ SchedulerFault(w)
  PROVE  \E r : WorkerFrame(w, r)
BY BeginFrame, SelectOverdueFrame, ExpireRowFrame, ExpireGetFrame,
   ExpireErrorFrame, SelectPollFrame, SelectCallbackFrame, ClaimFrame,
   ClaimErrorFrame, StepWritesFrame, StepPreparesFrame, StepEndsFrame,
   RenewFrame, ReadBackFrame, CrashFrame
   DEF SchedulerStep, SchedulerFault

-----------------------------------------------------------------------------
(* The server, as the workers see it, and the clock.                       *)

(* A statement of the server on the row of t: it creates the row, is of    *)
(* its first step, or records the callback the row waits for.              *)
FirstStepRow(r, s) ==
  /\ r.state = "EMPTY"
  /\ \/ \E data \in Payloads : \/ s = [r EXCEPT !.outputs = data]
                              \/ s = [r EXCEPT !.contextData = data]
     \/ MarkedRow(r, 1, clock, s)

AnsweredRow(r, s) ==
  /\ r.state = "CALLBACK" /\ r.receivedAt = Null
  /\ \E data \in Payloads, now \in Nat : s = ReceivedRow(r, data, now)

OutsideRow(t) ==
  /\ Statement(t) /\ rows'[t] # Null
  /\ \/ ~Stored(t) /\ rows'[t] = NewSchedule(1, clock)
     \/ Stored(t) /\ FirstStepRow(rows[t], rows'[t])
     \/ Stored(t) /\ AnsweredRow(rows[t], rows'[t])

OutsideStep ==
  /\ UNCHANGED <<clock, worker, notified, faults>>
  /\ \E t \in Traces : OutsideRow(t)
  /\ \E t : TokensGrow(t)

(* It takes no lease, and leaves a row a step may be run for.               *)
LEMMA OutsideRowEffect ==
  ASSUME WorkerInv, NEW t \in Traces, OutsideRow(t)
  PROVE  /\ Countable(rows'[t])
         /\ \/ rows'[t].lockedBy = Null
            \/ Stored(t) /\ rows'[t].lockedBy = rows[t].lockedBy
<1>1. CASE ~Stored(t) /\ rows'[t] = NewSchedule(1, clock)
  <2>1. /\ NewSchedule(1, clock).lockedBy = Null
        /\ NewSchedule(1, clock).state = "EMPTY"
    BY DEF NewSchedule
  <2>. QED BY <1>1, <2>1 DEF Countable
<1>2. CASE Stored(t) /\ FirstStepRow(rows[t], rows'[t])
  <2>1. rows[t] \in Schedule /\ 1 \in InvokeCounts
    BY <1>2, WorkerTypes, StoredRow
  <2>2. CASE MarkedRow(rows[t], 1, clock, rows'[t])
    BY <2>1, <2>2, MarkedRowEffect
  <2>3. CASE ~MarkedRow(rows[t], 1, clock, rows'[t])
    BY <1>2, <2>1, <2>3 DEF FirstStepRow, Countable, Schedule
  <2>. QED BY <2>2, <2>3
<1>3. CASE Stored(t) /\ AnsweredRow(rows[t], rows'[t])
  <2>1. rows[t] \in Schedule /\ Countable(rows[t])
    BY <1>3, WorkerTypes, StoredRow DEF WorkerInv
  <2>2. /\ rows'[t].lockedBy = rows[t].lockedBy /\ rows'[t].state = rows[t].state
        /\ rows'[t].invokeCount = rows[t].invokeCount
    BY <1>3, <2>1 DEF AnsweredRow, ReceivedRow, Schedule
  <2>. QED BY <1>3, <2>1, <2>2 DEF Countable
<1>. QED BY <1>1, <1>2, <1>3 DEF OutsideRow

(* The server, as the workers see it, touches one row and no worker.       *)
LEMMA ServerStepIsOutside ==
  ASSUME WorkerInv, ServerStep
  PROVE  OutsideStep
<1>. /\ StoreInv /\ RuntimeTypeOK /\ clock \in Nat
     /\ rows \in [Traces -> Schedule \cup {Null}]
     /\ 1 \in InvokeCounts /\ 2 \in InvokeCounts
  BY WorkerTypes
<1>1. UNCHANGED <<clock, worker, notified, faults>>
  BY DEF ServerStep
<1>2. ASSUME NEW t \in Traces, Create(t, 1, clock), UNCHANGED tokens
      PROVE  OutsideRow(t) /\ TokensGrow(t)
  <2>1. /\ Statement(t) /\ ~Stored(t) /\ rows'[t] # Null
        /\ rows'[t] = NewSchedule(1, clock)
    BY <1>2, CreateEffect
  <2>. QED BY <1>2, <2>1, NoNewToken DEF OutsideRow
<1>3. ASSUME NEW t \in Traces, Stored(t), rows[t].state = "EMPTY",
             \/ \E after \in Delays : SetPoll(t, 1, clock, after)
             \/ \E timeout \in Timeouts : SetCallback(t, 1, Null, clock, timeout)
      PROVE  OutsideRow(t) /\ TokensGrow(t)
  <2>1. rows[t] \in Schedule
    BY <1>3, StoredRow
  <2>2. CASE \E after \in Delays : SetPoll(t, 1, clock, after)
    <3>1. PICK after \in Delays : SetPoll(t, 1, clock, after)
      BY <2>2
    <3>2. UNCHANGED tokens /\ MarkPoll(t, 1, clock + after) /\ clock + after \in Nat
      BY <3>1, RuntimeAssumption DEF SetPoll
    <3>3. Statement(t) /\ rows'[t] # Null
      BY <3>2, MarkEffect
    <3>4. rows'[t] = PollRow(rows[t], 1, clock + after)
      BY <3>2 DEF MarkPoll
    <3>5. MarkedRow(rows[t], 1, clock, rows'[t])
      BY <3>4 DEF MarkedRow
    <3>. QED BY <1>3, <3>2, <3>3, <3>5, NoNewToken DEF OutsideRow, FirstStepRow
  <2>3. CASE \E timeout \in Timeouts : SetCallback(t, 1, Null, clock, timeout)
    <3>1. PICK timeout \in Int : SetCallback(t, 1, Null, clock, timeout)
      BY <2>3, RuntimeAssumption
    <3>2. PreparedFor(t, Null)
      BY DEF PreparedFor
    <3>3. TokensGrow(t)
      BY <3>1, <3>2, SetCallbackEffect
    <3>4. \E hash \in Hashes, expires \in Nat : MarkCallback(t, 1, hash, expires)
      BY <3>1, <3>2, SetCallbackEffect
    <3>5. PICK hash \in Hashes, expires \in Nat : MarkCallback(t, 1, hash, expires)
      BY <3>4
    <3>6. Statement(t) /\ rows'[t] # Null
      BY <3>5, WaitEffect
    <3>7. rows'[t] = CallbackRow(rows[t], 1, hash, expires)
      BY <3>5 DEF MarkCallback
    <3>8. MarkedRow(rows[t], 1, clock, rows'[t])
      BY <3>7 DEF MarkedRow
    <3>. QED BY <1>3, <3>3, <3>6, <3>8 DEF OutsideRow, FirstStepRow
  <2>. QED BY <1>3, <2>2, <2>3
<1>4. ASSUME NEW hash \in DOMAIN tokens, NEW data \in Payloads,
             ReceiveCallback(tokens[hash].trace, hash, data, clock),
             UNCHANGED tokens
      PROVE  OutsideRow(tokens[hash].trace) /\ TokensGrow(tokens[hash].trace)
             /\ tokens[hash].trace \in Traces
  <2> DEFINE t == tokens[hash].trace
  <2>1. t \in Traces /\ hash \in Hashes
    BY TokenTypes
  <2> HIDE DEF t
  <2>2. ReceiveCallback(t, hash, data, clock)
    BY <1>4 DEF t
  <2>3. Statement(t) /\ Stored(t) /\ rows[t] \in Schedule /\ Countable(rows[t])
    BY <2>1, <2>2, StoredRow DEF Statement, ReceiveCallback, WorkerInv
  <2>4. rows'[t] # Null
    BY <2>1, <2>3, RowsAreKept DEF AnyStatement
  <2>5. /\ rows[t].state = "CALLBACK" /\ rows[t].receivedAt = Null
        /\ rows'[t] = ReceivedRow(rows[t], data, clock)
    BY <2>1, <2>2 DEF ReceiveCallback, ReceiveMatches
  <2>6. OutsideRow(t)
    BY <2>3, <2>4, <2>5 DEF OutsideRow, AnsweredRow
  <2>. QED BY <1>4, <2>1, <2>6, NoNewToken DEF t
<1>. QED BY <1>1, <1>2, <1>3, <1>4 DEF ServerStep, OutsideStep

(* A step of anybody else keeps WorkerInv while its statement leaves rows   *)
(* that may be stepped.                                                    *)
LEMMA OthersKeep ==
  ASSUME WorkerInv, UNCHANGED <<clock, worker>>,
         faults' \in 0..MaxFaults, FinishCallbackTypeOK',
         [AnyStatement]_rows, NEW t, TokensGrow(t),
         \A u \in Traces : rows'[u] # Null => Countable(rows'[u])
  PROVE  WorkerInv'
<1>1. /\ StoreInv /\ RuntimeTypeOK /\ FiniteTable
      /\ worker \in [Workers -> WorkerType]
  BY WorkerTypes
<1>2. StoreInv' /\ FiniteTable'
  BY <1>1, StatementInv, StatementKeepsFinite
<1>3. SchedulerTypeOK'
  <2>1. RuntimeTypeOK'
    BY <1>1 DEF TokensGrow, RuntimeTypeOK, Token
  <2>. QED BY <1>1, <1>2, <2>1 DEF SchedulerTypeOK, StoreInv, WorkerType
<1>4. \A w \in Workers : FitsPhase(worker[w])' /\ FitsTable(worker[w])'
  BY <1>1, FitsStill
<1>. QED BY <1>2, <1>3, <1>4 DEF WorkerInv, Stored

(* The steps of the server, as the workers see them, are such steps. *)
LEMMA OutsideKeeps ==
  ASSUME WorkerInv, OutsideStep
  PROVE  WorkerInv'
<1>1. /\ StoreInv /\ RuntimeTypeOK /\ FinishCallbackTypeOK
      /\ UNCHANGED <<clock, worker, notified, faults>>
  BY WorkerTypes DEF OutsideStep
<1>2. PICK s \in Traces : OutsideRow(s)
  BY DEF OutsideStep
<1>3. PICK t : TokensGrow(t)
  BY DEF OutsideStep
<1>4. [AnyStatement]_rows
  BY <1>2 DEF OutsideRow, AnyStatement
<1>5. ASSUME NEW u \in Traces, rows'[u] # Null
      PROVE  Countable(rows'[u])
  <2>1. CASE u = s
    BY <1>2, <2>1, OutsideRowEffect
  <2>2. CASE u # s
    <3>1. rows'[u] = rows[u]
      BY <1>1, <1>2, <2>2, OtherRowsAreKept DEF OutsideRow
    <3>. QED BY <1>5, <3>1 DEF WorkerInv, Stored
  <2>. QED BY <2>1, <2>2
<1>6. faults' \in 0..MaxFaults /\ FinishCallbackTypeOK'
  BY <1>1, WorkerTypes DEF FinishCallbackTypeOK
<1>. QED BY <1>1, <1>3, <1>4, <1>5, <1>6, OthersKeep

(* A step that touches neither rows nor tokens nor workers. *)
LEMMA TickKeeps ==
  ASSUME WorkerInv, UNCHANGED <<rows, tokens, worker, notified, faults>>,
         clock' \in Nat
  PROVE  WorkerInv'
<1>1. StoreInv' /\ RuntimeTypeOK'
  BY WorkerTypes, StatementInv DEF RuntimeTypeOK
<1>2. SchedulerTypeOK'
  BY <1>1 DEF WorkerInv, SchedulerTypeOK, StoreTypeOK, FinishCallbackTypeOK
<1>3. FiniteTable'
  BY DEF WorkerInv, FiniteTable, StoredTraces, Stored
<1>4. \A t \in Traces : rows'[t] # Null => Countable(rows'[t])
  BY DEF WorkerInv, Stored
<1>5. ASSUME NEW w \in Workers
      PROVE  FitsPhase(worker[w])' /\ FitsTable(worker[w])'
  BY WorkerFields
     DEF FitsPhase, FitsTable, Steppable, PreparedFor, Issued, Stored
<1>. QED BY <1>1, <1>2, <1>3, <1>4, <1>5 DEF WorkerInv, Stored

-----------------------------------------------------------------------------
(* What holds whatever the settings.                                       *)

(* In the beginning no worker holds anything.                              *)
LEMMA SchedulerInitInv == SchedulerInit => WorkerInv /\ HeldInv /\ NotifiedIsFinal
<1>. SUFFICES ASSUME SchedulerInit
              PROVE  WorkerInv /\ HeldInv /\ NotifiedIsFinal
  OBVIOUS
<1>1. StoreInv
  BY InitInv DEF SchedulerInit
<1>2. SchedulerTypeOK
  <2>1. RuntimeTypeOK
    BY RuntimeAssumption DEF SchedulerInit, RuntimeInit, RuntimeTypeOK
  <2>2. FinishCallbackTypeOK
    BY MaxNotifiedAssumption
       DEF SchedulerInit, FinishCallbackInit, FinishCallbackTypeOK
  <2>3. worker \in [Workers -> WorkerType]
    BY IdleType DEF SchedulerInit
  <2>. QED BY <1>1, <2>1, <2>2, <2>3 DEF SchedulerTypeOK, StoreInv, WorkerType
<1>3. /\ \A t \in Traces : ~Stored(t)
      /\ \A t \in Traces : notified[t] = 0
      /\ \A w \in Workers : worker[w] = Idle
  BY DEF SchedulerInit, StoreInit, FinishCallbackInit, Stored
<1>4. FiniteTable
  <2>1. StoredTraces = {}
    BY <1>3 DEF StoredTraces
  <2>. QED BY <2>1, FS_EmptySet DEF FiniteTable
<1>5. FitsTable(Idle)
  BY IdleType DEF FitsTable
<1>6. WorkerInv
  BY <1>1, <1>2, <1>3, <1>4, <1>5, IdleType DEF WorkerInv
<1>7. HeldInv
  BY <1>3, IdleType DEF HeldInv, LeasedRowIsHeld
<1>8. NotifiedIsFinal
  BY <1>3 DEF NotifiedIsFinal
<1>. QED BY <1>6, <1>7, <1>8

(* WorkerInv is inductive. *)
LEMMA WorkerNextInv ==
  WorkerInv /\ [SchedulerNext]_vars => WorkerInv'
<1>. SUFFICES ASSUME WorkerInv, [SchedulerNext]_vars
              PROVE  WorkerInv'
  OBVIOUS
<1>1. CASE UNCHANGED vars
  BY <1>1, TickKeeps, WorkerTypes DEF vars
<1>2. CASE Tick
  BY <1>2, TickKeeps, WorkerTypes DEF Tick
<1>3. CASE ServerStep
  BY <1>3, ServerStepIsOutside, OutsideKeeps
<1>4. ASSUME NEW w \in Workers, SchedulerStep(w) \/ SchedulerFault(w)
      PROVE  WorkerInv'
  BY <1>4, WorkerStepFrame, WorkerFrameInv
<1>. QED BY <1>1, <1>2, <1>3, <1>4 DEF SchedulerNext

(* What the workers hold in memory fits the table, whatever the settings   *)
(* and however often statements fail.                                      *)
THEOREM WorkerInvariant == SchedulerSpec => []WorkerInv
<1>1. SchedulerInit => WorkerInv
  BY SchedulerInitInv
<1>. QED BY <1>1, WorkerNextInv, PTL DEF SchedulerSpec

(* The state of the workers stays well typed. *)
THEOREM SchedulerTypesCorrect == SchedulerSpec => []SchedulerTypeOK
<1>1. WorkerInv => SchedulerTypeOK
  BY DEF WorkerInv
<1>. QED BY <1>1, WorkerInvariant, PTL

(* Only a claim and a read back change the batch of a worker. *)
LEMMA BatchKept ==
  ASSUME WorkerInv, NEW w \in Workers, SchedulerStep(w), ~Claim(w), ~ReadBack(w)
  PROVE  /\ worker'[w].batch = worker[w].batch
         /\ worker[w].pc # "claim"
         /\ worker'[w].pc = "stepped" => StepEnds(w) \/ worker[w].pc = "stepped"
<1>. worker \in [Workers -> WorkerType] /\ FitsPhase(worker[w]) /\ Idle.batch = <<>>
     /\ Idle.pc = "idle"
  BY WorkerTypes, WorkerFields, IdleType
<1>1. CASE BeginRound(w) \/ SelectOverdue(w) \/ SelectPoll(w)
  <2>1. \/ \E now : worker' = [worker EXCEPT ![w].pc = "expire", ![w].now = now]
        \/ \E s : \E pc \in {"poll", "expireRow"} :
             worker' = [worker EXCEPT ![w].pc = pc, ![w].overdue = s]
        \/ \E s : worker' = [worker EXCEPT ![w].pc = "callback", ![w].found = s]
    BY <1>1 DEF BeginRound, SelectOverdue, SelectPoll
  <2>2. worker'[w].batch = worker[w].batch /\ worker'[w].pc # "stepped"
    BY <2>1 DEF WorkerType
  <2>. QED BY <1>1, <2>2 DEF BeginRound, SelectOverdue, SelectPoll
<1>2. CASE ExpireRow(w) \/ ExpireGet(w)
  <2>1. ASSUME NEW rest, NEW failed, ExpireNext(w, rest, failed)
        PROVE  worker'[w].batch = worker[w].batch /\ worker'[w].pc # "stepped"
    BY <2>1 DEF ExpireNext, WorkerType
  <2>2. Goto(w, "expireGet") =>
          worker'[w].batch = worker[w].batch /\ worker'[w].pc # "stepped"
    BY DEF Goto, WorkerType
  <2>3. worker[w].pc # "claim"
    BY <1>2 DEF ExpireRow, ExpireGet
  <2>4. Goto(w, "expireGet") \/ \E rest, failed : ExpireNext(w, rest, failed)
    BY <1>2 DEF ExpireRow, ExpireGet
  <2>. QED BY <2>1, <2>2, <2>3, <2>4
<1>3. CASE SelectCallback(w)
  <2>1. worker[w].pc = "callback" /\ worker[w].batch = <<>>
    BY <1>3 DEF SelectCallback, FitsPhase
  <2>2. worker'[w] = Idle \/ \E found : worker'[w] =
          [worker[w] EXCEPT !.pc = "claim", !.found = found]
    BY <1>3 DEF SelectCallback
  <2>. QED BY <2>1, <2>2 DEF WorkerType
<1>4. CASE StepWrites(w) \/ StepPrepares(w) \/ StepEnds(w) \/ Renew(w)
  BY <1>4 DEF StepWrites, StepPrepares, StepEnds, Renew, Goto, WorkerType
<1>. QED BY <1>1, <1>2, <1>3, <1>4 DEF SchedulerStep

(* ... and while nothing fails a lease is in the batch of its owner.       *)
LEMMA HeldStep ==
  ASSUME WorkerInv, HeldInv, NEW w \in Workers, SchedulerStep(w) \/ SchedulerFault(w)
  PROVE  HeldInv'
<1>. SUFFICES ASSUME faults' = 0 PROVE HeldInv'
  BY DEF HeldInv, LeasedRowIsHeld
<1>. /\ worker \in [Workers -> WorkerType] /\ RuntimeTypeOK
     /\ rows \in [Traces -> Schedule \cup {Null}]
  BY WorkerTypes
<1>1. PICK r : WorkerFrame(w, r)
  BY WorkerStepFrame
<1>2. faults = 0 /\ ~SchedulerFault(w) /\ SchedulerStep(w)
  BY <1>1, FaultCounts
     DEF WorkerFrame, SchedulerFault, ExpireError, ClaimError, StepError,
         RenewError, ReadBackError, Crash
<1>3. ASSUME NEW t \in Traces, rows'[t] # Null, NEW v \in Workers,
             rows'[t].lockedBy = v
      PROVE  /\ Stored(t)
             /\ \/ rows[t].lockedBy = v
                \/ /\ v = w /\ worker[w].pc = "claim" /\ ~UNCHANGED rows
                   /\ t = Head(worker[w].found).trace
  <2>1. v # Null
    BY NullAssumption
  <2>2. CASE UNCHANGED rows
    BY <1>3, <2>2 DEF Stored
  <2>3. CASE ~UNCHANGED rows
    <3>1. PICK s \in Traces : RowBy(w, s)
      BY <1>1, <2>3 DEF WorkerFrame
    <3>2. Stored(s)
      BY <3>1 DEF RowBy
    <3>3. /\ \A u \in Traces : u # s => rows'[u] = rows[u]
          /\ \/ rows'[s].lockedBy \in {Null, rows[s].lockedBy}
             \/ /\ rows'[s].lockedBy = w /\ worker[w].pc = "claim"
                /\ s = Head(worker[w].found).trace
      BY <3>1, RowByEffect
    <3>. QED BY <1>3, <2>1, <2>3, <3>2, <3>3 DEF Stored
  <2>. QED BY <2>2, <2>3
<1>4. \A v \in Workers : v # w => worker'[v] = worker[v]
  BY <1>1 DEF WorkerFrame
<1>5. ASSUME NEW t \in Traces, rows'[t] # Null, rows'[t].lockedBy = w
      PROVE  \E i \in DOMAIN worker'[w].batch : worker'[w].batch[i].trace = t
  <2>1. rows[t].lockedBy = w =>
          \E i \in DOMAIN worker[w].batch : worker[w].batch[i].trace = t
    BY <1>2, <1>3, <1>5 DEF HeldInv, LeasedRowIsHeld
  <2>2. CASE Claim(w)
    <3> DEFINE item == Head(worker[w].found)
               matches == ClaimMatches(rows[item.trace], item.state, worker[w].now)
               batch == IF matches THEN Append(worker[w].batch, item)
                                   ELSE worker[w].batch
    <3>1. worker[w].batch \in Seq(ItemType) /\ item \in ItemType
      BY <2>2, WorkerFields, HeadAndTail DEF Claim, FitsPhase
    <3>2. worker'[w].batch = batch
      <4>1. \/ RunNext(w, batch)
            \/ worker'[w] = [worker[w] EXCEPT !.found = Tail(worker[w].found),
                                              !.batch = batch]
        BY <2>2 DEF Claim
      <4>2. CASE RunNext(w, batch)
        BY <4>2, IdleType DEF RunNext, WorkerType
      <4>. QED BY <4>1, <4>2 DEF WorkerType
    <3>3. ~UNCHANGED rows => matches
      BY <2>2 DEF Claim
    <3> HIDE DEF item, matches
    <3>4. CASE matches
      <4>1. /\ Append(worker[w].batch, item)[Len(worker[w].batch) + 1] = item
            /\ Len(worker[w].batch) + 1 \in DOMAIN Append(worker[w].batch, item)
            /\ \A i \in DOMAIN worker[w].batch :
                 /\ i \in DOMAIN Append(worker[w].batch, item)
                 /\ Append(worker[w].batch, item)[i] = worker[w].batch[i]
        BY <3>1
      <4>2. worker'[w].batch = Append(worker[w].batch, item)
        BY <3>2, <3>4
      <4>3. rows[t].lockedBy = w \/ t = item.trace
        BY <1>3, <1>5 DEF item
      <4>. QED BY <2>1, <4>1, <4>2, <4>3
    <3>5. CASE ~matches
      BY <1>3, <1>5, <2>1, <3>2, <3>3, <3>5
    <3>. QED BY <3>4, <3>5
  <2>3. CASE ReadBack(w)
    <3>1. /\ worker[w].pc = "stepped" /\ UNCHANGED rows
          /\ RunNext(w, Tail(worker[w].batch))
      BY <2>3 DEF ReadBack
    <3>2. /\ worker[w].batch \in Seq(ItemType) /\ worker[w].batch # <<>>
          /\ RunningItem(w) = worker[w].batch[1]
      BY <3>1, WorkerFields, RunningStep
    <3>3. worker'[w].batch = Tail(worker[w].batch)
      BY <3>1, IdleType DEF RunNext, WorkerType
    <3>4. PICK i \in DOMAIN worker[w].batch : worker[w].batch[i].trace = t
      BY <1>5, <2>1, <3>1
    <3>5. i # 1
      BY <1>2, <1>5, <3>1, <3>2, <3>4 DEF HeldInv, Stored
    <3>6. /\ i - 1 \in DOMAIN Tail(worker[w].batch)
          /\ Tail(worker[w].batch)[i - 1] = worker[w].batch[i]
      BY <3>2, <3>4, <3>5
    <3>. QED BY <3>3, <3>4, <3>6
  <2>4. CASE ~Claim(w) /\ ~ReadBack(w)
    BY <1>2, <1>3, <1>5, <2>1, <2>4, BatchKept
  <2>. QED BY <2>2, <2>3, <2>4
<1>6. LeasedRowIsHeld'
  <2>. SUFFICES ASSUME NEW t \in Traces, NEW v \in Workers, rows'[t] # Null,
                       rows'[t].lockedBy = v
                PROVE  \E i \in DOMAIN worker'[v].batch :
                         worker'[v].batch[i].trace = t
    BY DEF LeasedRowIsHeld, Stored
  <2>1. CASE v = w
    BY <1>5, <2>1
  <2>2. CASE v # w
    BY <1>2, <1>3, <1>4, <2>2 DEF HeldInv, LeasedRowIsHeld
  <2>. QED BY <2>1, <2>2
<1>7. ASSUME NEW v \in Workers, worker'[v].pc = "stepped",
             rows'[Head(worker'[v].batch).trace] # Null,
             rows'[Head(worker'[v].batch).trace].lockedBy = v
      PROVE  FALSE
  <2>1. CASE v # w
    <3>1. worker'[v] = worker[v] /\ worker[v].pc = "stepped"
      BY <1>4, <1>7, <2>1
    <3>2. RunningItem(v).trace \in Traces
      BY <3>1, RunningStep
    <3>. QED BY <1>2, <1>3, <1>7, <2>1, <3>1, <3>2 DEF HeldInv, RunningItem
  <2>2. CASE v = w
    <3>1. ~Claim(w) /\ ~ReadBack(w)
      <4>1. \A batch : RunNext(w, batch) => worker'[w].pc \in {"idle", "run"}
        BY IdleType DEF RunNext, WorkerType
      <4>2. CASE Claim(w)
        <5>1. \/ \E batch : RunNext(w, batch)
              \/ worker'[w].pc = "claim"
          BY <4>2 DEF Claim, WorkerType
        <5>. QED BY <1>7, <2>2, <4>1, <5>1
      <4>3. CASE ReadBack(w)
        BY <1>7, <2>2, <4>1, <4>3 DEF ReadBack
      <4>. QED BY <4>2, <4>3
    <3>2. /\ worker'[w].batch = worker[w].batch /\ worker[w].pc # "claim"
          /\ StepEnds(w) \/ worker[w].pc = "stepped"
      BY <1>2, <1>7, <2>2, <3>1, BatchKept
    <3>3. CASE StepEnds(w)
      <4>1. rows'[RunningItem(w).trace].lockedBy = Null
        BY <1>7, <2>2, <3>3, MarkedByStep DEF StepEnds
      <4>. QED BY <1>7, <2>2, <3>2, <4>1, NullAssumption DEF RunningItem
    <3>4. CASE worker[w].pc = "stepped"
      <4>1. RunningItem(w).trace \in Traces
        BY <3>4, RunningStep
      <4>. QED BY <1>2, <1>3, <1>7, <2>2, <3>2, <3>4, <4>1 DEF HeldInv, RunningItem
    <3>. QED BY <3>2, <3>3, <3>4
  <2>. QED BY <2>1, <2>2
<1>. QED BY <1>6, <1>7 DEF HeldInv, RunningItem, Stored

(* The server leaves leases and the workers that hold them.                *)
LEMMA HeldOutside ==
  ASSUME WorkerInv, HeldInv, OutsideStep
  PROVE  HeldInv'
<1>1. PICK s \in Traces : OutsideRow(s)
  BY DEF OutsideStep
<1>2. UNCHANGED <<worker, faults>>
  BY DEF OutsideStep
<1>3. ASSUME NEW t \in Traces, rows'[t] # Null, NEW v \in Workers,
             rows'[t].lockedBy = v
      PROVE  Stored(t) /\ rows[t].lockedBy = v
  <2>1. CASE t = s
    BY <1>1, <1>3, <2>1, NullAssumption, OutsideRowEffect
  <2>2. CASE t # s
    <3>1. rows'[t] = rows[t]
      BY <1>1, <2>2, WorkerTypes, OtherRowsAreKept DEF OutsideRow
    <3>. QED BY <1>3, <3>1 DEF Stored
  <2>. QED BY <2>1, <2>2
<1>4. LeasedRowIsHeld'
  BY <1>2, <1>3 DEF HeldInv, LeasedRowIsHeld, Stored
<1>5. ASSUME NEW v \in Workers, worker[v].pc = "stepped"
      PROVE  RunningItem(v).trace \in Traces
  BY <1>5, RunningStep
<1>. QED BY <1>2, <1>3, <1>4, <1>5 DEF HeldInv, RunningItem, Stored

(* While nothing fails, a leased row is in the batch of the worker its     *)
(* lease names, whatever the settings.                                     *)
THEOREM LeasedRowsAreHeld == SchedulerSpec => []LeasedRowIsHeld
<1>1. SchedulerInit => WorkerInv /\ HeldInv
  BY SchedulerInitInv
<1>2. WorkerInv /\ HeldInv /\ [SchedulerNext]_vars => WorkerInv' /\ HeldInv'
  <2>. SUFFICES ASSUME WorkerInv, HeldInv, [SchedulerNext]_vars
                PROVE  HeldInv'
    BY WorkerNextInv
  <2>1. CASE UNCHANGED vars \/ Tick
    BY <2>1 DEF vars, Tick, HeldInv, LeasedRowIsHeld, RunningItem, Stored
  <2>2. CASE ServerStep
    BY <2>2, ServerStepIsOutside, HeldOutside
  <2>3. ASSUME NEW w \in Workers, SchedulerStep(w) \/ SchedulerFault(w)
        PROVE  HeldInv'
    BY <2>3, HeldStep
  <2>. QED BY <2>1, <2>2, <2>3 DEF SchedulerNext
<1>3. HeldInv => LeasedRowIsHeld
  BY DEF HeldInv
<1>. QED BY <1>1, <1>2, <1>3, PTL DEF SchedulerSpec

(* Whatever the step, the table sees at most one statement. *)
LEMMA SchedulerStatement ==
  ASSUME WorkerInv, [SchedulerNext]_vars
  PROVE  [AnyStatement]_rows
<1>1. CASE UNCHANGED vars \/ Tick
  BY <1>1 DEF vars, Tick
<1>2. CASE ServerStep
  BY <1>2, ServerStepIsOutside DEF OutsideStep, OutsideRow, AnyStatement
<1>3. ASSUME NEW w \in Workers, SchedulerStep(w) \/ SchedulerFault(w)
      PROVE  [AnyStatement]_rows
  BY <1>3, WorkerStepFrame DEF WorkerFrame, RowBy, AnyStatement
<1>. QED BY <1>1, <1>2, <1>3 DEF SchedulerNext

-----------------------------------------------------------------------------
(* Leases that cover steps: the workers under the settings of Punctual.    *)

(* More faults, more of the lease is spent. *)
LEMMA IntervalsGrow ==
  ASSUME NEW a \in Nat, NEW b \in Nat, NEW h \in Nat, a <= b
  PROVE  a * h \in Nat /\ b * h \in Nat /\ a * h <= b * h
<1>1. PICK d \in Nat : b = a + d
  <2>1. b - a \in Nat /\ b = a + (b - a)
    OBVIOUS
  <2>. QED BY <2>1
<1>2. b * h = a * h + d * h /\ a * h \in Nat /\ d * h \in Nat
  BY <1>1
<1>. QED BY <1>1, <1>2

(* No host takes the lease of a running step for expired: it outlasts the  *)
(* next heartbeat even when every heartbeat that may fail does.            *)
LEMMA LeaseIsCurrent ==
  ASSUME LeaseInv, Punctual, NEW w \in Workers, worker[w].pc = "run"
  PROVE  LET t == RunningItem(w).trace
         IN  /\ t \in Traces /\ Stored(t) /\ rows[t] \in Schedule
             /\ ~rows[t].finished /\ rows[t].lockedBy = w
             /\ ~IsFinal(rows[t].state)
             /\ rows[t].state = "POLL" \/ DueCallback(rows[t])
             /\ rows[t].lockedUntil \in Nat
             /\ \A v \in Workers : rows[t].lockedUntil >= HostClock(v)
<1> DEFINE t == RunningItem(w).trace
<1>. WorkerInv
  BY DEF LeaseInv
<1>1. t \in Traces
  BY RunningStep
<1> HIDE DEF t
<1>2. /\ Stored(t) /\ ~rows[t].finished /\ rows[t].lockedBy = w
      /\ rows[t].state = "POLL" \/ DueCallback(rows[t])
      /\ worker[w].renewAt \in Nat /\ clock <= worker[w].renewAt
      /\ rows[t].lockedUntil + (faults + 1) * HeartbeatInterval
           >= worker[w].renewAt + LockFor + SkewOf(w)
  BY DEF LeaseInv, Leases, t
<1>3. rows[t] \in Schedule /\ RowInv(rows[t])
  BY <1>1, <1>2, WorkerTypes, StoredRow
<1>4. rows[t].lockedUntil \in Nat
  BY <1>2, <1>3, NullAssumption DEF RowInv, Schedule
<1>5. (faults + 1) * HeartbeatInterval <= (MaxFaults + 1) * HeartbeatInterval
  BY WorkerTypes, IntervalsGrow
<1>6. ASSUME NEW v \in Workers
      PROVE  rows[t].lockedUntil >= HostClock(v)
  <2> DEFINE spent == (faults + 1) * HeartbeatInterval
             most  == (MaxFaults + 1) * HeartbeatInterval
  <2>1. spent \in Int /\ most \in Int /\ spent <= most /\ most + Skew <= LockFor
        /\ rows[t].lockedUntil + spent >= worker[w].renewAt + LockFor + SkewOf(w)
    BY <1>2, <1>5, WorkerTypes DEF Punctual
  <2>2. SkewOf(v) <= Skew /\ SkewOf(v) \in Nat /\ SkewOf(w) \in Nat /\ Skew \in Nat
        /\ HostClock(v) = clock + SkewOf(v) /\ clock \in Nat /\ LockFor \in Nat
    BY WorkerTypes DEF SkewOf
  <2> HIDE DEF spent, most
  <2>. QED BY <1>2, <1>4, <2>1, <2>2
<1>7. ~IsFinal(rows[t].state)
  BY <1>2 DEF IsFinal, DueCallback
<1>. QED BY <1>1, <1>2, <1>3, <1>4, <1>6, <1>7 DEF t

(* A worker touches no final row, and no row of a step another one runs:   *)
(* to claim it, it would have to take its lease for expired; to fail it,   *)
(* it would have to find it waiting.                                       *)
LEMMA TouchedByWorker ==
  ASSUME LeaseInv, Punctual, NEW v \in Workers, NEW s \in Traces, RowBy(v, s)
  PROVE  /\ ~IsFinal(rows[s].state)
         /\ \A w \in Workers :
              worker[w].pc = "run" /\ RunningItem(w).trace = s => w = v
<1>. WorkerInv
  BY DEF LeaseInv
<1>1. Stored(s) /\ rows[s] \in Schedule /\ RowInv(rows[s])
  BY WorkerTypes, StoredRow DEF RowBy
<1>2. ~rows[s].finished => ~IsFinal(rows[s].state)
  BY <1>1 DEF RowInv
<1>3. CASE ExpireMatches(rows[s])
  <2>1. \A w \in Workers : ~(worker[w].pc = "run" /\ RunningItem(w).trace = s)
    BY <1>3, LeaseIsCurrent DEF ExpireMatches, DueCallback
  <2>. QED BY <1>2, <1>3, <2>1 DEF ExpireMatches
<1>4. CASE /\ worker[v].pc = "claim"
           /\ ClaimMatches(rows[s], Head(worker[v].found).state, worker[v].now)
  <2>1. worker[v].now = HostClock(v) /\ HostClock(v) \in Nat
    BY <1>4, WorkerTypes DEF LeaseInv, RoundOf
  <2>2. Claimable(rows[s], HostClock(v))
    BY <1>4, <2>1 DEF ClaimMatches
  <2>3. ASSUME NEW w \in Workers, worker[w].pc = "run", RunningItem(w).trace = s
        PROVE  FALSE
    <3>1. rows[s].lockedUntil \in Nat /\ rows[s].lockedUntil >= HostClock(v)
      BY <2>3, LeaseIsCurrent
    <3>. QED BY <2>1, <2>2, <3>1, NullAssumption DEF Claimable
  <2>. QED BY <1>2, <2>2, <2>3 DEF Claimable
<1>5. CASE worker[v].pc = "run" /\ s = RunningItem(v).trace
  BY <1>5, LeaseIsCurrent
<1>6. CASE RenewMatches(rows[s], v)
  BY <1>2, <1>6, LeaseIsCurrent DEF RenewMatches
<1>. QED BY <1>3, <1>4, <1>5, <1>6 DEF RowBy

(* Neither does the server: it writes to rows that wait. *)
LEMMA TouchedByServer ==
  ASSUME LeaseInv, Punctual, NEW s \in Traces, OutsideRow(s)
  PROVE  /\ Stored(s) => ~IsFinal(rows[s].state)
         /\ \A w \in Workers : ~(worker[w].pc = "run" /\ RunningItem(w).trace = s)
<1>1. Stored(s) => \/ rows[s].state = "EMPTY"
                   \/ rows[s].state = "CALLBACK" /\ rows[s].receivedAt = Null
  BY DEF OutsideRow, FirstStepRow, AnsweredRow
<1>2. ASSUME NEW w \in Workers, worker[w].pc = "run", RunningItem(w).trace = s
      PROVE  FALSE
  <2>1. Stored(s) /\ (rows[s].state = "POLL" \/ DueCallback(rows[s]))
    BY <1>2, LeaseIsCurrent
  <2>. QED BY <1>1, <2>1 DEF DueCallback
<1>. QED BY <1>1, <1>2 DEF IsFinal

FinalRowsKept ==
  \A t \in Traces : Stored(t) /\ IsFinal(rows[t].state) => rows'[t] = rows[t]

(* A statement of the server changes no final row. *)
LEMMA OutsideKeepsFinal ==
  ASSUME LeaseInv, Punctual, NEW s \in Traces, OutsideRow(s)
  PROVE  FinalRowsKept
<1>. SUFFICES ASSUME NEW t \in Traces, Stored(t), IsFinal(rows[t].state)
              PROVE  rows'[t] = rows[t]
  BY DEF FinalRowsKept
<1>1. s # t
  BY TouchedByServer
<1>. QED BY <1>1, WorkerTypes, OtherRowsAreKept DEF OutsideRow, LeaseInv

(* No step changes a final row. *)
LEMMA FinalRowKept ==
  ASSUME LeaseInv, Punctual, [SchedulerNext]_vars
  PROVE  FinalRowsKept
<1>. SUFFICES ASSUME NEW t \in Traces, Stored(t), IsFinal(rows[t].state)
              PROVE  rows'[t] = rows[t]
  BY DEF FinalRowsKept
<1>. WorkerInv
  BY DEF LeaseInv
<1>1. CASE UNCHANGED vars \/ Tick
  BY <1>1 DEF vars, Tick
<1>2. CASE ServerStep
  <2>1. PICK s \in Traces : OutsideRow(s)
    BY <1>2, ServerStepIsOutside DEF OutsideStep
  <2>. QED BY <2>1, OutsideKeepsFinal DEF FinalRowsKept
<1>3. ASSUME NEW w \in Workers, SchedulerStep(w) \/ SchedulerFault(w)
      PROVE  rows'[t] = rows[t]
  <2>1. PICK r : WorkerFrame(w, r)
    BY <1>3, WorkerStepFrame
  <2>2. CASE UNCHANGED rows
    BY <2>2
  <2>3. ASSUME NEW s \in Traces, RowBy(w, s)
        PROVE  rows'[t] = rows[t]
    BY <2>3, TouchedByWorker, RowByEffect
  <2>. QED BY <2>1, <2>2, <2>3 DEF WorkerFrame
<1>. QED BY <1>1, <1>2, <1>3 DEF SchedulerNext

(* What a worker that takes no step keeps. *)
LEMMA BystanderKeeps ==
  ASSUME LeaseInv, Punctual, [AnyStatement]_rows, FinalRowsKept, NEW v \in Workers,
         worker'[v] = worker[v], UNCHANGED clock, faults' \in Nat, faults <= faults',
         worker[v].pc = "run" =>
           rows'[RunningItem(v).trace] = rows[RunningItem(v).trace]
  PROVE  /\ RoundOf(v)'
         /\ worker'[v].pc = "run" => Leases(v)'
         /\ FailedOf(v)'
<1>. WorkerInv
  BY DEF LeaseInv
<1>1. RoundOf(v)'
  BY DEF LeaseInv, RoundOf, HostClock
<1>2. FailedOf(v)'
  <2>1. \A t \in Traces : Stored(t) => rows'[t] # Null
    BY WorkerTypes, RowsAreKept
  <2>2. worker[v].pc = "stepped" => RunningItem(v).trace \in Traces
    BY RunningStep
  <2>3. ASSUME NEW i \in 1..Len(worker[v].failed), IsFinal(worker[v].failed[i].state)
        PROVE  /\ rows'[worker[v].failed[i].trace] # Null
               /\ IsFinal(rows'[worker[v].failed[i].trace].state)
    <3>1. worker[v].failed[i] \in ReadBackType
      BY <2>3, WorkerFields
    <3>2. worker[v].failed[i].trace \in Traces
      BY <3>1 DEF ReadBackType
    <3>3. /\ Stored(worker[v].failed[i].trace)
          /\ IsFinal(rows[worker[v].failed[i].trace].state)
      BY <2>3 DEF LeaseInv, FailedOf
    <3>. QED BY <3>2, <3>3 DEF FinalRowsKept, Stored
  <2>. QED BY <2>1, <2>2, <2>3 DEF LeaseInv, FailedOf, RunningItem, Stored
<1>3. ASSUME worker[v].pc = "run"
      PROVE  Leases(v)'
  <2> DEFINE t == RunningItem(v).trace
  <2>1. Leases(v)
    BY <1>3 DEF LeaseInv
  <2>2. rows'[t] = rows[t] /\ RunningItem(v)' = RunningItem(v)
    BY <1>3 DEF RunningItem
  <2>3. rows[t].lockedUntil \in Nat
    BY <1>3, LeaseIsCurrent
  <2>4. worker[v].renewAt \in Nat
    BY <2>1 DEF Leases
  <2>5. rows[t].lockedUntil + (faults' + 1) * HeartbeatInterval
          >= worker[v].renewAt + LockFor + SkewOf(v)
    <3>1. /\ (faults + 1) * HeartbeatInterval \in Nat
          /\ (faults' + 1) * HeartbeatInterval \in Nat
          /\ (faults + 1) * HeartbeatInterval <= (faults' + 1) * HeartbeatInterval
      BY WorkerTypes, IntervalsGrow
    <3> DEFINE spent == (faults + 1) * HeartbeatInterval
               later == (faults' + 1) * HeartbeatInterval
    <3>2. rows[t].lockedUntil + spent >= worker[v].renewAt + LockFor + SkewOf(v)
      BY <2>1 DEF Leases
    <3>3. spent \in Nat /\ later \in Nat /\ spent <= later
      BY <3>1
    <3> HIDE DEF spent, later
    <3>4. rows[t].lockedUntil + later >= worker[v].renewAt + LockFor + SkewOf(v)
      BY <2>3, <2>4, <3>2, <3>3, WorkerTypes
    <3>. QED BY <3>4 DEF later
  <2>. QED BY <2>1, <2>2, <2>5 DEF Leases, Stored, SkewOf, HeartbeatInterval
<1>. QED BY <1>1, <1>2, <1>3


(* A worker that has just been given a lease, or has just renewed it.      *)
LEMMA FreshLease ==
  ASSUME WorkerInv, NEW w \in Workers, faults' \in Nat
  PROVE  HostClock(w) + LockFor + (faults' + 1) * HeartbeatInterval
           >= clock + HeartbeatInterval + LockFor + SkewOf(w)
<1> DEFINE spent == (faults' + 1) * HeartbeatInterval
<1>1. 1 * HeartbeatInterval <= spent /\ spent \in Nat
  BY WorkerTypes, IntervalsGrow
<1>2. 1 * HeartbeatInterval = HeartbeatInterval
  BY WorkerTypes
<1> HIDE DEF spent
<1>3. HostClock(w) + LockFor + spent >= clock + HeartbeatInterval + LockFor + SkewOf(w)
  BY <1>1, <1>2, WorkerTypes
<1>. QED BY <1>3 DEF spent

(* A round that claims one row: the item found is run if it was claimed.   *)
LEMMA OneClaim ==
  ASSUME LeaseInv, Punctual, NEW w \in Workers, Claim(w)
  PROVE  /\ RoundOf(w)'
         /\ worker'[w].pc = "run" => Leases(w)'
<1> DEFINE item    == Head(worker[w].found)
           matches == ClaimMatches(rows[item.trace], item.state, worker[w].now)
           batch   == IF matches THEN Append(worker[w].batch, item)
                                 ELSE worker[w].batch
<1>. WorkerInv /\ RoundOf(w)
  BY DEF LeaseInv
<1>. /\ worker \in [Workers -> WorkerType] /\ HostClock(w) \in Nat
     /\ rows \in [Traces -> Schedule \cup {Null}]
     /\ clock \in Nat /\ HeartbeatInterval \in Nat
  BY WorkerTypes
<1>1. /\ worker[w].pc = "claim" /\ worker[w].batch = <<>>
      /\ worker[w].now = HostClock(w) /\ UNCHANGED <<clock, faults>>
  BY DEF Claim, RoundOf
<1>2. /\ worker[w].found \in Seq(ItemType) /\ worker[w].found # <<>>
      /\ Len(worker[w].found) <= 1
  BY <1>1, WorkerFields DEF FitsPhase, RoundOf
<1>3. item \in ItemType /\ Tail(worker[w].found) = <<>>
  BY <1>2, HeadAndTail
<1>4. RunNext(w, batch)
  BY <1>3 DEF Claim
<1>5. matches => rows' = [rows EXCEPT ![item.trace] =
                            [@ EXCEPT !.lockedBy = w, !.lockedUntil = LockUntil(w)]]
  BY DEF Claim, ClaimDueItem
<1>6. matches => Stored(item.trace)
  BY DEF Claim, ClaimDueItem
<1>7. item.trace \in Traces
  BY <1>3 DEF ItemType
<1>8. CASE ~matches
  <2>1. batch = <<>>
    BY <1>1, <1>8
  <2> HIDE DEF batch
  <2>2. worker'[w] = Idle
    BY <1>4, <2>1 DEF RunNext
  <2>. QED BY <2>2, IdleType DEF RoundOf
<1>9. CASE matches
  <2>1. batch = <<item>>
    BY <1>1, <1>3, <1>9
  <2> HIDE DEF batch
  <2>2. /\ batch \in Seq(ItemType) /\ batch # <<>> /\ Len(batch) = 1
        /\ Head(batch) = item
    BY <1>3, <2>1
  <2>3. worker'[w] = [Idle EXCEPT !.pc = "run", !.batch = batch,
                                  !.renewAt = clock + HeartbeatInterval]
    BY <1>4, <2>2 DEF RunNext, Punctual
  <2>4. /\ worker'[w].pc = "run" /\ worker'[w].batch = batch
        /\ worker'[w].found = <<>>
        /\ worker'[w].renewAt = clock + HeartbeatInterval
    BY <2>3, IdleType DEF WorkerType
  <2>5. RoundOf(w)'
    <3>1. Len(worker'[w].found) <= 1 /\ Len(worker'[w].batch) <= 1
      <4>1. Len(<<>>) = 0
        OBVIOUS
      <4>2. Len(worker'[w].found) = 0
        BY ONLY <2>4, <4>1, Zenon
      <4>3. Len(worker'[w].batch) = 1
        BY ONLY <2>2, <2>4, Zenon
      <4>. QED BY ONLY <4>2, <4>3
    <3>2. worker'[w].pc \in {"idle", "run", "stepped", "dead"} /\ worker'[w].pc # "claim"
      BY <2>4
    <3>. QED BY <3>1, <3>2 DEF RoundOf
  <2> DEFINE t == item.trace
  <2>6. Stored(t) /\ rows[t] \in Schedule /\ RowInv(rows[t]) /\ t \in Traces
    BY <1>6, <1>7, <1>9, WorkerTypes, StoredRow
  <2>7. rows'[t] = [rows[t] EXCEPT !.lockedBy = w, !.lockedUntil = LockUntil(w)]
    BY <1>5, <1>7, <1>9
  <2>8. /\ ~rows[t].finished
        /\ DueCallback(rows[t]) \/ rows[t].state = "POLL"
    BY <1>9 DEF ClaimMatches, Claimable, DuePoll
  <2>9. rows'[t] # Null
    <3>1. [AnyStatement]_rows
      BY SchedulerStatement DEF SchedulerNext, SchedulerStep
    <3>. QED BY <2>6, <3>1, WorkerTypes, RowsAreKept
  <2>10. RunningItem(w)'.trace = t
    BY <2>2, <2>4 DEF RunningItem
  <2> HIDE DEF t, item, matches
  <2>11. LET r == rows'[t]
         IN  /\ ~r.finished /\ r.lockedBy = w /\ r.lockedUntil = HostClock(w) + LockFor
             /\ DueCallback(r) \/ r.state = "POLL"
    BY <1>1, <2>6, <2>7, <2>8 DEF Schedule, DueCallback, LockUntil
  <2>12. faults' \in Nat
    BY <1>1, WorkerTypes
  <2>13. Leases(w)'
    BY <1>1, <2>4, <2>9, <2>10, <2>11, <2>12, FreshLease
       DEF Leases, Stored, SkewOf, HeartbeatInterval
  <2>. QED BY <2>5, <2>13
<1>. QED BY <1>8, <1>9

(* ... and is the last of it. *)
LEMMA OneItem ==
  ASSUME LeaseInv, Punctual, NEW w \in Workers, ReadBack(w) \/ ReadBackError(w)
  PROVE  worker'[w] = Idle /\ worker'[w].pc = "idle"
<1>. WorkerInv /\ RoundOf(w)
  BY DEF LeaseInv
<1>1. worker[w].pc = "stepped" /\ RunNext(w, Tail(worker[w].batch))
  BY DEF ReadBack, ReadBackError
<1>2. /\ worker[w].batch \in Seq(ItemType) /\ worker[w].batch # <<>>
      /\ Len(worker[w].batch) <= 1
  BY <1>1, WorkerFields DEF FitsPhase, RoundOf
<1>3. Tail(worker[w].batch) = <<>>
  BY <1>2, HeadAndTail
<1>4. worker'[w] = Idle
  BY <1>1, <1>3, WorkerTypes DEF RunNext
<1>. QED BY <1>4, IdleType

(* Where its own step leaves a worker in its round. *)
LEMMA OwnRound ==
  ASSUME LeaseInv, Punctual, NEW w \in Workers, SchedulerStep(w) \/ SchedulerFault(w)
  PROVE  RoundOf(w)'
<1>. WorkerInv /\ RoundOf(w) /\ Limit = 1
  BY DEF LeaseInv, Punctual
<1>. /\ worker \in [Workers -> WorkerType] /\ HostClock(w) \in Nat
     /\ worker[w].found \in Seq(ItemType) /\ worker[w].batch \in Seq(ItemType)
     /\ FitsPhase(worker[w]) /\ Idle \in WorkerType /\ Idle.pc = "idle"
     /\ Idle.found = <<>> /\ Idle.batch = <<>>
  BY WorkerTypes, WorkerFields, IdleType
<1>1. clock' = clock /\ HostClock(w)' = HostClock(w)
  <2>1. clock' = clock
    BY WorkerStepFrame DEF WorkerFrame
  <2>. QED BY <2>1 DEF HostClock
<1>2. CASE BeginRound(w)
  BY <1>1, <1>2 DEF BeginRound, RoundOf, WorkerType
<1>3. CASE SelectOverdue(w)
  BY <1>1, <1>3 DEF SelectOverdue, RoundOf, WorkerType
<1>4. CASE ExpireRow(w) \/ ExpireGet(w) \/ ExpireError(w)
  <2>1. /\ worker[w].pc \in {"expire", "expireRow", "expireGet"}
        /\ worker'[w].pc \in {"expireRow", "expireGet", "poll"}
        /\ worker'[w].now = worker[w].now
        /\ worker'[w].found = worker[w].found /\ worker'[w].batch = worker[w].batch
    <3>0. ASSUME NEW overdue, NEW failed, ExpireNext(w, overdue, failed)
          PROVE  /\ worker'[w].pc \in {"expireRow", "poll"}
                 /\ worker'[w].now = worker[w].now
                 /\ worker'[w].found = worker[w].found
                 /\ worker'[w].batch = worker[w].batch
      <4>1. \/ worker'[w] = [worker[w] EXCEPT !.pc = "expireRow",
                                  !.overdue = overdue, !.failed = failed]
            \/ worker'[w] = [worker[w] EXCEPT !.pc = "poll",
                                  !.overdue = <<>>, !.failed = <<>>]
        BY <3>0 DEF ExpireNext
      <4>. QED BY <4>1 DEF WorkerType
    <3>1. CASE ExpireRow(w)
      <4>1. \/ worker' = [worker EXCEPT ![w].pc = "expireGet"]
            \/ ExpireNext(w, Tail(worker[w].overdue), worker[w].failed)
        BY <3>1 DEF ExpireRow, Goto
      <4>2. CASE worker' = [worker EXCEPT ![w].pc = "expireGet"]
        BY <3>1, <4>2 DEF ExpireRow, WorkerType
      <4>. QED BY <3>0, <3>1, <4>1, <4>2 DEF ExpireRow
    <3>2. CASE ExpireGet(w)
      BY <3>0, <3>2 DEF ExpireGet
    <3>3. CASE ExpireError(w)
      BY <3>3 DEF ExpireError, WorkerType
    <3>. QED BY <1>4, <3>1, <3>2, <3>3
  <2>. QED BY <1>1, <2>1 DEF RoundOf
<1>5. CASE SelectPoll(w)
  <2>1. PICK s \in PollCandidates(worker[w].now, Limit) :
          worker' = [worker EXCEPT ![w].pc = "callback", ![w].found = s]
    BY <1>5 DEF SelectPoll
  <2>2. s \in Seq(ItemType) /\ Len(s) <= 1
    BY FoundByQuery
  <2>. QED BY <1>1, <1>5, <2>1, <2>2 DEF SelectPoll, RoundOf, WorkerType
<1>6. CASE SelectCallback(w)
  <2>1. PICK s \in CallbackCandidates(worker[w].now, Limit) :
          LET found == MergeDueCandidates(worker[w].found, s, Limit)
          IN  worker' = [worker EXCEPT ![w] =
                IF found = <<>> THEN Idle
                ELSE [@ EXCEPT !.pc = "claim", !.found = found]]
    BY <1>6 DEF SelectCallback
  <2> DEFINE found == MergeDueCandidates(worker[w].found, s, Limit)
  <2>2. s \in Seq(ItemType) /\ Steppable(s) /\ Steppable(worker[w].found)
    BY FoundByQuery DEF FitsPhase
  <2>3. found \in Seq(ItemType) /\ Len(found) <= 1
    BY <2>2, FoundByMerge
  <2>4. worker[w].pc = "callback" /\ worker[w].batch = <<>>
    BY <1>6 DEF SelectCallback, FitsPhase
  <2>5. \/ worker'[w] = Idle
        \/ worker'[w] = [worker[w] EXCEPT !.pc = "claim", !.found = found]
    BY <2>1
  <2> HIDE DEF found
  <2>. QED BY <1>1, <2>3, <2>4, <2>5 DEF RoundOf, WorkerType
<1>7. CASE Claim(w)
  BY <1>1, <1>7, OneClaim
<1>8. CASE ClaimError(w) \/ Crash(w)
  <2>1. worker'[w] = Idle \/ worker'[w] = [Idle EXCEPT !.pc = "dead"]
    BY <1>8 DEF ClaimError, Crash
  <2>. QED BY <1>1, <2>1 DEF RoundOf, WorkerType
<1>9. CASE StepWrites(w) \/ StepPrepares(w) \/ StepEnds(w) \/ StepError(w)
  <2>1. /\ worker'[w].pc \in {"run", "stepped"}
        /\ worker'[w].found = worker[w].found /\ worker'[w].batch = worker[w].batch
    <3>1. CASE StepWrites(w)
      BY <3>1 DEF StepWrites
    <3>2. CASE StepPrepares(w)
      BY <3>2 DEF StepPrepares, WorkerType
    <3>3. CASE StepEnds(w) \/ StepError(w)
      BY <3>3 DEF StepEnds, StepError, Goto, WorkerType
    <3>. QED BY <1>9, <3>1, <3>2, <3>3
  <2>. QED BY <2>1 DEF RoundOf
<1>10. CASE Renew(w) \/ RenewError(w)
  <2>1. \E at : worker' = [worker EXCEPT ![w].renewAt = at]
    BY <1>10 DEF Renew, RenewError
  <2>2. worker[w].pc \in {"run", "stepped"}
    BY <1>10 DEF Renew, RenewError
  <2>3. /\ worker'[w].pc = worker[w].pc
        /\ worker'[w].found = worker[w].found /\ worker'[w].batch = worker[w].batch
    BY <2>1 DEF WorkerType
  <2>. QED BY <2>2, <2>3 DEF RoundOf
<1>11. CASE ReadBack(w) \/ ReadBackError(w)
  <2>1. worker'[w] = Idle
    BY <1>11, OneItem
  <2>. QED BY <1>1, <2>1 DEF RoundOf, WorkerType
<1>. QED BY <1>2, <1>3, <1>4, <1>5, <1>6, <1>7, <1>8, <1>9, <1>10, <1>11
         DEF SchedulerStep, SchedulerFault

(* The selects run nothing. *)
LEMMA SelectsOnly ==
  ASSUME WorkerInv, NEW w \in Workers, SelectPoll(w) \/ SelectCallback(w)
  PROVE  worker'[w].pc # "run"
<1>. worker \in [Workers -> WorkerType] /\ Idle.pc = "idle"
  BY WorkerTypes, IdleType
<1>1. CASE SelectPoll(w)
  <2>1. PICK s \in PollCandidates(worker[w].now, Limit) :
          worker' = [worker EXCEPT ![w].pc = "callback", ![w].found = s]
    BY <1>1 DEF SelectPoll
  <2>. QED BY <2>1 DEF WorkerType
<1>2. CASE SelectCallback(w)
  <2>1. \/ worker'[w] = Idle
        \/ \E found : worker'[w] = [worker[w] EXCEPT !.pc = "claim", !.found = found]
    BY <1>2 DEF SelectCallback
  <2>. QED BY <2>1 DEF WorkerType
<1>. QED BY <1>1, <1>2

(* The steps after which a worker holds a snapshot it may still claim or   *)
(* run.                                                                    *)
LEMMA StepsTowardsRun ==
  ASSUME WorkerInv, NEW w \in Workers, SchedulerStep(w) \/ SchedulerFault(w),
         worker'[w].pc \in {"callback", "claim", "run"}
  PROVE  \/ SelectPoll(w) \/ SelectCallback(w) \/ Claim(w)
         \/ StepWrites(w) \/ StepPrepares(w)
         \/ worker[w].pc = "run" /\ (Renew(w) \/ RenewError(w))
         \/ ReadBack(w) \/ ReadBackError(w)
<1>. worker \in [Workers -> WorkerType] /\ Idle \in WorkerType /\ Idle.pc = "idle"
  BY WorkerTypes, IdleType
<1>1. CASE BeginRound(w) \/ SelectOverdue(w) \/ ExpireError(w)
  <2>1. CASE BeginRound(w)
    BY <2>1 DEF BeginRound, WorkerType
  <2>2. CASE SelectOverdue(w)
    <3>1. PICK s \in ExpireCandidates(worker[w].now, Limit) :
            worker' = [worker EXCEPT
                         ![w].pc = IF s = <<>> THEN "poll" ELSE "expireRow",
                         ![w].overdue = s]
      BY <2>2 DEF SelectOverdue
    <3>2. worker'[w].pc = IF s = <<>> THEN "poll" ELSE "expireRow"
      BY <3>1 DEF WorkerType
    <3>. QED BY <3>2
  <2>3. CASE ExpireError(w)
    BY <2>3 DEF ExpireError, WorkerType
  <2>. QED BY <1>1, <2>1, <2>2, <2>3
<1>2. CASE ExpireRow(w) \/ ExpireGet(w)
  <2>1. ASSUME NEW rest, NEW failed, ExpireNext(w, rest, failed)
        PROVE  worker'[w].pc \in {"expireRow", "poll"}
    BY <2>1 DEF ExpireNext, WorkerType
  <2>2. CASE Goto(w, "expireGet")
    BY <2>2 DEF Goto, WorkerType
  <2>. QED BY <1>2, <2>1, <2>2 DEF ExpireRow, ExpireGet
<1>3. CASE ClaimError(w) \/ Crash(w)
  BY <1>3 DEF ClaimError, Crash, WorkerType
<1>4. CASE StepEnds(w) \/ StepError(w)
  BY <1>4 DEF StepEnds, StepError, Goto, WorkerType
<1>5. CASE worker[w].pc # "run" /\ (Renew(w) \/ RenewError(w))
  BY <1>5 DEF Renew, RenewError, WorkerType
<1>. QED BY <1>1, <1>2, <1>3, <1>4, <1>5 DEF SchedulerStep, SchedulerFault

(* Its own step leaves a running worker with a lease. *)
LEMMA OwnLease ==
  ASSUME LeaseInv, Punctual, NEW w \in Workers, SchedulerStep(w) \/ SchedulerFault(w),
         worker'[w].pc = "run"
  PROVE  Leases(w)'
<1>. WorkerInv /\ RoundOf(w)
  BY DEF LeaseInv
<1>. /\ worker \in [Workers -> WorkerType] /\ HostClock(w) \in Nat
     /\ rows \in [Traces -> Schedule \cup {Null}]
     /\ Idle \in WorkerType /\ Idle.pc = "idle"
     /\ clock \in Nat /\ HeartbeatInterval \in Nat
  BY WorkerTypes, IdleType
<1>1. clock' = clock /\ faults' \in Nat
  BY WorkerStepFrame, WorkerTypes, FaultCounts DEF WorkerFrame
<1>2. CASE Claim(w)
  BY <1>1, <1>2, OneClaim
<1>3. CASE worker[w].pc = "run" /\ RenewError(w)
  <2> DEFINE t == RunningItem(w).trace
  <2>1. Leases(w) /\ rows[t].lockedUntil \in Nat
    BY <1>3, LeaseIsCurrent DEF LeaseInv
  <2>2. /\ worker[w].renewAt = clock /\ faults' = faults + 1
        /\ rows' = rows /\ RunningItem(w)' = RunningItem(w)
        /\ worker'[w].renewAt = clock + HeartbeatInterval
    <3>1. worker[w].renewAt = clock
      BY <1>3, <2>1 DEF Leases, RenewError
    <3>2. RunningItem(w)' = RunningItem(w) /\ worker'[w].renewAt = clock + HeartbeatInterval
      BY <1>3 DEF RenewError, RunningItem, WorkerType
    <3>. QED BY <1>3, <3>1, <3>2 DEF RenewError, Fault
  <2>3. (faults' + 1) * HeartbeatInterval = (faults + 1) * HeartbeatInterval + HeartbeatInterval
    BY <2>2, WorkerTypes
  <2>4. rows[t].lockedUntil + (faults' + 1) * HeartbeatInterval
          >= clock + HeartbeatInterval + LockFor + SkewOf(w)
    <3> DEFINE spent == (faults + 1) * HeartbeatInterval
    <3>1. spent \in Nat /\ rows[t].lockedUntil + spent >= clock + LockFor + SkewOf(w)
      BY <2>1, <2>2, WorkerTypes, IntervalsGrow DEF Leases
    <3>2. (faults' + 1) * HeartbeatInterval = spent + HeartbeatInterval
      BY <2>3
    <3> HIDE DEF spent
    <3>. QED BY <2>1, <3>1, <3>2, WorkerTypes
  <2>. QED BY <1>1, <2>1, <2>2, <2>4 DEF Leases, Stored, SkewOf, HeartbeatInterval
<1>4. CASE worker[w].pc = "run" /\ Renew(w)
  <2> DEFINE t == RunningItem(w).trace
  <2>1. Leases(w) /\ t \in Traces /\ Stored(t) /\ rows[t] \in Schedule
    BY <1>4, LeaseIsCurrent DEF LeaseInv
  <2>2. RenewMatches(rows[t], w)
    BY <2>1 DEF Leases, RenewMatches
  <2>3. /\ rows'[t] = [rows[t] EXCEPT !.lockedUntil = HostClock(w) + LockFor]
        /\ RunningItem(w)' = RunningItem(w)
        /\ worker'[w].renewAt = clock + HeartbeatInterval
    <3>1. rows'[t] = [rows[t] EXCEPT !.lockedUntil = HostClock(w) + LockFor]
      <4>1. RenewLock(t, w, HostClock(w) + LockFor)
        BY <1>4, <2>2 DEF Renew
      <4>. QED BY <2>1, <4>1, WorkerTypes DEF RenewLock
    <3>2. worker' = [worker EXCEPT ![w].renewAt = clock + HeartbeatInterval]
      BY <1>4, <2>2 DEF Renew
    <3>. QED BY <3>1, <3>2 DEF RunningItem, WorkerType
  <2>4. rows'[t] # Null
    <3>1. [AnyStatement]_rows
      BY SchedulerStatement DEF SchedulerNext
    <3>. QED BY <2>1, <3>1, WorkerTypes, RowsAreKept
  <2> HIDE DEF t
  <2>5. LET r == rows'[t]
        IN  /\ ~r.finished /\ r.lockedBy = w /\ r.lockedUntil = HostClock(w) + LockFor
            /\ DueCallback(r) \/ r.state = "POLL"
    BY <2>1, <2>3 DEF Leases, Schedule, DueCallback, t
  <2>6. RunningItem(w)'.trace = t
    BY <2>3 DEF t
  <2>7. clock + HeartbeatInterval \in Nat /\ clock <= clock + HeartbeatInterval
    OBVIOUS
  <2>8. HostClock(w) + LockFor + (faults' + 1) * HeartbeatInterval
          >= clock + HeartbeatInterval + LockFor + SkewOf(w)
    BY <1>1, FreshLease
  <2> HIDE DEF HeartbeatInterval
  <2>9. Leases(w)'
    BY <1>1, <2>3, <2>4, <2>5, <2>6, <2>7, <2>8
       DEF Leases, Stored, SkewOf, HeartbeatInterval
  <2>. QED BY <2>9
<1>5. CASE StepWrites(w)
  <2> DEFINE t == RunningItem(w).trace
  <2>1. worker[w].pc = "run" /\ UNCHANGED <<clock, worker, faults>>
    BY <1>5 DEF StepWrites
  <2>2. Leases(w) /\ t \in Traces /\ Stored(t) /\ rows[t] \in Schedule
    BY <2>1, LeaseIsCurrent DEF LeaseInv
  <2>3. PICK data \in Payloads : UpdateOutputs(t, data) \/ UpdateContextData(t, data)
    BY <1>5, RuntimeAssumption DEF StepWrites, WriteOutputs, WriteContext
  <2>4. rows'[t] # Null
    BY <2>2, <2>3, WorkerTypes, WriteEffect
  <2> HIDE DEF t
  <2>5. LET r == rows'[t]
        IN  /\ ~r.finished /\ r.lockedBy = w /\ r.lockedUntil = rows[t].lockedUntil
            /\ DueCallback(r) \/ r.state = "POLL"
    BY <2>2, <2>3 DEF UpdateOutputs, UpdateContextData, Leases, Schedule, DueCallback, t
  <2>6. RunningItem(w)'.trace = t
    BY <2>1 DEF RunningItem, t
  <2>. QED BY <2>1, <2>2, <2>4, <2>5, <2>6
           DEF Leases, Stored, SkewOf, HeartbeatInterval, t
<1>6. CASE StepPrepares(w)
  <2>1. /\ worker[w].pc = "run" /\ UNCHANGED <<rows, clock, faults>>
        /\ worker'[w] = [worker[w] EXCEPT !.prepared = NewHash]
    BY <1>6 DEF StepPrepares, PrepareCallback
  <2>2. worker'[w].batch = worker[w].batch /\ worker'[w].renewAt = worker[w].renewAt
    BY <2>1 DEF WorkerType
  <2>3. Leases(w)
    BY <2>1 DEF LeaseInv
  <2>. QED BY <2>1, <2>2, <2>3 DEF Leases, Stored, SkewOf, HeartbeatInterval, RunningItem
<1>7. CASE ReadBack(w) \/ ReadBackError(w)
  BY <1>7, OneItem
<1>8. CASE SelectPoll(w) \/ SelectCallback(w)
  BY <1>8, SelectsOnly
<1>. QED BY <1>2, <1>3, <1>4, <1>5, <1>6, <1>7, <1>8, StepsTowardsRun

-----------------------------------------------------------------------------
(* What was read back as final is final.                                   *)

(* Only ExpireGet remembers a row it has failed. *)
LEMMA OtherReads ==
  ASSUME WorkerInv, NEW w \in Workers, SchedulerStep(w) \/ SchedulerFault(w),
         ~ExpireGet(w)
  PROVE  worker'[w].failed \in {worker[w].failed, <<>>}
<1>. worker \in [Workers -> WorkerType] /\ Idle \in WorkerType /\ Idle.failed = <<>>
  BY WorkerTypes, IdleType
<1>1. CASE BeginRound(w) \/ SelectOverdue(w) \/ SelectPoll(w) \/ ExpireError(w)
  <2>1. CASE BeginRound(w)
    BY <2>1 DEF BeginRound, WorkerType
  <2>2. CASE SelectOverdue(w)
    BY <2>2 DEF SelectOverdue, WorkerType
  <2>3. CASE SelectPoll(w)
    BY <2>3 DEF SelectPoll, WorkerType
  <2>4. CASE ExpireError(w)
    BY <2>4 DEF ExpireError, WorkerType
  <2>. QED BY <1>1, <2>1, <2>2, <2>3, <2>4
<1>2. CASE ExpireRow(w)
  <2>1. \/ worker' = [worker EXCEPT ![w].pc = "expireGet"]
        \/ ExpireNext(w, Tail(worker[w].overdue), worker[w].failed)
    BY <1>2 DEF ExpireRow, Goto
  <2>2. \/ worker'[w] = [worker[w] EXCEPT !.pc = "expireGet"]
        \/ worker'[w] = [worker[w] EXCEPT !.pc = "expireRow",
                              !.overdue = Tail(worker[w].overdue),
                              !.failed = worker[w].failed]
        \/ worker'[w] = [worker[w] EXCEPT !.pc = "poll",
                              !.overdue = <<>>, !.failed = <<>>]
    BY <2>1 DEF ExpireNext
  <2>. QED BY <2>2 DEF WorkerType
<1>3. CASE SelectCallback(w) \/ ClaimError(w) \/ Crash(w)
  <2>1. \/ worker'[w] = Idle
        \/ worker'[w] = [Idle EXCEPT !.pc = "dead"]
        \/ \E found : worker'[w] = [worker[w] EXCEPT !.pc = "claim", !.found = found]
    BY <1>3 DEF SelectCallback, ClaimError, Crash
  <2>. QED BY <2>1 DEF WorkerType
<1>4. CASE Claim(w) \/ ReadBack(w) \/ ReadBackError(w)
  <2>1. \/ \E batch : RunNext(w, batch)
        \/ \E found, batch :
             worker'[w] = [worker[w] EXCEPT !.found = found, !.batch = batch]
    <3>1. CASE Claim(w)
      <4> DEFINE item  == Head(worker[w].found)
                 batch == IF ClaimMatches(rows[item.trace], item.state, worker[w].now)
                          THEN Append(worker[w].batch, item) ELSE worker[w].batch
      <4>1. \/ RunNext(w, batch)
            \/ worker' = [worker EXCEPT ![w].found = Tail(worker[w].found),
                                        ![w].batch = batch]
        BY <3>1 DEF Claim
      <4> HIDE DEF batch
      <4>2. \/ RunNext(w, batch)
            \/ worker'[w] = [worker[w] EXCEPT !.found = Tail(worker[w].found),
                                              !.batch = batch]
        BY <4>1
      <4>. QED BY ONLY <4>2, Zenon
    <3>2. CASE ReadBack(w) \/ ReadBackError(w)
      BY <3>2 DEF ReadBack, ReadBackError
    <3>. QED BY <1>4, <3>1, <3>2
  <2>2. CASE \E batch : RunNext(w, batch)
    BY <2>2 DEF RunNext, WorkerType
  <2>. QED BY <2>1, <2>2 DEF WorkerType
<1>5. CASE StepWrites(w) \/ StepPrepares(w) \/ StepEnds(w) \/ StepError(w)
  <2>1. CASE StepPrepares(w)
    BY <2>1 DEF StepPrepares, WorkerType
  <2>2. CASE StepWrites(w)
    BY <2>2 DEF StepWrites
  <2>3. CASE StepEnds(w) \/ StepError(w)
    BY <2>3 DEF StepEnds, StepError, Goto, WorkerType
  <2>. QED BY <1>5, <2>1, <2>2, <2>3
<1>6. CASE Renew(w) \/ RenewError(w)
  <2>1. \E at : worker' = [worker EXCEPT ![w].renewAt = at]
    BY <1>6 DEF Renew, RenewError
  <2>. QED BY <2>1 DEF WorkerType
<1>. QED BY <1>1, <1>2, <1>3, <1>4, <1>5, <1>6 DEF SchedulerStep, SchedulerFault

(* A worker that has ended a step ended the one it was running. *)
LEMMA SteppedFrom ==
  ASSUME WorkerInv, NEW w \in Workers, SchedulerStep(w) \/ SchedulerFault(w),
         worker'[w].pc = "stepped"
  PROVE  /\ worker[w].pc \in {"run", "stepped"}
         /\ worker'[w].batch = worker[w].batch
<1>. worker \in [Workers -> WorkerType] /\ Idle \in WorkerType /\ Idle.pc = "idle"
  BY WorkerTypes, IdleType
<1>1. ~Claim(w) /\ ~ReadBack(w) /\ ~ReadBackError(w)
  <2>1. \A batch : RunNext(w, batch) => worker'[w].pc \in {"idle", "run"}
    BY DEF RunNext, WorkerType
  <2>2. CASE Claim(w)
    <3>1. \/ \E batch : RunNext(w, batch)
          \/ worker'[w].pc = "claim"
      BY <2>2 DEF Claim, WorkerType
    <3>. QED BY <2>1, <3>1
  <2>. QED BY <2>1, <2>2 DEF ReadBack, ReadBackError
<1>2. CASE SchedulerStep(w)
  BY <1>1, <1>2, BatchKept DEF StepEnds
<1>3. CASE SchedulerFault(w)
  <2>1. CASE ExpireError(w) \/ ClaimError(w) \/ Crash(w)
    BY <2>1 DEF ExpireError, ClaimError, Crash, WorkerType
  <2>2. CASE StepError(w)
    BY <2>2 DEF StepError, Goto, WorkerType
  <2>3. CASE RenewError(w)
    BY <2>3 DEF RenewError, WorkerType
  <2>. QED BY <1>1, <1>3, <2>1, <2>2, <2>3 DEF SchedulerFault
<1>. QED BY <1>2, <1>3

(* What a worker remembers of the rows it failed is so still. *)
LEMMA OwnReads ==
  ASSUME LeaseInv, Punctual, [SchedulerNext]_vars,
         NEW w \in Workers, SchedulerStep(w) \/ SchedulerFault(w)
  PROVE  FailedOf(w)'
<1>. WorkerInv /\ FailedOf(w)
  BY DEF LeaseInv
<1>. /\ worker \in [Workers -> WorkerType] /\ Idle \in WorkerType
     /\ Idle.pc = "idle" /\ Idle.failed = <<>>
     /\ worker[w].failed \in Seq(ReadBackType)
  BY WorkerTypes, WorkerFields, IdleType
<1> DEFINE Lasts(x) == IsFinal(x.state) => /\ rows'[x.trace] # Null
                                           /\ IsFinal(rows'[x.trace].state)
<1>1. ASSUME NEW x \in ReadBackType,
             IsFinal(x.state) => Stored(x.trace) /\ IsFinal(rows[x.trace].state)
      PROVE  Lasts(x)
  BY <1>1, FinalRowKept DEF FinalRowsKept, ReadBackType, Stored
<1>2. \A i \in 1..Len(worker[w].failed) : Lasts(worker[w].failed[i])
  <2>1. ASSUME NEW i \in 1..Len(worker[w].failed)
        PROVE  worker[w].failed[i] \in ReadBackType
    OBVIOUS
  <2>. QED BY <1>1, <2>1 DEF FailedOf
<1> DEFINE Reads(s) == \A i \in 1..Len(s) : Lasts(s[i])
<1>3. Reads(worker'[w].failed)
  <2>1. Reads(worker[w].failed) /\ Reads(<<>>)
    BY <1>2
  <2>2. ASSUME NEW overdue, NEW failed, ExpireNext(w, overdue, failed)
        PROVE  worker'[w].failed \in {failed, <<>>}
    <3>1. \/ worker'[w] = [worker[w] EXCEPT !.pc = "expireRow",
                                !.overdue = overdue, !.failed = failed]
          \/ worker'[w] = [worker[w] EXCEPT !.pc = "poll",
                                !.overdue = <<>>, !.failed = <<>>]
      BY <2>2 DEF ExpireNext
    <3>. QED BY <3>1 DEF WorkerType
  <2>3. CASE ExpireGet(w)
    <3> DEFINE t == Head(worker[w].overdue)
               read == [trace |-> t, state |-> rows[t].state]
    <3>1. worker[w].pc = "expireGet" /\ worker[w].overdue # <<>>
      BY <2>3, WorkerFields DEF ExpireGet, FitsPhase
    <3>2. /\ t \in Traces /\ t = worker[w].overdue[1]
          /\ 1 \in 1..Len(worker[w].overdue)
      BY <3>1, WorkerFields, HeadAndTail
    <3>3. Stored(t) /\ rows[t] \in Schedule
      BY <3>2, WorkerFields, WorkerTypes, StoredRow DEF FitsTable
    <3>4. read \in ReadBackType
      BY <3>2, <3>3 DEF ReadBackType, Schedule
    <3>5. Lasts(read)
      BY <1>1, <3>3, <3>4
    <3>6. ExpireNext(w, Tail(worker[w].overdue), Append(worker[w].failed, read))
      BY <2>3 DEF ExpireGet
    <3> HIDE DEF read, Lasts
    <3>7. Reads(Append(worker[w].failed, read))
      BY <2>1, <3>4, <3>5, AppendOne
    <3>. QED BY <2>1, <2>2, <3>6, <3>7
  <2>4. CASE ~ExpireGet(w)
    <3>1. worker'[w].failed \in {worker[w].failed, <<>>}
      BY <2>2, <2>4, OtherReads
    <3>. QED BY <2>1, <3>1
  <2>. QED BY <2>3, <2>4
<1>4. worker'[w].pc = "stepped" => rows'[Head(worker'[w].batch).trace] # Null
  <2>. SUFFICES ASSUME worker'[w].pc = "stepped"
                PROVE  rows'[Head(worker'[w].batch).trace] # Null
    OBVIOUS
  <2>1. /\ worker[w].pc \in {"run", "stepped"}
        /\ worker'[w].batch = worker[w].batch
    BY SteppedFrom
  <2>2. Stored(RunningItem(w).trace) /\ RunningItem(w).trace \in Traces
    BY <2>1, LeaseIsCurrent, RunningStep DEF FailedOf
  <2>. QED BY <2>1, <2>2, SchedulerStatement, WorkerTypes, RowsAreKept DEF RunningItem
<1>. QED BY <1>3, <1>4 DEF FailedOf, Stored, RunningItem

NotifiesFinal ==
  \A t \in Traces : notified'[t] > 0 /\ ~(notified[t] > 0) =>
    Stored(t) /\ IsFinal(rows[t].state)

(* A finish callback is launched only for rows that are final. *)
LEMMA NotifiedAreFinal ==
  ASSUME LeaseInv, Punctual, NEW w \in Workers, SchedulerStep(w) \/ SchedulerFault(w)
  PROVE  NotifiesFinal
<1>. WorkerInv
  BY DEF LeaseInv
<1>1. ASSUME NEW readBack, NotifyFinish(readBack),
             \A x \in readBack : IsFinal(x.state) =>
               Stored(x.trace) /\ IsFinal(rows[x.trace].state)
      PROVE  NotifiesFinal
  BY <1>1 DEF NotifyFinish, NotifiesFinal
<1>2. ASSUME NEW overdue, NEW failed, ExpireNext(w, overdue, failed),
             \A i \in DOMAIN failed : IsFinal(failed[i].state) =>
               Stored(failed[i].trace) /\ IsFinal(rows[failed[i].trace].state)
      PROVE  NotifiesFinal
  <2>1. UNCHANGED notified \/ NotifyFinish({failed[i] : i \in DOMAIN failed})
    BY <1>2 DEF ExpireNext
  <2>. QED BY <1>1, <1>2, <2>1 DEF NotifiesFinal
<1>3. \A i \in DOMAIN worker[w].failed : IsFinal(worker[w].failed[i].state) =>
        /\ Stored(worker[w].failed[i].trace)
        /\ IsFinal(rows[worker[w].failed[i].trace].state)
  <2>1. DOMAIN worker[w].failed = 1..Len(worker[w].failed)
    BY WorkerFields
  <2>. QED BY <2>1 DEF LeaseInv, FailedOf
<1>4. CASE ExpireRow(w)
  <2>1. UNCHANGED notified \/ ExpireNext(w, Tail(worker[w].overdue), worker[w].failed)
    BY <1>4 DEF ExpireRow
  <2>. QED BY <1>2, <1>3, <2>1 DEF NotifiesFinal
<1>5. CASE ExpireGet(w)
  <2> DEFINE t == Head(worker[w].overdue)
             read == [trace |-> t, state |-> rows[t].state]
             failed == Append(worker[w].failed, read)
  <2>1. ExpireNext(w, Tail(worker[w].overdue), failed)
    BY <1>5 DEF ExpireGet
  <2>2. worker[w].overdue # <<>>
    BY <1>5, WorkerFields DEF ExpireGet, FitsPhase
  <2>3. t \in Traces /\ t = worker[w].overdue[1] /\ 1 \in 1..Len(worker[w].overdue)
    BY <2>2, WorkerFields, HeadAndTail
  <2>4. Stored(t) /\ rows[t] \in Schedule
    BY <2>3, WorkerFields, WorkerTypes, StoredRow DEF FitsTable
  <2>5. read \in ReadBackType /\ read.trace = t /\ read.state = rows[t].state
    BY <2>3, <2>4 DEF ReadBackType, Schedule
  <2>6. worker[w].failed \in Seq(ReadBackType)
    BY WorkerFields
  <2> HIDE DEF read, t
  <2>7. /\ DOMAIN failed = 1..Len(failed)
        /\ DOMAIN worker[w].failed = 1..Len(worker[w].failed)
        /\ \A i \in 1..Len(failed) : \/ failed[i] = read
                                     \/ /\ i \in 1..Len(worker[w].failed)
                                        /\ failed[i] = worker[w].failed[i]
    BY <2>5, <2>6, AppendOne
  <2> HIDE DEF failed
  <2>8. \A i \in DOMAIN failed : IsFinal(failed[i].state) =>
          Stored(failed[i].trace) /\ IsFinal(rows[failed[i].trace].state)
    BY <1>3, <2>4, <2>5, <2>7
  <2>. QED BY <1>2, <2>1, <2>8
<1>6. CASE ReadBack(w)
  <2> DEFINE t == RunningItem(w).trace
             readBack == {[trace |-> t, state |-> rows[t].state]}
  <2>1. NotifyFinish(readBack) /\ worker[w].pc = "stepped"
    BY <1>6 DEF ReadBack
  <2>2. Stored(t)
    BY <2>1 DEF LeaseInv, FailedOf
  <2>. QED BY <1>1, <2>1, <2>2
<1>7. CASE UNCHANGED notified
  BY <1>7 DEF NotifiesFinal
<1>. QED BY <1>4, <1>5, <1>6, <1>7
         DEF SchedulerStep, SchedulerFault, BeginRound, SelectOverdue, SelectPoll,
             SelectCallback, Claim, StepWrites, StepPrepares, StepEnds, Renew,
             ExpireError, ClaimError, StepError, RenewError, ReadBackError, Crash

-----------------------------------------------------------------------------
(* The theorems that need the settings of Punctual.                        *)

(* Initially nothing runs. *)
LEMMA LeaseInit == SchedulerInit => LeaseInv
<1>. SUFFICES ASSUME SchedulerInit PROVE LeaseInv
  OBVIOUS
<1>1. WorkerInv /\ NotifiedIsFinal /\ \A w \in Workers : worker[w] = Idle
  BY SchedulerInitInv DEF SchedulerInit
<1>2. Len(<<>>) = 0
  OBVIOUS
<1>3. ASSUME NEW w \in Workers
      PROVE  RoundOf(w) /\ worker[w].pc # "run" /\ FailedOf(w)
  <2>1. /\ worker[w].pc = "idle" /\ worker[w].found = <<>>
        /\ worker[w].batch = <<>> /\ worker[w].failed = <<>>
    BY <1>1, IdleType
  <2>. QED BY <1>2, <2>1 DEF RoundOf, FailedOf
<1>. QED BY <1>1, <1>3 DEF LeaseInv

(* What was notified stays final. *)
LEMMA NotifiedStays ==
  ASSUME LeaseInv, FinalRowsKept, NotifiesFinal
  PROVE  NotifiedIsFinal'
BY DEF LeaseInv, FinalRowsKept, NotifiesFinal, NotifiedIsFinal, Stored

(* A step that touches no worker and at most a row no worker holds keeps   *)
(* the leases.                                                             *)
LEMMA LeaseOthersKeep ==
  ASSUME LeaseInv, Punctual, WorkerInv', UNCHANGED <<clock, worker>>,
         faults' \in Nat, faults <= faults',
         UNCHANGED rows \/ \E s \in Traces : OutsideRow(s), NotifiesFinal
  PROVE  LeaseInv' /\ FinalRowsKept
<1>. WorkerInv
  BY DEF LeaseInv
<1>1. FinalRowsKept
  BY OutsideKeepsFinal DEF FinalRowsKept
<1>2. NotifiedIsFinal'
  BY <1>1, NotifiedStays
<1>3. [AnyStatement]_rows
  BY DEF OutsideRow, AnyStatement
<1>4. ASSUME NEW v \in Workers
      PROVE  RoundOf(v)' /\ (worker'[v].pc = "run" => Leases(v)') /\ FailedOf(v)'
  <2>1. worker[v].pc = "run" =>
          rows'[RunningItem(v).trace] = rows[RunningItem(v).trace]
    <3>1. CASE UNCHANGED rows
      BY <3>1
    <3>2. ASSUME NEW s \in Traces, OutsideRow(s)
          PROVE  worker[v].pc = "run" =>
                   rows'[RunningItem(v).trace] = rows[RunningItem(v).trace]
      BY <3>2, TouchedByServer, RunningStep, WorkerTypes, OtherRowsAreKept
         DEF OutsideRow
    <3>. QED BY <3>1, <3>2
  <2>. QED BY <1>1, <1>3, <2>1, BystanderKeeps
<1>. QED BY <1>1, <1>2, <1>4 DEF LeaseInv

(* A statement of the server, or the clock, as a worker sees them. *)
LEMMA LeaseOutside ==
  ASSUME LeaseInv, Punctual, UNCHANGED vars \/ Tick \/ ServerStep
  PROVE  LeaseInv'
<1>. WorkerInv
  BY DEF LeaseInv
<1>1. [SchedulerNext]_vars
  BY DEF SchedulerNext
<1>2. WorkerInv'
  BY <1>1, WorkerNextInv
<1>3. UNCHANGED <<worker, notified, faults>> /\ NotifiesFinal
  BY DEF vars, Tick, ServerStep, NotifiesFinal
<1>4. NotifiedIsFinal'
  BY <1>1, <1>3, FinalRowKept, NotifiedStays
<1>5. CASE UNCHANGED vars \/ ServerStep
  <2>1. UNCHANGED rows \/ \E s \in Traces : OutsideRow(s)
    BY <1>5, ServerStepIsOutside DEF vars, OutsideStep
  <2>2. UNCHANGED clock /\ faults' \in Nat /\ faults <= faults'
    BY <1>3, <1>5, WorkerTypes DEF vars, ServerStep
  <2>. QED BY <1>2, <1>3, <2>1, <2>2, LeaseOthersKeep
<1>6. ASSUME Tick, NEW v \in Workers
      PROVE  RoundOf(v)' /\ (worker'[v].pc = "run" => Leases(v)') /\ FailedOf(v)'
  <2>1. /\ OnTime(v) /\ UNCHANGED <<rows, worker, faults>> /\ clock' = clock + 1
        /\ RoundOf(v) /\ FailedOf(v) /\ clock \in Nat
    BY <1>6, WorkerTypes DEF Tick, Punctual, LeaseInv
  <2>2. RoundOf(v)'
    BY <2>1 DEF OnTime, RoundOf
  <2>3. FailedOf(v)'
    BY <2>1 DEF FailedOf, RunningItem, Stored
  <2>4. ASSUME worker[v].pc = "run"
        PROVE  Leases(v)'
    <3>1. Leases(v)
      BY <2>4 DEF LeaseInv
    <3>2. worker[v].renewAt \in Nat /\ worker[v].renewAt > clock
      BY <2>1, <3>1, NullAssumption DEF Leases, OnTime
    <3>3. clock' <= worker[v].renewAt
      BY <2>1, <3>2
    <3> HIDE DEF HeartbeatInterval
    <3>. QED BY <2>1, <3>1, <3>3 DEF Leases, RunningItem, Stored, SkewOf, HeartbeatInterval
  <2>. QED BY <2>1, <2>2, <2>3, <2>4
<1>. QED BY <1>2, <1>4, <1>5, <1>6 DEF LeaseInv

(* LeaseInv is inductive. *)
LEMMA LeaseNext ==
  ASSUME LeaseInv, Punctual, [SchedulerNext]_vars
  PROVE  LeaseInv'
<1>. WorkerInv
  BY DEF LeaseInv
<1>1. CASE UNCHANGED vars \/ Tick \/ ServerStep
  BY <1>1, LeaseOutside
<1>2. ASSUME NEW w \in Workers, SchedulerStep(w) \/ SchedulerFault(w)
      PROVE  LeaseInv'
  <2>1. PICK r : WorkerFrame(w, r)
    BY <1>2, WorkerStepFrame
  <2>2. WorkerInv'
    BY WorkerNextInv
  <2>3. /\ FinalRowsKept /\ [AnyStatement]_rows
        /\ NotifiedIsFinal'
    BY <1>2, FinalRowKept, SchedulerStatement, NotifiedAreFinal, NotifiedStays
  <2>4. ASSUME NEW v \in Workers, v # w
        PROVE  RoundOf(v)' /\ (worker'[v].pc = "run" => Leases(v)') /\ FailedOf(v)'
    <3>1. worker'[v] = worker[v] /\ UNCHANGED clock
      BY <2>1, <2>4, WorkerTypes DEF WorkerFrame
    <3>2. faults' \in Nat /\ faults <= faults'
      BY <2>1, WorkerTypes, FaultCounts DEF WorkerFrame
    <3>3. worker[v].pc = "run" =>
            rows'[RunningItem(v).trace] = rows[RunningItem(v).trace]
      <4>1. ASSUME NEW s \in Traces, RowBy(w, s), worker[v].pc = "run"
            PROVE  rows'[RunningItem(v).trace] = rows[RunningItem(v).trace]
        BY <2>4, <4>1, TouchedByWorker, RowByEffect, RunningStep
      <4>. QED BY <2>1, <4>1 DEF WorkerFrame
    <3>. QED BY <2>3, <3>1, <3>2, <3>3, BystanderKeeps
  <2>5. RoundOf(w)' /\ (worker'[w].pc = "run" => Leases(w)') /\ FailedOf(w)'
    BY <1>2, OwnRound, OwnLease, OwnReads
  <2>. QED BY <2>2, <2>3, <2>4, <2>5 DEF LeaseInv
<1>. QED BY <1>1, <1>2 DEF SchedulerNext

(* Under the settings of Punctual every running step is covered by a lease *)
(* that outlasts the next heartbeats.                                      *)
THEOREM LeaseInvariant == ASSUME Punctual PROVE SchedulerSpec => []LeaseInv
<1>1. SchedulerInit => LeaseInv
  BY LeaseInit
<1>2. LeaseInv /\ [SchedulerNext]_vars => LeaseInv'
  BY LeaseNext
<1>. QED BY <1>1, <1>2, PTL DEF SchedulerSpec

(* While a step runs no host takes its lease for expired, a fast one       *)
(* included.                                                               *)
THEOREM LeasesCoverSteps == ASSUME Punctual PROVE SchedulerSpec => []LeaseCoversStep
<1>1. LeaseInv => LeaseCoversStep
  BY LeaseIsCurrent DEF LeaseCoversStep, Running
<1>. QED BY <1>1, LeaseInvariant, PTL

(* A running step is not claimed and run by another worker.                *)
THEOREM StepsAreExclusive == ASSUME Punctual PROVE SchedulerSpec => []StepMutex
<1>1. LeaseInv => StepMutex
  BY LeaseIsCurrent DEF StepMutex, Running
<1>. QED BY <1>1, LeaseInvariant, PTL

(* A finish callback is sent only for an end that lasts.                   *)
THEOREM NotifiedEndsLast == ASSUME Punctual PROVE SchedulerSpec => []NotifiedIsFinal
<1>1. LeaseInv => NotifiedIsFinal
  BY DEF LeaseInv
<1>. QED BY <1>1, LeaseInvariant, PTL

(* Nothing in a row whose state is final changes any more.                 *)
THEOREM FinalRowsAreFrozen == ASSUME Punctual PROVE SchedulerSpec => FinalRowFrozen
<1>1. LeaseInv /\ [SchedulerNext]_vars =>
        [\A t \in Traces : Stored(t) /\ IsFinal(rows[t].state) =>
           rows'[t] = rows[t]]_vars
  BY FinalRowKept DEF FinalRowsKept
<1>. QED BY <1>1, LeaseInvariant, PTL DEF SchedulerSpec, FinalRowFrozen

-----------------------------------------------------------------------------
(* Steps that follow their row: between the select of a row and the claim  *)
(* of the item found, another worker may run the row's step.  What it      *)
(* leaves is not due, unless the row waits a second time and is answered   *)
(* before the claim.                                                       *)

(* Polls are asked for after more than the clocks of two hosts differ by.  *)
PollsOutlastSkew == \A after \in Delays : after > Skew

(* w has found t answered, and is still to claim it.                       *)
HoldsAnswer(w, t) ==
  \E i \in 1..Len(worker[w].found) :
    worker[w].found[i].trace = t /\ worker[w].found[i].state = "CALLBACK"

(* A row may wait any number of times; but it is not answered while a      *)
(* worker is still to claim it for the answer to an earlier wait.          *)
NoAnswerOvertakes ==
  \A t \in Traces :
    /\ Stored(t) /\ rows[t].state = "CALLBACK" /\ rows[t].receivedAt = Null
    /\ \E w \in Workers : HoldsAnswer(w, t)
    => rows'[t].receivedAt = Null

AnswersAwaitClaims == [][NoAnswerOvertakes]_rows

(* The item is what the row holds. *)
Follows(item, r) ==
  /\ r.state = item.state
  /\ r.invokeCount = item.invokeCount
  /\ r.callbackData = item.callbackData

(* ... or the row is not what a claim of the item looks for. *)
Unclaimable(item, r, now) ==
  \/ item.state = "POLL" /\ ~DuePoll(r, now)
  \/ item.state = "CALLBACK" /\ ~DueCallback(r)

(* The items of the states in exempt need not. *)
SnapshotFits(item, now, exempt) ==
  /\ item.trace \in Traces /\ Stored(item.trace)
  /\ item.state \in {"POLL", "CALLBACK"}
  /\ \/ item.state \in exempt
     \/ Follows(item, rows[item.trace])
     \/ Unclaimable(item, rows[item.trace], now)

(* A step runs on what its row holds, or at least was found for the kind   *)
(* of wait the row is in.                                                  *)
RunsOn(item, r, exempt) ==
  \/ Follows(item, r)
  \/ item.state \in exempt /\ r.state = item.state

FollowOf(w, exempt) ==
  /\ worker[w].pc \in {"callback", "claim"} =>
       \A i \in 1..Len(worker[w].found) :
         SnapshotFits(worker[w].found[i], worker[w].now, exempt)
  /\ worker[w].pc = "run" =>
       RunsOn(RunningItem(w), rows[RunningItem(w).trace], exempt)

FollowsBut(exempt) == \A w \in Workers : FollowOf(w, exempt)

(* Every step follows its row; and the steps of a poll do, whatever        *)
(* overtakes the others.                                                   *)
FollowInv == FollowsBut({})

PollFollowInv == FollowsBut({"CALLBACK"})

(* What a statement may do to a row, as far as a snapshot of it can tell. *)
RowMoves(r, s) ==
  \/ /\ s.state = r.state /\ s.invokeCount = r.invokeCount
     /\ s.callbackData = r.callbackData
     /\ s.nextRunAt = r.nextRunAt /\ s.receivedAt = r.receivedAt
  \/ /\ s.state # "CALLBACK" /\ s.receivedAt = r.receivedAt
     /\ s.state = "POLL" => s.nextRunAt > clock + Skew
  \/ s.state = "CALLBACK" /\ s.receivedAt = Null
  \/ r.state = "CALLBACK" /\ r.receivedAt = Null /\ s.state = "CALLBACK"

(* A mark makes the row wait beyond the present of every host, or end. *)
LEMMA MarkMoves ==
  ASSUME PollsOutlastSkew, NEW r \in Schedule, NEW n \in InvokeCounts,
         clock \in Nat, Skew \in Nat, NEW now \in Nat, clock <= now, NEW s,
         MarkedRow(r, n, now, s)
  PROVE  RowMoves(r, s)
<1>1. CASE \E after \in Delays : s = PollRow(r, n, now + after)
  <2>1. PICK after \in Delays : s = PollRow(r, n, now + after)
    BY <1>1
  <2>2. after \in Nat /\ after > Skew
    BY RuntimeAssumption DEF PollsOutlastSkew
  <2>3. s.state = "POLL" /\ s.receivedAt = r.receivedAt /\ s.nextRunAt = now + after
    BY <2>1 DEF PollRow, Schedule
  <2>4. now + after > clock + Skew
    BY <2>2
  <2>. QED BY <2>3, <2>4 DEF RowMoves
<1>2. CASE \E hash \in Hashes, expires \in Nat : s = CallbackRow(r, n, hash, expires)
  BY <1>2 DEF CallbackRow, Schedule, RowMoves
<1>3. CASE s = SuccessRow(r, n) \/ s = FailRow(r, n)
  BY <1>3 DEF SuccessRow, FailRow, Schedule, RowMoves
<1>. QED BY <1>1, <1>2, <1>3 DEF MarkedRow

(* The statements of a worker. *)
LEMMA RowByMoves ==
  ASSUME WorkerInv, PollsOutlastSkew, NEW w \in Workers, NEW t \in Traces, RowBy(w, t)
  PROVE  RowMoves(rows[t], rows'[t])
<1>1. rows[t] \in Schedule /\ clock \in Nat /\ Skew \in Nat
  BY WorkerTypes, StoredRow DEF RowBy
<1>2. CASE rows'[t] = ExpiredRow(rows[t])
  BY <1>1, <1>2 DEF ExpiredRow, Schedule, RowMoves
<1>3. CASE worker[w].pc = "run" /\ MarkedRow(rows[t], StepCount(w), HostClock(w), rows'[t])
  <2>1. HostClock(w) \in Nat /\ clock <= HostClock(w)
    BY <1>1, WorkerTypes
  <2>. QED BY <1>1, <1>3, <2>1, RunningStep, MarkMoves
<1>4. CASE \E data \in Payloads : \/ rows'[t] = [rows[t] EXCEPT !.outputs = data]
                                 \/ rows'[t] = [rows[t] EXCEPT !.contextData = data]
  BY <1>1, <1>4 DEF Schedule, RowMoves
<1>5. CASE \/ rows'[t] = [rows[t] EXCEPT !.lockedBy = w, !.lockedUntil = LockUntil(w)]
           \/ rows'[t] = [rows[t] EXCEPT !.lockedUntil = HostClock(w) + LockFor]
  BY <1>1, <1>5 DEF Schedule, RowMoves
<1>. QED BY <1>2, <1>3, <1>4, <1>5 DEF RowBy

(* The statements of the server. *)
LEMMA OutsideRowMoves ==
  ASSUME WorkerInv, PollsOutlastSkew, NEW t \in Traces, OutsideRow(t), Stored(t)
  PROVE  RowMoves(rows[t], rows'[t])
<1>1. rows[t] \in Schedule /\ clock \in Nat /\ Skew \in Nat /\ 1 \in InvokeCounts
  BY WorkerTypes, StoredRow
<1>2. CASE MarkedRow(rows[t], 1, clock, rows'[t])
  BY <1>1, <1>2, MarkMoves
<1>3. CASE \E data \in Payloads : \/ rows'[t] = [rows[t] EXCEPT !.outputs = data]
                                 \/ rows'[t] = [rows[t] EXCEPT !.contextData = data]
  BY <1>1, <1>3 DEF Schedule, RowMoves
<1>4. CASE AnsweredRow(rows[t], rows'[t])
  <2>1. rows'[t].state = "CALLBACK"
    BY <1>1, <1>4 DEF AnsweredRow, ReceivedRow, Schedule
  <2>. QED BY <1>4, <2>1 DEF AnsweredRow, RowMoves
<1>. QED BY <1>2, <1>3, <1>4 DEF OutsideRow, FirstStepRow

(* A snapshot that fits its row still does after any such move. *)
LEMMA SnapshotStillFits ==
  ASSUME WorkerInv, NEW exempt, NEW w \in Workers, worker[w].now = HostClock(w),
         NEW item, SnapshotFits(item, worker[w].now, exempt),
         rows'[item.trace] \in Schedule,
         \/ rows'[item.trace] = rows[item.trace]
         \/ RowMoves(rows[item.trace], rows'[item.trace]),
         /\ item.state = "CALLBACK" /\ item.state \notin exempt
         /\ rows[item.trace].state = "CALLBACK" /\ rows[item.trace].receivedAt = Null
         => rows'[item.trace].receivedAt = Null
  PROVE  /\ item.trace \in Traces /\ rows'[item.trace] # Null
         /\ item.state \in {"POLL", "CALLBACK"}
         /\ \/ item.state \in exempt
            \/ Follows(item, rows'[item.trace])
            \/ Unclaimable(item, rows'[item.trace], worker[w].now)
<1> DEFINE r == rows[item.trace]
           s == rows'[item.trace]
<1>1. /\ item.trace \in Traces /\ Stored(item.trace)
      /\ item.state \in {"POLL", "CALLBACK"}
      /\ \/ item.state \in exempt
         \/ Follows(item, r) \/ Unclaimable(item, r, worker[w].now)
  BY DEF SnapshotFits
<1>2. worker[w].now \in Nat /\ worker[w].now <= clock + Skew /\ clock + Skew \in Nat
  BY WorkerTypes DEF SkewOf
<1>3. /\ s # Null
      /\ item.state = "CALLBACK" /\ item.state \notin exempt =>
           (r.state = "CALLBACK" /\ r.receivedAt = Null => s.receivedAt = Null)
  BY <1>1, NoRowAssumption
<1>4. s.state = "POLL" /\ s.nextRunAt > clock + Skew => ~DuePoll(s, worker[w].now)
  <2>1. s.nextRunAt \in Nat
    BY DEF Schedule
  <2> HIDE DEF s
  <2>. QED BY <1>2, <2>1 DEF DuePoll
<1> HIDE DEF r, s
<1>5. CASE item.state \notin exempt
  <2>. SUFFICES Follows(item, s) \/ Unclaimable(item, s, worker[w].now)
    BY <1>1, <1>3 DEF r, s
  <2>1. s = r \/ RowMoves(r, s)
    BY DEF r, s
  <2>2. CASE s = r
    BY <1>1, <1>5, <2>2
  <2>3. CASE /\ s.state = r.state /\ s.invokeCount = r.invokeCount
             /\ s.callbackData = r.callbackData
             /\ s.nextRunAt = r.nextRunAt /\ s.receivedAt = r.receivedAt
    BY <1>1, <1>5, <2>3 DEF Follows, Unclaimable, DuePoll, DueCallback
  <2>4. CASE /\ s.state # "CALLBACK" /\ s.receivedAt = r.receivedAt
             /\ s.state = "POLL" => s.nextRunAt > clock + Skew
    BY <1>1, <1>4, <2>4 DEF Unclaimable, DuePoll, DueCallback
  <2>5. CASE s.state = "CALLBACK" /\ s.receivedAt = Null
    BY <1>1, <2>5 DEF Unclaimable, DuePoll, DueCallback
  <2>6. CASE r.state = "CALLBACK" /\ r.receivedAt = Null /\ s.state = "CALLBACK"
    BY <1>1, <1>3, <1>5, <2>6 DEF Unclaimable, DuePoll, DueCallback
  <2>. QED BY <2>1, <2>2, <2>3, <2>4, <2>5, <2>6 DEF RowMoves
<1>. QED BY <1>1, <1>3, <1>5 DEF r, s

RowsMove ==
  \A u \in Traces : Stored(u) =>
    rows'[u] = rows[u] \/ RowMoves(rows[u], rows'[u])

(* A worker that takes no step keeps what follows its rows. *)
LEMMA FollowBystander ==
  ASSUME LeaseInv, NEW exempt, FollowsBut(exempt),
         "CALLBACK" \in exempt \/ NoAnswerOvertakes, [AnyStatement]_rows, RowsMove,
         NEW v \in Workers, worker'[v] = worker[v],
         worker[v].pc = "run" =>
           rows'[RunningItem(v).trace] = rows[RunningItem(v).trace]
  PROVE  FollowOf(v, exempt)'
<1>. WorkerInv /\ FollowOf(v, exempt)
  BY DEF LeaseInv, FollowsBut
<1>1. ASSUME worker[v].pc \in {"callback", "claim"}, NEW i \in 1..Len(worker[v].found)
      PROVE  SnapshotFits(worker[v].found[i], worker[v].now, exempt)'
  <2> DEFINE item == worker[v].found[i]
  <2>1. SnapshotFits(item, worker[v].now, exempt)
    BY <1>1 DEF FollowOf
  <2>2. worker[v].now = HostClock(v)
    BY <1>1 DEF LeaseInv, RoundOf
  <2>3. item.trace \in Traces /\ Stored(item.trace)
    BY <2>1 DEF SnapshotFits
  <2>4. StoreInv'
    BY WorkerTypes, StatementInv
  <2>5. rows'[item.trace] # Null
    BY <2>3, WorkerTypes, RowsAreKept
  <2>6. rows'[item.trace] \in Schedule
    BY <2>3, <2>4, <2>5 DEF StoreInv, StoreTypeOK
  <2>7. item' = item /\ worker'[v].now = worker[v].now
    OBVIOUS
  <2>8. /\ item.state = "CALLBACK" /\ item.state \notin exempt
        /\ rows[item.trace].state = "CALLBACK" /\ rows[item.trace].receivedAt = Null
        => rows'[item.trace].receivedAt = Null
    BY <2>3 DEF NoAnswerOvertakes, HoldsAnswer
  <2> HIDE DEF item
  <2>9. /\ item.trace \in Traces /\ rows'[item.trace] # Null
        /\ item.state \in {"POLL", "CALLBACK"}
        /\ \/ item.state \in exempt
           \/ Follows(item, rows'[item.trace])
           \/ Unclaimable(item, rows'[item.trace], worker[v].now)
    BY <2>1, <2>2, <2>3, <2>6, <2>8, SnapshotStillFits DEF RowsMove
  <2>. QED BY <2>7, <2>9 DEF SnapshotFits, Stored, item
<1>2. worker[v].pc = "run" =>
        RunsOn(RunningItem(v), rows'[RunningItem(v).trace], exempt)
  BY DEF FollowOf
<1>. QED BY <1>1, <1>2 DEF FollowOf, RunningItem

(* The selects take a snapshot of the rows as they are. *)
LEMMA SelectedFit ==
  ASSUME WorkerInv, NEW exempt, NEW now,
         NEW s \in PollCandidates(now, Limit) \cup CallbackCandidates(now, Limit)
  PROVE  \A i \in 1..Len(s) : SnapshotFits(s[i], now, exempt)
<1>1. PICK S \in {PollRows(now), CallbackRows(now)} : IsSelection(s, S, Limit)
  BY WorkerTypes, CandidatesAreSelections
<1>2. ASSUME NEW i \in 1..Len(s)
      PROVE  SnapshotFits(s[i], now, exempt)
  <2> DEFINE t == s[i].trace
  <2>1. t \in S /\ s[i] = Item(t)
    BY <1>1 DEF IsSelection
  <2>2. /\ t \in Traces /\ Stored(t)
        /\ rows[t].state = "POLL" \/ DueCallback(rows[t])
    BY <1>1, <2>1 DEF PollRows, CallbackRows, DuePoll
  <2>3. Follows(s[i], rows[t]) /\ s[i].state = rows[t].state
    BY <2>1 DEF Item, Follows
  <2>. QED BY <2>2, <2>3 DEF SnapshotFits, DueCallback
<1>. QED BY <1>2

(* Its own step leaves a worker with items that fit their rows. *)
LEMMA FollowOwn ==
  ASSUME LeaseInv, NEW exempt, FollowsBut(exempt), Punctual, NEW w \in Workers,
         SchedulerStep(w) \/ SchedulerFault(w)
  PROVE  FollowOf(w, exempt)'
<1>. WorkerInv /\ RoundOf(w) /\ FollowOf(w, exempt)
  BY DEF LeaseInv, FollowsBut
<1>. /\ worker \in [Workers -> WorkerType] /\ Idle \in WorkerType /\ Idle.pc = "idle"
     /\ rows \in [Traces -> Schedule \cup {Null}]
  BY WorkerTypes, IdleType
<1>1. CASE worker'[w].pc \notin {"callback", "claim", "run"}
  BY <1>1 DEF FollowOf
<1>2. CASE SelectPoll(w)
  <2>1. PICK s \in PollCandidates(worker[w].now, Limit) :
          worker' = [worker EXCEPT ![w].pc = "callback", ![w].found = s]
    BY <1>2 DEF SelectPoll
  <2>2. /\ worker'[w].pc = "callback" /\ worker'[w].found = s
        /\ worker'[w].now = worker[w].now /\ UNCHANGED rows
    BY <1>2, <2>1 DEF SelectPoll, WorkerType
  <2>3. \A i \in 1..Len(s) : SnapshotFits(s[i], worker[w].now, exempt)
    BY SelectedFit
  <2>. QED BY <2>2, <2>3 DEF FollowOf, SnapshotFits, Stored
<1>3. CASE SelectCallback(w)
  <2>1. PICK s \in CallbackCandidates(worker[w].now, Limit) :
          LET found == MergeDueCandidates(worker[w].found, s, Limit)
          IN  worker' = [worker EXCEPT ![w] =
                IF found = <<>> THEN Idle
                ELSE [@ EXCEPT !.pc = "claim", !.found = found]]
    BY <1>3 DEF SelectCallback
  <2> DEFINE found == MergeDueCandidates(worker[w].found, s, Limit)
  <2>2. worker[w].pc = "callback" /\ UNCHANGED rows
    BY <1>3 DEF SelectCallback
  <2>3. /\ s \in Seq(ItemType) /\ Steppable(s)
        /\ worker[w].found \in Seq(ItemType) /\ Steppable(worker[w].found)
    BY FoundByQuery, WorkerFields DEF FitsPhase
  <2>4. \A k \in 1..Len(found) : \/ \E i \in 1..Len(worker[w].found) :
                                      found[k] = worker[w].found[i]
                                 \/ \E i \in 1..Len(s) : found[k] = s[i]
    BY <2>3, FoundByMerge
  <2>5. /\ \A i \in 1..Len(s) : SnapshotFits(s[i], worker[w].now, exempt)
        /\ \A i \in 1..Len(worker[w].found) :
             SnapshotFits(worker[w].found[i], worker[w].now, exempt)
    BY <2>2, SelectedFit DEF FollowOf
  <2>6. \/ worker'[w] = Idle
        \/ worker'[w] = [worker[w] EXCEPT !.pc = "claim", !.found = found]
    BY <2>1
  <2> HIDE DEF found
  <2>7. CASE worker'[w] = [worker[w] EXCEPT !.pc = "claim", !.found = found]
    <3>1. /\ worker'[w].pc = "claim" /\ worker'[w].found = found
          /\ worker'[w].now = worker[w].now
      BY <2>7 DEF WorkerType
    <3>2. \A k \in 1..Len(found) : SnapshotFits(found[k], worker[w].now, exempt)
      BY <2>4, <2>5
    <3>. QED BY <2>2, <3>1, <3>2 DEF FollowOf, SnapshotFits, Stored
  <2>8. CASE worker'[w] = Idle
    BY <2>8 DEF FollowOf
  <2>. QED BY <2>6, <2>7, <2>8
<1>4. CASE Claim(w) /\ worker'[w].pc \in {"callback", "claim", "run"}
  <2> DEFINE item    == Head(worker[w].found)
             matches == ClaimMatches(rows[item.trace], item.state, worker[w].now)
             batch   == IF matches THEN Append(worker[w].batch, item)
                                   ELSE worker[w].batch
  <2>1. worker[w].pc = "claim" /\ worker[w].batch = <<>>
    BY <1>4 DEF Claim, RoundOf
  <2>2. /\ worker[w].found \in Seq(ItemType) /\ worker[w].found # <<>>
        /\ Len(worker[w].found) <= 1
    BY <2>1, WorkerFields DEF FitsPhase, RoundOf
  <2>3. /\ item \in ItemType /\ Tail(worker[w].found) = <<>>
        /\ item = worker[w].found[1] /\ 1 \in 1..Len(worker[w].found)
    BY <2>2, HeadAndTail
  <2>4. RunNext(w, batch)
    BY <1>4, <2>3 DEF Claim
  <2>5. SnapshotFits(item, worker[w].now, exempt)
    BY <2>1, <2>3 DEF FollowOf
  <2>6. CASE ~matches
    <3>1. worker'[w] = Idle
      BY <2>1, <2>4, <2>6 DEF RunNext
    <3>. QED BY <1>4, <3>1
  <2>7. CASE matches
    <3>1. batch = <<item>>
      BY <2>1, <2>3, <2>7
    <3>2. rows' = [rows EXCEPT ![item.trace] =
                     [@ EXCEPT !.lockedBy = w, !.lockedUntil = LockUntil(w)]]
          /\ Stored(item.trace) /\ item.trace \in Traces
      BY <1>4, <2>3, <2>7 DEF Claim, ClaimDueItem, ItemType
    <3> HIDE DEF batch
    <3>3. batch # <<>> /\ Head(batch) = item
      BY <3>1
    <3>4. worker'[w].pc = "run" /\ worker'[w].batch = batch
      BY <2>4, <3>3, IdleType DEF RunNext, WorkerType
    <3>5. RunsOn(item, rows[item.trace], exempt)
      BY <2>5, <2>7 DEF SnapshotFits, Unclaimable, ClaimMatches, DuePoll, DueCallback,
                        RunsOn
    <3> HIDE DEF item
    <3>6. rows[item.trace] \in Schedule
      BY <3>2 DEF Stored
    <3>7. RunsOn(item, rows'[item.trace], exempt)
      BY <3>2, <3>5, <3>6 DEF RunsOn, Follows, Schedule
    <3>8. RunningItem(w)' = item
      BY <3>3, <3>4 DEF RunningItem
    <3>. QED BY <3>4, <3>7, <3>8 DEF FollowOf
  <2>. QED BY <2>6, <2>7
<1>5. CASE StepWrites(w) \/ StepPrepares(w)
           \/ (worker[w].pc = "run" /\ (Renew(w) \/ RenewError(w)))
  <2> DEFINE t == RunningItem(w).trace
  <2>1. worker[w].pc = "run"
    BY <1>5 DEF StepWrites, StepPrepares
  <2>2. t \in Traces /\ Stored(t) /\ rows[t] \in Schedule
        /\ RunsOn(RunningItem(w), rows[t], exempt)
    BY <2>1, LeaseIsCurrent DEF FollowOf
  <2>3. worker'[w].pc = "run" /\ RunningItem(w)' = RunningItem(w)
    <3>1. \/ UNCHANGED worker
          \/ \E hash : worker' = [worker EXCEPT ![w].prepared = hash]
          \/ \E at : worker' = [worker EXCEPT ![w].renewAt = at]
      BY <1>5 DEF StepWrites, StepPrepares, Renew, RenewError
    <3>2. worker'[w].pc = worker[w].pc /\ worker'[w].batch = worker[w].batch
      BY <3>1 DEF WorkerType
    <3>. QED BY <2>1, <3>2 DEF RunningItem
  <2>4. \/ rows'[t] = rows[t]
        \/ \E data \in Payloads : \/ rows'[t] = [rows[t] EXCEPT !.outputs = data]
                                  \/ rows'[t] = [rows[t] EXCEPT !.contextData = data]
        \/ rows'[t] = [rows[t] EXCEPT !.lockedUntil = HostClock(w) + LockFor]
    <3>1. CASE StepWrites(w)
      <4>1. PICK data \in Payloads : UpdateOutputs(t, data) \/ UpdateContextData(t, data)
        BY <3>1, RuntimeAssumption DEF StepWrites, WriteOutputs, WriteContext
      <4>. QED BY <2>2, <4>1 DEF UpdateOutputs, UpdateContextData
    <3>2. CASE StepPrepares(w) \/ RenewError(w)
      BY <3>2 DEF StepPrepares, PrepareCallback, RenewError
    <3>3. CASE Renew(w)
      BY <2>2, <3>3 DEF Renew, RenewLock
    <3>. QED BY <1>5, <3>1, <3>2, <3>3
  <2> HIDE DEF t
  <2>5. RunsOn(RunningItem(w), rows'[t], exempt)
    BY <2>2, <2>4 DEF RunsOn, Follows, Schedule
  <2>. QED BY <2>3, <2>5 DEF FollowOf, t
<1>6. CASE ReadBack(w) \/ ReadBackError(w)
  BY <1>6, OneItem DEF FollowOf
<1>. QED BY <1>1, <1>2, <1>3, <1>4, <1>5, <1>6, StepsTowardsRun

(* A step of anybody but the workers. *)
LEMMA FollowOutside ==
  ASSUME LeaseInv, NEW exempt, FollowsBut(exempt), Punctual, PollsOutlastSkew,
         "CALLBACK" \in exempt \/ NoAnswerOvertakes,
         UNCHANGED worker, UNCHANGED rows \/ \E s \in Traces : OutsideRow(s)
  PROVE  FollowsBut(exempt)'
<1>. WorkerInv
  BY DEF LeaseInv
<1>1. [AnyStatement]_rows
  BY DEF OutsideRow, AnyStatement
<1>2. ASSUME NEW s \in Traces, OutsideRow(s), NEW u \in Traces, u # s
      PROVE  rows'[u] = rows[u]
  BY <1>2, WorkerTypes, OtherRowsAreKept DEF OutsideRow
<1>3. RowsMove
  BY <1>2, OutsideRowMoves DEF RowsMove
<1>4. ASSUME NEW v \in Workers, worker[v].pc = "run"
      PROVE  rows'[RunningItem(v).trace] = rows[RunningItem(v).trace]
  BY <1>2, <1>4, TouchedByServer, RunningStep
<1>. QED BY <1>1, <1>3, <1>4, FollowBystander DEF FollowsBut

(* Both are inductive, given LeaseInv. *)
LEMMA FollowNext ==
  ASSUME LeaseInv, NEW exempt, FollowsBut(exempt), Punctual, PollsOutlastSkew,
         "CALLBACK" \in exempt \/ NoAnswerOvertakes, [SchedulerNext]_vars
  PROVE  FollowsBut(exempt)'
<1>. WorkerInv
  BY DEF LeaseInv
<1>1. CASE UNCHANGED vars \/ Tick \/ ServerStep
  <2>1. UNCHANGED worker /\ (UNCHANGED rows \/ \E s \in Traces : OutsideRow(s))
    BY <1>1, ServerStepIsOutside DEF vars, Tick, OutsideStep
  <2>. QED BY <2>1, FollowOutside
<1>2. ASSUME NEW w \in Workers, SchedulerStep(w) \/ SchedulerFault(w)
      PROVE  FollowsBut(exempt)'
  <2>1. PICK r : WorkerFrame(w, r)
    BY <1>2, WorkerStepFrame
  <2>2. RowsMove
    BY <2>1, RowByMoves, RowByEffect DEF WorkerFrame, RowsMove
  <2>3. ASSUME NEW v \in Workers, v # w
        PROVE  FollowOf(v, exempt)'
    <3>1. worker'[v] = worker[v]
      BY <2>1, <2>3, WorkerTypes DEF WorkerFrame
    <3>2. worker[v].pc = "run" =>
            rows'[RunningItem(v).trace] = rows[RunningItem(v).trace]
      <4>1. ASSUME NEW s \in Traces, RowBy(w, s), worker[v].pc = "run"
            PROVE  rows'[RunningItem(v).trace] = rows[RunningItem(v).trace]
        BY <2>3, <4>1, TouchedByWorker, RowByEffect, RunningStep
      <4>. QED BY <2>1, <4>1 DEF WorkerFrame
    <3>. QED BY <2>2, <3>1, <3>2, SchedulerStatement, FollowBystander
  <2>. QED BY <1>2, <2>3, FollowOwn DEF FollowsBut
<1>. QED BY <1>1, <1>2 DEF SchedulerNext

(* At the start no worker has an item. *)
LEMMA FollowInit == SchedulerInit => FollowInv /\ PollFollowInv
BY IdleType DEF SchedulerInit, FollowInv, PollFollowInv, FollowsBut, FollowOf

(* Where leases cover steps and polls outlast the skew of the clocks, a    *)
(* step runs on what its row holds, unless it was found for an answer that *)
(* the answer to a later wait has overtaken.                               *)
THEOREM StepsFollowRows ==
  ASSUME Punctual, PollsOutlastSkew
  PROVE  SchedulerSpec /\ AnswersAwaitClaims => []StepFollowsRow
<1>1. SchedulerInit => FollowInv
  BY FollowInit
<1>2. LeaseInv /\ FollowInv /\ [SchedulerNext]_vars /\ [NoAnswerOvertakes]_rows
        => FollowInv'
  BY FollowNext DEF FollowInv, NoAnswerOvertakes
<1>3. FollowInv => StepFollowsRow
  BY DEF FollowInv, FollowsBut, FollowOf, RunsOn, Follows, StepFollowsRow, Running
<1>. QED BY <1>1, <1>2, <1>3, LeaseInvariant, PTL
         DEF SchedulerSpec, AnswersAwaitClaims

-----------------------------------------------------------------------------
(* The workers implement the lifecycle the caller sees (ScheduleLifecycle):*)
(* every statement moves one trace one legal move on, or leaves its phase  *)
(* and its step count as they are.                                         *)

(* The phase and the step count a row stands for. *)
PhaseOf(r) ==
  IF r = Null THEN "absent"
  ELSE IF r.state # "CALLBACK" THEN r.state
  ELSE IF r.receivedAt # Null THEN "answered" ELSE "waiting"

StepsOf(r) == IF r # Null /\ r.state # "EMPTY" THEN r.invokeCount ELSE 0

LEMMA PhaseOfRow ==
  ASSUME NEW t
  PROVE  /\ Phase(t) = PhaseOf(rows[t]) /\ StepsDone(t) = StepsOf(rows[t])
         /\ Phase(t)' = PhaseOf(rows'[t]) /\ StepsDone(t)' = StepsOf(rows'[t])
BY DEF Phase, StepsDone, PhaseOf, StepsOf, Stored

(* The legal moves of one trace. *)
StepsOn(r, s) ==
  /\ PhaseOf(r) \in {"EMPTY", "POLL", "answered"}
  /\ PhaseOf(s) \in {"POLL", "waiting", "SUCCESS", "FAIL"}
  /\ StepsOf(s) = StepsOf(r) + 1

LegalMove(r, s) ==
  \/ PhaseOf(s) = PhaseOf(r) /\ StepsOf(s) = StepsOf(r)
  \/ PhaseOf(r) = "absent" /\ PhaseOf(s) = "EMPTY" /\ StepsOf(s) = StepsOf(r)
  \/ StepsOn(r, s)
  \/ /\ PhaseOf(r) = "waiting" /\ PhaseOf(s) \in {"answered", "FAIL"}
     /\ StepsOf(s) = StepsOf(r)

(* A legal move of one trace is a step of the lifecycle. *)
LEMMA LegalMoveIsStep ==
  ASSUME NEW t \in Traces, \A u \in Traces : u # t => rows'[u] = rows[u],
         LegalMove(rows[t], rows'[t])
  PROVE  [Lifecycle!Next]_Lifecycle!lifecycleVars
<1> DEFINE phase == [u \in Traces |-> Phase(u)]
           steps == [u \in Traces |-> StepsDone(u)]
<1>1. /\ phase = [u \in Traces |-> PhaseOf(rows[u])]
      /\ steps = [u \in Traces |-> StepsOf(rows[u])]
      /\ phase' = [u \in Traces |-> PhaseOf(rows'[u])]
      /\ steps' = [u \in Traces |-> StepsOf(rows'[u])]
  BY PhaseOfRow
<1>2. /\ phase' = [phase EXCEPT ![t] = PhaseOf(rows'[t])]
      /\ steps' = [steps EXCEPT ![t] = StepsOf(rows'[t])]
      /\ phase[t] = PhaseOf(rows[t]) /\ steps[t] = StepsOf(rows[t])
  <2>1. \A u \in Traces : u # t => PhaseOf(rows'[u]) = PhaseOf(rows[u])
                                   /\ StepsOf(rows'[u]) = StepsOf(rows[u])
    OBVIOUS
  <2> HIDE DEF phase, steps
  <2>2. phase' = [phase EXCEPT ![t] = PhaseOf(rows'[t])]
    BY ONLY <1>1, <2>1, Zenon
  <2>3. steps' = [steps EXCEPT ![t] = StepsOf(rows'[t])]
    BY ONLY <1>1, <2>1, Zenon
  <2>. QED BY <1>1, <2>2, <2>3
<1>3. StepsOf(rows'[t]) = StepsOf(rows[t]) => steps' = steps
  BY <1>1
<1>4. PhaseOf(rows'[t]) = PhaseOf(rows[t]) => phase' = phase
  BY <1>1
<1> HIDE DEF phase, steps
<1>5. CASE PhaseOf(rows'[t]) = PhaseOf(rows[t]) /\ StepsOf(rows'[t]) = StepsOf(rows[t])
  BY <1>3, <1>4, <1>5 DEF Lifecycle!lifecycleVars, phase, steps
<1>6. CASE /\ PhaseOf(rows[t]) = "absent" /\ PhaseOf(rows'[t]) = "EMPTY"
           /\ StepsOf(rows'[t]) = StepsOf(rows[t])
  <2>1. Lifecycle!Submit(t)
    BY <1>2, <1>3, <1>6 DEF Lifecycle!Submit, Lifecycle!Move, phase, steps
  <2>. QED BY <2>1 DEF Lifecycle!Next
<1>7. CASE StepsOn(rows[t], rows'[t])
  <2>1. Lifecycle!RunStep(t)
    BY <1>2, <1>7 DEF Lifecycle!RunStep, Lifecycle!Move, StepsOn, phase, steps
  <2>. QED BY <2>1 DEF Lifecycle!Next
<1>8. CASE /\ PhaseOf(rows[t]) = "waiting" /\ PhaseOf(rows'[t]) \in {"answered", "FAIL"}
           /\ StepsOf(rows'[t]) = StepsOf(rows[t])
  <2>1. Lifecycle!Answer(t) \/ Lifecycle!Timeout(t)
    BY <1>2, <1>3, <1>8
       DEF Lifecycle!Answer, Lifecycle!Timeout, Lifecycle!Move, phase, steps
  <2>. QED BY <2>1 DEF Lifecycle!Next
<1>. QED BY <1>5, <1>6, <1>7, <1>8 DEF LegalMove

(* A mark of the next step is one. *)
LEMMA MarkIsStep ==
  ASSUME NEW r \in Schedule, NEW n \in InvokeCounts, NEW now, NEW s,
         MarkedRow(r, n, now, s), s # Null,
         PhaseOf(r) \in {"EMPTY", "POLL", "answered"}, n = StepsOf(r) + 1
  PROVE  StepsOn(r, s)
<1>1. /\ s.invokeCount = n /\ s.state \in {"POLL", "CALLBACK", "SUCCESS", "FAIL"}
      /\ s.state = "CALLBACK" => s.receivedAt = Null
  <2>1. CASE \E after \in Delays : s = PollRow(r, n, now + after)
    BY <2>1 DEF PollRow, Schedule
  <2>2. CASE \E hash \in Hashes, expires \in Nat : s = CallbackRow(r, n, hash, expires)
    BY <2>2 DEF CallbackRow, Schedule
  <2>3. CASE s = SuccessRow(r, n) \/ s = FailRow(r, n)
    BY <2>3 DEF SuccessRow, FailRow, Schedule
  <2>. QED BY <2>1, <2>2, <2>3 DEF MarkedRow
<1>. QED BY <1>1 DEF StepsOn, PhaseOf, StepsOf

(* Each statement of a worker whose step follows its row is a legal move.  *)
LEMMA RowByIsLegal ==
  ASSUME LeaseInv, Punctual, StepFollowsRow, NEW w \in Workers, NEW t \in Traces,
         RowBy(w, t)
  PROVE  LegalMove(rows[t], rows'[t])
<1>. WorkerInv
  BY DEF LeaseInv
<1>1. /\ rows[t] \in Schedule /\ rows[t] # Null /\ rows'[t] # Null
  BY WorkerTypes, StoredRow, RowByEffect DEF RowBy, Stored
<1>2. CASE ExpireMatches(rows[t]) /\ rows'[t] = ExpiredRow(rows[t])
  <2>1. /\ rows'[t].state = "FAIL" /\ rows'[t].invokeCount = rows[t].invokeCount
        /\ rows[t].state = "CALLBACK" /\ rows[t].receivedAt = Null
    BY <1>1, <1>2 DEF ExpireMatches, ExpiredRow, Schedule
  <2>. QED BY <1>1, <2>1 DEF LegalMove, PhaseOf, StepsOf
<1>3. CASE /\ worker[w].pc = "run" /\ t = RunningItem(w).trace
           /\ MarkedRow(rows[t], StepCount(w), HostClock(w), rows'[t])
  <2>1. /\ rows[t].state = "POLL" \/ DueCallback(rows[t])
        /\ rows[t].invokeCount = RunningItem(w).invokeCount
    BY <1>3, LeaseIsCurrent DEF StepFollowsRow, Running
  <2>2. /\ PhaseOf(rows[t]) \in {"POLL", "answered"}
        /\ StepCount(w) = StepsOf(rows[t]) + 1
    BY <1>1, <2>1 DEF PhaseOf, StepsOf, StepCount, DueCallback
  <2>3. StepCount(w) \in InvokeCounts
    BY <1>3, RunningStep
  <2>. QED BY <1>1, <1>3, <2>2, <2>3, MarkIsStep DEF LegalMove
<1>4. CASE \/ \E data \in Payloads : \/ rows'[t] = [rows[t] EXCEPT !.outputs = data]
                                     \/ rows'[t] = [rows[t] EXCEPT !.contextData = data]
           \/ rows'[t] = [rows[t] EXCEPT !.lockedBy = w, !.lockedUntil = LockUntil(w)]
           \/ rows'[t] = [rows[t] EXCEPT !.lockedUntil = HostClock(w) + LockFor]
  <2>1. /\ rows'[t].state = rows[t].state /\ rows'[t].receivedAt = rows[t].receivedAt
        /\ rows'[t].invokeCount = rows[t].invokeCount
    BY <1>1, <1>4 DEF Schedule
  <2>. QED BY <1>1, <2>1 DEF LegalMove, PhaseOf, StepsOf
<1>. QED BY <1>2, <1>3, <1>4 DEF RowBy

(* ... and so is each of the server's. *)
LEMMA OutsideRowIsLegal ==
  ASSUME WorkerInv, NEW t \in Traces, OutsideRow(t)
  PROVE  LegalMove(rows[t], rows'[t])
<1>1. rows'[t] # Null /\ 1 \in InvokeCounts
  BY WorkerTypes DEF OutsideRow
<1>2. CASE ~Stored(t) /\ rows'[t] = NewSchedule(1, clock)
  <2>1. NewSchedule(1, clock).state = "EMPTY"
    BY DEF NewSchedule
  <2>. QED BY <1>1, <1>2, <2>1 DEF Stored, LegalMove, PhaseOf, StepsOf
<1>3. CASE Stored(t) /\ FirstStepRow(rows[t], rows'[t])
  <2>1. rows[t] \in Schedule /\ rows[t] # Null /\ rows[t].state = "EMPTY"
    BY <1>3, WorkerTypes, StoredRow DEF FirstStepRow, Stored
  <2>2. PhaseOf(rows[t]) = "EMPTY" /\ StepsOf(rows[t]) = 0
    BY <2>1 DEF PhaseOf, StepsOf
  <2>3. CASE MarkedRow(rows[t], 1, clock, rows'[t])
    <3>1. StepsOn(rows[t], rows'[t])
      BY <1>1, <2>1, <2>2, <2>3, MarkIsStep
    <3>. QED BY <3>1 DEF LegalMove
  <2>4. CASE ~MarkedRow(rows[t], 1, clock, rows'[t])
    <3>1. rows'[t].state = "EMPTY"
      <4>1. PICK data \in Payloads : \/ rows'[t] = [rows[t] EXCEPT !.outputs = data]
                                     \/ rows'[t] = [rows[t] EXCEPT !.contextData = data]
        BY <1>3, <2>4 DEF FirstStepRow
      <4>. QED BY <2>1, <4>1 DEF Schedule
    <3>2. PhaseOf(rows'[t]) = "EMPTY" /\ StepsOf(rows'[t]) = 0
      BY <1>1, <3>1 DEF PhaseOf, StepsOf
    <3>. QED BY <2>2, <3>2 DEF LegalMove
  <2>. QED BY <2>3, <2>4
<1>4. CASE Stored(t) /\ AnsweredRow(rows[t], rows'[t])
  <2>1. rows[t] \in Schedule /\ rows[t] # Null
    BY <1>4, WorkerTypes, StoredRow DEF Stored
  <2>2. /\ rows[t].state = "CALLBACK" /\ rows[t].receivedAt = Null
        /\ rows'[t].state = "CALLBACK" /\ rows'[t].receivedAt # Null
        /\ rows'[t].invokeCount = rows[t].invokeCount
    BY <1>4, <2>1, NullAssumption DEF AnsweredRow, ReceivedRow, Schedule
  <2>. QED BY <1>1, <2>1, <2>2 DEF LegalMove, PhaseOf, StepsOf
<1>. QED BY <1>2, <1>3, <1>4 DEF OutsideRow

(* A step that writes at most one row, by a worker or the server. *)
LEMMA RowsStepLifecycle ==
  ASSUME LeaseInv, Punctual, StepFollowsRow,
         \/ UNCHANGED rows
         \/ \E w \in Workers, t \in Traces : RowBy(w, t)
         \/ \E t \in Traces : OutsideRow(t)
  PROVE  [Lifecycle!Next]_Lifecycle!lifecycleVars
<1>. WorkerInv
  BY DEF LeaseInv
<1>1. CASE UNCHANGED rows
  BY <1>1 DEF Lifecycle!lifecycleVars, Phase, StepsDone, Stored
<1>2. ASSUME NEW w \in Workers, NEW t \in Traces, RowBy(w, t)
      PROVE  [Lifecycle!Next]_Lifecycle!lifecycleVars
  BY <1>2, RowByIsLegal, RowByEffect, LegalMoveIsStep
<1>3. ASSUME NEW t \in Traces, OutsideRow(t)
      PROVE  [Lifecycle!Next]_Lifecycle!lifecycleVars
  <2>1. \A u \in Traces : u # t => rows'[u] = rows[u]
    BY <1>3, WorkerTypes, OtherRowsAreKept DEF OutsideRow
  <2>. QED BY <1>3, <2>1, OutsideRowIsLegal, LegalMoveIsStep
<1>. QED BY <1>1, <1>2, <1>3

LEMMA LifecycleInit == StoreInit => Lifecycle!Init
BY DEF StoreInit, Lifecycle!Init, Phase, StepsDone, Stored

(* Every step of the scheduler is a step of the lifecycle, or none. *)
LEMMA SchedulerStepLifecycle ==
  ASSUME LeaseInv, Punctual, StepFollowsRow, [SchedulerNext]_vars
  PROVE  [Lifecycle!Next]_Lifecycle!lifecycleVars
<1>. WorkerInv
  BY DEF LeaseInv
<1>1. CASE UNCHANGED vars \/ Tick
  BY <1>1, RowsStepLifecycle DEF vars, Tick
<1>2. CASE ServerStep
  BY <1>2, ServerStepIsOutside, RowsStepLifecycle DEF OutsideStep
<1>3. ASSUME NEW w \in Workers, SchedulerStep(w) \/ SchedulerFault(w)
      PROVE  [Lifecycle!Next]_Lifecycle!lifecycleVars
  BY <1>3, WorkerStepFrame, RowsStepLifecycle DEF WorkerFrame
<1>. QED BY <1>1, <1>2, <1>3 DEF SchedulerNext

(* The scheduler implements the lifecycle: no step of a trace is skipped,  *)
(* repeated or run out of turn, and an end is an end.                      *)
THEOREM SchedulerImplementsLifecycle ==
  ASSUME Punctual, PollsOutlastSkew
  PROVE  SchedulerSpec /\ AnswersAwaitClaims => ImplementsLifecycle
<1>1. SchedulerInit => Lifecycle!Init
  BY LifecycleInit DEF SchedulerInit
<1>2. LeaseInv /\ StepFollowsRow /\ [SchedulerNext]_vars
        => [Lifecycle!Next]_Lifecycle!lifecycleVars
  BY SchedulerStepLifecycle
<1>. QED BY <1>1, <1>2, LeaseInvariant, StepsFollowRows, PTL
         DEF SchedulerSpec, ImplementsLifecycle, Lifecycle!Spec
=============================================================================
