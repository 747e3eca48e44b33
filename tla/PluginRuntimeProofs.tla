-------------------------- MODULE PluginRuntimeProofs --------------------------
(***************************************************************************)
(* The server and the workers together, for any number of traces, workers, *)
(* callback requests, tokens and faults, any clock and, as far as          *)
(* RuntimeInv goes, whatever the settings: no lease has to cover a step.   *)
(* The later sections add what holds where leases do, under Punctual; the  *)
(* last one counts the callbacks sent for an end, and who may still send.  *)
(*                                                                         *)
(* The invariants of the two components are composed.  To a worker a       *)
(* handler is a step that leaves its memory alone (OthersKeep); to the     *)
(* handlers a worker is one that never touches a row still in EMPTY and    *)
(* never makes a row wait for a token somebody has used (OtherStep).  The  *)
(* latter needs two facts that neither component knows of by itself:       *)
(* ItemsPastFirst and PreparedOwn.                                         *)
(***************************************************************************)
EXTENDS PluginRuntime, ServerProofs, SchedulerProofs

-----------------------------------------------------------------------------
(* The inductive invariant.                                                *)

(* The first step of t has ended. *)
PastFirst(t) == t \in Traces /\ Stored(t) /\ rows[t].state # "EMPTY"

(* Whatever a worker has selected or claimed is past its first step. *)
PastFirstIn(r) ==
  /\ \A i \in 1..Len(r.overdue) : PastFirst(r.overdue[i])
  /\ \A i \in 1..Len(r.found) : PastFirst(r.found[i].trace)
  /\ \A i \in 1..Len(r.batch) : PastFirst(r.batch[i].trace)

ItemsPastFirst == \A w \in Workers : PastFirstIn(worker[w])

(* The token a running step has prepared is not in use: no row waits for   *)
(* it, no request with it was accepted, no other step prepared it.         *)
Prepares(w, hash) == worker[w].pc = "run" /\ worker[w].prepared = hash

Unused(hash) ==
  /\ \A t \in Traces : Stored(t) => rows[t].tokenHash # hash
  /\ \A p \in Posts : Accepted(p) => post[p].hash # hash

PreparedOwn ==
  \A w \in Workers, hash \in Hashes : Prepares(w, hash) =>
    /\ Unused(hash)
    /\ \A v \in Workers : Prepares(v, hash) => v = w

(* w is going to notify t, if t is final by now. *)
WillNotify(r, t) ==
  \/ r.pc = "stepped" /\ Head(r.batch).trace = t
  \/ r.pc = "expireGet" /\ Head(r.overdue) = t
  \/ /\ r.pc \in {"expireRow", "expireGet"}
     /\ \E i \in 1..Len(r.failed) :
          r.failed[i].trace = t /\ IsFinal(r.failed[i].state)

IsFinished(t) == Stored(t) /\ IsFinal(rows[t].state)

FinishOwed(t) ==
  IsFinished(t) =>
    \/ notified[t] > 0
    \/ invoke[t].pc = "stepped"
    \/ \E w \in Workers : WillNotify(worker[w], t)

(* A first step that could not be marked has left its row as it was,       *)
(* unless a mark that fails may have taken effect.                         *)
FailingEmpty ==
  ~LostAcks =>
    \A t \in Traces : invoke[t].pc = "failing" => rows[t].state = "EMPTY"

RuntimeInv ==
  /\ HandlerInv
  /\ WorkerInv
  /\ ItemsPastFirst
  /\ PreparedOwn
  /\ FailingEmpty
  /\ faults = 0 => \A t \in Traces : FinishOwed(t)

-----------------------------------------------------------------------------
(* What workers select and claim.                                          *)

(* No statement puts a row back to its first step. *)
LEMMA RowStepPastFirst ==
  ASSUME NEW r \in Schedule, r.state # "EMPTY", NEW s, RowStep(r, s)
  PROVE  s.state # "EMPTY"
<1>1. CASE \/ \E n \in InvokeCounts, next \in Nat : s = PollRow(r, n, next)
           \/ \E n \in InvokeCounts, hash \in Hashes, expires \in Nat :
                s = CallbackRow(r, n, hash, expires)
  BY <1>1 DEF PollRow, CallbackRow, Schedule
<1>2. CASE \/ \E n \in InvokeCounts : s = SuccessRow(r, n) \/ s = FailRow(r, n)
           \/ s = ExpiredRow(r)
  BY <1>2 DEF SuccessRow, FailRow, ExpiredRow, Schedule
<1>3. CASE \E data \in Payloads, now \in Nat : s = ReceivedRow(r, data, now)
  BY <1>3 DEF ReceivedRow, Schedule
<1>4. CASE \/ s = r
           \/ \E data \in Payloads : \/ s = [r EXCEPT !.contextData = data]
                                     \/ s = [r EXCEPT !.outputs = data]
           \/ \E until \in Nat : s = [r EXCEPT !.lockedUntil = until]
           \/ \E w \in Workers, until \in Nat :
                s = [r EXCEPT !.lockedBy = w, !.lockedUntil = until]
  BY <1>4 DEF Schedule
<1>. QED BY <1>1, <1>2, <1>3, <1>4 DEF RowStep

(* A row that is past its first step stays so. *)
LEMMA StaysPastFirst ==
  ASSUME StoreInv, [AnyStatement]_rows, NEW t, PastFirst(t)
  PROVE  t \in Traces /\ rows'[t] # Null /\ rows'[t].state # "EMPTY"
<1>1. t \in Traces /\ Stored(t) /\ rows[t] \in Schedule /\ rows[t].state # "EMPTY"
  BY StoredRow DEF PastFirst
<1>2. rows'[t] # Null
  BY <1>1, RowsAreKept
<1>3. rows'[t].state # "EMPTY"
  <2>1. CASE UNCHANGED rows
    BY <1>1, <2>1
  <2>2. CASE AnyStatement
    BY <1>1, <2>2, StepsAreRowSteps, RowStepPastFirst
  <2>. QED BY <2>1, <2>2
<1>. QED BY <1>1, <1>2, <1>3

(* Whatever a step of a worker leaves in its memory is past its first step. *)
LEMMA SelectsPastFirst ==
  ASSUME WorkerInv, ItemsPastFirst, NEW w \in Workers,
         SchedulerStep(w) \/ SchedulerFault(w)
  PROVE  PastFirstIn(worker'[w])
<1> DEFINE old == worker[w]
<1>1. /\ PastFirstIn(old) /\ worker \in [Workers -> WorkerType]
      /\ old \in WorkerType /\ FitsPhase(old)
      /\ old.overdue \in Seq(Traces) /\ old.failed \in Seq(ReadBackType)
      /\ old.found \in Seq(ItemType) /\ old.batch \in Seq(ItemType)
  BY WorkerTypes, WorkerFields DEF ItemsPastFirst
<1>2. ASSUME NEW r, worker' = [worker EXCEPT ![w] = r]
      PROVE  worker'[w] = r
  BY <1>1, <1>2
<1>3. PastFirstIn(Idle)
  BY IdleType DEF PastFirstIn
<1>4. CASE /\ worker'[w].overdue = old.overdue /\ worker'[w].found = old.found
           /\ worker'[w].batch = old.batch
  BY <1>1, <1>4 DEF PastFirstIn
<1>5. CASE \/ BeginRound(w) \/ StepWrites(w) \/ StepPrepares(w) \/ StepEnds(w)
           \/ Renew(w) \/ StepError(w) \/ RenewError(w)
  <2>1. \/ UNCHANGED worker
        \/ \E now : worker' = [worker EXCEPT ![w].pc = "expire", ![w].now = now]
        \/ \E hash : worker' = [worker EXCEPT ![w].prepared = hash]
        \/ worker' = [worker EXCEPT ![w].pc = "stepped"]
        \/ \E at : worker' = [worker EXCEPT ![w].renewAt = at]
    BY <1>5 DEF BeginRound, StepWrites, StepPrepares, StepEnds, Renew, StepError,
                RenewError, Goto
  <2>. QED BY <1>1, <1>4, <2>1 DEF WorkerType
<1>6. CASE SelectOverdue(w)
  <2>1. PICK s \in ExpireCandidates(old.now, Limit) :
          worker' = [worker EXCEPT
                       ![w].pc = IF s = <<>> THEN "poll" ELSE "expireRow",
                       ![w].overdue = s]
    BY <1>6 DEF SelectOverdue
  <2>2. /\ worker'[w].overdue = s /\ worker'[w].found = old.found
        /\ worker'[w].batch = old.batch
    BY <1>1, <2>1 DEF WorkerType
  <2>3. s \in Seq(Traces) /\ \A i \in 1..Len(s) : Stored(s[i]) /\ rows[s[i]].state = "CALLBACK"
    BY OverdueSelected
  <2>. QED BY <1>1, <2>2, <2>3 DEF PastFirstIn, PastFirst
<1>7. ASSUME old.pc \in {"expireRow", "expireGet"},
             NEW failed \in Seq(ReadBackType), ExpireNext(w, Tail(old.overdue), failed)
      PROVE  PastFirstIn(worker'[w])
  <2>1. /\ Tail(old.overdue) \in Seq(Traces)
        /\ \A i \in 1..Len(Tail(old.overdue)) :
             i + 1 \in 1..Len(old.overdue) /\ Tail(old.overdue)[i] = old.overdue[i + 1]
    BY <1>1, <1>7, HeadAndTail DEF FitsPhase
  <2> DEFINE rest == Tail(old.overdue)
  <2>2. rest \in Seq(Traces) /\ ExpireNext(w, rest, failed)
    BY <1>7, <2>1
  <2> HIDE DEF rest
  <2>3. \/ /\ rest # <<>>
           /\ worker' = [worker EXCEPT ![w].pc = "expireRow",
                                       ![w].overdue = rest, ![w].failed = failed]
        \/ /\ rest = <<>>
           /\ worker' = [worker EXCEPT ![w].pc = "poll",
                                       ![w].overdue = <<>>, ![w].failed = <<>>]
    BY <2>2 DEF ExpireNext
  <2>4. /\ worker'[w].overdue = rest /\ worker'[w].found = old.found
        /\ worker'[w].batch = old.batch
    BY <1>1, <2>3 DEF WorkerType
  <2>. QED BY <1>1, <2>1, <2>4 DEF PastFirstIn, rest
<1>8. CASE ExpireRow(w)
  <2>1. CASE ExpireNext(w, Tail(old.overdue), old.failed)
    BY <1>1, <1>7, <1>8, <2>1 DEF ExpireRow
  <2>2. CASE Goto(w, "expireGet")
    BY <1>1, <1>4, <2>2 DEF Goto, WorkerType
  <2>. QED BY <1>8, <2>1, <2>2 DEF ExpireRow
<1>9. CASE ExpireGet(w)
  <2> DEFINE t == Head(old.overdue)
             read == [trace |-> t, state |-> rows[t].state]
  <2>1. old.pc = "expireGet" /\ ExpireNext(w, Tail(old.overdue), Append(old.failed, read))
    BY <1>9 DEF ExpireGet
  <2>2. PastFirst(t)
    BY <1>1, <2>1, HeadAndTail DEF FitsPhase, PastFirstIn
  <2>3. read \in ReadBackType
    BY <2>2, WorkerTypes, StoredRow DEF ReadBackType, Schedule, PastFirst
  <2> HIDE DEF read
  <2>4. Append(old.failed, read) \in Seq(ReadBackType)
    BY <1>1, <2>3, AppendOne
  <2>. QED BY <1>7, <2>1, <2>4
<1>10. CASE ExpireError(w)
  <2>1. /\ worker'[w].overdue = <<>> /\ worker'[w].found = old.found
        /\ worker'[w].batch = old.batch
    BY <1>1, <1>10 DEF ExpireError, WorkerType
  <2>. QED BY <1>1, <2>1 DEF PastFirstIn
<1>11. CASE SelectPoll(w)
  <2>1. PICK s \in PollCandidates(old.now, Limit) :
          worker' = [worker EXCEPT ![w].pc = "callback", ![w].found = s]
    BY <1>11 DEF SelectPoll
  <2>2. /\ worker'[w].overdue = old.overdue /\ worker'[w].found = s
        /\ worker'[w].batch = old.batch
    BY <1>1, <2>1 DEF WorkerType
  <2>3. \A i \in 1..Len(s) : /\ s[i].trace \in Traces /\ Stored(s[i].trace)
                             /\ rows[s[i].trace].state \in {"POLL", "CALLBACK"}
    BY FoundByQuery
  <2>. QED BY <1>1, <2>2, <2>3 DEF PastFirstIn, PastFirst
<1>12. CASE SelectCallback(w)
  <2>1. PICK s \in CallbackCandidates(old.now, Limit) :
          LET found == MergeDueCandidates(old.found, s, Limit)
          IN  worker' = [worker EXCEPT ![w] =
                IF found = <<>> THEN Idle
                ELSE [@ EXCEPT !.pc = "claim", !.found = found]]
    BY <1>12 DEF SelectCallback
  <2> DEFINE found == MergeDueCandidates(old.found, s, Limit)
  <2>2. /\ s \in Seq(ItemType) /\ Steppable(s)
        /\ \A i \in 1..Len(s) : /\ s[i].trace \in Traces /\ Stored(s[i].trace)
                                /\ rows[s[i].trace].state \in {"POLL", "CALLBACK"}
    BY FoundByQuery
  <2>3. \A k \in 1..Len(found) :
          \/ \E i \in 1..Len(old.found) : found[k] = old.found[i]
          \/ \E i \in 1..Len(s) : found[k] = s[i]
    BY <1>1, <2>2, FoundByMerge DEF FitsPhase
  <2>4. \/ worker'[w] = Idle
        \/ worker'[w] = [old EXCEPT !.pc = "claim", !.found = found]
    BY <1>1, <2>1
  <2> HIDE DEF found
  <2>5. CASE worker'[w] = [old EXCEPT !.pc = "claim", !.found = found]
    <3>1. /\ worker'[w].overdue = old.overdue /\ worker'[w].found = found
          /\ worker'[w].batch = old.batch
      BY <1>1, <2>5 DEF WorkerType
    <3>2. \A k \in 1..Len(found) : PastFirst(found[k].trace)
      BY <1>1, <2>2, <2>3 DEF PastFirstIn, PastFirst
    <3>. QED BY <1>1, <3>1, <3>2 DEF PastFirstIn
  <2>. QED BY <1>3, <2>4, <2>5
<1>13. ASSUME NEW batch \in Seq(ItemType), Steppable(batch), RunNext(w, batch),
              \A i \in 1..Len(batch) : PastFirst(batch[i].trace)
       PROVE  PastFirstIn(worker'[w])
  <2>1. PICK r \in WorkerType :
          /\ worker' = [worker EXCEPT ![w] = r]
          /\ r.batch = batch /\ r.overdue = <<>> /\ r.found = <<>>
    BY <1>13, RunNextEffect
  <2>2. worker'[w] = r
    BY <1>2, <2>1
  <2>. QED BY <1>13, <2>1, <2>2 DEF PastFirstIn
<1>14. CASE Claim(w)
  <2> DEFINE item == Head(old.found)
             rest == Tail(old.found)
             batch == IF ClaimMatches(rows[item.trace], item.state, old.now)
                      THEN Append(old.batch, item) ELSE old.batch
  <2>1. /\ old.pc = "claim"
        /\ IF rest = <<>> THEN RunNext(w, batch)
           ELSE worker' = [worker EXCEPT ![w].found = rest, ![w].batch = batch]
    BY <1>14 DEF Claim
  <2>2. /\ item \in ItemType /\ PastFirst(item.trace)
        /\ item.invokeCount + 1 \in InvokeCounts
        /\ \A i \in 1..Len(rest) : i + 1 \in 1..Len(old.found) /\ rest[i] = old.found[i + 1]
    BY <1>1, <2>1, HeadAndTail DEF FitsPhase, PastFirstIn, Steppable
  <2>3. /\ Append(old.batch, item) \in Seq(ItemType)
        /\ Steppable(Append(old.batch, item))
        /\ \A i \in 1..Len(Append(old.batch, item)) :
             PastFirst(Append(old.batch, item)[i].trace)
    BY <1>1, <2>2, AppendOne DEF FitsPhase, Steppable, PastFirstIn
  <2>4. /\ batch \in Seq(ItemType) /\ Steppable(batch)
        /\ \A i \in 1..Len(batch) : PastFirst(batch[i].trace)
    BY <1>1, <2>3 DEF FitsPhase, PastFirstIn
  <2>5. CASE rest = <<>>
    BY <1>13, <2>1, <2>4, <2>5
  <2> HIDE DEF item, rest, batch
  <2>6. CASE rest # <<>>
    <3>1. /\ worker'[w].overdue = old.overdue /\ worker'[w].found = rest
          /\ worker'[w].batch = batch
      BY <1>1, <2>1, <2>6 DEF WorkerType
    <3>2. \A i \in 1..Len(rest) : PastFirst(rest[i].trace)
      BY <1>1, <2>2 DEF PastFirstIn
    <3>. QED BY <1>1, <2>4, <3>1, <3>2 DEF PastFirstIn
  <2>. QED BY <2>5, <2>6
<1>15. CASE ReadBack(w) \/ ReadBackError(w)
  <2>1. old.pc = "stepped" /\ RunNext(w, Tail(old.batch))
    BY <1>15 DEF ReadBack, ReadBackError
  <2>2. /\ Tail(old.batch) \in Seq(ItemType)
        /\ \A i \in 1..Len(Tail(old.batch)) :
             i + 1 \in 1..Len(old.batch) /\ Tail(old.batch)[i] = old.batch[i + 1]
    BY <1>1, <2>1, HeadAndTail DEF FitsPhase
  <2>3. Steppable(Tail(old.batch))
    BY <1>1, <2>2 DEF FitsPhase, Steppable
  <2>4. \A i \in 1..Len(Tail(old.batch)) : PastFirst(Tail(old.batch)[i].trace)
    BY <1>1, <2>2 DEF PastFirstIn
  <2>. QED BY <1>13, <2>1, <2>2, <2>3, <2>4
<1>16. CASE ClaimError(w)
  BY <1>2, <1>3, <1>16 DEF ClaimError
<1>17. CASE Crash(w)
  <2>1. worker'[w] = [Idle EXCEPT !.pc = "dead"]
    BY <1>2, <1>17 DEF Crash
  <2>2. /\ worker'[w].overdue = <<>> /\ worker'[w].found = <<>>
        /\ worker'[w].batch = <<>>
    BY <2>1, IdleType DEF WorkerType
  <2>. QED BY <2>2 DEF PastFirstIn
<1>. QED BY <1>5, <1>6, <1>8, <1>9, <1>10, <1>11, <1>12, <1>14, <1>15, <1>16, <1>17
         DEF SchedulerStep, SchedulerFault

(* ... and stays so, whoever changes the table. *)
PastFirstLater(t) == t \in Traces /\ rows'[t] # Null /\ rows'[t].state # "EMPTY"

(* So does everything a worker has in its memory.                          *)
LEMMA ItemsStayPastFirst ==
  ASSUME StoreInv, [AnyStatement]_rows, NEW r, PastFirstIn(r)
  PROVE  /\ \A i \in 1..Len(r.overdue) : PastFirstLater(r.overdue[i])
         /\ \A i \in 1..Len(r.found) : PastFirstLater(r.found[i].trace)
         /\ \A i \in 1..Len(r.batch) : PastFirstLater(r.batch[i].trace)
BY StaysPastFirst DEF PastFirstIn, PastFirstLater

-----------------------------------------------------------------------------
(* What a step of a worker does to the table, as the handlers see it.      *)

Uses(w, hash) == Prepares(w, hash) /\ worker'[w].pc # "run"

WorkerTouches(w, t) ==
  /\ PastFirst(t)
  /\ UNCHANGED rows \/ Statement(t)
  /\ TokensGrow(t)
  /\ WaitStep(t)
  /\ rows'[t] # Null /\ rows'[t].state # "EMPTY"
  /\ \/ SameWait(t)
     \/ Uses(w, rows'[t].tokenHash)
     \/ ~Issued(rows'[t].tokenHash)
  /\ IsFinal(rows'[t].state) =>
       IsFinal(rows[t].state) \/ faults' # 0 \/ WillNotify(worker'[w], t)

(* A statement that leaves the wait of a row and its state. *)
LEMMA KeepsWait ==
  ASSUME HandlerInv, NEW w, NEW t, PastFirst(t), UNCHANGED tokens,
         Statement(t), rows'[t] # Null, SameWait(t), rows'[t].state = rows[t].state
  PROVE  WorkerTouches(w, t)
BY NoNewToken, ServerTypes DEF WorkerTouches, PastFirst, WaitStep, SameWait

(* A claim or a renewal.                                                   *)
LEMMA LeaseTouches ==
  ASSUME HandlerInv, NEW w, NEW t, PastFirst(t), UNCHANGED tokens, Statement(t),
         \/ \E until : rows'[t] = [rows[t] EXCEPT !.lockedUntil = until]
         \/ \E v, until :
              rows'[t] = [rows[t] EXCEPT !.lockedBy = v, !.lockedUntil = until]
  PROVE  WorkerTouches(w, t)
<1>1. StoreInv /\ t \in Traces /\ rows[t] \in Schedule
  BY ServerTypes, StoredRow DEF PastFirst
<1>2. rows'[t] # Null
  BY <1>1, RowsAreKept DEF PastFirst, AnyStatement
<1>3. SameWait(t) /\ rows'[t].state = rows[t].state
  BY <1>1 DEF SameWait, Schedule
<1>. QED BY <1>2, <1>3, KeepsWait

(* An expiry. *)
LEMMA ExpiryTouches ==
  ASSUME HandlerInv, NEW w, NEW t, PastFirst(t), UNCHANGED tokens,
         ExpireCallback(t), faults' # 0 \/ WillNotify(worker'[w], t)
  PROVE  WorkerTouches(w, t)
<1>1. /\ Statement(t) /\ rows'[t] # Null
      /\ SameWait(t) /\ rows'[t].state = "FAIL"
  BY ServerTypes, ExpireEffect DEF PastFirst
<1>2. TokensGrow(t)
  BY ServerTypes, NoNewToken
<1>. QED BY <1>1, <1>2 DEF WorkerTouches, PastFirst, WaitStep, SameWait

(* The running step is of a trace that is past its first step. *)
LEMMA RunsPastFirst ==
  ASSUME WorkerInv, ItemsPastFirst, NEW w \in Workers,
         worker[w].pc \in {"run", "stepped"}
  PROVE  PastFirst(RunningItem(w).trace)
<1>1. worker[w].batch \in Seq(ItemType) /\ worker[w].batch # <<>>
  BY WorkerFields, RunningStep
<1>2. RunningItem(w) = worker[w].batch[1] /\ 1 \in 1..Len(worker[w].batch)
  BY <1>1, HeadAndTail DEF RunningItem
<1>. QED BY <1>2 DEF ItemsPastFirst, PastFirstIn

(* How a step ends. *)
LEMMA StepEndsTouches ==
  ASSUME HandlerInv, WorkerInv, ItemsPastFirst, PreparedOwn,
         NEW w \in Workers, StepEnds(w)
  PROVE  WorkerTouches(w, RunningItem(w).trace)
<1> DEFINE t == RunningItem(w).trace
           n == StepCount(w)
           prepared == worker[w].prepared
<1>1. /\ worker[w].pc = "run" /\ worker' = [worker EXCEPT ![w].pc = "stepped"]
      /\ StepMark(w, t, n)
  BY DEF StepEnds, Goto
<1>2. worker'[w] = [worker[w] EXCEPT !.pc = "stepped"]
  BY <1>1, WorkerTypes
<1>3. worker'[w].pc = "stepped" /\ worker'[w].batch = worker[w].batch
  BY <1>2, WorkerFields DEF WorkerType
<1>4. PastFirst(t) /\ n \in InvokeCounts /\ PreparedFor(t, prepared)
  BY <1>1, RunsPastFirst, RunningStep
<1>5. WillNotify(worker'[w], t)
  BY <1>3 DEF WillNotify, RunningItem
<1>6. prepared # Null => Prepares(w, prepared) /\ Unused(prepared)
  <2>1. prepared \in Hashes \cup {Null}
    BY WorkerFields
  <2>. QED BY <1>1, <2>1 DEF PreparedOwn, Prepares
<1>7. MarksLater(t, n, prepared, HostClock(w)) /\ HostClock(w) \in Nat
  BY <1>1, WorkerTypes DEF StepMark, MarksLater
<1> HIDE DEF t, n, prepared
<1>8. t \in Traces /\ Stored(t) /\ rows[t].state # "EMPTY"
  BY <1>4 DEF PastFirst
<1>9. /\ Statement(t) /\ TokensGrow(t) /\ WaitStep(t)
      /\ rows'[t] # Null /\ rows'[t].state # "EMPTY"
      /\ \/ SameWait(t)
         \/ rows'[t].tokenHash = prepared \/ ~Issued(rows'[t].tokenHash)
  BY <1>4, <1>6, <1>7, <1>8, LaterMark DEF Unused
<1>10. \/ SameWait(t)
       \/ Uses(w, rows'[t].tokenHash)
       \/ ~Issued(rows'[t].tokenHash)
  <2>1. prepared = Null => ~Issued(prepared)
    BY ServerTypes, TokenTypes DEF Issued
  <2>. QED BY <1>3, <1>6, <1>9, <2>1 DEF Uses
<1>11. WorkerTouches(w, t)
  BY <1>4, <1>5, <1>9, <1>10 DEF WorkerTouches
<1>. QED BY <1>11 DEF t

(* A step of a worker changes one row at most, as WorkerTouches says. *)
LEMMA WorkerStepTouches ==
  ASSUME HandlerInv, WorkerInv, ItemsPastFirst, PreparedOwn,
         NEW w \in Workers, SchedulerStep(w) \/ SchedulerFault(w)
  PROVE  UNCHANGED <<rows, tokens>> \/ \E t : WorkerTouches(w, t)
<1>1. /\ StoreInv /\ RuntimeTypeOK /\ worker \in [Workers -> WorkerType]
      /\ PastFirstIn(worker[w]) /\ FitsPhase(worker[w]) /\ worker[w] \in WorkerType
      /\ worker[w].overdue \in Seq(Traces) /\ worker[w].found \in Seq(ItemType)
  BY WorkerTypes, WorkerFields DEF ItemsPastFirst
<1>2. worker[w].pc \in {"expireRow", "expireGet"} => PastFirst(Head(worker[w].overdue))
  BY <1>1, HeadAndTail DEF FitsPhase, PastFirstIn
<1>3. worker[w].pc = "claim" => PastFirst(Head(worker[w].found).trace)
  BY <1>1, HeadAndTail DEF FitsPhase, PastFirstIn
<1>4. CASE \/ BeginRound(w) \/ SelectOverdue(w) \/ ExpireGet(w) \/ SelectPoll(w)
           \/ SelectCallback(w) \/ ReadBack(w) \/ StepError(w) \/ RenewError(w)
           \/ ReadBackError(w) \/ Crash(w)
  BY <1>4 DEF BeginRound, SelectOverdue, ExpireGet, SelectPoll, SelectCallback,
              ReadBack, StepError, RenewError, ReadBackError, Crash
<1>5. CASE ExpireRow(w) \/ ExpireError(w)
  <2> DEFINE t == Head(worker[w].overdue)
  <2>1. CASE UNCHANGED rows
    BY <1>5, <2>1 DEF ExpireRow, ExpireError
  <2>2. CASE ~UNCHANGED rows
    <3>1. PastFirst(t) /\ ExpireCallback(t) /\ UNCHANGED tokens
      BY <1>2, <1>5, <2>2 DEF ExpireRow, ExpireError
    <3>2. faults' # 0 \/ WillNotify(worker'[w], t)
      <4>1. CASE ExpireRow(w)
        <5>1. worker' = [worker EXCEPT ![w].pc = "expireGet"]
          BY <2>2, <4>1 DEF ExpireRow, Goto
        <5>2. worker'[w].pc = "expireGet" /\ worker'[w].overdue = worker[w].overdue
          BY <1>1, <5>1 DEF WorkerType
        <5>. QED BY <5>2 DEF WillNotify
      <4>2. CASE ExpireError(w)
        BY <1>1, <4>2, FaultCounts DEF ExpireError
      <4>. QED BY <1>5, <4>1, <4>2
    <3>. QED BY <3>1, <3>2, ExpiryTouches
  <2>. QED BY <2>1, <2>2
<1>6. CASE Claim(w) \/ ClaimError(w)
  <2> DEFINE t == Head(worker[w].found).trace
  <2>1. CASE UNCHANGED rows
    BY <1>6, <2>1 DEF Claim, ClaimError
  <2>2. CASE ~UNCHANGED rows
    <3>1. /\ worker[w].pc = "claim" /\ UNCHANGED tokens
          /\ ClaimDueItem(t, Head(worker[w].found).state, w,
                          worker[w].now, LockUntil(w))
      BY <1>6, <2>2 DEF Claim, ClaimError
    <3>2. Statement(t) /\ PastFirst(t)
      BY <1>3, <3>1, ClaimedRow DEF RowBy
    <3>3. rows'[t] = [rows[t] EXCEPT !.lockedBy = w, !.lockedUntil = LockUntil(w)]
      BY <3>1, <3>2, WorkerTypes DEF ClaimDueItem, PastFirst
    <3>. QED BY <3>1, <3>2, <3>3, LeaseTouches
  <2>. QED BY <2>1, <2>2
<1>7. CASE StepWrites(w)
  <2> DEFINE t == RunningItem(w).trace
  <2>1. /\ worker[w].pc = "run" /\ UNCHANGED tokens
        /\ \E data \in Payloads : UpdateOutputs(t, data) \/ UpdateContextData(t, data)
    BY <1>7, RuntimeAssumption DEF StepWrites, WriteOutputs, WriteContext
  <2>2. PastFirst(t) /\ t \in Traces
    BY <2>1, RunsPastFirst DEF PastFirst
  <2>3. /\ Statement(t) /\ rows'[t] # Null /\ SameWait(t)
        /\ rows'[t].state = rows[t].state
    BY <1>1, <2>1, <2>2, WriteEffect
  <2>. QED BY <2>1, <2>2, <2>3, KeepsWait
<1>8. CASE StepPrepares(w)
  <2> DEFINE t == RunningItem(w).trace
  <2>1. PICK timeout \in Int : PrepareCallback(t, HostClock(w), timeout)
    BY <1>8, RuntimeAssumption DEF StepPrepares
  <2>2. worker[w].pc = "run" /\ UNCHANGED rows /\ HostClock(w) \in Nat
    BY <1>8, WorkerTypes DEF StepPrepares, PrepareCallback
  <2>3. PastFirst(t) /\ t \in Traces
    BY <2>2, RunsPastFirst DEF PastFirst
  <2>4. TokensGrow(t)
    BY <1>1, <2>1, <2>2, <2>3, IssuedToken DEF PrepareCallback
  <2>. QED BY <2>2, <2>3, <2>4
           DEF WorkerTouches, WaitStep, SameWait, PastFirst, Stored
<1>9. CASE StepEnds(w)
  BY <1>9, StepEndsTouches
<1>10. CASE Renew(w)
  <2> DEFINE t == RunningItem(w).trace
  <2>1. /\ worker[w].pc \in {"run", "stepped"} /\ UNCHANGED tokens
        /\ UNCHANGED rows \/ RenewLock(t, w, HostClock(w) + LockFor)
    BY <1>10 DEF Renew
  <2>2. CASE UNCHANGED rows
    BY <2>1, <2>2
  <2>3. CASE RenewLock(t, w, HostClock(w) + LockFor)
    <3>1. PastFirst(t) /\ t \in Traces
      BY <2>1, RunsPastFirst DEF PastFirst
    <3>2. HostClock(w) + LockFor \in Nat
      BY WorkerTypes
    <3>3. Statement(t)
      BY <2>3, <3>1, <3>2 DEF Statement
    <3>4. rows'[t] = [rows[t] EXCEPT !.lockedUntil = HostClock(w) + LockFor]
      BY <2>3, <3>1, WorkerTypes DEF RenewLock
    <3>. QED BY <2>1, <3>1, <3>3, <3>4, LeaseTouches
  <2>. QED BY <2>1, <2>2, <2>3
<1>. QED BY <1>4, <1>5, <1>6, <1>7, <1>8, <1>9, <1>10 DEF SchedulerStep, SchedulerFault

-----------------------------------------------------------------------------
(* Finish callbacks.                                                       *)

(* A finish callback is launched for what was read back as final. *)
LEMMA Notifies ==
  ASSUME FinishCallbackTypeOK, NEW readBack, NotifyFinish(readBack),
         NEW r \in readBack, IsFinal(r.state), r.trace \in Traces
  PROVE  notified'[r.trace] > 0
<1> DEFINE t == r.trace
<1>1. t \in {x.trace : x \in {y \in readBack : IsFinal(y.state)}}
  OBVIOUS
<1>2. notified'[t] = Smaller(notified[t] + 1, MaxNotified)
  BY <1>1 DEF NotifyFinish
<1>3. notified[t] \in 0..MaxNotified /\ MaxNotified \in Nat \ {0}
  BY MaxNotifiedAssumption DEF FinishCallbackTypeOK
<1> HIDE DEF t
<1>4. notified'[t] > 0
  BY <1>2, <1>3 DEF Smaller
<1>. QED BY <1>4 DEF t

(* What was notified once stays notified. *)
LEMMA NotifiedIsKept ==
  ASSUME FinishCallbackTypeOK, NEW t \in Traces, notified[t] > 0,
         UNCHANGED notified \/ \E readBack : NotifyFinish(readBack)
  PROVE  notified'[t] > 0
<1>1. \/ notified'[t] = notified[t]
      \/ notified'[t] = Smaller(notified[t] + 1, MaxNotified)
  BY DEF NotifyFinish
<1>2. notified[t] \in 0..MaxNotified /\ MaxNotified \in Nat \ {0}
  BY MaxNotifiedAssumption DEF FinishCallbackTypeOK
<1>. QED BY <1>1, <1>2 DEF Smaller

(* ExpireCallbacks goes on: what it has read back is remembered, or the    *)
(* finish callbacks are launched.                                          *)
LEMMA ExpireNextNotifies ==
  ASSUME WorkerInv, NEW w \in Workers,
         NEW overdue, NEW failed \in Seq(ReadBackType), ExpireNext(w, overdue, failed),
         NEW i \in 1..Len(failed), IsFinal(failed[i].state)
  PROVE  notified'[failed[i].trace] > 0 \/ WillNotify(worker'[w], failed[i].trace)
<1>1. /\ worker \in [Workers -> WorkerType] /\ worker[w] \in WorkerType
      /\ FinishCallbackTypeOK
  BY WorkerTypes, WorkerFields
<1>2. failed[i] \in ReadBackType /\ failed[i].trace \in Traces
  <2>1. failed[i] \in ReadBackType
    OBVIOUS
  <2>. QED BY <2>1 DEF ReadBackType
<1>3. CASE overdue # <<>>
  <2>1. worker' = [worker EXCEPT ![w].pc = "expireRow",
                                 ![w].overdue = overdue, ![w].failed = failed]
    BY <1>3 DEF ExpireNext
  <2>2. worker'[w].pc = "expireRow" /\ worker'[w].failed = failed
    BY <1>1, <2>1 DEF WorkerType
  <2>. QED BY <2>2 DEF WillNotify
<1>4. CASE overdue = <<>>
  <2>1. NotifyFinish({failed[j] : j \in DOMAIN failed})
    BY <1>4 DEF ExpireNext
  <2>2. failed[i] \in {failed[j] : j \in DOMAIN failed}
    OBVIOUS
  <2>. QED BY <1>1, <1>2, <2>1, <2>2, Notifies
<1>. QED BY <1>3, <1>4

(* While nothing fails, a worker that is to notify a final trace does, or  *)
(* still is to.                                                            *)
LEMMA StillNotifies ==
  ASSUME WorkerInv, ItemsPastFirst, NEW w \in Workers, SchedulerStep(w),
         NEW t \in Traces, IsFinished(t), WillNotify(worker[w], t)
  PROVE  notified'[t] > 0 \/ WillNotify(worker'[w], t)
<1> DEFINE old == worker[w]
<1>1. /\ worker \in [Workers -> WorkerType] /\ old \in WorkerType
      /\ FinishCallbackTypeOK /\ rows[t] \in Schedule
      /\ old.overdue \in Seq(Traces) /\ old.failed \in Seq(ReadBackType)
  BY WorkerTypes, WorkerFields, StoredRow DEF IsFinished
<1>2. CASE old.pc = "stepped" /\ Head(old.batch).trace = t
  <2>1. Renew(w) \/ ReadBack(w)
    BY <1>2 DEF SchedulerStep, BeginRound, SelectOverdue, ExpireRow, ExpireGet,
                SelectPoll, SelectCallback, Claim, StepWrites, StepPrepares, StepEnds
  <2>2. CASE Renew(w)
    <3>1. \E at : worker' = [worker EXCEPT ![w].renewAt = at]
      BY <2>2 DEF Renew
    <3>2. worker'[w].pc = old.pc /\ worker'[w].batch = old.batch
      BY <1>1, <3>1 DEF WorkerType
    <3>. QED BY <1>2, <3>2 DEF WillNotify
  <2>3. CASE ReadBack(w)
    <3> DEFINE r == [trace |-> t, state |-> rows[t].state]
    <3>1. NotifyFinish({r})
      BY <1>2, <2>3 DEF ReadBack, RunningItem
    <3>2. r.trace = t /\ IsFinal(r.state)
      BY DEF IsFinished
    <3> HIDE DEF r
    <3>3. notified'[r.trace] > 0
      BY <1>1, <3>1, <3>2, Notifies
    <3>. QED BY <3>2, <3>3
  <2>. QED BY <2>1, <2>2, <2>3
<1>3. CASE old.pc = "expireGet"
  <2> DEFINE read == [trace |-> Head(old.overdue), state |-> rows[Head(old.overdue)].state]
             failed == Append(old.failed, read)
  <2>1. ExpireGet(w)
    BY <1>3 DEF SchedulerStep, BeginRound, SelectOverdue, ExpireRow, Renew, ReadBack,
                SelectPoll, SelectCallback, Claim, StepWrites, StepPrepares, StepEnds
  <2>2. ExpireNext(w, Tail(old.overdue), failed)
    BY <2>1 DEF ExpireGet
  <2>3. PastFirst(Head(old.overdue))
    BY <1>1, <1>3, WorkerFields, HeadAndTail DEF FitsPhase, ItemsPastFirst, PastFirstIn
  <2>4. read \in ReadBackType
    BY <2>3, WorkerTypes, StoredRow DEF ReadBackType, Schedule, PastFirst
  <2>5. read.trace = Head(old.overdue) /\ read.state = rows[Head(old.overdue)].state
    OBVIOUS
  <2> HIDE DEF read
  <2>6. /\ failed \in Seq(ReadBackType)
        /\ Len(old.failed) + 1 \in 1..Len(failed) /\ failed[Len(old.failed) + 1] = read
        /\ \A i \in 1..Len(old.failed) : i \in 1..Len(failed) /\ failed[i] = old.failed[i]
    BY <1>1, <2>4
  <2> HIDE DEF failed
  <2>7. PICK i \in 1..Len(failed) : failed[i].trace = t /\ IsFinal(failed[i].state)
    <3>1. CASE Head(old.overdue) = t
      BY <2>5, <2>6, <3>1 DEF IsFinished
    <3>2. CASE \E i \in 1..Len(old.failed) :
                 old.failed[i].trace = t /\ IsFinal(old.failed[i].state)
      BY <2>6, <3>2
    <3>. QED BY <1>3, <3>1, <3>2 DEF WillNotify
  <2>. QED BY <2>2, <2>6, <2>7, ExpireNextNotifies
<1>4. CASE old.pc = "expireRow"
  <2>1. PICK i \in 1..Len(old.failed) :
          old.failed[i].trace = t /\ IsFinal(old.failed[i].state)
    BY <1>4 DEF WillNotify
  <2>2. ExpireRow(w)
    BY <1>4 DEF SchedulerStep, BeginRound, SelectOverdue, ExpireGet, Renew, ReadBack,
                SelectPoll, SelectCallback, Claim, StepWrites, StepPrepares, StepEnds
  <2>3. CASE Goto(w, "expireGet")
    <3>1. worker'[w].pc = "expireGet" /\ worker'[w].failed = old.failed
      BY <1>1, <2>3 DEF Goto, WorkerType
    <3>. QED BY <2>1, <3>1 DEF WillNotify
  <2>4. CASE ExpireNext(w, Tail(old.overdue), old.failed)
    BY <1>1, <2>1, <2>4, ExpireNextNotifies
  <2>. QED BY <2>2, <2>3, <2>4 DEF ExpireRow
<1>. QED BY <1>2, <1>3, <1>4 DEF WillNotify

-----------------------------------------------------------------------------
(* A worker's step keeps the invariant.                                    *)

(* To the handlers it is an OtherStep. *)
LEMMA WorkerIsOther ==
  ASSUME RuntimeInv, NEW w \in Workers, SchedulerStep(w) \/ SchedulerFault(w),
         UNCHANGED <<invoke, post>>
  PROVE  OtherStep
<1>1. /\ HandlerInv /\ WorkerInv /\ ItemsPastFirst /\ PreparedOwn
      /\ StoreInv /\ RuntimeTypeOK /\ FinishCallbackTypeOK /\ clock \in Nat
      /\ faults \in 0..MaxFaults
  BY WorkerTypes DEF RuntimeInv
<1>2. PICK r : WorkerFrame(w, r)
  BY <1>1, WorkerStepFrame
<1>3. clock' \in Nat /\ faults' \in 0..MaxFaults /\ (faults' = 0 => faults = 0)
  BY <1>1, <1>2, FaultCounts DEF WorkerFrame
<1>4. FinishCallbackTypeOK'
  BY <1>1, <1>2, NotifyType DEF WorkerFrame, FinishCallbackTypeOK
<1>5. CASE UNCHANGED <<rows, tokens>>
  <2>1. TokensGrow(w)
    BY <1>1, <1>5, NoNewToken
  <2>2. \A u \in Traces : WaitStep(u)
    BY <1>5 DEF WaitStep, SameWait, Stored
  <2>. QED BY <1>3, <1>4, <1>5, <2>1, <2>2 DEF OtherStep, SameWait, Stored
<1>6. ASSUME NEW t, WorkerTouches(w, t)
      PROVE  OtherStep
  <2>1. t \in Traces /\ Stored(t) /\ rows[t].state # "EMPTY"
    BY <1>6 DEF WorkerTouches, PastFirst
  <2>2. CASE Statement(t)
    BY <1>1, <1>3, <1>4, <1>6, <2>1, <2>2, OtherRowStep DEF WorkerTouches
  <2>3. CASE UNCHANGED rows
    <3>1. \A u \in Traces : WaitStep(u)
      BY <2>3 DEF WaitStep, SameWait, Stored
    <3>. QED BY <1>3, <1>4, <1>6, <2>1, <2>3, <3>1
             DEF OtherStep, WorkerTouches, SameWait, Stored
  <2>. QED BY <1>6, <2>2, <2>3 DEF WorkerTouches
<1>. QED BY <1>1, <1>5, <1>6, WorkerStepTouches

(* A token a step has prepared was prepared before, or in this step, as a  *)
(* new one.                                                                *)
LEMMA PreparedBefore ==
  ASSUME WorkerInv, NEW w \in Workers, SchedulerStep(w) \/ SchedulerFault(w),
         NEW hash \in Hashes, worker'[w].pc = "run", worker'[w].prepared = hash
  PROVE  Prepares(w, hash) \/ (~Issued(hash) /\ UNCHANGED rows)
<1>1. /\ worker \in [Workers -> WorkerType] /\ worker[w] \in WorkerType
      /\ RuntimeTypeOK /\ FitsPhase(worker[w])
      /\ worker[w].batch \in Seq(ItemType) /\ worker[w].found \in Seq(ItemType)
  BY WorkerTypes, WorkerFields
<1>2. hash # Null
  BY NullAssumption
<1>3. CASE StepPrepares(w)
  <2>1. worker' = [worker EXCEPT ![w].prepared = NewHash] /\ UNCHANGED rows
    BY <1>3 DEF StepPrepares, PrepareCallback
  <2>2. hash = NewHash
    BY <1>1, <2>1 DEF WorkerType
  <2>3. ~Issued(NewHash)
    BY <1>1, TokenTypes DEF NewHash, Issued
  <2>. QED BY <2>1, <2>2, <2>3
<1>4. CASE StepWrites(w) \/ Renew(w) \/ RenewError(w)
  <2>1. UNCHANGED worker \/ \E at : worker' = [worker EXCEPT ![w].renewAt = at]
    BY <1>4 DEF StepWrites, Renew, RenewError
  <2>2. worker'[w].pc = worker[w].pc /\ worker'[w].prepared = worker[w].prepared
    BY <1>1, <2>1 DEF WorkerType
  <2>. QED BY <2>2 DEF Prepares
<1>5. ASSUME NEW batch, RunNext(w, batch)
      PROVE  FALSE
  <2>1. worker'[w].prepared = Null
    <3>1. CASE batch = <<>>
      BY <1>1, <1>5, <3>1, IdleType DEF RunNext
    <3>2. CASE batch # <<>>
      <4>1. PICK at : worker'[w] = [Idle EXCEPT !.pc = "run", !.batch = batch,
                                                !.renewAt = at]
        BY <1>1, <1>5, <3>2 DEF RunNext
      <4>. QED BY <4>1, IdleType DEF WorkerType
    <3>. QED BY <3>1, <3>2
  <2>. QED BY <1>2, <2>1
<1>6. CASE ReadBack(w) \/ ReadBackError(w)
  BY <1>5, <1>6 DEF ReadBack, ReadBackError
<1>7. CASE Claim(w)
  <2>1. \/ \E batch : RunNext(w, batch)
        \/ /\ worker[w].pc = "claim"
           /\ \E found, batch :
                worker' = [worker EXCEPT ![w].found = found, ![w].batch = batch]
    BY <1>7 DEF Claim
  <2>2. CASE /\ worker[w].pc = "claim"
             /\ \E found, batch :
                  worker' = [worker EXCEPT ![w].found = found, ![w].batch = batch]
    BY <1>1, <2>2 DEF WorkerType
  <2>. QED BY <1>5, <2>1, <2>2
<1>8. CASE \/ BeginRound(w) \/ SelectOverdue(w) \/ ExpireError(w) \/ SelectPoll(w)
           \/ StepEnds(w) \/ StepError(w)
  <2>1. CASE BeginRound(w)
    BY <1>1, <2>1 DEF BeginRound, WorkerType
  <2>2. CASE SelectOverdue(w)
    BY <1>1, <2>2 DEF SelectOverdue, WorkerType
  <2>3. CASE ExpireError(w)
    BY <1>1, <2>3 DEF ExpireError, WorkerType
  <2>4. CASE SelectPoll(w)
    BY <1>1, <2>4 DEF SelectPoll, WorkerType
  <2>5. CASE StepEnds(w) \/ StepError(w)
    BY <1>1, <2>5 DEF StepEnds, StepError, Goto, WorkerType
  <2>. QED BY <1>8, <2>1, <2>2, <2>3, <2>4, <2>5
<1>9. CASE ExpireRow(w) \/ ExpireGet(w)
  <2>1. worker'[w].pc # "run"
    BY <1>1, <1>9 DEF ExpireRow, ExpireGet, ExpireNext, Goto, WorkerType
  <2>. QED BY <2>1
<1>10. CASE SelectCallback(w)
  <2>1. \/ worker'[w] = Idle
        \/ \E found : worker'[w] = [worker[w] EXCEPT !.pc = "claim", !.found = found]
    BY <1>1, <1>10 DEF SelectCallback
  <2>. QED BY <1>1, <2>1, IdleType DEF WorkerType
<1>11. CASE ClaimError(w)
  BY <1>1, <1>11, IdleType DEF ClaimError
<1>12. CASE Crash(w)
  <2>1. worker'[w] = [Idle EXCEPT !.pc = "dead"]
    BY <1>1, <1>12 DEF Crash
  <2>. QED BY <2>1, IdleType DEF WorkerType
<1>. QED BY <1>3, <1>4, <1>6, <1>7, <1>8, <1>9, <1>10, <1>11, <1>12
         DEF SchedulerStep, SchedulerFault

(* No step of a worker makes a row wait for a token another step prepared. *)
LEMMA WorkerKeepsPrepared ==
  ASSUME RuntimeInv, NEW w \in Workers, SchedulerStep(w) \/ SchedulerFault(w),
         UNCHANGED <<invoke, post>>
  PROVE  PreparedOwn'
<1>1. /\ HandlerInv /\ WorkerInv /\ ItemsPastFirst /\ PreparedOwn
      /\ StoreInv /\ RuntimeTypeOK /\ worker \in [Workers -> WorkerType]
  BY WorkerTypes DEF RuntimeInv
<1>2. PICK r : worker' = [worker EXCEPT ![w] = r]
  BY <1>1, WorkerStepFrame DEF WorkerFrame
<1>3. \A v \in Workers : v # w => worker'[v] = worker[v]
  BY <1>1, <1>2
(* Every token in use is an issued one. *)
<1>4. /\ \A v \in Workers, hash \in Hashes : Prepares(v, hash) => Issued(hash)
      /\ \A t \in Traces, hash \in Hashes :
           Stored(t) /\ rows[t].tokenHash = hash => Issued(hash)
      /\ \A p \in Posts : Accepted(p) => Issued(post[p].hash)
  <2>1. ASSUME NEW v \in Workers, NEW hash \in Hashes, Prepares(v, hash)
        PROVE  Issued(hash)
    BY <1>1, <2>1, RunningStep, NullAssumption DEF Prepares, PreparedFor
  <2>2. \A t \in Traces, hash \in Hashes :
          Stored(t) /\ rows[t].tokenHash = hash => Issued(hash)
    BY <1>1, NullAssumption DEF HandlerInv, TokenInv, PreparedFor
  <2>3. \A p \in Posts : Accepted(p) => Issued(post[p].hash)
    BY <1>1 DEF HandlerInv, PostOf, Accepted
  <2>. QED BY <2>1, <2>2, <2>3
<1>5. ASSUME NEW v \in Workers, NEW hash \in Hashes,
             worker'[v].pc = "run", worker'[v].prepared = hash
      PROVE  \/ Prepares(v, hash)
             \/ v = w /\ ~Issued(hash) /\ UNCHANGED rows
  <2>1. CASE v = w
    BY <1>1, <1>5, <2>1, PreparedBefore
  <2>2. CASE v # w
    BY <1>3, <1>5, <2>2 DEF Prepares
  <2>. QED BY <2>1, <2>2
<1>6. ASSUME NEW v \in Workers, NEW hash \in Hashes,
             worker'[v].pc = "run", worker'[v].prepared = hash,
             NEW t \in Traces, rows'[t] # Null
      PROVE  rows'[t].tokenHash # hash
  <2>1. CASE v = w /\ ~Issued(hash) /\ UNCHANGED rows
    BY <1>4, <1>6, <2>1 DEF Stored
  <2>2. CASE Prepares(v, hash)
    <3>1. /\ Issued(hash) /\ (Stored(t) => rows[t].tokenHash # hash)
          /\ \A x \in Workers : Prepares(x, hash) => x = v
      BY <1>1, <1>4, <2>2 DEF PreparedOwn, Unused
    <3>2. CASE UNCHANGED rows
      BY <1>6, <3>1, <3>2 DEF Stored
    <3>3. ASSUME NEW u, WorkerTouches(w, u), Statement(u)
          PROVE  rows'[t].tokenHash # hash
      <4>1. CASE t # u
        <5>1. rows'[t] = rows[t]
          BY <1>1, <3>3, <4>1, OtherRowsAreKept DEF WorkerTouches, PastFirst
        <5>. QED BY <1>6, <3>1, <5>1 DEF Stored
      <4>2. CASE t = u
        <5>1. ~Uses(w, hash)
          BY <1>6, <3>1 DEF Uses
        <5>. QED BY <3>1, <3>3, <4>2, <5>1 DEF WorkerTouches, PastFirst, SameWait
      <4>. QED BY <4>1, <4>2
    <3>. QED BY <1>1, <3>2, <3>3, WorkerStepTouches DEF WorkerTouches
  <2>. QED BY <1>5, <1>6, <2>1, <2>2
<1>7. ASSUME NEW v \in Workers, NEW hash \in Hashes,
             worker'[v].pc = "run", worker'[v].prepared = hash,
             NEW p \in Posts, Accepted(p)
      PROVE  post[p].hash # hash
  BY <1>1, <1>4, <1>5, <1>7 DEF PreparedOwn, Unused
<1>8. ASSUME NEW v \in Workers, NEW hash \in Hashes,
             worker'[v].pc = "run", worker'[v].prepared = hash,
             NEW x \in Workers, worker'[x].pc = "run", worker'[x].prepared = hash
      PROVE  x = v
  <2>1. Prepares(v, hash) \/ (v = w /\ ~Issued(hash))
    BY <1>5, <1>8
  <2>2. Prepares(x, hash) \/ (x = w /\ ~Issued(hash))
    BY <1>5, <1>8
  <2>. QED BY <1>1, <1>4, <2>1, <2>2 DEF PreparedOwn
<1>. QED BY <1>6, <1>7, <1>8 DEF PreparedOwn, Prepares, Unused, Accepted, Stored

(* While nothing fails, a worker that makes a row final goes on to notify. *)
LEMMA WorkerKeepsOwed ==
  ASSUME RuntimeInv, NEW w \in Workers, SchedulerStep(w) \/ SchedulerFault(w),
         UNCHANGED <<invoke, post>>, faults' = 0, NEW t \in Traces
  PROVE  FinishOwed(t)'
<1>1. /\ HandlerInv /\ WorkerInv /\ ItemsPastFirst /\ PreparedOwn
      /\ StoreInv /\ RuntimeTypeOK /\ FinishCallbackTypeOK
      /\ worker \in [Workers -> WorkerType]
  BY WorkerTypes DEF RuntimeInv
<1>2. PICK r : WorkerFrame(w, r)
  BY <1>1, WorkerStepFrame
<1>3. faults = 0 /\ UNCHANGED faults /\ FinishOwed(t)
  BY <1>1, <1>2, FaultCounts DEF WorkerFrame, RuntimeInv
<1>4. SchedulerStep(w)
  <2>1. ~SchedulerFault(w)
    BY <1>1, <1>3, FaultCounts
       DEF SchedulerFault, ExpireError, ClaimError, StepError, RenewError,
           ReadBackError, Crash
  <2>. QED BY <2>1
<1>5. ASSUME ~IsFinished(t), rows'[t] # Null, IsFinal(rows'[t].state)
      PROVE  WillNotify(worker'[w], t)
  <2>1. ~UNCHANGED rows
    BY <1>5 DEF IsFinished, Stored
  <2>2. PICK u : WorkerTouches(w, u)
    BY <1>1, <2>1, WorkerStepTouches
  <2>3. u = t
    BY <1>1, <1>5, <2>1, <2>2, OtherRowsAreKept
       DEF WorkerTouches, PastFirst, IsFinished, Stored
  <2>. QED BY <1>3, <1>5, <2>2, <2>3 DEF WorkerTouches, PastFirst, IsFinished
<1>6. ASSUME IsFinished(t)
      PROVE  \/ notified'[t] > 0
             \/ invoke[t].pc = "stepped"
             \/ \E v \in Workers : WillNotify(worker'[v], t)
  <2>1. CASE notified[t] > 0
    BY <1>1, <1>2, <2>1, NotifiedIsKept DEF WorkerFrame
  <2>2. CASE invoke[t].pc = "stepped"
    BY <2>2
  <2>3. ASSUME NEW v \in Workers, WillNotify(worker[v], t)
        PROVE  notified'[t] > 0 \/ \E x \in Workers : WillNotify(worker'[x], t)
    <3>1. CASE v = w
      BY <1>1, <1>4, <1>6, <2>3, <3>1, StillNotifies
    <3>2. CASE v # w
      <4>1. worker'[v] = worker[v]
        BY <1>1, <1>2, <3>2 DEF WorkerFrame
      <4>. QED BY <2>3, <4>1
    <3>. QED BY <3>1, <3>2
  <2>. QED BY <1>3, <1>6, <2>1, <2>2, <2>3 DEF FinishOwed
<1>. QED BY <1>5, <1>6 DEF FinishOwed, IsFinished, Stored

(* A step of a worker keeps the invariant of the whole.                    *)
LEMMA WorkerStepKeeps ==
  ASSUME RuntimeInv, NEW w \in Workers, SchedulerStep(w) \/ SchedulerFault(w),
         UNCHANGED <<invoke, post>>
  PROVE  RuntimeInv'
<1>1. /\ HandlerInv /\ WorkerInv /\ ItemsPastFirst /\ StoreInv
      /\ worker \in [Workers -> WorkerType]
  BY WorkerTypes DEF RuntimeInv
<1>2. HandlerInv'
  BY <1>1, WorkerIsOther, OtherStepKeeps
<1>3. PICK r : WorkerFrame(w, r)
  BY <1>1, WorkerStepFrame
<1>4. WorkerInv'
  BY <1>1, <1>3, WorkerFrameInv
<1>5. ItemsPastFirst'
  <2>1. [AnyStatement]_rows
    BY <1>3 DEF WorkerFrame, RowBy, AnyStatement
  <2>2. ASSUME NEW v \in Workers
        PROVE  PastFirstIn(worker'[v])
    <3>1. CASE v = w
      BY <1>1, <3>1, SelectsPastFirst
    <3>2. CASE v # w
      <4>1. worker'[v] = worker[v]
        BY <1>1, <1>3, <3>2 DEF WorkerFrame
      <4>. QED BY <1>1, <4>1 DEF ItemsPastFirst
    <3>. QED BY <3>1, <3>2
  <2>3. ASSUME NEW v \in Workers
        PROVE  PastFirstIn(worker[v])'
    <3>1. LET m == worker'[v]
          IN  /\ \A i \in 1..Len(m.overdue) : PastFirstLater(m.overdue[i])
              /\ \A i \in 1..Len(m.found) : PastFirstLater(m.found[i].trace)
              /\ \A i \in 1..Len(m.batch) : PastFirstLater(m.batch[i].trace)
      BY <1>1, <2>1, <2>2, ItemsStayPastFirst
    <3>. QED BY <3>1 DEF PastFirstIn, PastFirst, PastFirstLater, Stored
  <2>. QED BY <2>3 DEF ItemsPastFirst
<1>6. FailingEmpty'
  <2>1. ASSUME NEW t \in Traces, NEW u, WorkerTouches(w, u), rows[t].state = "EMPTY"
        PROVE  rows'[t] = rows[t]
    BY <1>1, <2>1, OtherRowsAreKept DEF WorkerTouches, PastFirst
  <2>2. \A t \in Traces : rows[t].state = "EMPTY" => rows'[t] = rows[t]
    BY <1>1, <2>1, WorkerStepTouches DEF RuntimeInv
  <2>. QED BY <2>2 DEF RuntimeInv, FailingEmpty
<1>. QED BY <1>2, <1>4, <1>5, <1>6, WorkerKeepsPrepared, WorkerKeepsOwed DEF RuntimeInv

-----------------------------------------------------------------------------
(* What a step of a handler does to the table, as the workers see it.      *)

HandlerTouches(t) ==
  /\ t \in Traces /\ Statement(t)
  /\ rows'[t] # Null /\ Countable(rows'[t])
  /\ \/ ~Stored(t) /\ rows'[t] = NewSchedule(1, clock)
     \/ /\ Stored(t) /\ invoke[t].pc \in {"run", "failing"}
        /\ LostAcks \/ invoke'[t].pc # "failing"
        /\ rows[t].state = "EMPTY" => FirstStepRow(rows[t], rows'[t])
     \/ Stored(t) /\ AnsweredRow(rows[t], rows'[t])
  /\ \/ rows'[t].tokenHash = Null
     \/ Stored(t) /\ rows'[t].tokenHash = rows[t].tokenHash
     \/ invoke[t].pc = "run" /\ rows'[t].tokenHash = invoke[t].prepared
     \/ ~Issued(rows'[t].tokenHash)
  /\ IsFinal(rows'[t].state) => faults' # 0 \/ invoke'[t].pc = "stepped"

(* A first step that ends leaves a row that may be stepped once more. *)
LEMMA FirstMark ==
  ASSUME HandlerInv, NEW t \in Traces, Stored(t),
         NEW prepared, PreparedFor(t, prepared), MarksLater(t, 1, prepared, clock)
  PROVE  /\ Statement(t) /\ TokensGrow(t)
         /\ rows'[t] # Null /\ Countable(rows'[t])
         /\ MarkedRow(rows[t], 1, clock, rows'[t])
         /\ \/ rows'[t].tokenHash = rows[t].tokenHash
            \/ rows'[t].tokenHash = prepared \/ ~Issued(rows'[t].tokenHash)
<1>1. /\ StoreInv /\ RuntimeTypeOK /\ clock \in Nat /\ rows[t] \in Schedule
      /\ 1 \in InvokeCounts /\ 1 + 1 \in InvokeCounts
      /\ rows \in [Traces -> Schedule \cup {Null}]
  BY ServerTypes, StoredRow, RuntimeAssumption, SchedulerAssumption
     DEF StoreInv, StoreTypeOK
<1>2. CASE \E timeout \in Timeouts : SetCallback(t, 1, prepared, clock, timeout)
  <2>1. PICK timeout \in Int : SetCallback(t, 1, prepared, clock, timeout)
    BY <1>2, RuntimeAssumption
  <2>2. TokensGrow(t)
    BY <1>1, <2>1, SetCallbackEffect
  <2>3. PICK hash \in Hashes :
          /\ hash = prepared \/ ~Issued(hash)
          /\ hash \in DOMAIN tokens' /\ tokens'[hash].trace = t
          /\ tokens'[hash].expiresAt \in Nat
          /\ MarkCallback(t, 1, hash, tokens'[hash].expiresAt)
    BY <1>1, <2>1, SetCallbackEffect
  <2>4. Statement(t) /\ rows'[t] # Null /\ rows'[t].tokenHash = hash
    BY <1>1, <2>3, WaitEffect
  <2>5. rows'[t] = CallbackRow(rows[t], 1, hash, tokens'[hash].expiresAt)
    BY <1>1, <2>3 DEF MarkCallback
  <2>6. MarkedRow(rows[t], 1, clock, rows'[t])
    BY <1>1, <2>3, <2>5 DEF MarkedRow
  <2>7. Countable(rows'[t])
    BY <1>1, <2>6, MarkedRowEffect
  <2>. QED BY <2>2, <2>3, <2>4, <2>6, <2>7
<1>3. CASE ~\E timeout \in Timeouts : SetCallback(t, 1, prepared, clock, timeout)
  <2>1. /\ UNCHANGED tokens
        /\ \/ \E after \in Delays : MarkPoll(t, 1, clock + after)
           \/ MarkSuccess(t, 1)
           \/ MarkFail(t, 1)
    BY <1>1, <1>3 DEF MarksLater, SetPoll, SetSuccess, SetFail
  <2>2. Statement(t) /\ rows'[t] # Null /\ SameWait(t)
    <3>1. \A after \in Delays : clock + after \in Nat
      BY <1>1, RuntimeAssumption
    <3>. QED BY <1>1, <2>1, <3>1, MarkEffect
  <2>3. \/ \E after \in Delays : rows'[t] = PollRow(rows[t], 1, clock + after)
        \/ rows'[t] = SuccessRow(rows[t], 1)
        \/ rows'[t] = FailRow(rows[t], 1)
    BY <1>1, <2>1 DEF MarkPoll, MarkSuccess, MarkFail
  <2>4. MarkedRow(rows[t], 1, clock, rows'[t])
    BY <1>1, <2>3 DEF MarkedRow
  <2>5. Countable(rows'[t])
    BY <1>1, <2>4, MarkedRowEffect
  <2>. QED BY <1>1, <2>1, <2>2, <2>4, <2>5, NoNewToken DEF SameWait
<1>. QED BY <1>2, <1>3

(* The actions of the Invoke request for t. *)
LEMMA InvokeTouches ==
  ASSUME HandlerInv, WorkerInv, NEW t \in Traces, ServerStepOf(t) \/ ServerFaultOf(t)
  PROVE  (UNCHANGED rows \/ HandlerTouches(t)) /\ TokensGrow(t)
<1>1. /\ StoreInv /\ RuntimeTypeOK /\ clock \in Nat /\ 1 \in InvokeCounts
      /\ invoke \in [Traces -> InvokeType] /\ InvokeOf(t)
  BY ServerTypes, RuntimeAssumption DEF HandlerInv
<1>2. UNCHANGED tokens => TokensGrow(t)
  BY <1>1, NoNewToken
<1>3. CASE InvokeCreate(t) \/ InvokeCreateError(t)
  <2>1. UNCHANGED tokens /\ (UNCHANGED rows \/ Create(t, 1, clock))
    BY <1>3 DEF InvokeCreate, InvokeCreateError
  <2>2. CASE Create(t, 1, clock)
    <3>1. /\ Statement(t) /\ ~Stored(t) /\ rows'[t] = NewSchedule(1, clock)
          /\ rows'[t] # Null
          /\ rows'[t].state = "EMPTY" /\ rows'[t].tokenHash = Null
      BY <1>1, <2>2, CreateEffect
    <3>. QED BY <1>2, <2>1, <3>1 DEF HandlerTouches, Countable, IsFinal
  <2>. QED BY <1>2, <2>1, <2>2
<1>4. CASE InvokeWrites(t)
  <2>1. /\ UNCHANGED tokens /\ invoke[t].pc = "run"
        /\ \E data \in Payloads : UpdateOutputs(t, data) \/ UpdateContextData(t, data)
    BY <1>4, RuntimeAssumption DEF InvokeWrites, WriteOutputs, WriteContext
  <2>2. /\ Statement(t) /\ Stored(t) /\ rows'[t] # Null
        /\ SameWait(t) /\ rows'[t].state = rows[t].state
    BY <1>1, <2>1, WriteEffect
  <2>3. rows'[t].state = "EMPTY"
    BY <1>1, <2>1, <2>2 DEF InvokeOf
  <2>4. rows[t].state = "EMPTY" /\ FirstStepRow(rows[t], rows'[t])
    <3>1. rows \in [Traces -> Schedule \cup {Null}]
      BY <1>1 DEF StoreInv, StoreTypeOK
    <3>2. \E data \in Payloads : \/ rows'[t] = [rows[t] EXCEPT !.outputs = data]
                                 \/ rows'[t] = [rows[t] EXCEPT !.contextData = data]
      BY <2>1, <3>1 DEF UpdateOutputs, UpdateContextData
    <3>. QED BY <2>2, <2>3, <3>2 DEF FirstStepRow
  <2>5. invoke'[t].pc # "failing"
    BY <1>4, <2>1 DEF InvokeWrites
  <2>. QED BY <1>2, <2>1, <2>2, <2>3, <2>4, <2>5
           DEF HandlerTouches, Countable, IsFinal, SameWait
<1>5. CASE InvokePrepares(t)
  <2>1. PICK timeout \in Int : PrepareCallback(t, clock, timeout)
    BY <1>5, RuntimeAssumption DEF InvokePrepares
  <2>. QED BY <1>1, <2>1, IssuedToken DEF PrepareCallback
<1>6. CASE InvokeStepEnds(t) \/ InvokeFails(t) \/ InvokeStepError(t)
  <2>1. CASE UNCHANGED <<rows, tokens>>
    BY <1>2, <2>1
  <2>2. CASE ~UNCHANGED <<rows, tokens>>
    <3>1. /\ MarksLater(t, 1, invoke[t].prepared, clock)
          /\ InvokeGoto(t, "stepped") \/ (Fault /\ LostAcks)
          /\ invoke[t].pc \in {"run", "failing"}
          /\ \/ invoke[t].pc = "run"
             \/ SetFail(t, 1)
      BY <1>6, <2>2
         DEF InvokeStepEnds, InvokeFails, InvokeStepError, InvokeWaits, MarksLater,
             SetSuccess, SetFail
    <3>2. Stored(t) /\ PreparedFor(t, invoke[t].prepared)
      BY <1>1, <3>1 DEF InvokeOf
    <3>3. /\ Statement(t) /\ TokensGrow(t)
          /\ rows'[t] # Null /\ Countable(rows'[t])
          /\ MarkedRow(rows[t], 1, clock, rows'[t])
          /\ \/ rows'[t].tokenHash = rows[t].tokenHash
             \/ rows'[t].tokenHash = invoke[t].prepared \/ ~Issued(rows'[t].tokenHash)
      BY <3>1, <3>2, FirstMark
    <3>4. SetFail(t, 1) => rows'[t].tokenHash = rows[t].tokenHash
      BY <1>1, MarkEffect DEF SetFail, SameWait
    <3>5. invoke'[t].pc = "stepped" \/ (faults' # 0 /\ LostAcks)
      BY <1>1, <3>1, FaultCounts DEF InvokeGoto, InvokeType
    <3>. QED BY <3>1, <3>2, <3>3, <3>4, <3>5 DEF HandlerTouches, FirstStepRow
  <2>. QED BY <2>1, <2>2
<1>7. CASE InvokeReadBack(t) \/ InvokeAborted(t)
  BY <1>2, <1>7 DEF InvokeReadBack, InvokeAborted
<1>. QED BY <1>3, <1>4, <1>5, <1>6, <1>7 DEF ServerStepOf, ServerFaultOf

(* The actions of the callback request p. *)
LEMMA PostTouches ==
  ASSUME HandlerInv, WorkerInv, NEW p \in Posts, PostStep(p) \/ PostError(p)
  PROVE  /\ UNCHANGED rows \/ HandlerTouches(PostTrace(p))
         /\ UNCHANGED <<tokens, invoke, notified, clock>>
         /\ UNCHANGED faults \/ Fault
<1>1. /\ UNCHANGED rows \/ (post[p].pc = "update" /\ Receives(p))
      /\ UNCHANGED <<tokens, invoke, notified, clock>>
      /\ UNCHANGED faults \/ Fault
  BY DEF PostStep, PostArrives, PostUpdates, PostLooksUp, PostError, Receives
<1>2. CASE post[p].pc = "update" /\ Receives(p)
  <2> DEFINE t == PostTrace(p)
  <2>1. /\ t \in Traces /\ Statement(t) /\ Stored(t) /\ rows'[t] # Null
        /\ rows[t].state = "CALLBACK" /\ rows'[t].state = "CALLBACK"
        /\ rows[t].receivedAt = Null
        /\ rows'[t].tokenHash = rows[t].tokenHash
    BY <1>2, ReceivesEffect
  <2> HIDE DEF t
  <2>2. /\ rows[t] \in Schedule /\ Countable(rows[t])
        /\ rows \in [Traces -> Schedule \cup {Null}]
    BY <2>1, WorkerTypes, StoredRow DEF WorkerInv
  <2>3. rows'[t].invokeCount = rows[t].invokeCount /\ AnsweredRow(rows[t], rows'[t])
    <3>1. rows'[t] = ReceivedRow(rows[t], post[p].data, post[p].now)
      BY <1>2, <2>1, <2>2 DEF Receives, ReceiveCallback, t
    <3>2. post[p].data \in Payloads /\ post[p].now \in Nat
      BY DEF HandlerInv, ServerTypeOK
    <3>3. rows'[t].invokeCount = rows[t].invokeCount
      BY <2>2, <3>1 DEF ReceivedRow, Schedule
    <3>4. \E data \in Payloads, now \in Nat : rows'[t] = ReceivedRow(rows[t], data, now)
      BY <3>1, <3>2
    <3>. QED BY <2>1, <3>3, <3>4 DEF AnsweredRow
  <2>4. HandlerTouches(t)
    BY <2>1, <2>2, <2>3 DEF HandlerTouches, Countable, IsFinal
  <2>. QED BY <1>1, <2>4 DEF t
<1>. QED BY <1>1, <1>2

(* The answers a step of the handlers may give: a request is newly         *)
(* accepted from a row that waits for its token.                           *)
AnswersFromRow ==
  \A p \in Posts : post'[p].answer = "accepted" =>
    \/ Accepted(p) /\ post'[p].hash = post[p].hash
    \/ \E t \in Traces : Stored(t) /\ rows[t].tokenHash = post'[p].hash

(* What a handler that ends its request has done for a row that is final.  *)
EndsNotify ==
  \A t \in Traces : invoke[t].pc = "stepped" /\ IsFinished(t) =>
    faults' # 0 \/ invoke'[t].pc = "stepped" \/ notified'[t] > 0

(* A first step fails only before it is marked.                            *)
FailsUnmarked ==
  \A t \in Traces : invoke'[t].pc = "failing" => invoke[t].pc \in {"run", "failing"}

HandlerFrame ==
  /\ UNCHANGED <<worker, clock>>
  /\ UNCHANGED rows \/ \E t : HandlerTouches(t)
  /\ \E t : TokensGrow(t)
  /\ UNCHANGED notified \/ \E readBack : NotifyFinish(readBack)
  /\ UNCHANGED faults \/ Fault
  /\ AnswersFromRow
  /\ EndsNotify
  /\ NotifiesFinal
  /\ FailsUnmarked

(* No handler takes a token a running step of a worker has prepared: the   *)
(* step is of a row past its first step, the handler's own of one in it.   *)
LEMMA HandlerKeepsPrepared ==
  ASSUME RuntimeInv, HandlerFrame
  PROVE  PreparedOwn'
<1>1. /\ HandlerInv /\ WorkerInv /\ PreparedOwn /\ StoreInv /\ UNCHANGED worker
      /\ worker \in [Workers -> WorkerType]
  BY WorkerTypes DEF RuntimeInv, HandlerFrame
<1>2. ASSUME NEW w \in Workers, NEW hash \in Hashes, Prepares(w, hash)
      PROVE  /\ Unused(hash) /\ Issued(hash)
             /\ \A v \in Workers : Prepares(v, hash) => v = w
             /\ \A t \in Traces : invoke[t].pc = "run" => invoke[t].prepared # hash
  <2>1. /\ PreparedFor(RunningItem(w).trace, hash)
        /\ RunningItem(w) = worker[w].batch[1] /\ 1 \in 1..Len(worker[w].batch)
    <3>1. worker[w].batch \in Seq(ItemType) /\ worker[w].batch # <<>>
      BY <1>1, <1>2, RunningStep, WorkerFields DEF Prepares
    <3>. QED BY <1>1, <1>2, <3>1, RunningStep, HeadAndTail DEF Prepares
  <2>2. /\ Issued(hash) /\ tokens[hash].trace = RunningItem(w).trace
    BY <2>1, NullAssumption DEF PreparedFor
  <2>3. PastFirst(RunningItem(w).trace)
    BY <2>1 DEF RuntimeInv, ItemsPastFirst, PastFirstIn
  <2>4. ASSUME NEW t \in Traces, invoke[t].pc = "run", invoke[t].prepared = hash
        PROVE  FALSE
    <3>1. tokens[hash].trace = t /\ rows[t].state = "EMPTY"
      BY <1>1, <2>4, NullAssumption DEF HandlerInv, InvokeOf, PreparedFor
    <3>. QED BY <2>2, <2>3, <3>1 DEF PastFirst
  <2>. QED BY <1>1, <1>2, <2>2, <2>4 DEF PreparedOwn
<1>3. ASSUME NEW w \in Workers, NEW hash \in Hashes, Prepares(w, hash),
             NEW t \in Traces, rows'[t] # Null
      PROVE  rows'[t].tokenHash # hash
  <2>1. Unused(hash) /\ Issued(hash) /\ hash # Null
    BY <1>2, <1>3, NullAssumption
  <2>2. CASE rows'[t] = rows[t]
    BY <1>3, <2>1, <2>2 DEF Unused, Stored
  <2>3. CASE HandlerTouches(t)
    BY <1>2, <1>3, <2>1, <2>3 DEF HandlerTouches, Unused
  <2>4. ASSUME NEW u, HandlerTouches(u), u # t
        PROVE  rows'[t] = rows[t]
    BY <1>1, <2>4, OtherRowsAreKept DEF HandlerTouches
  <2>. QED BY <2>2, <2>3, <2>4 DEF HandlerFrame
<1>4. ASSUME NEW w \in Workers, NEW hash \in Hashes, Prepares(w, hash),
             NEW p \in Posts, post'[p].answer = "accepted"
      PROVE  post'[p].hash # hash
  <2>1. Unused(hash)
    BY <1>2, <1>4
  <2>. QED BY <1>4, <2>1 DEF HandlerFrame, AnswersFromRow, Unused
<1>. QED BY <1>1, <1>2, <1>3, <1>4 DEF PreparedOwn, Prepares, Unused, Accepted, Stored

(* A row a handler makes final it is still to read back.                   *)
LEMMA HandlerKeepsOwed ==
  ASSUME RuntimeInv, HandlerFrame, faults' = 0, NEW t \in Traces
  PROVE  FinishOwed(t)'
<1>1. /\ HandlerInv /\ WorkerInv /\ StoreInv /\ RuntimeTypeOK /\ FinishCallbackTypeOK
      /\ UNCHANGED worker
  BY WorkerTypes DEF RuntimeInv, HandlerFrame
<1>2. faults = 0 /\ FinishOwed(t)
  BY <1>1, FaultCounts DEF HandlerFrame, RuntimeInv
<1>3. ASSUME ~IsFinished(t), rows'[t] # Null, IsFinal(rows'[t].state)
      PROVE  invoke'[t].pc = "stepped"
  <2>1. ~UNCHANGED rows
    BY <1>3 DEF IsFinished, Stored
  <2>2. PICK u : HandlerTouches(u)
    BY <2>1 DEF HandlerFrame
  <2>3. u = t
    BY <1>1, <1>3, <2>2, OtherRowsAreKept DEF HandlerTouches, IsFinished, Stored
  <2>. QED BY <1>3, <2>2, <2>3 DEF HandlerTouches
<1>4. ASSUME IsFinished(t)
      PROVE  \/ notified'[t] > 0
             \/ invoke'[t].pc = "stepped"
             \/ \E w \in Workers : WillNotify(worker[w], t)
  <2>1. CASE notified[t] > 0
    BY <1>1, <2>1, NotifiedIsKept DEF HandlerFrame
  <2>2. CASE invoke[t].pc = "stepped"
    BY <1>4, <2>2 DEF HandlerFrame, EndsNotify
  <2>. QED BY <1>2, <1>4, <2>1, <2>2 DEF FinishOwed
<1>. QED BY <1>1, <1>3, <1>4 DEF FinishOwed, IsFinished, Stored

(* A first step that is to be failed still has its row to itself.          *)
LEMMA HandlerKeepsFailing ==
  ASSUME RuntimeInv, HandlerFrame
  PROVE  FailingEmpty'
<1>. SUFFICES ASSUME ~LostAcks, NEW t \in Traces, invoke'[t].pc = "failing"
              PROVE  rows'[t].state = "EMPTY"
  BY DEF FailingEmpty
<1>1. HandlerInv /\ StoreInv /\ InvokeOf(t)
  BY DEF RuntimeInv, HandlerInv
<1>2. invoke[t].pc \in {"run", "failing"} /\ Stored(t) /\ rows[t].state = "EMPTY"
  BY <1>1 DEF HandlerFrame, FailsUnmarked, RuntimeInv, FailingEmpty, InvokeOf
<1>3. ~HandlerTouches(t)
  BY <1>2 DEF HandlerTouches, AnsweredRow
<1>4. ASSUME NEW u, HandlerTouches(u)
      PROVE  rows'[t] = rows[t]
  BY <1>1, <1>3, <1>4, OtherRowsAreKept DEF HandlerTouches
<1>. QED BY <1>2, <1>4 DEF HandlerFrame

(* A step of a handler keeps the invariant of the whole.                   *)
LEMMA HandlerStepKeeps ==
  ASSUME RuntimeInv, HandlerInv', HandlerFrame
  PROVE  RuntimeInv'
<1>1. /\ HandlerInv /\ WorkerInv /\ ItemsPastFirst /\ StoreInv
      /\ UNCHANGED <<worker, clock>>
  BY WorkerTypes DEF RuntimeInv, HandlerFrame
<1>2. [AnyStatement]_rows
  BY DEF HandlerFrame, HandlerTouches, AnyStatement
<1>3. WorkerInv'
  <2>1. faults' \in 0..MaxFaults /\ FinishCallbackTypeOK'
    BY DEF HandlerInv, ServerTypeOK, RuntimeTypeOK
  <2>2. ASSUME NEW u \in Traces, rows'[u] # Null
        PROVE  Countable(rows'[u])
    <3>1. CASE rows'[u] = rows[u]
      BY <1>1, <2>2, <3>1 DEF WorkerInv, Stored
    <3>2. CASE HandlerTouches(u)
      BY <3>2 DEF HandlerTouches
    <3>3. ASSUME NEW t, HandlerTouches(t), t # u
          PROVE  rows'[u] = rows[u]
      BY <1>1, <3>3, OtherRowsAreKept DEF HandlerTouches
    <3>. QED BY <3>1, <3>2, <3>3 DEF HandlerFrame
  <2>3. PICK t : TokensGrow(t)
    BY DEF HandlerFrame
  <2>. QED BY <1>1, <1>2, <2>1, <2>2, <2>3, OthersKeep
<1>4. ItemsPastFirst'
  <2>1. ASSUME NEW w \in Workers
        PROVE  PastFirstIn(worker[w])'
    <3>1. LET m == worker[w]
          IN  /\ \A i \in 1..Len(m.overdue) : PastFirstLater(m.overdue[i])
              /\ \A i \in 1..Len(m.found) : PastFirstLater(m.found[i].trace)
              /\ \A i \in 1..Len(m.batch) : PastFirstLater(m.batch[i].trace)
      BY <1>1, <1>2, ItemsStayPastFirst DEF ItemsPastFirst
    <3>. QED BY <1>1, <3>1 DEF PastFirstIn, PastFirst, PastFirstLater, Stored
  <2>. QED BY <2>1 DEF ItemsPastFirst
<1>. QED BY <1>3, <1>4, HandlerKeepsPrepared, HandlerKeepsOwed, HandlerKeepsFailing
         DEF RuntimeInv

(* The Invoke request for t. *)
LEMMA InvokeStepFrame ==
  ASSUME RuntimeInv, NEW t \in Traces, ServerStepOf(t) \/ ServerFaultOf(t),
         UNCHANGED worker
  PROVE  HandlerInv' /\ HandlerFrame
<1>1. /\ HandlerInv /\ WorkerInv /\ FinishCallbackTypeOK /\ RuntimeTypeOK
      /\ invoke \in [Traces -> InvokeType]
  BY ServerTypes DEF RuntimeInv
<1>2. HandlerInv'
  BY <1>1, CreateKeeps, WritesKeeps, PreparesKeeps, StepEndsKeeps, EndKeeps
     DEF ServerStepOf, ServerFaultOf
<1>3. (UNCHANGED rows \/ HandlerTouches(t)) /\ TokensGrow(t)
  BY <1>1, InvokeTouches
<1>4. /\ UNCHANGED <<clock, post>>
      /\ UNCHANGED notified \/ \E readBack : NotifyFinish(readBack)
      /\ UNCHANGED faults \/ Fault
  BY DEF ServerStepOf, ServerFaultOf, InvokeCreate, InvokeCreateError, InvokeWrites,
         InvokePrepares, InvokeStepEnds, InvokeStepError, InvokeFails,
         InvokeReadBack, InvokeAborted, WriteOutputs, WriteContext
<1>5. AnswersFromRow
  BY <1>4 DEF AnswersFromRow, Accepted
<1>6. EndsNotify
  <2>1. ASSUME NEW u \in Traces, invoke[u].pc = "stepped", IsFinished(u)
        PROVE  faults' # 0 \/ invoke'[u].pc = "stepped" \/ notified'[u] > 0
    <3>1. CASE InvokeReadBack(t) /\ u = t
      <4> DEFINE r == [trace |-> u, state |-> rows[u].state]
      <4>1. NotifyFinish({r})
        BY <3>1 DEF InvokeReadBack
      <4>2. r \in {r} /\ IsFinal(r.state) /\ r.trace = u
        BY <2>1 DEF IsFinished
      <4> HIDE DEF r
      <4>. QED BY <1>1, <4>1, <4>2, Notifies
    <3>2. CASE InvokeAborted(t)
      BY <1>1, <3>2, FaultCounts DEF InvokeAborted
    <3>3. CASE u # t
      <4>1. \/ UNCHANGED invoke
            \/ \E i : invoke' = [invoke EXCEPT ![t] = i]
        BY DEF ServerStepOf, ServerFaultOf, InvokeCreate, InvokeCreateError,
               InvokeWrites, InvokePrepares, InvokeStepEnds, InvokeStepError,
               InvokeFails, InvokeReadBack, InvokeAborted, InvokeGoto
      <4>. QED BY <1>1, <2>1, <3>3, <4>1
    <3>4. ~InvokeReadBack(t) /\ ~InvokeAborted(t) => u # t
      BY <2>1
         DEF ServerStepOf, ServerFaultOf, InvokeCreate, InvokeCreateError,
             InvokeWrites, InvokePrepares, InvokeStepEnds, InvokeStepError, InvokeFails
    <3>. QED BY <3>1, <3>2, <3>3, <3>4
  <2>. QED BY <2>1 DEF EndsNotify
<1>7. NotifiesFinal
  <2>1. CASE UNCHANGED notified
    BY <2>1 DEF NotifiesFinal
  <2>2. CASE InvokeReadBack(t)
    <3> DEFINE readBack == {[trace |-> t, state |-> rows[t].state]}
    <3>1. NotifyFinish(readBack) /\ Stored(t)
      BY <1>1, <2>2 DEF InvokeReadBack, HandlerInv, InvokeOf
    <3>. QED BY <3>1 DEF NotifyFinish, NotifiesFinal
  <2>. QED BY <2>1, <2>2
           DEF ServerStepOf, ServerFaultOf, InvokeCreate, InvokeCreateError,
               InvokeWrites, InvokePrepares, InvokeStepEnds, InvokeStepError,
               InvokeFails, InvokeAborted, WriteOutputs, WriteContext
<1>8. FailsUnmarked
  <2>1. \/ UNCHANGED invoke
        \/ invoke[t].pc = "run" /\ InvokeGoto(t, "failing")
        \/ \E hash : invoke' = [invoke EXCEPT ![t].prepared = hash]
        \/ \E pc : pc # "failing" /\ InvokeGoto(t, pc)
    BY DEF ServerStepOf, ServerFaultOf, InvokeCreate, InvokeCreateError, InvokeWrites,
           InvokePrepares, InvokeStepEnds, InvokeStepError, InvokeFails,
           InvokeReadBack, InvokeAborted
  <2>. QED BY <1>1, <2>1 DEF FailsUnmarked, InvokeGoto, InvokeType
<1>9. HandlerFrame
  BY <1>3, <1>4, <1>5, <1>6, <1>7, <1>8 DEF HandlerFrame
<1>. QED BY <1>2, <1>9

(* The callback request p. *)
LEMMA PostStepFrame ==
  ASSUME RuntimeInv, NEW p \in Posts, PostStep(p) \/ PostError(p), UNCHANGED worker
  PROVE  HandlerInv' /\ HandlerFrame
<1>1. HandlerInv /\ WorkerInv /\ RuntimeTypeOK
  BY ServerTypes DEF RuntimeInv
<1>2. HandlerInv'
  BY <1>1, PostKeeps
<1>3. /\ UNCHANGED rows \/ HandlerTouches(PostTrace(p))
      /\ UNCHANGED <<tokens, invoke, notified, clock>>
      /\ UNCHANGED faults \/ Fault
  BY <1>1, PostTouches
<1>4. AnswersFromRow
  <2>1. ASSUME NEW q \in Posts, post'[q].answer = "accepted"
        PROVE  \/ Accepted(q) /\ post'[q].hash = post[q].hash
               \/ \E t \in Traces : Stored(t) /\ rows[t].tokenHash = post'[q].hash
    <3>1. post \in [Posts -> [pc : PostPhases, hash : Hashes \cup {Null},
                              data : Payloads, now : Nat, answer : Answers]]
      BY <1>1 DEF HandlerInv, ServerTypeOK
    <3>2. CASE q # p
      <4>1. \E r : post' = [post EXCEPT ![p] = r]
        BY DEF PostStep, PostArrives, PostUpdates, PostLooksUp, PostError, PostAnswered
      <4>. QED BY <2>1, <3>1, <3>2, <4>1 DEF Accepted
    <3>3. CASE q = p /\ post[p].pc = "update" /\ Receives(p)
      <4>1. /\ PostTrace(p) \in Traces /\ Stored(PostTrace(p))
            /\ rows[PostTrace(p)].tokenHash = post[p].hash
        BY <1>1, <3>3, ReceivesEffect
      <4>2. post'[p].hash = post[p].hash
        BY <3>1, <3>3
           DEF PostStep, PostArrives, PostUpdates, PostLooksUp, PostError, PostAnswered
      <4>. QED BY <3>3, <4>1, <4>2
    <3>4. CASE q = p /\ ~(post[p].pc = "update" /\ Receives(p))
      <4>1. /\ post[p] \in [pc : PostPhases, hash : Hashes \cup {Null},
                            data : Payloads, now : Nat, answer : Answers]
            /\ post'[p].answer = "accepted"
        BY <2>1, <3>1, <3>4
      <4>2. ~PostArrives(p)
        <5>. SUFFICES ASSUME PostArrives(p) PROVE FALSE
          OBVIOUS
        <5>1. PICK hash \in DOMAIN tokens, data \in Payloads :
                \E answer \in Verdicts(hash) :
                  post' = [post EXCEPT ![p] =
                    [pc     |-> IF answer = "" THEN "update" ELSE "done",
                     hash   |-> hash,
                     data   |-> data,
                     now    |-> clock,
                     answer |-> answer]]
          BY DEF PostArrives
        <5>2. PICK answer \in Verdicts(hash) :
                post' = [post EXCEPT ![p] =
                  [pc     |-> IF answer = "" THEN "update" ELSE "done",
                   hash   |-> hash,
                   data   |-> data,
                   now    |-> clock,
                   answer |-> answer]]
          BY <5>1
        <5>3. post'[p].answer = answer
          BY <3>1, <5>2
        <5>. QED BY <4>1, <5>3 DEF Verdicts
      <4>3. ASSUME NEW answer, PostAnswered(p, answer)
            PROVE  answer = "accepted"
        <5>1. post'[p] = [post[p] EXCEPT !.pc = "done", !.answer = answer]
          BY <3>1, <4>3 DEF PostAnswered
        <5>. QED BY <4>1, <5>1
      <4>4. ~PostLooksUp(p) /\ ~PostError(p)
        BY <4>3 DEF PostLooksUp, PostError
      <4>5. post' = [post EXCEPT ![p].pc = "lookup"]
        BY <3>4, <4>2, <4>4 DEF PostStep, PostUpdates, Receives
      <4>. QED BY <3>1, <3>4, <4>1, <4>5 DEF Accepted
    <3>. QED BY <3>2, <3>3, <3>4
  <2>. QED BY <2>1 DEF AnswersFromRow
<1>5. EndsNotify
  BY <1>3 DEF EndsNotify
<1>6. TokensGrow(PostTrace(p))
  BY <1>1, <1>3, NoNewToken
<1>7. NotifiesFinal /\ FailsUnmarked
  BY <1>3 DEF NotifiesFinal, FailsUnmarked
<1>8. HandlerFrame
  BY <1>3, <1>4, <1>5, <1>6, <1>7 DEF HandlerFrame
<1>. QED BY <1>2, <1>8

(* Whatever a handler does is within the frame. *)
LEMMA HandlerNextFrame ==
  ASSUME RuntimeInv, HandlerNext
  PROVE  HandlerInv' /\ HandlerFrame
BY InvokeStepFrame, PostStepFrame DEF HandlerNext

(* Time passes, or nothing changes. *)
LEMMA ClockStepKeeps ==
  ASSUME RuntimeInv, clock' \in Nat,
         UNCHANGED <<rows, tokens, faults, notified, worker, invoke, post>>
  PROVE  RuntimeInv'
<1>1. HandlerInv' /\ WorkerInv'
  BY ClockKeeps, TickKeeps DEF RuntimeInv
<1>2. ItemsPastFirst' /\ PreparedOwn'
  BY DEF RuntimeInv, ItemsPastFirst, PastFirstIn, PastFirst, Stored,
         PreparedOwn, Prepares, Unused, Accepted
<1>3. FailingEmpty' /\ (faults' = 0 => \A t \in Traces : FinishOwed(t)')
  BY DEF RuntimeInv, FailingEmpty, FinishOwed, IsFinished, Stored
<1>. QED BY <1>1, <1>2, <1>3 DEF RuntimeInv

(* Both sides start with nothing in hand.                                  *)
LEMMA RuntimeInitInv == PluginRuntimeInit => RuntimeInv
<1>. SUFFICES ASSUME PluginRuntimeInit
              PROVE  RuntimeInv
  OBVIOUS
<1>1. HandlerInv
  BY ServerInitInv DEF PluginRuntimeInit, SchedulerInit, ServerInit
<1>2. WorkerInv
  BY SchedulerInitInv DEF PluginRuntimeInit
<1>3. \A w \in Workers : worker[w] = Idle
  BY DEF PluginRuntimeInit, SchedulerInit
<1>4. ItemsPastFirst
  BY <1>3, IdleType DEF ItemsPastFirst, PastFirstIn
<1>5. PreparedOwn
  BY <1>3 DEF PreparedOwn, Prepares, Idle
<1>6. \A t \in Traces : ~Stored(t)
  BY DEF PluginRuntimeInit, SchedulerInit, StoreInit, Stored
<1>7. FailingEmpty
  BY DEF PluginRuntimeInit, NoInvoke, FailingEmpty
<1>. QED BY <1>1, <1>2, <1>4, <1>5, <1>6, <1>7 DEF RuntimeInv, FinishOwed, IsFinished

(* RuntimeInv is inductive: the invariants of the handlers and of the      *)
(* workers hold of the two together.                                       *)
THEOREM RuntimeInvariant == PluginRuntimeSpec => []RuntimeInv
<1>1. PluginRuntimeInit => RuntimeInv
  BY RuntimeInitInv
<1>2. RuntimeInv /\ [PluginRuntimeNext]_runtimeVars => RuntimeInv'
  <2>. SUFFICES ASSUME RuntimeInv, [PluginRuntimeNext]_runtimeVars
                PROVE  RuntimeInv'
    OBVIOUS
  <2>. clock \in Nat
    BY ServerTypes DEF RuntimeInv
  <2>1. CASE WorkerNext
    BY <2>1, WorkerStepKeeps DEF WorkerNext
  <2>2. CASE HandlerNext
    BY <2>2, HandlerNextFrame, HandlerStepKeeps
  <2>3. CASE RuntimeTick
    BY <2>3, ClockStepKeeps DEF RuntimeTick, Tick
  <2>4. CASE UNCHANGED runtimeVars
    BY <2>4, ClockStepKeeps DEF runtimeVars
  <2>. QED BY <2>1, <2>2, <2>3, <2>4 DEF PluginRuntimeNext
<1>. QED BY <1>1, <1>2, PTL DEF PluginRuntimeSpec

(* The first step of a trace, in the server, and a worker's step of it     *)
(* never run at once.                                                      *)
THEOREM FirstStepIsAlone == PluginRuntimeSpec => []FirstStepAlone
<1>1. RuntimeInv => FirstStepAlone
  <2>. SUFFICES ASSUME RuntimeInv, NEW t \in Traces, NEW w \in Workers, Running(w, t)
                PROVE  invoke[t].pc # "run"
    BY DEF FirstStepAlone
  <2>1. /\ WorkerInv /\ worker[w].pc = "run" /\ RunningItem(w).trace = t
    BY DEF RuntimeInv, Running
  <2>2. /\ RunningItem(w) = worker[w].batch[1]
        /\ worker[w].batch \in Seq(ItemType) /\ worker[w].batch # <<>>
    BY <2>1, RunningStep, WorkerFields
  <2>3. 1 \in 1..Len(worker[w].batch)
    BY <2>2, HeadAndTail
  <2>4. rows[t].state # "EMPTY"
    BY <2>1, <2>2, <2>3 DEF RuntimeInv, ItemsPastFirst, PastFirstIn, PastFirst
  <2>. QED BY <2>4 DEF RuntimeInv, HandlerInv, InvokeOf
<1>. QED BY <1>1, RuntimeInvariant, PTL

(* While nothing fails, whoever makes a trace final tells its caller, no   *)
(* matter how the server and the workers interleave.                       *)
THEOREM NoFinishIsDropped == PluginRuntimeSpec => []EveryFinishNotified
<1>1. RuntimeInv => EveryFinishNotified
  <2>. SUFFICES ASSUME RuntimeInv, faults = 0, NEW t \in Traces, Stored(t),
                       IsFinal(rows[t].state)
                PROVE  \/ notified[t] > 0
                       \/ invoke[t].pc = "stepped"
                       \/ \E w \in Workers : OwesNotification(w, t)
    BY DEF EveryFinishNotified
  <2>1. FinishOwed(t) /\ IsFinished(t) /\ WorkerInv
    BY DEF RuntimeInv, IsFinished
  <2>2. ASSUME NEW w \in Workers, WillNotify(worker[w], t)
        PROVE  OwesNotification(w, t)
    BY <2>1, <2>2, WorkerFields DEF WillNotify, OwesNotification, RunningItem
  <2>. QED BY <2>1, <2>2 DEF FinishOwed
<1>. QED BY <1>1, RuntimeInvariant, PTL

(* With the real workers in the place of the server's own abstraction of   *)
(* them, an accepted callback's wait does not end in CALLBACK_TIMEOUT      *)
(* either.                                                                 *)
THEOREM AcceptedIsInTime == PluginRuntimeSpec => []AcceptedNotTimedOut
<1>1. RuntimeInv => AcceptedNotTimedOut
  BY AcceptedInTime DEF RuntimeInv
<1>. QED BY <1>1, RuntimeInvariant, PTL

(* ... a token is accepted once, what was accepted is kept, and no row is  *)
(* left behind in EMPTY.                                                   *)
THEOREM HandlersKeepTheirPromises ==
  PluginRuntimeSpec => [](AcceptedOnce /\ AcceptedIsKept /\ EmptyRowHasRequest)
<1>1. RuntimeInv => AcceptedOnce /\ AcceptedIsKept /\ EmptyRowHasRequest
  BY DEF RuntimeInv, HandlerInv, PostOf, Accepted, KeptBy, AcceptedIsKept
<1>. QED BY <1>1, RuntimeInvariant, PTL

-----------------------------------------------------------------------------
(* Leases that cover steps: the workers among the handlers, under the      *)
(* settings of Punctual and while no mark of a first step both fails and   *)
(* takes effect.                                                           *)

(* A handler never touches a row some worker holds: its row is new, still  *)
(* in its first step or waits for the callback that has come.              *)
LEMMA HandlerIsOutside ==
  ASSUME RuntimeInv, ~LostAcks, NEW t, HandlerTouches(t)
  PROVE  t \in Traces /\ OutsideRow(t)
<1>1. t \in Traces /\ HandlerInv /\ InvokeOf(t)
  BY DEF HandlerTouches, RuntimeInv, HandlerInv
<1>2. invoke[t].pc \in {"run", "failing"} => rows[t].state = "EMPTY"
  BY <1>1 DEF RuntimeInv, FailingEmpty, InvokeOf
<1>. QED BY <1>1, <1>2 DEF HandlerTouches, OutsideRow

(* LeaseInv is inductive among the handlers too. *)
LEMMA LeaseRuntimeNext ==
  ASSUME Punctual, ~LostAcks, RuntimeInv, RuntimeInv', LeaseInv,
         [PluginRuntimeNext]_runtimeVars
  PROVE  LeaseInv' /\ FinalRowsKept
<1>1. CASE WorkerNext \/ RuntimeTick \/ UNCHANGED runtimeVars
  <2>1. [SchedulerNext]_vars
    BY <1>1 DEF WorkerNext, RuntimeTick, runtimeVars, vars, SchedulerNext
  <2>. QED BY <2>1, LeaseNext, FinalRowKept
<1>2. CASE HandlerNext
  <2>1. HandlerFrame
    BY <1>2, HandlerNextFrame
  <2>2. UNCHANGED rows \/ \E t \in Traces : OutsideRow(t)
    BY <2>1, HandlerIsOutside DEF HandlerFrame
  <2>3. faults' \in Nat /\ faults <= faults'
    BY <2>1, ServerTypes, FaultCounts DEF HandlerFrame, RuntimeInv
  <2>4. WorkerInv' /\ NotifiesFinal /\ UNCHANGED <<clock, worker>>
    BY <2>1 DEF HandlerFrame, RuntimeInv
  <2>. QED BY <2>2, <2>3, <2>4, LeaseOthersKeep
<1>. QED BY <1>1, <1>2 DEF PluginRuntimeNext

(* A running step is covered by its lease, whatever the server does        *)
(* meanwhile.                                                              *)
THEOREM RuntimeLeaseInvariant ==
  ASSUME Punctual, ~LostAcks
  PROVE  PluginRuntimeSpec => []LeaseInv
<1>1. PluginRuntimeInit => LeaseInv
  BY LeaseInit DEF PluginRuntimeInit
<1>2. RuntimeInv /\ RuntimeInv' /\ LeaseInv /\ [PluginRuntimeNext]_runtimeVars
        => LeaseInv'
  BY LeaseRuntimeNext
<1>. QED BY <1>1, <1>2, RuntimeInvariant, PTL DEF PluginRuntimeSpec

(* Every step of a trace after its first is run by one worker at a time,   *)
(* and with its lease in force.                                            *)
THEOREM RuntimeStepsAreExclusive ==
  ASSUME Punctual, ~LostAcks
  PROVE  PluginRuntimeSpec => [](StepMutex /\ LeaseCoversStep)
<1>1. LeaseInv => StepMutex /\ LeaseCoversStep
  BY LeaseIsCurrent DEF StepMutex, LeaseCoversStep, Running
<1>. QED BY <1>1, RuntimeLeaseInvariant, PTL

(* A finish callback, of the server or of a worker, tells of an end that   *)
(* lasts.                                                                  *)
THEOREM RuntimeEndsLast ==
  ASSUME Punctual, ~LostAcks
  PROVE  PluginRuntimeSpec => []NotifiedIsFinal
<1>1. LeaseInv => NotifiedIsFinal
  BY DEF LeaseInv
<1>. QED BY <1>1, RuntimeLeaseInvariant, PTL

(* Neither the server nor a worker changes a row whose state is final.     *)
THEOREM RuntimeFinalRowsAreFrozen ==
  ASSUME Punctual, ~LostAcks
  PROVE  PluginRuntimeSpec => FinalRowFrozen
<1>1. RuntimeInv /\ RuntimeInv' /\ LeaseInv /\ [PluginRuntimeNext]_runtimeVars =>
        [\A t \in Traces : Stored(t) /\ IsFinal(rows[t].state) =>
           rows'[t] = rows[t]]_vars
  BY LeaseRuntimeNext DEF FinalRowsKept
<1>. QED BY <1>1, RuntimeInvariant, RuntimeLeaseInvariant, PTL
         DEF PluginRuntimeSpec, FinalRowFrozen

-----------------------------------------------------------------------------
(* The refinement, with the server's handlers in the place of ServerStep.  *)

(* Among the handlers too, what a worker is about to run fits its row. *)
LEMMA FollowRuntimeNext ==
  ASSUME Punctual, ~LostAcks, PollsOutlastSkew, RuntimeInv, LeaseInv,
         NEW exempt, FollowsBut(exempt), "CALLBACK" \in exempt \/ NoAnswerOvertakes,
         [PluginRuntimeNext]_runtimeVars
  PROVE  FollowsBut(exempt)'
<1>1. CASE WorkerNext \/ RuntimeTick \/ UNCHANGED runtimeVars
  <2>1. [SchedulerNext]_vars
    BY <1>1 DEF WorkerNext, RuntimeTick, runtimeVars, vars, SchedulerNext
  <2>. QED BY <2>1, FollowNext
<1>2. CASE HandlerNext
  <2>1. HandlerFrame
    BY <1>2, HandlerNextFrame
  <2>2. UNCHANGED worker /\ (UNCHANGED rows \/ \E t \in Traces : OutsideRow(t))
    BY <2>1, HandlerIsOutside DEF HandlerFrame
  <2>. QED BY <2>2, FollowOutside
<1>. QED BY <1>1, <1>2 DEF PluginRuntimeNext

LEMMA FollowRuntime ==
  ASSUME Punctual, ~LostAcks, PollsOutlastSkew
  PROVE  PluginRuntimeSpec /\ AnswersAwaitClaims => []FollowInv
<1>1. PluginRuntimeInit => FollowInv
  BY FollowInit DEF PluginRuntimeInit
<1>2. RuntimeInv /\ LeaseInv /\ FollowInv /\ [PluginRuntimeNext]_runtimeVars
        /\ [NoAnswerOvertakes]_rows => FollowInv'
  BY FollowRuntimeNext DEF FollowInv, NoAnswerOvertakes
<1>. QED BY <1>1, <1>2, RuntimeInvariant, RuntimeLeaseInvariant, PTL
         DEF PluginRuntimeSpec, AnswersAwaitClaims

(* Whatever overtakes what: a step found for a poll runs on what its row   *)
(* holds, and one found for an answer on a row that has an answer, be it   *)
(* that of a later wait.                                                   *)
StepFollowsOrWaitedAgain ==
  \A t \in Traces, w \in Workers : Running(w, t) =>
    \/ Follows(RunningItem(w), rows[t])
    \/ RunningItem(w).state = "CALLBACK" /\ DueCallback(rows[t])

(* No hypothesis on plugins or third parties: the only way a step can run  *)
(* on a stale snapshot is that its row has waited and been answered again. *)
THEOREM StaleStepsHaveWaitedAgain ==
  ASSUME Punctual, ~LostAcks, PollsOutlastSkew
  PROVE  PluginRuntimeSpec => []StepFollowsOrWaitedAgain
<1>1. PluginRuntimeInit => PollFollowInv
  BY FollowInit DEF PluginRuntimeInit
<1>2. RuntimeInv /\ LeaseInv /\ PollFollowInv /\ [PluginRuntimeNext]_runtimeVars
        => PollFollowInv'
  BY FollowRuntimeNext DEF PollFollowInv
<1>3. LeaseInv /\ PollFollowInv => StepFollowsOrWaitedAgain
  <2>. SUFFICES ASSUME LeaseInv, PollFollowInv, NEW t \in Traces, NEW w \in Workers,
                       Running(w, t), RunningItem(w).state = "CALLBACK"
                PROVE  \/ Follows(RunningItem(w), rows[t])
                       \/ DueCallback(rows[t])
    BY DEF StepFollowsOrWaitedAgain, PollFollowInv, FollowsBut, FollowOf, RunsOn, Running
  <2>. QED BY DEF LeaseInv, Leases, PollFollowInv, FollowsBut, FollowOf, RunsOn, Running
<1>. QED BY <1>1, <1>2, <1>3, RuntimeInvariant, RuntimeLeaseInvariant, PTL
         DEF PluginRuntimeSpec

(* A later step runs on what its row holds, whatever the server did to it, *)
(* unless its row was answered for a later wait before the claim.          *)
THEOREM RuntimeStepsFollowRows ==
  ASSUME Punctual, ~LostAcks, PollsOutlastSkew
  PROVE  PluginRuntimeSpec /\ AnswersAwaitClaims => []StepFollowsRow
<1>1. FollowInv => StepFollowsRow
  BY DEF FollowInv, FollowsBut, FollowOf, RunsOn, Follows, StepFollowsRow, Running
<1>. QED BY <1>1, FollowRuntime, PTL

(* Every step of the runtime is a step of the lifecycle, or none. *)
LEMMA RuntimeStepLifecycle ==
  ASSUME Punctual, ~LostAcks, RuntimeInv, LeaseInv, StepFollowsRow,
         [PluginRuntimeNext]_runtimeVars
  PROVE  [Lifecycle!Next]_Lifecycle!lifecycleVars
<1>1. CASE WorkerNext \/ RuntimeTick \/ UNCHANGED runtimeVars
  <2>1. [SchedulerNext]_vars
    BY <1>1 DEF WorkerNext, RuntimeTick, runtimeVars, vars, SchedulerNext
  <2>. QED BY <2>1, SchedulerStepLifecycle
<1>2. CASE HandlerNext
  <2>1. HandlerFrame
    BY <1>2, HandlerNextFrame
  <2>. QED BY <2>1, HandlerIsOutside, RowsStepLifecycle DEF HandlerFrame
<1>. QED BY <1>1, <1>2 DEF PluginRuntimeNext

(* Server and workers together implement the lifecycle the caller sees,    *)
(* however often a plugin waits, as long as no answer to a later wait      *)
(* overtakes a claim.                                                      *)
THEOREM RuntimeImplementsLifecycle ==
  ASSUME Punctual, ~LostAcks, PollsOutlastSkew
  PROVE  PluginRuntimeSpec /\ AnswersAwaitClaims => ImplementsLifecycle
<1>1. PluginRuntimeInit => Lifecycle!Init
  BY LifecycleInit DEF PluginRuntimeInit, SchedulerInit
<1>2. RuntimeInv /\ LeaseInv /\ StepFollowsRow /\ [PluginRuntimeNext]_runtimeVars
        => [Lifecycle!Next]_Lifecycle!lifecycleVars
  BY RuntimeStepLifecycle
<1>. QED BY <1>1, <1>2, RuntimeInvariant, RuntimeLeaseInvariant,
         RuntimeStepsFollowRows, PTL
         DEF PluginRuntimeSpec, ImplementsLifecycle, Lifecycle!Spec

-----------------------------------------------------------------------------
(* What a row has received, a request was told is accepted: nobody else    *)
(* writes receipts, and only a new wait takes one away.                    *)

ReceivedFrom(t) ==
  \E p \in Posts : /\ Accepted(p)
                   /\ post[p].hash = rows[t].tokenHash
                   /\ post[p].data = rows[t].callbackData

ReceivedInv ==
  faults = 0 =>
    \A t \in Traces : Stored(t) /\ rows[t].receivedAt # Null => ReceivedFrom(t)

(* The row of u keeps its receipt, or has none. *)
KeepsReceipt(u) ==
  \/ rows'[u] = Null \/ rows'[u].receivedAt = Null
  \/ Stored(u) /\ SameWait(u)

LEMMA ReceiptsAreKept ==
  ASSUME ReceivedInv, faults' = 0 => faults = 0, \A u \in Traces : KeepsReceipt(u),
         \A p \in Posts : Accepted(p) => post'[p] = post[p]
  PROVE  ReceivedInv'
BY DEF ReceivedInv, ReceivedFrom, KeepsReceipt, SameWait, Stored, Accepted

(* A mark does so, ... *)
LEMMA MarkKeepsReceipt ==
  ASSUME NEW t \in Traces, Stored(t), rows[t] \in Schedule, NEW n \in InvokeCounts,
         NEW now, MarkedRow(rows[t], n, now, rows'[t])
  PROVE  KeepsReceipt(t)
<1>1. CASE \E after \in Delays : rows'[t] = PollRow(rows[t], n, now + after)
  BY <1>1 DEF PollRow, Schedule, KeepsReceipt, SameWait
<1>2. CASE \E hash \in Hashes, expires \in Nat :
             rows'[t] = CallbackRow(rows[t], n, hash, expires)
  BY <1>2 DEF CallbackRow, Schedule, KeepsReceipt
<1>3. CASE rows'[t] = SuccessRow(rows[t], n) \/ rows'[t] = FailRow(rows[t], n)
  BY <1>3 DEF SuccessRow, FailRow, Schedule, KeepsReceipt, SameWait
<1>. QED BY <1>1, <1>2, <1>3 DEF MarkedRow

(* ... and so does every other statement of a worker, ... *)
LEMMA RowByKeepsReceipt ==
  ASSUME WorkerInv, NEW w \in Workers, NEW t \in Traces, RowBy(w, t)
  PROVE  KeepsReceipt(t)
<1>1. rows[t] \in Schedule /\ Stored(t)
  BY WorkerTypes, StoredRow DEF RowBy
<1>2. CASE worker[w].pc = "run" /\ MarkedRow(rows[t], StepCount(w), HostClock(w), rows'[t])
  BY <1>1, <1>2, RunningStep, MarkKeepsReceipt
<1>3. CASE rows'[t] = ExpiredRow(rows[t])
  BY <1>1, <1>3 DEF ExpiredRow, Schedule, KeepsReceipt, SameWait
<1>4. CASE \E data \in Payloads : \/ rows'[t] = [rows[t] EXCEPT !.outputs = data]
                                 \/ rows'[t] = [rows[t] EXCEPT !.contextData = data]
  BY <1>1, <1>4 DEF Schedule, KeepsReceipt, SameWait
<1>5. CASE \/ rows'[t] = [rows[t] EXCEPT !.lockedBy = w, !.lockedUntil = LockUntil(w)]
           \/ rows'[t] = [rows[t] EXCEPT !.lockedUntil = HostClock(w) + LockFor]
  BY <1>1, <1>5 DEF Schedule, KeepsReceipt, SameWait
<1>. QED BY <1>2, <1>3, <1>4, <1>5 DEF RowBy

LEMMA WorkerKeepsReceipts ==
  ASSUME RuntimeInv, NEW w \in Workers, SchedulerStep(w) \/ SchedulerFault(w)
  PROVE  (faults' = 0 => faults = 0) /\ \A u \in Traces : KeepsReceipt(u)
<1>1. WorkerInv /\ StoreInv /\ RuntimeTypeOK
  BY WorkerTypes DEF RuntimeInv
<1>2. PICK r : WorkerFrame(w, r)
  BY <1>1, WorkerStepFrame
<1>3. faults' = 0 => faults = 0
  BY <1>1, <1>2, FaultCounts DEF WorkerFrame
<1>4. ASSUME NEW u \in Traces
      PROVE  KeepsReceipt(u)
  <2>1. CASE UNCHANGED rows
    BY <2>1 DEF KeepsReceipt, SameWait, Stored
  <2>2. CASE \E t \in Traces : RowBy(w, t)
    <3>1. PICK t \in Traces : RowBy(w, t)
      BY <2>2
    <3>2. CASE u = t
      BY <1>1, <3>1, <3>2, RowByKeepsReceipt
    <3>3. CASE u # t
      <4>1. rows'[u] = rows[u]
        BY <1>1, <3>1, <3>3, OtherRowsAreKept DEF RowBy
      <4>. QED BY <4>1 DEF KeepsReceipt, SameWait, Stored
    <3>. QED BY <3>2, <3>3
  <2>. QED BY <1>2, <2>1, <2>2 DEF WorkerFrame
<1>. QED BY <1>3, <1>4

(* ... and the first step, ... *)
LEMMA InvokeKeepsReceipts ==
  ASSUME RuntimeInv, NEW t \in Traces, ServerStepOf(t) \/ ServerFaultOf(t)
  PROVE  /\ UNCHANGED post /\ (faults' = 0 => faults = 0)
         /\ \A u \in Traces : KeepsReceipt(u)
<1>1. /\ HandlerInv /\ StoreInv /\ RuntimeTypeOK /\ clock \in Nat /\ 1 \in InvokeCounts
      /\ InvokeOf(t)
  BY ServerTypes, RuntimeAssumption DEF RuntimeInv, HandlerInv
<1>2. UNCHANGED post /\ (UNCHANGED faults \/ Fault)
  BY DEF ServerStepOf, ServerFaultOf, InvokeCreate, InvokeCreateError, InvokeWrites,
         InvokePrepares, InvokeStepEnds, InvokeStepError, InvokeFails,
         InvokeReadBack, InvokeAborted, WriteOutputs, WriteContext
<1>3. faults' = 0 => faults = 0
  BY <1>1, <1>2, FaultCounts
<1>4. UNCHANGED rows \/ (Statement(t) /\ KeepsReceipt(t))
  <2>1. CASE Create(t, 1, clock)
    <3>1. Statement(t) /\ rows'[t] = NewSchedule(1, clock)
      BY <1>1, <2>1, CreateEffect
    <3>2. NewSchedule(1, clock).receivedAt = Null
      BY DEF NewSchedule
    <3>. QED BY <3>1, <3>2 DEF KeepsReceipt
  <2>2. CASE \E data \in Payloads : UpdateOutputs(t, data) \/ UpdateContextData(t, data)
    BY <1>1, <2>2, WriteEffect DEF KeepsReceipt
  <2>3. CASE /\ invoke[t].pc \in {"run", "failing"}
             /\ MarksLater(t, 1, invoke[t].prepared, clock)
    <3>1. Stored(t) /\ PreparedFor(t, invoke[t].prepared)
      BY <1>1, <2>3 DEF InvokeOf
    <3>2. Statement(t) /\ MarkedRow(rows[t], 1, clock, rows'[t])
      BY <1>1, <2>3, <3>1, FirstMark
    <3>. QED BY <1>1, <3>1, <3>2, StoredRow, MarkKeepsReceipt
  <2>4. \/ UNCHANGED rows
        \/ Create(t, 1, clock)
        \/ \E data \in Payloads : UpdateOutputs(t, data) \/ UpdateContextData(t, data)
        \/ /\ invoke[t].pc \in {"run", "failing"}
           /\ MarksLater(t, 1, invoke[t].prepared, clock)
    <3>1. CASE InvokeWrites(t)
      BY <3>1, RuntimeAssumption DEF InvokeWrites, WriteOutputs, WriteContext
    <3>2. CASE InvokeCreate(t) \/ InvokeCreateError(t)
      BY <3>2 DEF InvokeCreate, InvokeCreateError
    <3>3. CASE InvokePrepares(t) \/ InvokeReadBack(t) \/ InvokeAborted(t)
      BY <3>3 DEF InvokePrepares, PrepareCallback, InvokeReadBack, InvokeAborted
    <3>4. CASE InvokeStepEnds(t) \/ InvokeFails(t) \/ InvokeStepError(t)
      BY <3>4 DEF InvokeStepEnds, InvokeFails, InvokeStepError, InvokeWaits, MarksLater,
                  SetSuccess, SetFail
    <3>. QED BY <3>1, <3>2, <3>3, <3>4 DEF ServerStepOf, ServerFaultOf
  <2>. QED BY <2>1, <2>2, <2>3, <2>4
<1>5. \A u \in Traces : KeepsReceipt(u)
  BY <1>1, <1>4, OtherRowsAreKept DEF KeepsReceipt, SameWait, Stored
<1>. QED BY <1>2, <1>3, <1>5

(* ... and a callback request writes the receipt and is answered at once.  *)
LEMMA PostWritesReceipt ==
  ASSUME RuntimeInv, ReceivedInv, NEW p \in Posts, PostStep(p) \/ PostError(p)
  PROVE  ReceivedInv'
<1>1. /\ HandlerInv /\ StoreInv /\ RuntimeTypeOK /\ PostOf(p)
      /\ post \in [Posts -> PostType]
  BY ServerTypes DEF RuntimeInv, HandlerInv, ServerTypeOK, PostType
<1>2. post[p].pc # "done" /\ \E r : post' = [post EXCEPT ![p] = r]
  BY DEF PostStep, PostArrives, PostUpdates, PostLooksUp, PostError, PostAnswered
<1>3. ~Accepted(p)
  BY <1>1, <1>2 DEF PostOf, Accepted
<1>4. \A q \in Posts : Accepted(q) => post'[q] = post[q]
  BY <1>1, <1>2, <1>3
<1>5. CASE faults' # 0
  BY <1>5 DEF ReceivedInv
<1>6. CASE faults' = 0
  <2>1. PostStep(p) /\ UNCHANGED faults
    BY <1>1, <1>6, FaultCounts
       DEF PostError, PostStep, PostArrives, PostUpdates, PostLooksUp
  <2>2. CASE UNCHANGED rows
    BY <1>4, <2>1, <2>2, ReceiptsAreKept DEF KeepsReceipt, SameWait, Stored
  <2>3. CASE /\ post[p].pc = "update" /\ Receives(p)
             /\ PostAnswered(p, "accepted")
    <3>1. PICK t \in Traces : /\ Statement(t)
                             /\ rows'[t].tokenHash = post[p].hash
                             /\ rows'[t].callbackData = post[p].data
      BY <1>1, <2>3, ReceivesEffect
    <3>2. /\ post'[p].answer = "accepted"
          /\ post'[p].hash = post[p].hash /\ post'[p].data = post[p].data
      BY <1>1, <2>3 DEF PostAnswered, PostType
    <3>3. ReceivedFrom(t)'
      BY <3>1, <3>2 DEF ReceivedFrom, Accepted
    <3>4. ASSUME NEW u \in Traces, u # t, rows'[u] # Null, rows'[u].receivedAt # Null
          PROVE  ReceivedFrom(u)'
      <4>1. rows'[u] = rows[u]
        BY <1>1, <3>1, <3>4, OtherRowsAreKept
      <4>2. ReceivedFrom(u)
        BY <1>6, <2>1, <3>4, <4>1 DEF ReceivedInv, Stored
      <4>. QED BY <1>4, <4>1, <4>2 DEF ReceivedFrom, Accepted
    <3>. QED BY <3>3, <3>4 DEF ReceivedInv, Stored
  <2>4. \/ UNCHANGED rows
        \/ post[p].pc = "update" /\ Receives(p) /\ PostAnswered(p, "accepted")
    BY <2>1 DEF PostStep, PostArrives, PostUpdates, PostLooksUp, Receives
  <2>. QED BY <2>2, <2>3, <2>4
<1>. QED BY <1>5, <1>6

(* While nothing fails, every receipt a row has is that of a request that  *)
(* was answered with success, and of its payload.                          *)
THEOREM ReceiptsWereAccepted == PluginRuntimeSpec => []ReceivedInv
<1>1. PluginRuntimeInit => ReceivedInv
  BY DEF PluginRuntimeInit, SchedulerInit, StoreInit, ReceivedInv, Stored
<1>2. RuntimeInv /\ ReceivedInv /\ [PluginRuntimeNext]_runtimeVars => ReceivedInv'
  <2>. SUFFICES ASSUME RuntimeInv, ReceivedInv, [PluginRuntimeNext]_runtimeVars
                PROVE  ReceivedInv'
    OBVIOUS
  <2>1. CASE WorkerNext
    BY <2>1, WorkerKeepsReceipts, ReceiptsAreKept DEF WorkerNext
  <2>2. CASE HandlerNext
    BY <2>2, InvokeKeepsReceipts, ReceiptsAreKept, PostWritesReceipt DEF HandlerNext
  <2>3. CASE RuntimeTick \/ UNCHANGED runtimeVars
    BY <2>3 DEF RuntimeTick, Tick, runtimeVars, ReceivedInv, ReceivedFrom, Stored,
                Accepted
  <2>. QED BY <2>1, <2>2, <2>3 DEF PluginRuntimeNext
<1>. QED BY <1>1, <1>2, RuntimeInvariant, PTL DEF PluginRuntimeSpec

(* The payload a step reads is that of the callback its row waited for, if *)
(* no answer to a later wait overtakes the claim.                          *)
THEOREM StepsReadAcceptedCallbacks ==
  ASSUME Punctual, ~LostAcks, PollsOutlastSkew
  PROVE  PluginRuntimeSpec /\ AnswersAwaitClaims => []StepReadsAcceptedCallback
<1>1. LeaseInv /\ FollowInv /\ ReceivedInv => StepReadsAcceptedCallback
  <2>. SUFFICES ASSUME LeaseInv, FollowInv, ReceivedInv, NEW w \in Workers,
                       NEW t \in Traces, Running(w, t),
                       RunningItem(w).state = "CALLBACK", faults = 0
                PROVE  \E p \in Posts : /\ post[p].answer = "accepted"
                                        /\ post[p].hash = rows[t].tokenHash
                                        /\ post[p].data = RunningItem(w).callbackData
    BY DEF StepReadsAcceptedCallback
  <2>1. worker[w].pc = "run" /\ RunningItem(w).trace = t
    BY DEF Running
  <2>2. Stored(t) /\ Follows(RunningItem(w), rows[t])
    BY <2>1 DEF LeaseInv, Leases, FollowInv, FollowsBut, FollowOf, RunsOn
  <2>3. rows[t].receivedAt # Null
    BY <2>1, <2>2 DEF LeaseInv, Leases, Follows, DueCallback
  <2>. QED BY <2>2, <2>3 DEF ReceivedInv, ReceivedFrom, Accepted, Follows
<1>. QED BY <1>1, RuntimeLeaseInvariant, FollowRuntime, ReceiptsWereAccepted, PTL

-----------------------------------------------------------------------------
(* No answer overtakes a claim where no row waits twice, and none does     *)
(* where no second token is issued.                                        *)

(* No row waits for a callback again once it received one. *)
NoSecondWait ==
  \A t \in Traces : Stored(t) /\ rows[t].receivedAt # Null =>
    rows'[t].receivedAt # Null

WaitsOnce == [][NoSecondWait]_rows

ReceiptHasToken ==
  \A t \in Traces : Stored(t) /\ rows[t].receivedAt # Null =>
    rows[t].tokenHash # Null

LEMMA ReceiptHasTokenNext ==
  ASSUME RuntimeInv, ReceiptHasToken, [PluginRuntimeNext]_runtimeVars
  PROVE  ReceiptHasToken'
<1>1. CASE \A u \in Traces : KeepsReceipt(u)
  BY <1>1 DEF ReceiptHasToken, KeepsReceipt, SameWait, Stored
<1>2. ASSUME NEW p \in Posts, PostStep(p) \/ PostError(p)
      PROVE  ReceiptHasToken'
  <2>1. CASE UNCHANGED rows
    BY <2>1 DEF ReceiptHasToken, Stored
  <2>2. CASE post[p].pc = "update" /\ Receives(p)
    <3>1. HandlerInv /\ StoreInv /\ RuntimeTypeOK /\ PostOf(p)
      BY ServerTypes DEF RuntimeInv, HandlerInv
    <3>2. PICK t \in Traces : Statement(t) /\ rows'[t].tokenHash = post[p].hash
      BY <2>2, <3>1, ReceivesEffect
    <3>3. post[p].hash # Null
      BY <2>2, <3>1, TokenTypes, NullAssumption DEF PostOf, Issued
    <3>. QED BY <3>1, <3>2, <3>3, OtherRowsAreKept DEF ReceiptHasToken, Stored
  <2>. QED BY <1>2, <2>1, <2>2
           DEF PostStep, PostArrives, PostUpdates, PostLooksUp, PostError, Receives
<1>3. CASE RuntimeTick \/ UNCHANGED runtimeVars
  BY <1>3 DEF RuntimeTick, Tick, runtimeVars, ReceiptHasToken, Stored
<1>. QED BY <1>1, <1>2, <1>3, WorkerKeepsReceipts, InvokeKeepsReceipts
         DEF PluginRuntimeNext, WorkerNext, HandlerNext

(* The only token is the one the row has received a callback for.          *)
LEMMA WorkerWaitsOnce ==
  ASSUME MaxTokens <= 1, RuntimeInv, ReceiptHasToken,
         NEW w \in Workers, SchedulerStep(w) \/ SchedulerFault(w)
  PROVE  NoSecondWait
<1>. SUFFICES ASSUME NEW u \in Traces, Stored(u), rows[u].receivedAt # Null
              PROVE  rows'[u].receivedAt # Null
  BY DEF NoSecondWait
<1>1. /\ HandlerInv /\ WorkerInv /\ ItemsPastFirst /\ PreparedOwn
      /\ StoreInv /\ RuntimeTypeOK
  BY WorkerTypes DEF RuntimeInv
<1> DEFINE hash == rows[u].tokenHash
<1>2. Issued(hash)
  BY <1>1 DEF ReceiptHasToken, HandlerInv, TokenInv, PreparedFor
<1>3. CASE UNCHANGED rows
  BY <1>3
<1>4. ASSUME NEW t, WorkerTouches(w, t)
      PROVE  rows'[u].receivedAt # Null
  <2>1. CASE UNCHANGED rows \/ u # t
    BY <1>1, <1>4, <2>1, OtherRowsAreKept DEF WorkerTouches, PastFirst
  <2>2. CASE u = t /\ SameWait(u)
    BY <2>2 DEF SameWait
  <2>3. CASE u = t /\ ~SameWait(u)
    <3>1. rows'[u].tokenHash \in DOMAIN tokens'
      BY <1>4, <2>3 DEF WorkerTouches, WaitStep, NewWait
    <3>2. tokens' \in Seq(Token) /\ Len(tokens') <= MaxTokens
      BY <1>4 DEF WorkerTouches, TokensGrow
    <3>3. hash \in 1..MaxTokens /\ rows'[u].tokenHash \in 1..MaxTokens
      BY <1>1, <1>2, <3>1, <3>2, TokenTypes, RuntimeAssumption DEF Issued
    <3>4. rows'[u].tokenHash = hash
      BY <3>3, RuntimeAssumption
    <3>5. Uses(w, hash)
      BY <1>2, <1>4, <2>3, <3>4 DEF WorkerTouches
    <3>6. Unused(hash)
      BY <1>1, <3>3, <3>5, RuntimeAssumption DEF PreparedOwn, Uses
    <3>. QED BY <3>6 DEF Unused
  <2>. QED BY <2>1, <2>2, <2>3
<1>. QED BY <1>1, <1>3, <1>4, WorkerStepTouches

LEMMA HandlerWaitsOnce ==
  ASSUME RuntimeInv, ReceiptHasToken, HandlerNext
  PROVE  NoSecondWait
<1>. SUFFICES ASSUME NEW u \in Traces, Stored(u), rows[u].receivedAt # Null
              PROVE  rows'[u].receivedAt # Null
  BY DEF NoSecondWait
<1>1. HandlerInv /\ StoreInv /\ InvokeOf(u)
  BY ServerTypes DEF RuntimeInv, HandlerInv
<1>2. ASSUME NEW t \in Traces, ServerStepOf(t) \/ ServerFaultOf(t)
      PROVE  rows'[u].receivedAt # Null
  <2>1. KeepsReceipt(u)
    BY <1>2, InvokeKeepsReceipts
  <2>2. CASE u = t
    <3>1. invoke[t].pc # "run"
      BY <1>1, <2>2 DEF InvokeOf, ReceiptHasToken
    <3>2. UNCHANGED rows \/ Create(t, 1, clock) \/ MarkFail(t, 1)
      BY <1>2, <3>1
         DEF ServerStepOf, ServerFaultOf, InvokeCreate, InvokeCreateError, InvokeWrites,
             InvokePrepares, InvokeStepEnds, InvokeStepError, InvokeFails,
             InvokeReadBack, InvokeAborted
    <3>3. ~Create(t, 1, clock)
      BY <2>2 DEF Create
    <3>. QED BY <1>1, <2>2, <3>2, <3>3, MarkEffect, RuntimeAssumption DEF SameWait
  <2>3. CASE u # t
    <3>1. UNCHANGED rows \/ HandlerTouches(t)
      BY <1>1, <1>2, InvokeTouches DEF RuntimeInv
    <3>. QED BY <1>1, <2>3, <3>1, OtherRowsAreKept DEF HandlerTouches
  <2>. QED BY <2>2, <2>3
<1>3. ASSUME NEW p \in Posts, PostStep(p) \/ PostError(p)
      PROVE  rows'[u].receivedAt # Null
  <2>1. UNCHANGED rows \/ (post[p].pc = "update" /\ Receives(p))
    BY <1>3 DEF PostStep, PostArrives, PostUpdates, PostLooksUp, PostError, Receives
  <2>2. CASE post[p].pc = "update" /\ Receives(p)
    <3>1. PICK t \in Traces : Statement(t) /\ rows[t].receivedAt = Null
      BY <1>1, <2>2, ReceivesEffect
    <3>. QED BY <1>1, <3>1, OtherRowsAreKept
  <2>. QED BY <2>1, <2>2
<1>. QED BY <1>2, <1>3 DEF HandlerNext

(* The row of an answered item a worker holds has an answer.               *)
Answered(item) ==
  item.state = "CALLBACK" =>
    /\ item.trace \in Traces /\ Stored(item.trace)
    /\ rows[item.trace].receivedAt # Null

FoundReceived ==
  \A w \in Workers : \A i \in 1..Len(worker[w].found) : Answered(worker[w].found[i])

(* What a worker holds after a step it held before, or has just selected.  *)
LEMMA FoundIsSelected ==
  ASSUME WorkerInv, NEW w \in Workers, SchedulerStep(w) \/ SchedulerFault(w)
  PROVE  \A k \in 1..Len(worker'[w].found) :
           \/ \E i \in 1..Len(worker[w].found) :
                worker'[w].found[k] = worker[w].found[i]
           \/ Answered(worker'[w].found[k])
<1> DEFINE old == worker[w]
<1>1. /\ worker \in [Workers -> WorkerType]
      /\ old \in WorkerType /\ FitsPhase(old)
      /\ old.found \in Seq(ItemType) /\ old.batch \in Seq(ItemType)
  BY WorkerTypes, WorkerFields
<1>2. CASE worker'[w].found = old.found
  BY <1>2
<1>3. CASE worker'[w].found = <<>>
  BY <1>3
<1>4. ASSUME NEW s \in PollCandidates(old.now, Limit) \cup CallbackCandidates(old.now, Limit),
             NEW i \in 1..Len(s)
      PROVE  Answered(s[i])
  <2>1. PICK S \in {PollRows(old.now), CallbackRows(old.now)} : IsSelection(s, S, Limit)
    BY <1>4, WorkerTypes, CandidatesAreSelections
  <2> DEFINE t == s[i].trace
  <2>2. t \in S /\ s[i] = Item(t)
    BY <1>4, <2>1 DEF IsSelection
  <2>3. /\ t \in Traces /\ Stored(t)
        /\ rows[t].state = "POLL" \/ DueCallback(rows[t])
    BY <2>1, <2>2 DEF PollRows, CallbackRows, DuePoll
  <2>4. s[i].state = rows[t].state
    BY <2>2 DEF Item
  <2>. QED BY <2>3, <2>4 DEF Answered, DueCallback
<1>5. CASE SelectPoll(w)
  <2>1. PICK s \in PollCandidates(old.now, Limit) :
          worker' = [worker EXCEPT ![w].pc = "callback", ![w].found = s]
    BY <1>5 DEF SelectPoll
  <2>2. worker'[w].found = s
    BY <1>1, <2>1 DEF WorkerType
  <2>. QED BY <1>4, <2>2
<1>6. CASE SelectCallback(w)
  <2>1. PICK s \in CallbackCandidates(old.now, Limit) :
          LET found == MergeDueCandidates(old.found, s, Limit)
          IN  worker' = [worker EXCEPT ![w] =
                IF found = <<>> THEN Idle
                ELSE [@ EXCEPT !.pc = "claim", !.found = found]]
    BY <1>6 DEF SelectCallback
  <2> DEFINE found == MergeDueCandidates(old.found, s, Limit)
  <2>2. s \in Seq(ItemType) /\ Steppable(s)
    BY FoundByQuery
  <2>3. \A k \in 1..Len(found) :
          \/ \E i \in 1..Len(old.found) : found[k] = old.found[i]
          \/ \E i \in 1..Len(s) : found[k] = s[i]
    BY <1>1, <2>2, FoundByMerge DEF FitsPhase
  <2>4. \/ worker'[w] = Idle
        \/ worker'[w] = [old EXCEPT !.pc = "claim", !.found = found]
    BY <1>1, <2>1
  <2> HIDE DEF found
  <2>5. CASE worker'[w] = Idle
    BY <1>3, <2>5 DEF Idle
  <2>6. CASE worker'[w] = [old EXCEPT !.pc = "claim", !.found = found]
    <3>1. worker'[w].found = found
      BY <1>1, <2>6 DEF WorkerType
    <3>. QED BY <1>4, <2>3, <3>1
  <2>. QED BY <2>4, <2>5, <2>6
<1>7. ASSUME NEW batch \in Seq(ItemType), Steppable(batch), RunNext(w, batch)
      PROVE  worker'[w].found = <<>>
  <2>1. PICK r \in WorkerType : worker' = [worker EXCEPT ![w] = r] /\ r.found = <<>>
    BY <1>7, RunNextEffect
  <2>. QED BY <1>1, <2>1
<1>8. CASE Claim(w)
  <2> DEFINE item == Head(old.found)
             rest == Tail(old.found)
             batch == IF ClaimMatches(rows[item.trace], item.state, old.now)
                      THEN Append(old.batch, item) ELSE old.batch
  <2>1. /\ old.pc = "claim"
        /\ IF rest = <<>> THEN RunNext(w, batch)
           ELSE worker' = [worker EXCEPT ![w].found = rest, ![w].batch = batch]
    BY <1>8 DEF Claim
  <2>2. /\ item \in ItemType /\ item.invokeCount + 1 \in InvokeCounts
        /\ \A i \in 1..Len(rest) : i + 1 \in 1..Len(old.found) /\ rest[i] = old.found[i + 1]
    BY <1>1, <2>1, HeadAndTail DEF FitsPhase, Steppable
  <2>3. batch \in Seq(ItemType) /\ Steppable(batch)
    <3>1. Append(old.batch, item) \in Seq(ItemType) /\ Steppable(Append(old.batch, item))
      BY <1>1, <2>2, AppendOne DEF FitsPhase, Steppable
    <3>. QED BY <1>1, <3>1 DEF FitsPhase
  <2> HIDE DEF item, rest, batch
  <2>4. CASE rest = <<>>
    BY <1>3, <1>7, <2>1, <2>3, <2>4
  <2>5. CASE rest # <<>>
    <3>1. worker'[w].found = rest
      BY <1>1, <2>1, <2>5 DEF WorkerType
    <3>. QED BY <2>2, <3>1
  <2>. QED BY <2>4, <2>5
<1>9. CASE ReadBack(w) \/ ReadBackError(w)
  <2>1. old.pc = "stepped" /\ RunNext(w, Tail(old.batch))
    BY <1>9 DEF ReadBack, ReadBackError
  <2>2. /\ Tail(old.batch) \in Seq(ItemType)
        /\ \A i \in 1..Len(Tail(old.batch)) :
             i + 1 \in 1..Len(old.batch) /\ Tail(old.batch)[i] = old.batch[i + 1]
    BY <1>1, <2>1, HeadAndTail DEF FitsPhase
  <2>3. Steppable(Tail(old.batch))
    BY <1>1, <2>2 DEF FitsPhase, Steppable
  <2>. QED BY <1>3, <1>7, <2>1, <2>2, <2>3
<1>10. CASE ClaimError(w) \/ Crash(w)
  <2>1. worker'[w] = Idle \/ worker'[w] = [Idle EXCEPT !.pc = "dead"]
    BY <1>1, <1>10 DEF ClaimError, Crash
  <2>2. worker'[w].found = <<>>
    BY <2>1 DEF Idle
  <2>. QED BY <1>3, <2>2
<1>11. CASE \/ BeginRound(w) \/ StepWrites(w) \/ StepPrepares(w) \/ StepEnds(w)
            \/ Renew(w) \/ StepError(w) \/ RenewError(w)
  <2>1. \/ UNCHANGED worker
        \/ \E now : worker' = [worker EXCEPT ![w].pc = "expire", ![w].now = now]
        \/ \E hash : worker' = [worker EXCEPT ![w].prepared = hash]
        \/ worker' = [worker EXCEPT ![w].pc = "stepped"]
        \/ \E at : worker' = [worker EXCEPT ![w].renewAt = at]
    BY <1>11 DEF BeginRound, StepWrites, StepPrepares, StepEnds, Renew, StepError,
                 RenewError, Goto
  <2>2. worker'[w].found = old.found
    BY <1>1, <2>1 DEF WorkerType
  <2>. QED BY <1>2, <2>2
<1>12. CASE SelectOverdue(w) \/ ExpireError(w)
  <2>1. \E pc, s, failed :
          \/ worker' = [worker EXCEPT ![w].pc = pc, ![w].overdue = s]
          \/ worker' = [worker EXCEPT ![w].pc = pc, ![w].overdue = s, ![w].failed = failed]
    BY <1>12 DEF SelectOverdue, ExpireError
  <2>2. worker'[w].found = old.found
    BY <1>1, <2>1 DEF WorkerType
  <2>. QED BY <1>2, <2>2
<1>13. ASSUME NEW overdue, NEW failed, ExpireNext(w, overdue, failed)
       PROVE  worker'[w].found = old.found
  <2>1. \E pc, s, f :
          worker' = [worker EXCEPT ![w].pc = pc, ![w].overdue = s, ![w].failed = f]
    BY <1>13 DEF ExpireNext
  <2>. QED BY <1>1, <2>1 DEF WorkerType
<1>14. CASE ExpireRow(w) \/ ExpireGet(w)
  <2>1. CASE Goto(w, "expireGet")
    BY <1>1, <1>2, <2>1 DEF Goto, WorkerType
  <2>2. CASE ~Goto(w, "expireGet")
    <3>1. \E overdue, failed : ExpireNext(w, overdue, failed)
      BY <1>14, <2>2 DEF ExpireRow, ExpireGet
    <3>. QED BY <1>2, <1>13, <3>1
  <2>. QED BY <2>1, <2>2
<1>. QED BY <1>5, <1>6, <1>8, <1>9, <1>10, <1>11, <1>12, <1>14
         DEF SchedulerStep, SchedulerFault

(* Where no row waits twice, an answered row stays answered.               *)
LEMMA FoundReceivedNext ==
  ASSUME RuntimeInv, FoundReceived, NoSecondWait \/ UNCHANGED rows,
         [PluginRuntimeNext]_runtimeVars
  PROVE  FoundReceived'
<1>1. WorkerInv /\ StoreInv
  BY WorkerTypes DEF RuntimeInv
<1>2. ASSUME NEW item, Answered(item), [AnyStatement]_rows
      PROVE  Answered(item)'
  <2>1. CASE item.state # "CALLBACK"
    BY <2>1 DEF Answered
  <2>2. CASE item.state = "CALLBACK"
    <3>1. item.trace \in Traces /\ Stored(item.trace) /\ rows[item.trace].receivedAt # Null
      BY <1>2, <2>2 DEF Answered
    <3>2. rows'[item.trace] # Null
      BY <1>1, <1>2, <3>1, RowsAreKept
    <3>3. rows'[item.trace].receivedAt # Null
      BY <3>1 DEF NoSecondWait
    <3>. QED BY <3>1, <3>2, <3>3 DEF Answered, Stored
  <2>. QED BY <2>1, <2>2
<1>3. ASSUME UNCHANGED worker, [AnyStatement]_rows
      PROVE  FoundReceived'
  <2>1. SUFFICES ASSUME NEW v \in Workers, NEW i \in 1..Len(worker[v].found)
                 PROVE  Answered(worker[v].found[i])'
    BY <1>3 DEF FoundReceived
  <2>2. Answered(worker[v].found[i])
    BY DEF FoundReceived
  <2> DEFINE item == worker[v].found[i]
  <2>3. item' = item /\ Answered(item)
    BY <1>3, <2>2
  <2>. QED BY <1>2, <1>3, <2>3 DEF Answered, Stored
<1>4. CASE RuntimeTick \/ UNCHANGED runtimeVars
  BY <1>3, <1>4 DEF RuntimeTick, Tick, runtimeVars
<1>5. CASE HandlerNext
  <2>1. HandlerFrame
    BY <1>5, HandlerNextFrame
  <2>. QED BY <1>3, <2>1 DEF HandlerFrame, HandlerTouches, Statement, AnyStatement
<1>6. CASE WorkerNext
  <2>1. PICK w \in Workers : SchedulerStep(w) \/ SchedulerFault(w)
    BY <1>6 DEF WorkerNext
  <2>2. PICK r : WorkerFrame(w, r)
    BY <1>1, <2>1, WorkerStepFrame
  <2>3. [AnyStatement]_rows
    BY <2>2 DEF WorkerFrame, RowBy, AnyStatement
  <2>. SUFFICES ASSUME NEW v \in Workers, NEW k \in 1..Len(worker'[v].found)
                PROVE  Answered(worker[v].found[k])'
    BY DEF FoundReceived
  <2> DEFINE item == worker'[v].found[k]
  <2>4. Answered(item)
    <3>1. CASE v = w
      BY <1>1, <2>1, <3>1, FoundIsSelected DEF FoundReceived
    <3>2. CASE v # w
      <4>1. worker'[v] = worker[v]
        BY <1>1, <2>2, <3>2, WorkerTypes DEF WorkerFrame
      <4>. QED BY <4>1 DEF FoundReceived
    <3>. QED BY <3>1, <3>2
  <2>5. PICK it : it = item
    OBVIOUS
  <2>6. Answered(it)'
    BY <1>2, <2>3, <2>4, <2>5
  <2>. QED BY <2>5, <2>6 DEF Answered
<1>. QED BY <1>4, <1>5, <1>6 DEF PluginRuntimeNext

(* A plugin whose invocations wait at most once is never overtaken.        *)
THEOREM OneWaitIsNotOvertaken == PluginRuntimeSpec /\ WaitsOnce => AnswersAwaitClaims
<1>1. PluginRuntimeInit => FoundReceived
  BY DEF PluginRuntimeInit, SchedulerInit, Idle, FoundReceived
<1>2. RuntimeInv /\ FoundReceived /\ [PluginRuntimeNext]_runtimeVars /\ [NoSecondWait]_rows
        => FoundReceived'
  BY FoundReceivedNext
<1>3. FoundReceived => [NoAnswerOvertakes]_rows
  BY DEF FoundReceived, Answered, NoAnswerOvertakes, HoldsAnswer
<1>. QED BY <1>1, <1>2, <1>3, RuntimeInvariant, PTL
         DEF PluginRuntimeSpec, WaitsOnce, AnswersAwaitClaims

(* With one token at most a plugin can wait at most once.                  *)
THEOREM OneTokenIsOneWait ==
  ASSUME MaxTokens <= 1
  PROVE  PluginRuntimeSpec => WaitsOnce /\ AnswersAwaitClaims
<1>1. PluginRuntimeInit => ReceiptHasToken
  BY DEF PluginRuntimeInit, SchedulerInit, StoreInit, ReceiptHasToken, Stored
<1>2. RuntimeInv /\ ReceiptHasToken /\ [PluginRuntimeNext]_runtimeVars
        => ReceiptHasToken'
  BY ReceiptHasTokenNext
<1>3. RuntimeInv /\ ReceiptHasToken /\ [PluginRuntimeNext]_runtimeVars
        => [NoSecondWait]_rows
  <2>1. ASSUME RuntimeTick \/ UNCHANGED runtimeVars
        PROVE  UNCHANGED rows
    BY <2>1 DEF RuntimeTick, Tick, runtimeVars
  <2>. QED BY <2>1, WorkerWaitsOnce, HandlerWaitsOnce DEF PluginRuntimeNext, WorkerNext
<1>4. PluginRuntimeSpec => WaitsOnce
  BY <1>1, <1>2, <1>3, RuntimeInvariant, PTL DEF PluginRuntimeSpec, WaitsOnce
<1>. QED BY <1>4, OneWaitIsNotOvertaken, PTL

-----------------------------------------------------------------------------
(* How often a finish callback is sent.  Every end of a step entitles one  *)
(* process to read the row back, and so does an expiry; who has read it    *)
(* may notify once.  The count is kept of the callbacks sent and of the    *)
(* processes that still are to read a row they have changed.               *)

(* The steps a row has seen, and its expiry. *)
EndsOf(r) ==
  StepsOf(r) + (IF r # Null /\ r.errorCode = "CALLBACK_TIMEOUT" THEN 1 ELSE 0)

(* Among what was read back, t is final. *)
FinalIn(failed, t) ==
  \E i \in 1..Len(failed) : failed[i].trace = t /\ IsFinal(failed[i].state)

(* w has changed the row of t and is to read it back, or has read it as    *)
(* final.  A step that could not be marked has left its lease in the row.  *)
Reads(w, t) ==
  \/ /\ worker[w].pc = "stepped" /\ RunningItem(w).trace = t
     /\ rows[t].lockedBy # w
  \/ worker[w].pc = "expireGet" /\ Head(worker[w].overdue) = t
  \/ FinalIn(worker[w].failed, t)

(* The workers that may still notify for t, a first request aside. *)
Readers(t) == {w \in Workers : Reads(w, t)}

(* The request has ended its first step and is to read the row back. *)
FirstReads(t) ==
  IF invoke[t].pc = "stepped" /\ Stored(t) /\ rows[t].state # "EMPTY" THEN 1 ELSE 0

(* What has been taken of the budget, the workers still to read aside. *)
Spent(t) == notified[t] + FirstReads(t) - EndsOf(rows[t])

(* No more is sent, or may still be sent, than the ends of t allow. *)
BoundOf(t) ==
  /\ IsFiniteSet(Readers(t))
  /\ Spent(t) + Cardinality(Readers(t)) <= 0

(* A row that is leased is due, and one in its first step has not ended. *)
Orderly(r) ==
  /\ r.lockedBy # Null => r.state = "POLL" \/ DueCallback(r)
  /\ r.state = "EMPTY" => ~r.finished

(* The lease of a step that could not be marked is in force until its      *)
(* worker goes on: meanwhile no time passes.                               *)
UnmarkedOf(w) ==
  LET r == rows[RunningItem(w).trace]
  IN  worker[w].pc = "stepped" /\ r.lockedBy = w =>
        \A v \in Workers : r.lockedUntil >= HostClock(v)

ReaderInv ==
  /\ \A t \in Traces : Stored(t) => Orderly(rows[t])
  /\ \A w \in Workers : UnmarkedOf(w)
  /\ \A t \in Traces : BoundOf(t)

(* A reader goes, or none comes, or one comes at the end of a step. *)
LEMMA ReadersCounted ==
  ASSUME NEW R, IsFiniteSet(R), NEW n \in Int, NEW m \in Int, NEW S,
         n + Cardinality(R) <= 0,
         \/ S \subseteq R /\ m <= n
         \/ (\E w : S \subseteq R \cup {w}) /\ m + 1 <= n
         \/ (\E w \in R : S \subseteq R \ {w}) /\ m <= n + 1
  PROVE  IsFiniteSet(S) /\ m + Cardinality(S) <= 0
<1>1. Cardinality(R) \in Nat
  BY FS_CardinalityType
<1>2. ASSUME NEW Q, IsFiniteSet(Q), S \subseteq Q, Cardinality(Q) \in Nat,
             m + Cardinality(Q) <= 0
      PROVE  IsFiniteSet(S) /\ m + Cardinality(S) <= 0
  <2>1. IsFiniteSet(S) /\ Cardinality(S) <= Cardinality(Q)
    BY <1>2, FS_Subset
  <2>2. Cardinality(S) \in Nat
    BY <2>1, FS_CardinalityType
  <2>. QED BY <1>2, <2>1, <2>2
<1>3. CASE S \subseteq R /\ m <= n
  <2>1. m + Cardinality(R) <= 0
    BY <1>1, <1>3
  <2>. QED BY <1>1, <1>2, <1>3, <2>1
<1>4. ASSUME NEW w, S \subseteq R \cup {w}, m + 1 <= n
      PROVE  IsFiniteSet(S) /\ m + Cardinality(S) <= 0
  <2>1. /\ IsFiniteSet(R \cup {w})
        /\ \/ Cardinality(R \cup {w}) = Cardinality(R)
           \/ Cardinality(R \cup {w}) = Cardinality(R) + 1
    BY FS_AddElement
  <2> DEFINE c == Cardinality(R \cup {w})
             d == Cardinality(R)
  <2>2. d \in Nat /\ n + d <= 0 /\ (c = d \/ c = d + 1)
    BY <1>1, <2>1
  <2> HIDE DEF c, d
  <2>3. c \in Nat /\ m + c <= 0
    BY <1>4, <2>2
  <2>. QED BY <1>2, <1>4, <2>1, <2>3 DEF c
<1>5. ASSUME NEW w \in R, S \subseteq R \ {w}, m <= n + 1
      PROVE  IsFiniteSet(S) /\ m + Cardinality(S) <= 0
  <2>1. IsFiniteSet(R \ {w}) /\ Cardinality(R \ {w}) = Cardinality(R) - 1
    BY FS_RemoveElement
  <2>2. Cardinality(R \ {w}) \in Nat
    BY <2>1, FS_CardinalityType
  <2> DEFINE c == Cardinality(R \ {w})
             d == Cardinality(R)
  <2>3. d \in Nat /\ n + d <= 0 /\ c = d - 1
    BY <1>1, <2>1
  <2> HIDE DEF c, d
  <2>4. m + c <= 0
    BY <1>5, <2>3
  <2>. QED BY <1>2, <1>5, <2>1, <2>2, <2>4 DEF c
<1>. QED BY <1>3, <1>4, <1>5

(* What a row says of the ends it has seen. *)
LEMMA EndsOfRow ==
  ASSUME NEW r \in Schedule
  PROVE  /\ EndsOf(r) \in Nat
         /\ EndsOf(r) = (IF r.state # "EMPTY" THEN r.invokeCount ELSE 0)
                        + (IF r.errorCode = "CALLBACK_TIMEOUT" THEN 1 ELSE 0)
<1>1. r # Null
  BY NoRowAssumption
<1>2. r.invokeCount \in Nat
  BY InvokeCountsAssumption DEF Schedule
<1>. QED BY <1>1, <1>2 DEF EndsOf, StepsOf

(* The counts are counts. *)
LEMMA SpentType ==
  ASSUME WorkerInv, NEW t \in Traces
  PROVE  /\ EndsOf(rows[t]) \in Nat /\ notified[t] \in Nat
         /\ FirstReads(t) \in {0, 1} /\ Spent(t) \in Int
<1>1. rows[t] \in Schedule \cup {Null}
  BY WorkerTypes
<1>2. EndsOf(rows[t]) \in Nat
  <2>1. EndsOf(Null) = 0
    BY DEF EndsOf, StepsOf
  <2>. QED BY <1>1, <2>1, EndsOfRow
<1>3. notified[t] \in Nat
  BY WorkerTypes, MaxNotifiedAssumption DEF FinishCallbackTypeOK
<1>4. FirstReads(t) \in {0, 1}
  BY DEF FirstReads
<1>. QED BY <1>2, <1>3, <1>4 DEF Spent

(* The end of a step counts. *)
LEMMA MarkEnds ==
  ASSUME NEW r \in Schedule, RowInv(r), ~r.finished, NEW n \in InvokeCounts, NEW now,
         n = (IF r.state # "EMPTY" THEN r.invokeCount ELSE 0) + 1,
         NEW s \in Schedule, MarkedRow(r, n, now, s)
  PROVE  EndsOf(s) = EndsOf(r) + 1
<1>1. r.errorCode # "CALLBACK_TIMEOUT"
  BY DEF RowInv
<1>2. s.state # "EMPTY" /\ s.invokeCount = n /\ s.errorCode # "CALLBACK_TIMEOUT"
  <2>1. CASE \E after \in Delays : s = PollRow(r, n, now + after)
    BY <1>1, <2>1 DEF PollRow, Schedule
  <2>2. CASE \E hash \in Hashes, expires \in Nat : s = CallbackRow(r, n, hash, expires)
    BY <1>1, <2>2 DEF CallbackRow, Schedule
  <2>3. CASE s = SuccessRow(r, n) \/ s = FailRow(r, n)
    BY <1>1, <2>3 DEF SuccessRow, FailRow, Schedule
  <2>. QED BY <2>1, <2>2, <2>3 DEF MarkedRow
<1>3. EndsOf(s) = n + 0
  BY <1>2, EndsOfRow
<1>4. EndsOf(r) = (IF r.state # "EMPTY" THEN r.invokeCount ELSE 0) + 0
  BY <1>1, EndsOfRow
<1>5. n \in Nat /\ r.invokeCount \in Nat
  BY InvokeCountsAssumption DEF Schedule
<1>. QED BY <1>3, <1>4, <1>5

(* An expiry counts. *)
LEMMA ExpiryEnds ==
  ASSUME NEW r \in Schedule, RowInv(r), ExpireMatches(r), ExpiredRow(r) \in Schedule
  PROVE  EndsOf(ExpiredRow(r)) = EndsOf(r) + 1
<1> DEFINE s == ExpiredRow(r)
<1>1. /\ r.state = "CALLBACK" /\ r.errorCode # "CALLBACK_TIMEOUT"
      /\ r.invokeCount \in Nat
  BY InvokeCountsAssumption DEF ExpireMatches, RowInv, Schedule
<1>2. /\ s.state = "FAIL" /\ s.errorCode = "CALLBACK_TIMEOUT"
      /\ s.invokeCount = r.invokeCount
  BY DEF ExpiredRow, Schedule
<1>3. EndsOf(r) = r.invokeCount + 0
  BY <1>1, EndsOfRow
<1> HIDE DEF s
<1>4. s \in Schedule => EndsOf(s) = r.invokeCount + 1
  BY <1>2, EndsOfRow
<1>. QED BY <1>1, <1>3, <1>4 DEF s

(* What the statements of a worker do to a row: the row stays orderly, and *)
(* an end it has seen is not forgotten.  The mark and the expiry add one.  *)
LEMMA RowByEnds ==
  ASSUME LeaseInv, Punctual, FollowInv, NEW w \in Workers, NEW t \in Traces,
         RowBy(w, t), Orderly(rows[t])
  PROVE  /\ rows'[t] \in Schedule /\ Orderly(rows'[t])
         /\ EndsOf(rows'[t]) >= EndsOf(rows[t])
         /\ EndsOf(rows[t]) \in Nat /\ EndsOf(rows'[t]) \in Nat
         /\ \/ worker[w].pc = "expireRow"
            \/ worker[w].pc = "run" /\ worker'[w].pc = "stepped"
            \/ EndsOf(rows'[t]) = EndsOf(rows[t])
         /\ rows'[t] = ExpiredRow(rows[t]) /\ ExpireMatches(rows[t]) =>
              EndsOf(rows'[t]) = EndsOf(rows[t]) + 1
         /\ worker[w].pc = "run"
              /\ MarkedRow(rows[t], StepCount(w), HostClock(w), rows'[t]) =>
              EndsOf(rows'[t]) = EndsOf(rows[t]) + 1
<1>. WorkerInv
  BY DEF LeaseInv
<1> DEFINE r == rows[t]
           s == rows'[t]
<1>1. r \in Schedule /\ RowInv(r) /\ Orderly(r) /\ Stored(t)
  BY WorkerTypes, StoredRow DEF RowBy
<1>2. s \in Schedule
  <2>1. StoreInv' /\ rows'[t] # Null
    BY WorkerTypes, StatementInv, RowByEffect DEF RowBy, AnyStatement
  <2>. QED BY <2>1 DEF StoreInv, StoreTypeOK
<1>3. EndsOf(r) \in Nat /\ EndsOf(s) \in Nat
  BY <1>1, <1>2, EndsOfRow
<1>4. ASSUME s.state = r.state, s.invokeCount = r.invokeCount, s.errorCode = r.errorCode
      PROVE  EndsOf(s) = EndsOf(r)
  BY <1>1, <1>2, <1>4, EndsOfRow
<1>5. s = ExpiredRow(r) /\ ExpireMatches(r) => EndsOf(s) = EndsOf(r) + 1
  BY <1>1, <1>2, ExpiryEnds
<1>6. ASSUME worker[w].pc = "run", t = RunningItem(w).trace,
             MarkedRow(r, StepCount(w), HostClock(w), s)
      PROVE  EndsOf(s) = EndsOf(r) + 1
  <2>1. Follows(RunningItem(w), r)
    BY <1>6 DEF FollowInv, FollowsBut, FollowOf, RunsOn
  <2>2. ~r.finished /\ (r.state = "POLL" \/ DueCallback(r))
    BY <1>6, LeaseIsCurrent
  <2>3. StepCount(w) = r.invokeCount + 1 /\ r.state # "EMPTY"
    BY <2>1, <2>2 DEF Follows, StepCount, DueCallback
  <2>4. StepCount(w) \in InvokeCounts
    BY <1>6, RunningStep
  <2> HIDE DEF r, s
  <2>. QED BY <1>1, <1>2, <1>6, <2>2, <2>3, <2>4, MarkEnds
<1>7. CASE worker[w].pc = "expireRow" /\ ExpireMatches(r) /\ s = ExpiredRow(r)
  <2>1. Orderly(s)
    BY <1>1, <1>7 DEF Orderly, ExpiredRow, Schedule
  <2>2. EndsOf(s) >= EndsOf(r)
    BY <1>3, <1>5, <1>7
  <2>. QED BY <1>2, <1>3, <1>5, <1>7, <2>1, <2>2
<1>8. CASE /\ worker[w].pc = "claim"
           /\ ClaimMatches(r, Head(worker[w].found).state, worker[w].now)
           /\ s = [r EXCEPT !.lockedBy = w, !.lockedUntil = LockUntil(w)]
  <2>1. /\ s.state = r.state /\ s.invokeCount = r.invokeCount
        /\ s.errorCode = r.errorCode /\ s.finished = r.finished
        /\ s.receivedAt = r.receivedAt
    BY <1>1, <1>8 DEF Schedule
  <2>2. r.state = "POLL" \/ DueCallback(r)
    BY <1>8 DEF ClaimMatches, DuePoll
  <2>3. Orderly(s)
    BY <1>1, <2>1, <2>2 DEF Orderly, DueCallback
  <2>4. EndsOf(s) = EndsOf(r)
    BY <1>4, <2>1
  <2>. QED BY <1>2, <1>3, <1>5, <1>8, <2>3, <2>4
<1>9. CASE /\ worker[w].pc \in {"run", "stepped"} /\ t = RunningItem(w).trace
           /\ \/ \E data \in Payloads : \/ s = [r EXCEPT !.outputs = data]
                                        \/ s = [r EXCEPT !.contextData = data]
              \/ s = [r EXCEPT !.lockedUntil = HostClock(w) + LockFor]
  <2>1. /\ s.state = r.state /\ s.invokeCount = r.invokeCount
        /\ s.errorCode = r.errorCode /\ s.finished = r.finished
        /\ s.receivedAt = r.receivedAt /\ s.lockedBy = r.lockedBy
    BY <1>1, <1>9 DEF Schedule
  <2>2. Orderly(s)
    BY <1>1, <2>1 DEF Orderly, DueCallback
  <2>3. EndsOf(s) = EndsOf(r)
    BY <1>4, <2>1
  <2>. QED BY <1>2, <1>3, <1>5, <1>6, <1>9, <2>2, <2>3
<1>10. CASE /\ worker[w].pc = "run" /\ t = RunningItem(w).trace
            /\ worker'[w].pc = "stepped"
            /\ MarkedRow(r, StepCount(w), HostClock(w), s)
  <2>1. s.lockedBy = Null /\ s.state # "EMPTY"
    <3>1. s.lockedBy = Null
      BY <1>1, <1>10, RunningStep, MarkedRowEffect
    <3>2. s.state # "EMPTY"
      BY <1>1, <1>10
         DEF MarkedRow, PollRow, CallbackRow, SuccessRow, FailRow, Schedule
    <3>. QED BY <3>1, <3>2
  <2>2. Orderly(s)
    BY <2>1 DEF Orderly
  <2>3. EndsOf(s) = EndsOf(r) + 1
    BY <1>6, <1>10
  <2>4. EndsOf(s) >= EndsOf(r)
    BY <1>3, <2>3
  <2>. QED BY <1>2, <1>3, <1>10, <2>2, <2>3, <2>4
<1>. QED BY <1>7, <1>8, <1>9, <1>10 DEF RowBy

(* The statements of the server; only the end of the first step counts. *)
LEMMA OutsideRowEnds ==
  ASSUME WorkerInv, NEW t \in Traces, OutsideRow(t), Stored(t) => Orderly(rows[t])
  PROVE  /\ rows'[t] \in Schedule /\ Orderly(rows'[t])
         /\ EndsOf(rows[t]) \in Nat /\ EndsOf(rows'[t]) \in Nat
         /\ EndsOf(rows'[t]) >= EndsOf(rows[t])
         /\ Stored(t) /\ rows[t].state = "EMPTY" /\ rows'[t].state # "EMPTY" =>
              EndsOf(rows'[t]) = EndsOf(rows[t]) + 1
<1> DEFINE r == rows[t]
           s == rows'[t]
<1>1. s \in Schedule
  <2>1. StoreInv' /\ rows'[t] # Null
    BY WorkerTypes, StatementInv DEF OutsideRow, AnyStatement
  <2>. QED BY <2>1 DEF StoreInv, StoreTypeOK
<1>2. EndsOf(s) \in Nat /\ EndsOf(r) \in Nat
  BY <1>1, EndsOfRow, SpentType
<1>3. Stored(t) => r \in Schedule /\ RowInv(r) /\ Orderly(r)
  BY WorkerTypes, StoredRow
<1>4. CASE ~Stored(t) /\ s = NewSchedule(1, clock)
  <2>1. s.lockedBy = Null /\ ~s.finished
    <3>1. NewSchedule(1, clock).lockedBy = Null
      BY DEF NewSchedule
    <3>2. NewSchedule(1, clock).finished = FALSE
      BY DEF NewSchedule
    <3>. QED BY <1>4, <3>1, <3>2
  <2>2. EndsOf(r) = 0
    BY <1>4 DEF EndsOf, StepsOf, Stored
  <2>. QED BY <1>1, <1>2, <1>4, <2>1, <2>2 DEF Orderly
<1>5. ASSUME Stored(t), s.state = r.state, s.invokeCount = r.invokeCount,
             s.errorCode = r.errorCode
      PROVE  EndsOf(s) = EndsOf(r)
  BY <1>1, <1>3, <1>5, EndsOfRow
<1>6. CASE Stored(t) /\ AnsweredRow(r, s)
  <2>1. r \in Schedule /\ r.state = "CALLBACK" /\ r.receivedAt = Null /\ Orderly(r)
    BY <1>3, <1>6 DEF AnsweredRow
  <2>2. /\ s.state = r.state /\ s.invokeCount = r.invokeCount
        /\ s.errorCode = r.errorCode /\ s.lockedBy = r.lockedBy
    BY <1>6, <2>1 DEF AnsweredRow, ReceivedRow, Schedule
  <2>3. Orderly(s)
    BY <2>1, <2>2 DEF Orderly, DueCallback
  <2>4. EndsOf(s) = EndsOf(r)
    BY <1>5, <1>6, <2>2
  <2>. QED BY <1>1, <1>2, <2>1, <2>3, <2>4
<1>7. CASE /\ Stored(t) /\ r.state = "EMPTY"
           /\ \E data \in Payloads : \/ s = [r EXCEPT !.outputs = data]
                                     \/ s = [r EXCEPT !.contextData = data]
  <2>1. /\ s.state = r.state /\ s.invokeCount = r.invokeCount
        /\ s.errorCode = r.errorCode /\ s.lockedBy = r.lockedBy
        /\ s.finished = r.finished
    BY <1>3, <1>7 DEF Schedule
  <2>2. Orderly(s)
    BY <1>3, <1>7, <2>1 DEF Orderly, DueCallback
  <2>3. EndsOf(s) = EndsOf(r)
    BY <1>5, <1>7, <2>1
  <2>. QED BY <1>1, <1>2, <1>7, <2>1, <2>2, <2>3
<1>8. CASE Stored(t) /\ r.state = "EMPTY" /\ MarkedRow(r, 1, clock, s)
  <2>1. s.lockedBy = Null /\ s.state # "EMPTY"
    <3>1. s.lockedBy = Null
      BY <1>3, <1>8, RuntimeAssumption, MarkedRowEffect
    <3>2. s.state # "EMPTY"
      BY <1>3, <1>8
         DEF MarkedRow, PollRow, CallbackRow, SuccessRow, FailRow, Schedule
    <3>. QED BY <3>1, <3>2
  <2>2. Orderly(s)
    BY <2>1 DEF Orderly
  <2>3. r \in Schedule /\ RowInv(r) /\ ~r.finished
    BY <1>3, <1>8 DEF Orderly
  <2>4. 1 = (IF r.state # "EMPTY" THEN r.invokeCount ELSE 0) + 1 /\ 1 \in InvokeCounts
    BY <1>8, RuntimeAssumption
  <2>5. EndsOf(s) = EndsOf(r) + 1
    BY <1>1, <1>8, <2>3, <2>4, MarkEnds
  <2>. QED BY <1>1, <1>2, <2>2, <2>5
<1>. QED BY <1>4, <1>6, <1>7, <1>8 DEF OutsideRow, FirstStepRow

-----------------------------------------------------------------------------
(* A step of anybody else, as a worker that is to read a row sees it.      *)

RowByAnother(v) ==
  \/ UNCHANGED rows
  \/ \E s \in Traces : \/ OutsideRow(s)
                       \/ \E w \in Workers \ {v} : RowBy(w, s)

(* Nobody else touches the row of a step that could not be marked. *)
LEMMA UnmarkedUntouched ==
  ASSUME LeaseInv, Punctual, ReaderInv, NEW v \in Workers, worker[v].pc = "stepped",
         rows[RunningItem(v).trace].lockedBy = v, RowByAnother(v)
  PROVE  rows'[RunningItem(v).trace] = rows[RunningItem(v).trace]
<1>. WorkerInv
  BY DEF LeaseInv
<1> DEFINE t == RunningItem(v).trace
<1>1. /\ t \in Traces /\ Stored(t) /\ rows[t] \in Schedule /\ RowInv(rows[t])
      /\ rows[t].lockedBy = v
  BY RunningStep, WorkerTypes, StoredRow DEF LeaseInv, FailedOf
<1>2. \A x \in Workers : rows[t].lockedUntil >= HostClock(x)
  BY <1>1 DEF ReaderInv, UnmarkedOf
<1> HIDE DEF t
<1>3. v # Null
  BY NullAssumption
<1>4. rows[t].state = "POLL" \/ DueCallback(rows[t])
  BY <1>1, <1>3 DEF ReaderInv, Orderly
<1>5. ~OutsideRow(t)
  BY <1>1, <1>4 DEF OutsideRow, FirstStepRow, AnsweredRow, DueCallback
<1>6. ASSUME NEW w \in Workers, w # v, RowBy(w, t)
      PROVE  FALSE
  <2>1. ~ExpireMatches(rows[t])
    BY <1>4 DEF ExpireMatches, DueCallback
  <2>2. ASSUME worker[w].pc = "claim",
               ClaimMatches(rows[t], Head(worker[w].found).state, worker[w].now)
        PROVE  FALSE
    <3>1. worker[w].now = HostClock(w) /\ HostClock(w) \in Nat
      BY <2>2, WorkerTypes DEF LeaseInv, RoundOf
    <3>2. rows[t].lockedUntil # Null => rows[t].lockedUntil < HostClock(w)
      BY <2>2, <3>1 DEF ClaimMatches, Claimable
    <3>3. rows[t].lockedUntil \in Nat
      BY <1>1, <1>3 DEF RowInv, Schedule
    <3>. QED BY <1>2, <3>1, <3>2, <3>3, NullAssumption
  <2>3. ~(worker[w].pc = "run" /\ t = RunningItem(w).trace)
    BY <1>1, <1>6, LeaseIsCurrent
  <2>4. ~RenewMatches(rows[t], w)
    BY <1>1, <1>6 DEF RenewMatches
  <2>. QED BY <1>6, <2>1, <2>2, <2>3, <2>4 DEF RowBy
<1>7. ASSUME NEW s \in Traces, OutsideRow(s) \/ \E w \in Workers \ {v} : RowBy(w, s)
      PROVE  rows'[t] = rows[t]
  <2>1. s # t /\ Statement(s)
    BY <1>5, <1>6, <1>7 DEF OutsideRow, RowBy
  <2>. QED BY <1>1, <2>1, WorkerTypes, OtherRowsAreKept
<1>. QED BY <1>7 DEF RowByAnother, t

(* ... so that it comes to no row to read by it. *)
LEMMA BystanderReads ==
  ASSUME LeaseInv, Punctual, ReaderInv, NEW v \in Workers, worker'[v] = worker[v],
         UNCHANGED clock, RowByAnother(v)
  PROVE  UnmarkedOf(v)' /\ \A t \in Traces : Reads(v, t)' => Reads(v, t)
<1>. WorkerInv
  BY DEF LeaseInv
<1>1. worker[v].pc = "stepped" /\ rows[RunningItem(v).trace].lockedBy = v =>
        rows'[RunningItem(v).trace] = rows[RunningItem(v).trace]
  BY UnmarkedUntouched
<1>2. RunningItem(v)' = RunningItem(v)
  BY DEF RunningItem
<1>3. ASSUME NEW t \in Traces, Reads(v, t)'
      PROVE  Reads(v, t)
  BY <1>1, <1>2, <1>3 DEF Reads
<1>4. UnmarkedOf(v)'
  <2> DEFINE t == RunningItem(v).trace
  <2>. SUFFICES ASSUME worker[v].pc = "stepped", rows'[t].lockedBy = v
                PROVE  \A x \in Workers : rows'[t].lockedUntil >= HostClock(x)
    BY <1>2 DEF UnmarkedOf, HostClock
  <2>1. t \in Traces /\ v # Null
    BY RunningStep, NullAssumption
  <2>2. rows[t].lockedBy = v
    <3>1. ASSUME NEW s \in Traces, OutsideRow(s)
          PROVE  rows[t].lockedBy = v
      <4>1. s # t => rows'[t] = rows[t]
        BY <2>1, <3>1, WorkerTypes, OtherRowsAreKept DEF OutsideRow
      <4>. QED BY <2>1, <3>1, <4>1, OutsideRowEffect
    <3>2. ASSUME NEW s \in Traces, NEW w \in Workers \ {v}, RowBy(w, s)
          PROVE  rows[t].lockedBy = v
      BY <2>1, <3>2, RowByEffect
    <3>. QED BY <3>1, <3>2 DEF RowByAnother
  <2>3. rows'[t] = rows[t] /\ \A x \in Workers : rows[t].lockedUntil >= HostClock(x)
    BY <1>1, <2>2 DEF ReaderInv, UnmarkedOf
  <2>. QED BY <2>3
<1>. QED BY <1>3, <1>4

-----------------------------------------------------------------------------
(* A worker's own step.  For each trace it is nothing, an end that another *)
(* read may come of, or a read that may notify.                            *)

OwnAccount(w, t) ==
  \/ (Reads(w, t)' => Reads(w, t)) /\ Spent(t)' <= Spent(t)
  \/ Spent(t)' + 1 <= Spent(t)
  \/ Reads(w, t) /\ ~Reads(w, t)' /\ Spent(t)' <= Spent(t) + 1

(* What the step does to the rows. *)
LEMMA WorkerRowsEnd ==
  ASSUME RuntimeInv, LeaseInv, Punctual, FollowInv, ReaderInv, NEW w \in Workers,
         SchedulerStep(w) \/ SchedulerFault(w), UNCHANGED <<invoke, post>>,
         NEW t \in Traces
  PROVE  /\ EndsOf(rows[t]) \in Nat /\ EndsOf(rows'[t]) \in Nat
         /\ EndsOf(rows'[t]) >= EndsOf(rows[t])
         /\ FirstReads(t)' = FirstReads(t)
         /\ rows'[t] # Null => Orderly(rows'[t])
<1>. WorkerInv /\ HandlerInv /\ ItemsPastFirst /\ PreparedOwn
  BY DEF RuntimeInv
<1>1. EndsOf(rows[t]) \in Nat
  BY SpentType
<1>2. CASE rows'[t] = rows[t]
  BY <1>1, <1>2 DEF FirstReads, Stored, ReaderInv
<1>3. CASE rows'[t] # rows[t]
  <2>1. PICK r : WorkerFrame(w, r)
    BY WorkerStepFrame
  <2>2. PICK s \in Traces : RowBy(w, s)
    BY <1>3, <2>1 DEF WorkerFrame
  <2>3. RowBy(w, t)
    BY <1>3, <2>2, RowByEffect
  <2>4. Stored(t) /\ Orderly(rows[t])
    BY <2>3 DEF RowBy, ReaderInv
  <2>5. PICK u : WorkerTouches(w, u)
    BY <1>3, WorkerStepTouches
  <2>6. u = t
    BY <1>3, <2>5, WorkerTypes, OtherRowsAreKept DEF WorkerTouches, PastFirst
  <2>7. FirstReads(t)' = FirstReads(t)
    BY <2>5, <2>6 DEF WorkerTouches, PastFirst, FirstReads, Stored
  <2>. QED BY <2>3, <2>4, <2>7, RowByEnds
<1>. QED BY <1>2, <1>3

(* A finish callback is counted once for a trace that was read as final. *)
LEMMA NotifyCounts ==
  ASSUME FinishCallbackTypeOK, NEW readBack, NotifyFinish(readBack), NEW t \in Traces
  PROVE  /\ notified[t] \in Nat /\ notified'[t] \in Nat
         /\ notified'[t] <= notified[t] + 1
         /\ (\A x \in readBack : ~(x.trace = t /\ IsFinal(x.state))) =>
              notified'[t] = notified[t]
<1>1. notified[t] \in 0..MaxNotified /\ MaxNotified \in Nat \ {0}
  BY MaxNotifiedAssumption DEF FinishCallbackTypeOK
<1>2. \/ notified'[t] = notified[t]
      \/ notified'[t] = Smaller(notified[t] + 1, MaxNotified)
  BY DEF NotifyFinish
<1>3. (\A x \in readBack : ~(x.trace = t /\ IsFinal(x.state))) =>
        notified'[t] = notified[t]
  BY DEF NotifyFinish
<1>4. notified'[t] \in Nat /\ notified'[t] <= notified[t] + 1
  BY <1>1, <1>2 DEF Smaller
<1>. QED BY <1>1, <1>3, <1>4

(* A step that counts no callback and comes to no read. *)
LEMMA QuietAccount ==
  ASSUME RuntimeInv, LeaseInv, Punctual, FollowInv, ReaderInv, NEW w \in Workers,
         SchedulerStep(w) \/ SchedulerFault(w), UNCHANGED <<invoke, post>>,
         NEW t \in Traces, notified'[t] = notified[t], Reads(w, t)' => Reads(w, t)
  PROVE  OwnAccount(w, t)
<1>1. WorkerInv
  BY DEF LeaseInv
<1>2. notified[t] \in Nat /\ FirstReads(t) \in {0, 1}
  BY <1>1, SpentType
<1>3. /\ EndsOf(rows[t]) \in Nat /\ EndsOf(rows'[t]) \in Nat
      /\ EndsOf(rows'[t]) >= EndsOf(rows[t])
      /\ FirstReads(t)' = FirstReads(t)
  BY WorkerRowsEnd
<1>4. notified'[t] + FirstReads(t)' - EndsOf(rows'[t])
        <= notified[t] + FirstReads(t) - EndsOf(rows[t])
  BY <1>2, <1>3
<1>5. Spent(t)' <= Spent(t)
  BY <1>4 DEF Spent
<1>. QED BY <1>5 DEF OwnAccount

(* A step that may count one, of a worker that was to read the row. *)
LEMMA ReadAccount ==
  ASSUME RuntimeInv, LeaseInv, Punctual, FollowInv, ReaderInv, NEW w \in Workers,
         SchedulerStep(w) \/ SchedulerFault(w), UNCHANGED <<invoke, post>>,
         NEW t \in Traces, notified'[t] \in Nat, notified'[t] <= notified[t] + 1,
         Reads(w, t), ~Reads(w, t)'
  PROVE  OwnAccount(w, t)
<1>1. WorkerInv
  BY DEF LeaseInv
<1>2. notified[t] \in Nat /\ FirstReads(t) \in {0, 1}
  BY <1>1, SpentType
<1>3. /\ EndsOf(rows[t]) \in Nat /\ EndsOf(rows'[t]) \in Nat
      /\ EndsOf(rows'[t]) >= EndsOf(rows[t])
      /\ FirstReads(t)' = FirstReads(t)
  BY WorkerRowsEnd
<1>4. notified'[t] + FirstReads(t)' - EndsOf(rows'[t])
        <= notified[t] + FirstReads(t) - EndsOf(rows[t]) + 1
  BY <1>2, <1>3
<1>5. Spent(t)' <= Spent(t) + 1
  BY <1>4 DEF Spent
<1>. QED BY <1>5 DEF OwnAccount

(* A step that ends one. *)
LEMMA EndAccount ==
  ASSUME RuntimeInv, LeaseInv, Punctual, FollowInv, ReaderInv, NEW w \in Workers,
         SchedulerStep(w) \/ SchedulerFault(w), UNCHANGED <<invoke, post>>,
         NEW t \in Traces, notified'[t] = notified[t],
         EndsOf(rows'[t]) = EndsOf(rows[t]) + 1
  PROVE  OwnAccount(w, t)
<1>1. WorkerInv
  BY DEF LeaseInv
<1>2. notified[t] \in Nat /\ FirstReads(t) \in {0, 1} /\ EndsOf(rows[t]) \in Nat
  BY <1>1, SpentType
<1>3. FirstReads(t)' = FirstReads(t)
  BY WorkerRowsEnd
<1>4. notified'[t] + FirstReads(t)' - EndsOf(rows'[t]) + 1
        <= notified[t] + FirstReads(t) - EndsOf(rows[t])
  BY <1>2, <1>3
<1>5. Spent(t)' + 1 <= Spent(t)
  BY <1>4 DEF Spent
<1>. QED BY <1>5 DEF OwnAccount

(* ExpireCallbacks goes on, or its finish callbacks are launched. *)
LEMMA ExpireNextReads ==
  ASSUME WorkerInv, NEW w \in Workers, worker[w].pc \in {"expireRow", "expireGet"},
         NEW overdue \in Seq(Traces), NEW failed \in Seq(ReadBackType),
         ExpireNext(w, overdue, failed), NEW t \in Traces,
         FinalIn(failed, t) => Reads(w, t)
  PROVE  \/ notified'[t] = notified[t] /\ (Reads(w, t)' => Reads(w, t))
         \/ /\ Reads(w, t) /\ ~Reads(w, t)'
            /\ notified'[t] \in Nat /\ notified'[t] <= notified[t] + 1
<1>1. worker \in [Workers -> WorkerType] /\ FinishCallbackTypeOK
  BY WorkerTypes
<1>2. CASE overdue # <<>>
  <2>1. /\ worker' = [worker EXCEPT ![w].pc = "expireRow",
                                    ![w].overdue = overdue, ![w].failed = failed]
        /\ UNCHANGED notified
    BY <1>2 DEF ExpireNext
  <2>2. worker'[w].pc = "expireRow" /\ worker'[w].failed = failed
    BY <1>1, <2>1 DEF WorkerType
  <2>. QED BY <2>1, <2>2 DEF Reads
<1>3. CASE overdue = <<>>
  <2>1. /\ worker' = [worker EXCEPT ![w].pc = "poll",
                                    ![w].overdue = <<>>, ![w].failed = <<>>]
        /\ NotifyFinish({failed[i] : i \in DOMAIN failed})
    BY <1>3 DEF ExpireNext
  <2>2. worker'[w].pc = "poll" /\ worker'[w].failed = <<>>
    BY <1>1, <2>1 DEF WorkerType
  <2>3. ~Reads(w, t)'
    BY <2>2 DEF Reads, FinalIn
  <2>4. CASE FinalIn(failed, t)
    BY <1>1, <2>1, <2>3, <2>4, NotifyCounts
  <2>5. CASE ~FinalIn(failed, t)
    <3>1. \A x \in {failed[i] : i \in DOMAIN failed} : ~(x.trace = t /\ IsFinal(x.state))
      BY <2>5 DEF FinalIn
    <3>2. notified'[t] = notified[t]
      BY <1>1, <2>1, <3>1, NotifyCounts
    <3>. QED BY <2>3, <3>2
  <2>. QED BY <2>4, <2>5
<1>. QED BY <1>2, <1>3

(* The steps of the expiry. *)
LEMMA ExpiryAccount ==
  ASSUME RuntimeInv, LeaseInv, Punctual, FollowInv, ReaderInv, NEW w \in Workers,
         ExpireRow(w) \/ ExpireGet(w), UNCHANGED <<invoke, post>>, NEW t \in Traces
  PROVE  OwnAccount(w, t)
<1>. SchedulerStep(w)
  BY DEF SchedulerStep
<1> DEFINE s == Head(worker[w].overdue)
           rest == Tail(worker[w].overdue)
<1>1. /\ WorkerInv /\ worker \in [Workers -> WorkerType]
      /\ worker[w].pc \in {"expireRow", "expireGet"}
  BY WorkerTypes DEF ExpireRow, ExpireGet, LeaseInv
<1>2. /\ s \in Traces /\ rest \in Seq(Traces) /\ Stored(s)
      /\ worker[w].failed \in Seq(ReadBackType)
  <2>1. /\ worker[w].overdue \in Seq(Traces) /\ worker[w].overdue # <<>>
        /\ worker[w].failed \in Seq(ReadBackType) /\ FitsTable(worker[w])
    BY <1>1, WorkerFields DEF FitsPhase
  <2>2. s \in Traces /\ s = worker[w].overdue[1] /\ 1 \in 1..Len(worker[w].overdue)
    BY <2>1, HeadAndTail
  <2>. QED BY <2>1, <2>2, HeadAndTail DEF FitsTable
<1>3. CASE ExpireRow(w) /\ ExpireMatches(rows[s])
  <2>1. /\ worker[w].pc = "expireRow" /\ ExpireCallback(s) /\ UNCHANGED notified
        /\ worker' = [worker EXCEPT ![w].pc = "expireGet"]
    BY <1>3 DEF ExpireRow, Goto
  <2>2. /\ worker'[w].pc = "expireGet" /\ worker'[w].overdue = worker[w].overdue
        /\ worker'[w].failed = worker[w].failed
    BY <1>1, <2>1 DEF WorkerType
  <2>3. CASE t = s
    <3>1. Statement(t) /\ Stored(t) /\ rows'[t] = ExpiredRow(rows[t])
      BY <1>1, <2>1, <2>3, WorkerTypes DEF ExpireCallback, Statement
    <3>2. RowBy(w, t) /\ Orderly(rows[t])
      BY <1>3, <2>1, <2>3, <3>1 DEF RowBy, ReaderInv
    <3>3. EndsOf(rows'[t]) = EndsOf(rows[t]) + 1
      BY <1>3, <2>3, <3>1, <3>2, RowByEnds
    <3>. QED BY <2>1, <3>3, EndAccount
  <2>4. CASE t # s
    <3>1. Reads(w, t)' => FinalIn(worker[w].failed, t)
      BY <2>2, <2>4 DEF Reads
    <3>. QED BY <2>1, <3>1, QuietAccount DEF Reads
  <2>. QED BY <2>3, <2>4
<1>4. ASSUME NEW failed \in Seq(ReadBackType), ExpireNext(w, rest, failed),
             FinalIn(failed, t) => Reads(w, t)
      PROVE  OwnAccount(w, t)
  BY <1>1, <1>2, <1>4, ExpireNextReads, QuietAccount, ReadAccount
<1>5. CASE ExpireRow(w) /\ ~ExpireMatches(rows[s])
  <2>1. ExpireNext(w, rest, worker[w].failed)
    BY <1>5 DEF ExpireRow
  <2>. QED BY <1>2, <1>4, <2>1 DEF Reads
<1>6. CASE ExpireGet(w)
  <2> DEFINE read == [trace |-> s, state |-> rows[s].state]
             failed == Append(worker[w].failed, read)
  <2>1. ExpireNext(w, rest, failed) /\ worker[w].pc = "expireGet"
    BY <1>6 DEF ExpireGet
  <2>2. read \in ReadBackType /\ read.trace = s
    BY <1>1, <1>2, WorkerTypes, StoredRow DEF ReadBackType, Schedule
  <2> HIDE DEF read
  <2>3. /\ failed \in Seq(ReadBackType)
        /\ \A i \in 1..Len(failed) : \/ failed[i] = read
                                     \/ /\ i \in 1..Len(worker[w].failed)
                                        /\ failed[i] = worker[w].failed[i]
    BY <1>2, <2>2, AppendOne
  <2> HIDE DEF failed
  <2>4. FinalIn(failed, t) => t = s \/ FinalIn(worker[w].failed, t)
    BY <2>2, <2>3 DEF FinalIn
  <2>5. FinalIn(failed, t) => Reads(w, t)
    BY <2>1, <2>4 DEF Reads
  <2>. QED BY <1>4, <2>1, <2>3, <2>5
<1>. QED BY <1>3, <1>5, <1>6

(* The end of a step, marked or not. *)
LEMMA StepEndAccount ==
  ASSUME RuntimeInv, LeaseInv, Punctual, FollowInv, ReaderInv, NEW w \in Workers,
         StepEnds(w) \/ StepError(w), UNCHANGED <<invoke, post>>, NEW t \in Traces
  PROVE  OwnAccount(w, t) /\ UnmarkedOf(w)'
<1>. SchedulerStep(w) \/ SchedulerFault(w)
  BY DEF SchedulerStep, SchedulerFault
<1> DEFINE s == RunningItem(w).trace
<1>1. /\ WorkerInv /\ worker \in [Workers -> WorkerType]
      /\ worker[w].pc = "run" /\ UNCHANGED <<notified, clock>>
      /\ worker' = [worker EXCEPT ![w].pc = "stepped"]
  BY WorkerTypes DEF StepEnds, StepError, Goto, LeaseInv
<1>2. /\ worker'[w].pc = "stepped" /\ worker'[w].failed = worker[w].failed
      /\ worker'[w].batch = worker[w].batch
  BY <1>1 DEF WorkerType
<1>3. RunningItem(w)' = RunningItem(w)
  BY <1>2 DEF RunningItem
<1>4. /\ s \in Traces /\ Stored(s) /\ rows[s].lockedBy = w
      /\ \A v \in Workers : rows[s].lockedUntil >= HostClock(v)
  BY <1>1, LeaseIsCurrent
<1>5. Reads(w, t)' <=> \/ s = t /\ rows'[t].lockedBy # w
                       \/ FinalIn(worker[w].failed, t)
  BY <1>2, <1>3 DEF Reads
<1>6. CASE StepError(w)
  <2>1. rows' = rows
    BY <1>6 DEF StepError
  <2>2. OwnAccount(w, t)
    BY <1>1, <1>4, <1>5, <2>1, QuietAccount DEF Reads
  <2>3. UnmarkedOf(w)'
    BY <1>1, <1>3, <1>4, <2>1 DEF UnmarkedOf, HostClock
  <2>. QED BY <2>2, <2>3
<1>7. CASE StepEnds(w)
  <2>1. StepMark(w, s, StepCount(w))
    BY <1>7 DEF StepEnds
  <2>2. RowBy(w, s) /\ rows'[s].lockedBy = Null
    BY <1>1, <1>2, <2>1, MarkedByStep
  <2>3. UnmarkedOf(w)'
    BY <1>3, <2>2, NullAssumption DEF UnmarkedOf
  <2>4. CASE t = s
    <3>1. Orderly(rows[t])
      BY <1>4, <2>4 DEF ReaderInv
    <3>2. MarkedRow(rows[t], StepCount(w), HostClock(w), rows'[t])
      BY <1>1, <1>2, <2>1, <2>4, MarkedByStep
    <3>3. EndsOf(rows'[t]) = EndsOf(rows[t]) + 1
      BY <1>1, <2>2, <2>4, <3>1, <3>2, RowByEnds
    <3>. QED BY <1>1, <2>3, <3>3, EndAccount
  <2>5. CASE t # s
    BY <1>1, <1>5, <2>3, <2>5, QuietAccount DEF Reads
  <2>. QED BY <2>3, <2>4, <2>5
<1>. QED BY <1>6, <1>7

(* The heartbeat of a step, which may have ended unmarked. *)
LEMMA RenewAccount ==
  ASSUME RuntimeInv, LeaseInv, Punctual, FollowInv, ReaderInv, NEW w \in Workers,
         Renew(w) \/ RenewError(w), UNCHANGED <<invoke, post>>, NEW t \in Traces
  PROVE  OwnAccount(w, t) /\ UnmarkedOf(w)'
<1>. SchedulerStep(w) \/ SchedulerFault(w)
  BY DEF SchedulerStep, SchedulerFault
<1> DEFINE s == RunningItem(w).trace
<1>1. /\ WorkerInv /\ worker \in [Workers -> WorkerType]
      /\ rows \in [Traces -> Schedule \cup {Null}]
      /\ worker[w].pc \in {"run", "stepped"} /\ UNCHANGED <<notified, clock>>
      /\ \E at : worker' = [worker EXCEPT ![w].renewAt = at]
      /\ s \in Traces
  BY WorkerTypes, RunningStep DEF Renew, RenewError, LeaseInv
<1>2. /\ worker'[w].pc = worker[w].pc /\ worker'[w].failed = worker[w].failed
      /\ worker'[w].batch = worker[w].batch /\ worker'[w].overdue = worker[w].overdue
  BY <1>1 DEF WorkerType
<1>3. RunningItem(w)' = RunningItem(w) /\ \A v \in Workers : HostClock(v)' = HostClock(v)
  BY <1>1, <1>2 DEF RunningItem, HostClock
<1>4. \/ UNCHANGED rows
      \/ /\ RenewMatches(rows[s], w) /\ Stored(s)
         /\ rows' = [rows EXCEPT ![s] = [rows[s] EXCEPT !.lockedUntil = HostClock(w) + LockFor]]
  BY DEF Renew, RenewError, RenewLock
<1> HIDE DEF s
<1>5. ASSUME NEW u \in Traces
      PROVE  rows'[u].lockedBy = rows[u].lockedBy
  <2>1. CASE UNCHANGED rows \/ u # s
    BY <1>1, <1>4, <2>1
  <2>2. CASE Stored(s) /\ u = s /\ rows'[s] = [rows[s] EXCEPT !.lockedUntil = HostClock(w) + LockFor]
    <3>1. rows[s] \in Schedule
      BY <1>1, <2>2, WorkerTypes, StoredRow
    <3>. QED BY <2>2, <3>1 DEF Schedule
  <2>. QED BY <1>1, <1>4, <2>1, <2>2
<1>6. Reads(w, t)' => Reads(w, t)
  BY <1>2, <1>3, <1>5 DEF Reads
<1>7. UnmarkedOf(w)'
  <2>1. CASE worker[w].pc # "stepped"
    BY <1>2, <2>1 DEF UnmarkedOf
  <2>2. CASE UNCHANGED rows
    BY <1>2, <1>3, <2>2 DEF UnmarkedOf, ReaderInv
  <2>3. CASE ~UNCHANGED rows
    <3>1. rows[s] \in Schedule
      BY <1>1, <1>4, <2>3, WorkerTypes, StoredRow
    <3>2. rows'[s].lockedUntil = HostClock(w) + LockFor
      BY <1>1, <1>4, <2>3, <3>1 DEF Schedule
    <3>3. ASSUME NEW v \in Workers
          PROVE  HostClock(w) + LockFor >= HostClock(v)
      <4>1. Skew <= LockFor
        <5>1. /\ (MaxFaults + 1) * HeartbeatInterval \in Nat
              /\ Skew \in Nat /\ LockFor \in Nat
          BY <1>1, WorkerTypes, IntervalsGrow
        <5>. QED BY <5>1 DEF Punctual
      <4>2. /\ clock \in Nat /\ LockFor \in Nat /\ Skew \in Nat
            /\ HostClock(v) = clock + SkewOf(v) /\ HostClock(w) = clock + SkewOf(w)
            /\ SkewOf(v) \in Nat /\ SkewOf(v) <= Skew /\ SkewOf(w) \in Nat
        BY <1>1, WorkerTypes DEF SkewOf
      <4>. QED BY <4>1, <4>2
    <3>. QED BY <1>3, <3>2, <3>3 DEF UnmarkedOf, s
  <2>. QED BY <2>1, <2>2, <2>3
<1>. QED BY <1>1, <1>6, <1>7, QuietAccount

(* The read after a step.  A row that is final has no lease.               *)
LEMMA ReadBackAccount ==
  ASSUME RuntimeInv, LeaseInv, Punctual, FollowInv, ReaderInv, NEW w \in Workers,
         ReadBack(w), UNCHANGED <<invoke, post>>, NEW t \in Traces
  PROVE  OwnAccount(w, t) /\ UnmarkedOf(w)'
<1>. SchedulerStep(w)
  BY DEF SchedulerStep
<1> DEFINE s == RunningItem(w).trace
           read == [trace |-> s, state |-> rows[s].state]
<1>1. /\ WorkerInv /\ FinishCallbackTypeOK
      /\ worker[w].pc = "stepped" /\ NotifyFinish({read})
  BY WorkerTypes DEF ReadBack, LeaseInv
<1>2. worker'[w].pc = "idle" /\ worker'[w].failed = <<>>
  BY OneItem, IdleType
<1>3. UnmarkedOf(w)' /\ ~Reads(w, t)'
  BY <1>2 DEF UnmarkedOf, Reads, FinalIn
<1>4. read.trace = s /\ read.state = rows[s].state
  OBVIOUS
<1>5. s \in Traces /\ Stored(s) /\ rows[s] \in Schedule /\ RowInv(rows[s])
  BY <1>1, RunningStep, WorkerTypes, StoredRow DEF LeaseInv, FailedOf
<1> HIDE DEF read, s
<1>6. CASE t = s /\ IsFinal(rows[s].state)
  <2>1. rows[s].lockedBy # w
    <3>1. rows[s].lockedBy = Null
      BY <1>5, <1>6 DEF RowInv
    <3>. QED BY <3>1, NullAssumption
  <2>2. Reads(w, t)
    BY <1>1, <1>6, <2>1 DEF Reads, s
  <2>3. notified'[t] \in Nat /\ notified'[t] <= notified[t] + 1
    BY <1>1, NotifyCounts
  <2>. QED BY <1>3, <2>2, <2>3, ReadAccount
<1>7. CASE ~(t = s /\ IsFinal(rows[s].state))
  <2>1. notified'[t] = notified[t]
    <3>1. \A x \in {read} : ~(x.trace = t /\ IsFinal(x.state))
      BY <1>4, <1>7
    <3>. QED BY <1>1, <3>1, NotifyCounts
  <2>. QED BY <1>3, <2>1, QuietAccount
<1>. QED BY <1>6, <1>7

(* The other steps come to no read. *)
LEMMA OtherAccount ==
  ASSUME RuntimeInv, LeaseInv, Punctual, FollowInv, ReaderInv, NEW w \in Workers,
         \/ BeginRound(w) \/ SelectOverdue(w) \/ SelectPoll(w) \/ SelectCallback(w)
         \/ Claim(w) \/ StepWrites(w) \/ StepPrepares(w)
         \/ ExpireError(w) \/ ClaimError(w) \/ ReadBackError(w) \/ Crash(w),
         UNCHANGED <<invoke, post>>, NEW t \in Traces
  PROVE  OwnAccount(w, t) /\ UnmarkedOf(w)'
<1>. SchedulerStep(w) \/ SchedulerFault(w)
  BY DEF SchedulerStep, SchedulerFault
<1>1. /\ WorkerInv /\ worker \in [Workers -> WorkerType]
      /\ Idle \in WorkerType /\ Idle.pc = "idle"
  BY WorkerTypes, IdleType DEF LeaseInv
<1>2. UNCHANGED notified
  BY DEF BeginRound, SelectOverdue, SelectPoll, SelectCallback, Claim, StepWrites,
         StepPrepares, ExpireError, ClaimError, ReadBackError, Crash
<1>3. ~ExpireGet(w)
  <2>1. CASE ExpireError(w) \/ ClaimError(w) \/ ReadBackError(w) \/ Crash(w)
    <3>1. faults' = faults + 1 /\ faults \in Nat
      BY <1>1, <2>1, WorkerTypes
         DEF ExpireError, ClaimError, ReadBackError, Crash, Fault
    <3>2. ExpireGet(w) => faults' = faults
      BY DEF ExpireGet
    <3>. QED BY <3>1, <3>2
  <2>2. CASE ~(ExpireError(w) \/ ClaimError(w) \/ ReadBackError(w) \/ Crash(w))
    <3>1. worker[w].pc # "expireGet"
      BY <2>2 DEF BeginRound, SelectOverdue, SelectPoll, SelectCallback, Claim,
                  StepWrites, StepPrepares
    <3>. QED BY <3>1 DEF ExpireGet
  <2>. QED BY <2>1, <2>2
<1>4. worker'[w].pc \notin {"stepped", "expireGet"}
  <2>1. CASE BeginRound(w) \/ SelectPoll(w) \/ ExpireError(w)
    <3>1. \/ worker'[w] = [worker[w] EXCEPT !.pc = "expire", !.now = HostClock(w)]
          \/ \E found : worker'[w] = [worker[w] EXCEPT !.pc = "callback", !.found = found]
          \/ worker'[w] = [worker[w] EXCEPT !.pc = "poll", !.overdue = <<>>, !.failed = <<>>]
      BY <1>1, <2>1 DEF BeginRound, SelectPoll, ExpireError
    <3>. QED BY <1>1, <3>1 DEF WorkerType
  <2>2. CASE SelectOverdue(w)
    <3>1. PICK s \in ExpireCandidates(worker[w].now, Limit) :
            worker' = [worker EXCEPT
                         ![w].pc = IF s = <<>> THEN "poll" ELSE "expireRow",
                         ![w].overdue = s]
      BY <2>2 DEF SelectOverdue
    <3>2. worker'[w].pc = IF s = <<>> THEN "poll" ELSE "expireRow"
      BY <1>1, <3>1 DEF WorkerType
    <3>. QED BY <3>2
  <2>3. CASE SelectCallback(w) \/ ClaimError(w) \/ Crash(w)
    <3>1. \/ worker'[w] = Idle
          \/ worker'[w] = [Idle EXCEPT !.pc = "dead"]
          \/ \E found : worker'[w] = [worker[w] EXCEPT !.pc = "claim", !.found = found]
      BY <1>1, <2>3 DEF SelectCallback, ClaimError, Crash
    <3>. QED BY <1>1, <3>1 DEF WorkerType
  <2>4. CASE Claim(w)
    <3>1. \A batch : RunNext(w, batch) => worker'[w].pc \in {"idle", "run"}
      BY <1>1 DEF RunNext, WorkerType
    <3>2. \/ \E batch : RunNext(w, batch)
          \/ worker'[w].pc = "claim"
      BY <1>1, <2>4 DEF Claim, WorkerType
    <3>. QED BY <3>1, <3>2
  <2>5. CASE StepWrites(w) \/ StepPrepares(w)
    BY <1>1, <2>5 DEF StepWrites, StepPrepares, WorkerType
  <2>6. CASE ReadBackError(w)
    BY <2>6, OneItem
  <2>. QED BY <2>1, <2>2, <2>3, <2>4, <2>5, <2>6
<1>5. worker'[w].failed \in {worker[w].failed, <<>>}
  BY <1>1, <1>3, OtherReads
<1>6. Reads(w, t)' => Reads(w, t)
  BY <1>4, <1>5 DEF Reads, FinalIn
<1>7. UnmarkedOf(w)'
  BY <1>4 DEF UnmarkedOf
<1>. QED BY <1>2, <1>6, <1>7, QuietAccount

(* All of them. *)
LEMMA WorkerAccount ==
  ASSUME RuntimeInv, LeaseInv, Punctual, FollowInv, ReaderInv, NEW w \in Workers,
         SchedulerStep(w) \/ SchedulerFault(w), UNCHANGED <<invoke, post>>,
         NEW t \in Traces
  PROVE  OwnAccount(w, t) /\ UnmarkedOf(w)'
<1>1. CASE ExpireRow(w) \/ ExpireGet(w)
  <2>1. WorkerInv
    BY DEF LeaseInv
  <2>2. worker[w].pc \in {"expireRow", "expireGet"}
    BY <1>1 DEF ExpireRow, ExpireGet
  <2>3. worker'[w].pc # "stepped"
    BY <2>1, <2>2, SteppedFrom
  <2>. QED BY <1>1, <2>3, ExpiryAccount DEF UnmarkedOf
<1>. QED BY <1>1, StepEndAccount, RenewAccount, ReadBackAccount, OtherAccount
         DEF SchedulerStep, SchedulerFault

(* What is spent after a step is a number, too. *)
LEMMA SpentLater ==
  ASSUME FinishCallbackTypeOK', NEW t \in Traces, EndsOf(rows'[t]) \in Nat
  PROVE  /\ notified'[t] \in Nat /\ FirstReads(t)' \in {0, 1}
         /\ Spent(t)' \in Int
<1>1. notified'[t] \in Nat
  BY MaxNotifiedAssumption DEF FinishCallbackTypeOK
<1>2. FirstReads(t)' \in {0, 1}
  BY DEF FirstReads
<1>. QED BY <1>1, <1>2 DEF Spent

(* A worker's step keeps the count. *)
LEMMA WorkerKeepsReaders ==
  ASSUME RuntimeInv, LeaseInv, Punctual, FollowInv, ReaderInv, NEW w \in Workers,
         SchedulerStep(w) \/ SchedulerFault(w), UNCHANGED <<invoke, post>>,
         WorkerInv'
  PROVE  ReaderInv'
<1>. WorkerInv
  BY DEF LeaseInv
<1>1. PICK r : WorkerFrame(w, r)
  BY WorkerStepFrame
<1>2. ASSUME NEW v \in Workers, v # w
      PROVE  UnmarkedOf(v)' /\ \A t \in Traces : Reads(v, t)' => Reads(v, t)
  <2>1. worker'[v] = worker[v] /\ UNCHANGED clock
    BY <1>1, <1>2, WorkerTypes DEF WorkerFrame
  <2>2. RowByAnother(v)
    BY <1>1, <1>2 DEF WorkerFrame, RowByAnother
  <2>. QED BY <2>1, <2>2, BystanderReads
<1>3. ASSUME NEW t \in Traces
      PROVE  OwnAccount(w, t) /\ UnmarkedOf(w)'
  BY WorkerAccount
<1>4. \A v \in Workers : UnmarkedOf(v)'
  <2>1. CASE worker'[w].pc = "stepped"
    <3>1. RunningItem(w).trace \in Traces
      BY <2>1, SteppedFrom, RunningStep
    <3>. QED BY <1>2, <1>3, <3>1
  <2>2. CASE worker'[w].pc # "stepped"
    BY <1>2, <2>2 DEF UnmarkedOf
  <2>. QED BY <2>1, <2>2
<1>5. ASSUME NEW t \in Traces
      PROVE  BoundOf(t)'
  <2>1. /\ Readers(t)' \subseteq Readers(t) \cup {w}
        /\ ~Reads(w, t)' => Readers(t)' \subseteq Readers(t) \ {w}
        /\ (Reads(w, t)' => Reads(w, t)) => Readers(t)' \subseteq Readers(t)
        /\ Reads(w, t) => w \in Readers(t)
    BY <1>2 DEF Readers
  <2>2. OwnAccount(w, t) /\ BoundOf(t) /\ Spent(t) \in Int
    BY <1>3, SpentType DEF ReaderInv
  <2>3. Spent(t)' \in Int
    BY WorkerRowsEnd, SpentLater DEF WorkerInv, SchedulerTypeOK
  <2> DEFINE R == Readers(t)
             S == Readers(t)'
             n == Spent(t)
             m == Spent(t)'
  <2>4. \/ S \subseteq R /\ m <= n
        \/ (\E x : S \subseteq R \cup {x}) /\ m + 1 <= n
        \/ (\E x \in R : S \subseteq R \ {x}) /\ m <= n + 1
    BY <2>1, <2>2 DEF OwnAccount
  <2>5. IsFiniteSet(R) /\ n + Cardinality(R) <= 0 /\ n \in Int /\ m \in Int
    BY <2>2, <2>3 DEF BoundOf
  <2> HIDE DEF R, S, n, m
  <2>6. IsFiniteSet(S) /\ m + Cardinality(S) <= 0
    BY <2>4, <2>5, ReadersCounted
  <2>. QED BY <2>6 DEF BoundOf, S, m
<1>6. \A t \in Traces : rows'[t] # Null => Orderly(rows'[t])
  BY WorkerRowsEnd
<1>. QED BY <1>4, <1>5, <1>6 DEF ReaderInv, Stored

-----------------------------------------------------------------------------
(* The handlers: a first step ends once, and is read once.                 *)

(* Who is told, and who comes to read the first step. *)
LEMMA HandlerReads ==
  ASSUME RuntimeInv, HandlerNext, NEW t \in Traces
  PROVE  /\ \/ notified'[t] = notified[t]
            \/ /\ invoke[t].pc = "stepped" /\ invoke'[t].pc # "stepped"
               /\ IsFinished(t) /\ notified'[t] <= notified[t] + 1
         /\ invoke'[t].pc = "stepped" => invoke[t].pc \in {"run", "failing", "stepped"}
<1>1. /\ HandlerInv /\ FinishCallbackTypeOK /\ invoke \in [Traces -> InvokeType]
  BY ServerTypes DEF RuntimeInv
<1>2. ASSUME NEW u \in Traces, ServerStepOf(u) \/ ServerFaultOf(u)
      PROVE  /\ \/ notified'[t] = notified[t]
                \/ /\ invoke[t].pc = "stepped" /\ invoke'[t].pc # "stepped"
                   /\ IsFinished(t) /\ notified'[t] <= notified[t] + 1
             /\ invoke'[t].pc = "stepped" =>
                  invoke[t].pc \in {"run", "failing", "stepped"}
  <2>1. CASE InvokeReadBack(u)
    <3> DEFINE read == [trace |-> u, state |-> rows[u].state]
    <3>1. /\ invoke[u].pc = "stepped" /\ NotifyFinish({read})
          /\ invoke' = [invoke EXCEPT ![u].pc = "done"]
      BY <2>1 DEF InvokeReadBack, InvokeGoto
    <3>2. read.trace = u /\ read.state = rows[u].state
      OBVIOUS
    <3>3. Stored(u)
      BY <1>1, <3>1 DEF HandlerInv, InvokeOf
    <3> HIDE DEF read
    <3>4. /\ t # u => invoke'[t] = invoke[t]
          /\ t = u => invoke'[t].pc = "done"
      BY <1>1, <3>1 DEF InvokeType
    <3>5. CASE t = u /\ IsFinal(rows[u].state)
      <4>1. notified'[t] <= notified[t] + 1
        BY <1>1, <3>1, NotifyCounts
      <4>. QED BY <3>1, <3>3, <3>4, <3>5, <4>1 DEF IsFinished
    <3>6. CASE ~(t = u /\ IsFinal(rows[u].state))
      <4>1. \A x \in {read} : ~(x.trace = t /\ IsFinal(x.state))
        BY <3>2, <3>6
      <4>2. notified'[t] = notified[t]
        BY <1>1, <3>1, <4>1, NotifyCounts
      <4>. QED BY <3>4, <4>2
    <3>. QED BY <3>5, <3>6
  <2>2. CASE ~InvokeReadBack(u)
    <3>1. UNCHANGED notified
      BY <1>2, <2>2
         DEF ServerStepOf, ServerFaultOf, InvokeCreate, InvokeCreateError, InvokeWrites,
             InvokePrepares, InvokeStepEnds, InvokeStepError, InvokeFails, InvokeAborted
    <3>2. \/ UNCHANGED invoke
          \/ invoke[u].pc \in {"run", "failing"} /\ InvokeGoto(u, "stepped")
          \/ \E hash : invoke' = [invoke EXCEPT ![u].prepared = hash]
          \/ \E pc : pc # "stepped" /\ InvokeGoto(u, pc)
      BY <1>2, <2>2
         DEF ServerStepOf, ServerFaultOf, InvokeCreate, InvokeCreateError, InvokeWrites,
             InvokePrepares, InvokeStepEnds, InvokeStepError, InvokeFails, InvokeAborted
    <3>3. invoke'[t].pc = "stepped" => invoke[t].pc \in {"run", "failing", "stepped"}
      BY <1>1, <3>2 DEF InvokeGoto, InvokeType
    <3>. QED BY <3>1, <3>3
  <2>. QED BY <2>1, <2>2
<1>3. ASSUME NEW p \in Posts, PostStep(p) \/ PostError(p)
      PROVE  UNCHANGED <<invoke, notified>>
  BY <1>3 DEF PostStep, PostError, PostArrives, PostUpdates, PostLooksUp
<1>. QED BY <1>2, <1>3 DEF HandlerNext

(* A request spends nothing: it comes to read the row with the end of its  *)
(* first step, and notifies when it has.                                   *)
LEMMA HandlerSpends ==
  ASSUME RuntimeInv, RuntimeInv', ~LostAcks, ReaderInv, HandlerNext, NEW t \in Traces
  PROVE  /\ Spent(t)' \in Int /\ Spent(t)' <= Spent(t)
         /\ rows'[t] # Null => Orderly(rows'[t])
<1>1. /\ WorkerInv /\ HandlerFrame /\ InvokeOf(t) /\ FailingEmpty
      /\ Stored(t) => Orderly(rows[t])
  BY HandlerNextFrame DEF RuntimeInv, HandlerInv, ReaderInv
<1>2. \/ rows'[t] = rows[t]
      \/ HandlerTouches(t) /\ OutsideRow(t)
  <2>1. ASSUME NEW s, HandlerTouches(s), s # t
        PROVE  rows'[t] = rows[t]
    BY <1>1, <2>1, WorkerTypes, OtherRowsAreKept DEF HandlerTouches
  <2>. QED BY <1>1, <2>1, HandlerIsOutside DEF HandlerFrame
<1>3. /\ EndsOf(rows[t]) \in Nat /\ EndsOf(rows'[t]) \in Nat
      /\ EndsOf(rows'[t]) >= EndsOf(rows[t])
      /\ rows'[t] # Null => Orderly(rows'[t])
      /\ Stored(t) /\ rows[t].state = "EMPTY" /\ rows'[t].state # "EMPTY" =>
           EndsOf(rows'[t]) = EndsOf(rows[t]) + 1
  <2>1. CASE rows'[t] = rows[t]
    BY <1>1, <2>1, SpentType DEF Stored
  <2>2. CASE OutsideRow(t)
    BY <1>1, <2>2, OutsideRowEnds
  <2>. QED BY <1>2, <2>1, <2>2
<1>4. /\ notified[t] \in Nat /\ notified'[t] \in Nat
      /\ FirstReads(t) \in {0, 1} /\ FirstReads(t)' \in {0, 1} /\ Spent(t)' \in Int
  BY <1>1, <1>3, SpentType, SpentLater
     DEF RuntimeInv, WorkerInv, SchedulerTypeOK
<1>5. /\ notified'[t] = notified[t] \/ (notified'[t] <= notified[t] + 1 /\ FirstReads(t) = 1
                                          /\ FirstReads(t)' = 0)
      /\ \/ FirstReads(t)' <= FirstReads(t)
         \/ notified'[t] = notified[t] /\ EndsOf(rows'[t]) = EndsOf(rows[t]) + 1
  <2>1. ASSUME IsFinished(t), invoke[t].pc = "stepped", invoke'[t].pc # "stepped"
        PROVE  FirstReads(t) = 1 /\ FirstReads(t)' = 0
    BY <2>1 DEF IsFinished, IsFinal, FirstReads
  <2>2. CASE invoke'[t].pc # "stepped"
    <3>1. FirstReads(t)' = 0
      BY <2>2 DEF FirstReads
    <3>. QED BY <1>4, <2>1, <3>1, HandlerReads
  <2>3. CASE invoke'[t].pc = "stepped" /\ invoke[t].pc \in {"run", "failing"}
    <3>1. Stored(t) /\ rows[t].state = "EMPTY"
      BY <1>1, <2>3 DEF InvokeOf, FailingEmpty
    <3>2. FirstReads(t)' = 0 \/ rows'[t].state # "EMPTY"
      BY DEF FirstReads
    <3>. QED BY <1>3, <1>4, <2>3, <3>1, <3>2, HandlerReads
  <2>4. CASE invoke'[t].pc = "stepped" /\ invoke[t].pc = "stepped"
    <3>1. rows[t].state = "EMPTY" => rows'[t].state = "EMPTY"
      BY <1>1, <1>2, <2>4 DEF HandlerTouches, InvokeOf, AnsweredRow
    <3>2. Stored(t)
      BY <1>1, <2>4 DEF InvokeOf
    <3>3. FirstReads(t)' <= FirstReads(t)
      BY <2>4, <3>1, <3>2 DEF FirstReads
    <3>. QED BY <2>4, <3>3, HandlerReads
  <2>. QED BY <2>2, <2>3, <2>4, HandlerReads
<1>6. notified'[t] + FirstReads(t)' - EndsOf(rows'[t])
        <= notified[t] + FirstReads(t) - EndsOf(rows[t])
  BY <1>3, <1>4, <1>5
<1>. QED BY <1>3, <1>4, <1>6 DEF Spent

(* ... and takes no row from a worker, nor gives it one to read. *)
LEMMA HandlerKeepsReaders ==
  ASSUME RuntimeInv, RuntimeInv', LeaseInv, Punctual, ~LostAcks, ReaderInv, HandlerNext
  PROVE  ReaderInv'
<1>. WorkerInv
  BY DEF LeaseInv
<1>1. HandlerFrame
  BY HandlerNextFrame
<1>2. ASSUME NEW v \in Workers
      PROVE  UnmarkedOf(v)' /\ \A t \in Traces : Reads(v, t)' => Reads(v, t)
  <2>1. RowByAnother(v)
    BY <1>1, HandlerIsOutside DEF HandlerFrame, RowByAnother
  <2>. QED BY <1>1, <2>1, BystanderReads DEF HandlerFrame
<1>3. ASSUME NEW t \in Traces
      PROVE  BoundOf(t)'
  <2> DEFINE R == Readers(t)
             S == Readers(t)'
             n == Spent(t)
             m == Spent(t)'
  <2>1. S \subseteq R
    BY <1>2 DEF Readers
  <2>2. m \in Int /\ m <= n /\ n \in Int
    BY HandlerSpends, SpentType
  <2>3. IsFiniteSet(R) /\ n + Cardinality(R) <= 0
    BY DEF ReaderInv, BoundOf
  <2> HIDE DEF R, S, n, m
  <2>4. IsFiniteSet(S) /\ m + Cardinality(S) <= 0
    BY <2>1, <2>2, <2>3, ReadersCounted
  <2>. QED BY <2>4 DEF BoundOf, S, m
<1>4. \A t \in Traces : rows'[t] # Null => Orderly(rows'[t])
  BY HandlerSpends
<1>. QED BY <1>2, <1>3, <1>4 DEF ReaderInv, Stored

-----------------------------------------------------------------------------
(* The invariant.                                                          *)

(* No time passes while a step that has ended is to be read back.          *)
LEMMA TickKeepsReaders ==
  ASSUME Punctual, ReaderInv, RuntimeTick \/ UNCHANGED runtimeVars
  PROVE  ReaderInv'
<1>1. UNCHANGED <<rows, notified, worker, invoke>>
  BY DEF RuntimeTick, Tick, runtimeVars
<1>2. \A t \in Traces : Stored(t)' => Orderly(rows'[t])
  BY <1>1 DEF ReaderInv, Stored
<1>3. ASSUME NEW w \in Workers
      PROVE  UnmarkedOf(w)'
  <2>1. CASE RuntimeTick
    <3>1. worker'[w].pc # "stepped"
      BY <1>1, <2>1 DEF RuntimeTick, Tick, OnTime, Punctual
    <3>. QED BY <3>1 DEF UnmarkedOf
  <2>2. CASE UNCHANGED runtimeVars
    BY <2>2 DEF runtimeVars, ReaderInv, UnmarkedOf, RunningItem, HostClock
  <2>. QED BY <2>1, <2>2
<1>4. ASSUME NEW t \in Traces
      PROVE  BoundOf(t)'
  <2>1. Spent(t)' = Spent(t)
    BY <1>1 DEF Spent, FirstReads, Stored
  <2>2. Readers(t)' = Readers(t)
    BY <1>1 DEF Readers, Reads, RunningItem
  <2>. QED BY <2>1, <2>2 DEF ReaderInv, BoundOf
<1>. QED BY <1>2, <1>3, <1>4 DEF ReaderInv

(* At the start nothing is stored, sent or to be read. *)
LEMMA ReadersInit == PluginRuntimeInit => ReaderInv
<1>. SUFFICES ASSUME PluginRuntimeInit
              PROVE  ReaderInv
  OBVIOUS
<1>1. /\ \A t \in Traces : rows[t] = Null /\ notified[t] = 0
      /\ \A w \in Workers : worker[w] = Idle
  BY DEF PluginRuntimeInit, SchedulerInit, StoreInit, FinishCallbackInit
<1>2. \A w \in Workers : worker[w].pc = "idle" /\ worker[w].failed = <<>>
  BY <1>1, IdleType
<1>3. \A w \in Workers : UnmarkedOf(w)
  BY <1>2 DEF UnmarkedOf
<1>4. ASSUME NEW t \in Traces
      PROVE  BoundOf(t)
  <2>1. Readers(t) = {}
    <3>1. \A w \in Workers : ~Reads(w, t)
      BY <1>2 DEF Reads, FinalIn
    <3>. QED BY <3>1 DEF Readers
  <2>2. Spent(t) = 0
    BY <1>1 DEF Spent, FirstReads, EndsOf, StepsOf, Stored
  <2>3. IsFiniteSet({}) /\ Cardinality({}) = 0
    BY FS_EmptySet
  <2>. QED BY <2>1, <2>2, <2>3 DEF BoundOf
<1>. QED BY <1>1, <1>3, <1>4 DEF ReaderInv, Stored

(* Every step keeps the count. *)
LEMMA ReadersNext ==
  ASSUME Punctual, ~LostAcks, RuntimeInv, RuntimeInv', LeaseInv, FollowInv, ReaderInv,
         [PluginRuntimeNext]_runtimeVars
  PROVE  ReaderInv'
<1>1. CASE WorkerNext
  BY <1>1, WorkerKeepsReaders DEF WorkerNext, RuntimeInv
<1>2. CASE HandlerNext
  BY <1>2, HandlerKeepsReaders
<1>3. CASE RuntimeTick \/ UNCHANGED runtimeVars
  BY <1>3, TickKeepsReaders
<1>. QED BY <1>1, <1>2, <1>3 DEF PluginRuntimeNext

(* The finish callbacks sent for a trace, and those its readers may still  *)
(* send, are no more than the steps it has seen end and its expiry.        *)
THEOREM ReadersAreCounted ==
  ASSUME Punctual, ~LostAcks, PollsOutlastSkew
  PROVE  PluginRuntimeSpec /\ AnswersAwaitClaims => []ReaderInv
<1>1. PluginRuntimeInit => ReaderInv
  BY ReadersInit
<1>2. RuntimeInv /\ RuntimeInv' /\ LeaseInv /\ FollowInv /\ ReaderInv
        /\ [PluginRuntimeNext]_runtimeVars => ReaderInv'
  BY ReadersNext
<1>. QED BY <1>1, <1>2, RuntimeInvariant, RuntimeLeaseInvariant, FollowRuntime, PTL
         DEF PluginRuntimeSpec

(* The caller is told of an end once for each step at most, and once more  *)
(* for an expiry.                                                          *)
THEOREM NotifiedOncePerStep ==
  ASSUME Punctual, ~LostAcks, PollsOutlastSkew
  PROVE  PluginRuntimeSpec /\ AnswersAwaitClaims => []NotifiedPerStep
<1>1. RuntimeInv /\ ReaderInv => NotifiedPerStep
  <2>. SUFFICES ASSUME RuntimeInv, ReaderInv, NEW t \in Traces, Stored(t)
                PROVE  notified[t] <= StepsDone(t) +
                         (IF rows[t].errorCode = "CALLBACK_TIMEOUT" THEN 1 ELSE 0)
    BY DEF NotifiedPerStep
  <2>1. WorkerInv /\ BoundOf(t)
    BY DEF RuntimeInv, ReaderInv
  <2>2. rows[t] \in Schedule
    BY <2>1, WorkerTypes, StoredRow
  <2>3. EndsOf(rows[t]) = StepsDone(t) +
                         (IF rows[t].errorCode = "CALLBACK_TIMEOUT" THEN 1 ELSE 0)
    BY <2>2, EndsOfRow DEF StepsDone
  <2>4. Cardinality(Readers(t)) \in Nat
    BY <2>1, FS_CardinalityType DEF BoundOf
  <2>5. /\ EndsOf(rows[t]) \in Nat /\ notified[t] \in Nat /\ FirstReads(t) \in {0, 1}
        /\ notified[t] + FirstReads(t) - EndsOf(rows[t]) + Cardinality(Readers(t)) <= 0
    BY <2>1, SpentType DEF BoundOf, Spent
  <2>6. notified[t] <= EndsOf(rows[t])
    BY <2>4, <2>5
  <2>. QED BY <2>3, <2>6
<1>. QED BY <1>1, RuntimeInvariant, ReadersAreCounted, PTL
=============================================================================
