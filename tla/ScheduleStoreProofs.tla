------------------------- MODULE ScheduleStoreProofs -------------------------
(***************************************************************************)
(* The invariants of the schedules table, for every set of traces, of      *)
(* workers, of tokens and of instants, and for every order in which any    *)
(* number of clients issue statements.                                     *)
(*                                                                         *)
(* Every statement changes one row, so the proof is about rows: RowInv is  *)
(* kept by each change a statement makes to a row, and StoreInv says that  *)
(* it holds of every row.  The facts about a step are proved of any        *)
(* statement with any instant (AnyStatement), of which those of StoreNext, *)
(* of the server and of the workers are instances: the modules that prove  *)
(* about the server and the scheduler take them from here.                 *)
(***************************************************************************)
EXTENDS ScheduleStore, FiniteSetTheorems, TLAPS

RowInv(r) ==
  /\ r \in Schedule
  /\ IsFinal(r.state) => r.finished
  /\ r.finished => r.lockedBy = Null /\ r.lockedUntil = Null
  /\ r.lockedBy = Null <=> r.lockedUntil = Null
  /\ r.errorCode = "CALLBACK_TIMEOUT" => r.finished /\ r.receivedAt = Null

StoreInv ==
  /\ StoreTypeOK
  /\ \A t \in Traces : Stored(t) => RowInv(rows[t])

(* One statement on the row of t, with any argument. *)
Statement(t) ==
  \/ \E n \in InvokeCounts, next \in Nat : Create(t, n, next)
  \/ \E data \in Payloads : UpdateContextData(t, data)
  \/ \E data \in Payloads : UpdateOutputs(t, data)
  \/ \E n \in InvokeCounts, next \in Nat : MarkPoll(t, n, next)
  \/ \E n \in InvokeCounts, hash \in Hashes, expires \in Nat :
       MarkCallback(t, n, hash, expires)
  \/ \E n \in InvokeCounts : MarkSuccess(t, n)
  \/ \E n \in InvokeCounts : MarkFail(t, n)
  \/ \E hash \in Hashes, data \in Payloads, now \in Nat :
       ReceiveCallback(t, hash, data, now)
  \/ ExpireCallback(t)
  \/ \E w \in Workers, until \in Nat : RenewLock(t, w, until)
  \/ \E w \in Workers, state \in {"POLL", "CALLBACK"},
        now \in Nat, until \in Nat :
       ClaimDueItem(t, state, w, now, until)

AnyStatement == \E t \in Traces : Statement(t)

(* Every step of the table is a statement.                                 *)
LEMMA StoreNextIsStatement == StoreNext => AnyStatement
BY TimesAssumption DEF StoreNext, AnyStatement, Statement

-----------------------------------------------------------------------------
(* What the statements do to a row.                                        *)

(* The row Invoke inserts. *)
LEMMA NewScheduleInv ==
  ASSUME NEW n \in InvokeCounts, NEW next \in Nat
  PROVE  RowInv(NewSchedule(n, next))
BY PayloadsAssumption
   DEF RowInv, NewSchedule, Schedule, States, ErrorCodes, IsFinal

(* The data a step writes. *)
LEMMA DataRowInv ==
  ASSUME NEW r, RowInv(r), NEW data \in Payloads
  PROVE  /\ RowInv([r EXCEPT !.contextData = data])
         /\ RowInv([r EXCEPT !.outputs = data])
BY DEF RowInv, Schedule

(* A step that polls. *)
LEMMA PollRowInv ==
  ASSUME NEW r, RowInv(r), NEW n \in InvokeCounts, NEW next \in Nat
  PROVE  RowInv(PollRow(r, n, next))
BY DEF RowInv, PollRow, Schedule, States, IsFinal

(* A step that waits for a callback. *)
LEMMA CallbackRowInv ==
  ASSUME NEW r, RowInv(r), NEW n \in InvokeCounts,
         NEW hash \in Hashes, NEW expires \in Nat
  PROVE  RowInv(CallbackRow(r, n, hash, expires))
BY PayloadsAssumption
   DEF RowInv, CallbackRow, Schedule, States, IsFinal

(* A step that ends the schedule. *)
LEMMA EndRowInv ==
  ASSUME NEW r, RowInv(r), NEW n \in InvokeCounts
  PROVE  RowInv(SuccessRow(r, n)) /\ RowInv(FailRow(r, n))
BY DEF RowInv, SuccessRow, FailRow, Schedule, States, ErrorCodes, IsFinal

(* A callback recorded in a row that was waiting for it. *)
LEMMA ReceivedRowInv ==
  ASSUME NEW r, RowInv(r), NEW hash, NEW data \in Payloads, NEW now \in Nat,
         ReceiveMatches(r, hash, now)
  PROVE  RowInv(ReceivedRow(r, data, now))
BY NullAssumption
   DEF RowInv, ReceivedRow, ReceiveMatches, Schedule, States, IsFinal

(* A callback that was not received in time. *)
LEMMA ExpiredRowInv ==
  ASSUME NEW r, RowInv(r), ExpireMatches(r)
  PROVE  RowInv(ExpiredRow(r))
BY DEF RowInv, ExpiredRow, ExpireMatches, Schedule, States, ErrorCodes, IsFinal

(* The two statements that take or extend a lease. *)
LEMMA RenewedRowInv ==
  ASSUME NEW r, RowInv(r), NEW w \in Workers, NEW until \in Nat,
         RenewMatches(r, w)
  PROVE  RowInv([r EXCEPT !.lockedUntil = until])
BY NullAssumption DEF RowInv, RenewMatches, Schedule

(* A claimed row is unfinished: the claim tests it.                        *)
LEMMA ClaimedRowInv ==
  ASSUME NEW r, RowInv(r), NEW w \in Workers, NEW until \in Nat,
         ~r.finished
  PROVE  RowInv([r EXCEPT !.lockedBy = w, !.lockedUntil = until])
BY NullAssumption DEF RowInv, Schedule

(* A statement that leaves one row well formed leaves the table so.        *)
LEMMA OneRow ==
  ASSUME StoreInv, NEW t \in Traces, NEW r, RowInv(r),
         rows' = [rows EXCEPT ![t] = r]
  PROVE  StoreInv'
<1>1. r \in Schedule
  BY DEF RowInv
<1>2. StoreTypeOK'
  BY <1>1 DEF StoreInv, StoreTypeOK
<1>3. ASSUME NEW u \in Traces, Stored(u)'
      PROVE  RowInv(rows'[u])
  <2>1. CASE u = t
    BY <2>1 DEF StoreInv, StoreTypeOK
  <2>2. CASE u # t
    BY <1>3, <2>2 DEF StoreInv, StoreTypeOK, Stored
  <2>. QED BY <2>1, <2>2
<1>. QED BY <1>2, <1>3 DEF StoreInv, RowInv

-----------------------------------------------------------------------------
(* The invariant of the table.                                             *)

(* The empty table.                                                        *)
LEMMA InitInv == StoreInit => StoreInv
BY DEF StoreInit, StoreInv, StoreTypeOK, Stored

(* The row of a trace that has one. *)
LEMMA StoredRow ==
  ASSUME StoreInv, NEW t \in Traces, Stored(t)
  PROVE  rows[t] \in Schedule /\ RowInv(rows[t])
BY DEF StoreInv, RowInv

(* One statement of one client. *)
LEMMA StatementInv == StoreInv /\ [AnyStatement]_rows => StoreInv'
<1>. SUFFICES ASSUME StoreInv, [AnyStatement]_rows
              PROVE  StoreInv'
  OBVIOUS
<1>1. CASE UNCHANGED rows
  BY <1>1 DEF StoreInv, StoreTypeOK, Stored
<1>2. CASE AnyStatement
  <2>. PICK t \in Traces : Statement(t)
    BY <1>2 DEF AnyStatement
  <2>1. CASE \E n \in InvokeCounts, next \in Nat : Create(t, n, next)
    BY <2>1, NewScheduleInv, OneRow DEF Create
  <2>2. CASE \E data \in Payloads : UpdateContextData(t, data)
    BY <2>2, StoredRow, DataRowInv, OneRow DEF UpdateContextData
  <2>3. CASE \E data \in Payloads : UpdateOutputs(t, data)
    BY <2>3, StoredRow, DataRowInv, OneRow DEF UpdateOutputs
  <2>4. CASE \E n \in InvokeCounts, next \in Nat : MarkPoll(t, n, next)
    BY <2>4, StoredRow, PollRowInv, OneRow DEF MarkPoll
  <2>5. CASE \E n \in InvokeCounts, hash \in Hashes, expires \in Nat :
               MarkCallback(t, n, hash, expires)
    BY <2>5, StoredRow, CallbackRowInv, OneRow DEF MarkCallback
  <2>6. CASE \E n \in InvokeCounts : MarkSuccess(t, n)
    BY <2>6, StoredRow, EndRowInv, OneRow DEF MarkSuccess
  <2>7. CASE \E n \in InvokeCounts : MarkFail(t, n)
    BY <2>7, StoredRow, EndRowInv, OneRow DEF MarkFail
  <2>8. CASE \E hash \in Hashes, data \in Payloads, now \in Nat :
               ReceiveCallback(t, hash, data, now)
    BY <2>8, StoredRow, ReceivedRowInv, OneRow DEF ReceiveCallback
  <2>9. CASE ExpireCallback(t)
    BY <2>9, StoredRow, ExpiredRowInv, OneRow DEF ExpireCallback
  <2>10. CASE \E w \in Workers, until \in Nat : RenewLock(t, w, until)
    BY <2>10, StoredRow, RenewedRowInv, OneRow DEF RenewLock
  <2>11. CASE \E w \in Workers, state \in {"POLL", "CALLBACK"},
                 now \in Nat, until \in Nat :
                ClaimDueItem(t, state, w, now, until)
    BY <2>11, StoredRow, ClaimedRowInv, OneRow
       DEF ClaimDueItem, ClaimMatches, Claimable
  <2>. QED
    BY <2>1, <2>2, <2>3, <2>4, <2>5, <2>6, <2>7, <2>8, <2>9, <2>10, <2>11
       DEF Statement
<1>. QED BY <1>1, <1>2

(* The inductive invariant holds in every reachable state of the table. *)
THEOREM StoreInvariant == StoreSpec => []StoreInv
<1>1. StoreInit => StoreInv
  BY InitInv
<1>2. StoreInv /\ [StoreNext]_rows => StoreInv'
  BY StatementInv, StoreNextIsStatement
<1>. QED BY <1>1, <1>2, PTL DEF StoreSpec

(* Rows are well typed whatever the clients do. *)
THEOREM StoreTypeCorrect == StoreSpec => []StoreTypeOK
<1>1. StoreInv => StoreTypeOK
  BY DEF StoreInv
<1>. QED BY <1>1, StoreInvariant, PTL

(* A state a caller takes as final always carries finished_at. *)
THEOREM FinalStatesAreFinished == StoreSpec => []FinalStateFinished
<1>1. StoreInv => FinalStateFinished
  BY DEF StoreInv, RowInv, FinalStateFinished
<1>. QED BY <1>1, StoreInvariant, PTL

(* No worker ever holds a lease on a finished row. *)
THEOREM FinishedRowsAreUnleased == StoreSpec => []FinishedRowUnleased
<1>1. StoreInv => FinishedRowUnleased
  BY DEF StoreInv, RowInv, FinishedRowUnleased
<1>. QED BY <1>1, StoreInvariant, PTL

(* A lease has an owner and a deadline, or neither. *)
THEOREM LeasesAreWellFormed == StoreSpec => []LeaseWellFormed
<1>1. StoreInv => LeaseWellFormed
  BY DEF StoreInv, RowInv, LeaseWellFormed
<1>. QED BY <1>1, StoreInvariant, PTL

(* A row failed for want of a callback never has one. *)
THEOREM TimedOutRowsNeverReceived == StoreSpec => []TimedOutNeverReceived
<1>1. StoreInv => TimedOutNeverReceived
  BY DEF StoreInv, RowInv, TimedOutNeverReceived
<1>. QED BY <1>1, StoreInvariant, PTL

-----------------------------------------------------------------------------
(* What a step may never do to a row.                                      *)

(* What becomes, in one step of any client, of a row r. *)
RowStep(r, s) ==
  \/ s = r
  \/ \E data \in Payloads : \/ s = [r EXCEPT !.contextData = data]
                            \/ s = [r EXCEPT !.outputs = data]
  \/ \E n \in InvokeCounts, next \in Nat : s = PollRow(r, n, next)
  \/ \E n \in InvokeCounts, hash \in Hashes, expires \in Nat :
       s = CallbackRow(r, n, hash, expires)
  \/ \E n \in InvokeCounts : s = SuccessRow(r, n) \/ s = FailRow(r, n)
  \/ \E hash \in Hashes, data \in Payloads, now \in Nat :
       ReceiveMatches(r, hash, now) /\ s = ReceivedRow(r, data, now)
  \/ ExpireMatches(r) /\ s = ExpiredRow(r)
  \/ \E until \in Nat : s = [r EXCEPT !.lockedUntil = until]
  \/ \E w \in Workers, until \in Nat :
       s = [r EXCEPT !.lockedBy = w, !.lockedUntil = until]

(* A statement changes no row but its own. *)
LEMMA OtherRowsAreKept ==
  ASSUME StoreInv, NEW t \in Traces, Statement(t), NEW u \in Traces, u # t
  PROVE  rows'[u] = rows[u]
BY DEF StoreInv, StoreTypeOK, Statement, Create, UpdateContextData,
       UpdateOutputs, MarkPoll, MarkCallback, MarkSuccess, MarkFail,
       ReceiveCallback, ExpireCallback, RenewLock, ClaimDueItem

(* What a statement can make of a row that is there.                       *)
LEMMA StepsAreRowSteps ==
  ASSUME StoreInv, AnyStatement, NEW u \in Traces, Stored(u)
  PROVE  RowStep(rows[u], rows'[u])
<1>. PICK t \in Traces : Statement(t)
  BY DEF AnyStatement
<1>. rows \in [Traces -> Schedule \cup {Null}]
  BY DEF StoreInv, StoreTypeOK
<1>1. CASE u # t
  BY <1>1, OtherRowsAreKept DEF RowStep
<1>2. CASE u = t
  <2>1. ~ \E n \in InvokeCounts, next \in Nat : Create(t, n, next)
    BY <1>2 DEF Create
  <2>2. CASE \E data \in Payloads : \/ UpdateContextData(t, data)
                                    \/ UpdateOutputs(t, data)
    BY <1>2, <2>2 DEF UpdateContextData, UpdateOutputs, RowStep
  <2>3. CASE \/ \E n \in InvokeCounts, next \in Nat : MarkPoll(t, n, next)
             \/ \E n \in InvokeCounts, hash \in Hashes, expires \in Nat :
                  MarkCallback(t, n, hash, expires)
    <3>1. \/ \E n \in InvokeCounts, next \in Nat :
               rows'[u] = PollRow(rows[u], n, next)
          \/ \E n \in InvokeCounts, hash \in Hashes, expires \in Nat :
               rows'[u] = CallbackRow(rows[u], n, hash, expires)
      BY <1>2, <2>3 DEF MarkPoll, MarkCallback
    <3>. QED BY <3>1 DEF RowStep
  <2>4. CASE \E n \in InvokeCounts : MarkSuccess(t, n) \/ MarkFail(t, n)
    <3>1. \E n \in InvokeCounts : \/ rows'[u] = SuccessRow(rows[u], n)
                                  \/ rows'[u] = FailRow(rows[u], n)
      BY <1>2, <2>4 DEF MarkSuccess, MarkFail
    <3>. QED BY <3>1 DEF RowStep
  <2>5. CASE \/ \E hash \in Hashes, data \in Payloads, now \in Nat :
                  ReceiveCallback(t, hash, data, now)
             \/ ExpireCallback(t)
    <3>1. \/ \E hash \in Hashes, data \in Payloads, now \in Nat :
               /\ ReceiveMatches(rows[u], hash, now)
               /\ rows'[u] = ReceivedRow(rows[u], data, now)
          \/ ExpireMatches(rows[u]) /\ rows'[u] = ExpiredRow(rows[u])
      BY <1>2, <2>5 DEF ReceiveCallback, ExpireCallback
    <3>. QED BY <3>1 DEF RowStep
  <2>6. CASE \/ \E w \in Workers, until \in Nat : RenewLock(t, w, until)
             \/ \E w \in Workers, state \in {"POLL", "CALLBACK"},
                   now \in Nat, until \in Nat :
                  ClaimDueItem(t, state, w, now, until)
    BY <1>2, <2>6 DEF RenewLock, ClaimDueItem, RowStep
  <2>. QED BY <2>1, <2>2, <2>3, <2>4, <2>5, <2>6 DEF Statement
<1>. QED BY <1>1, <1>2

(* What a row becomes is a row. *)
LEMMA RowStepType ==
  ASSUME NEW r \in Schedule, NEW s, RowStep(r, s)
  PROVE  s \in Schedule
<1>1. CASE \E data \in Payloads : \/ s = [r EXCEPT !.contextData = data]
                                  \/ s = [r EXCEPT !.outputs = data]
  BY <1>1 DEF Schedule
<1>2. CASE \E n \in InvokeCounts, next \in Nat : s = PollRow(r, n, next)
  BY <1>2 DEF Schedule, PollRow, States
<1>3. CASE \E n \in InvokeCounts, hash \in Hashes, expires \in Nat :
             s = CallbackRow(r, n, hash, expires)
  <2>. PICK n \in InvokeCounts, hash \in Hashes, expires \in Nat :
         s = CallbackRow(r, n, hash, expires)
    BY <1>3
  <2>. QED BY PayloadsAssumption DEF Schedule, CallbackRow, States
<1>4. CASE \E n \in InvokeCounts : s = SuccessRow(r, n) \/ s = FailRow(r, n)
  <2>. PICK n \in InvokeCounts : s = SuccessRow(r, n) \/ s = FailRow(r, n)
    BY <1>4
  <2>1. CASE s = SuccessRow(r, n)
    BY <2>1 DEF Schedule, SuccessRow, States
  <2>2. CASE s = FailRow(r, n)
    BY <2>2 DEF Schedule, FailRow, States, ErrorCodes
  <2>. QED BY <2>1, <2>2
<1>5. CASE \E hash \in Hashes, data \in Payloads, now \in Nat :
             ReceiveMatches(r, hash, now) /\ s = ReceivedRow(r, data, now)
  BY <1>5 DEF Schedule, ReceivedRow
<1>6. CASE ExpireMatches(r) /\ s = ExpiredRow(r)
  BY <1>6 DEF Schedule, ExpiredRow, States, ErrorCodes
<1>7. CASE \/ \E until \in Nat : s = [r EXCEPT !.lockedUntil = until]
           \/ \E w \in Workers, until \in Nat :
                s = [r EXCEPT !.lockedBy = w, !.lockedUntil = until]
  BY <1>7 DEF Schedule
<1>. QED BY <1>1, <1>2, <1>3, <1>4, <1>5, <1>6, <1>7 DEF RowStep

(* No statement takes a row away. *)
LEMMA RowsAreKept ==
  ASSUME StoreInv, [AnyStatement]_rows, NEW t \in Traces, Stored(t)
  PROVE  rows'[t] # Null
<1>1. CASE UNCHANGED rows
  BY <1>1 DEF Stored
<1>2. CASE AnyStatement
  <2>1. rows'[t] \in Schedule
    BY <1>2, StepsAreRowSteps, StoredRow, RowStepType
  <2>. QED BY <2>1, NoRowAssumption
<1>. QED BY <1>1, <1>2

(* The wait of a row is as it was. *)
SameWait(t) ==
  /\ rows'[t].tokenHash = rows[t].tokenHash
  /\ rows'[t].receivedAt = rows[t].receivedAt
  /\ rows'[t].callbackData = rows[t].callbackData

(* What the statements make of the row of t. *)
LEMMA CreateEffect ==
  ASSUME StoreInv, NEW t \in Traces, NEW n \in InvokeCounts, NEW next \in Nat,
         Create(t, n, next)
  PROVE  /\ Statement(t) /\ ~Stored(t) /\ rows'[t] = NewSchedule(n, next)
         /\ rows'[t] # Null
         /\ rows'[t].state = "EMPTY" /\ rows'[t].tokenHash = Null
<1>1. rows'[t] = NewSchedule(n, next)
  BY DEF Create, StoreInv, StoreTypeOK
<1>2. NewSchedule(n, next) \in Schedule
  BY NewScheduleInv DEF RowInv
<1>3. Statement(t) /\ ~Stored(t)
  BY DEF Create, Statement
<1>4. NewSchedule(n, next).state = "EMPTY" /\ NewSchedule(n, next).tokenHash = Null
  BY DEF NewSchedule
<1>. QED BY <1>1, <1>2, <1>3, <1>4, NoRowAssumption

(* A write of data leaves the wait of the row and its state.               *)
LEMMA WriteEffect ==
  ASSUME StoreInv, NEW t \in Traces, NEW data \in Payloads,
         UpdateOutputs(t, data) \/ UpdateContextData(t, data)
  PROVE  /\ Statement(t) /\ Stored(t) /\ rows'[t] # Null
         /\ SameWait(t) /\ rows'[t].state = rows[t].state
<1>1. Statement(t) /\ Stored(t)
  BY DEF UpdateOutputs, UpdateContextData, Statement
<1>2. rows'[t] # Null
  BY <1>1, RowsAreKept DEF AnyStatement
<1>3. rows[t] \in Schedule /\ rows \in [Traces -> Schedule \cup {Null}]
  BY <1>1, StoredRow DEF StoreInv, StoreTypeOK
<1>. QED BY <1>1, <1>2, <1>3
         DEF UpdateOutputs, UpdateContextData, SameWait, Schedule

(* A mark other than that of a wait leaves the wait of the row.            *)
LEMMA MarkEffect ==
  ASSUME StoreInv, NEW t \in Traces, NEW n \in InvokeCounts,
         \/ \E next \in Nat : MarkPoll(t, n, next)
         \/ MarkSuccess(t, n)
         \/ MarkFail(t, n)
  PROVE  /\ Statement(t) /\ Stored(t) /\ rows'[t] # Null
         /\ SameWait(t) /\ rows'[t].state \in {"POLL", "SUCCESS", "FAIL"}
<1>1. Statement(t) /\ Stored(t)
  BY DEF MarkPoll, MarkSuccess, MarkFail, Statement
<1>2. rows'[t] # Null
  BY <1>1, RowsAreKept DEF AnyStatement
<1>3. rows[t] \in Schedule /\ rows \in [Traces -> Schedule \cup {Null}]
  BY <1>1, StoredRow DEF StoreInv, StoreTypeOK
<1>4. CASE \E next \in Nat : MarkPoll(t, n, next)
  BY <1>1, <1>2, <1>3, <1>4 DEF MarkPoll, PollRow, SameWait, Schedule
<1>5. CASE MarkSuccess(t, n)
  BY <1>1, <1>2, <1>3, <1>5 DEF MarkSuccess, SuccessRow, SameWait, Schedule
<1>6. CASE MarkFail(t, n)
  BY <1>1, <1>2, <1>3, <1>6 DEF MarkFail, FailRow, SameWait, Schedule
<1>. QED BY <1>4, <1>5, <1>6

(* The mark of a wait puts the row in CALLBACK, with the token to come.    *)
LEMMA WaitEffect ==
  ASSUME StoreInv, NEW t \in Traces, NEW n \in InvokeCounts,
         NEW hash \in Hashes, NEW expires \in Nat,
         MarkCallback(t, n, hash, expires)
  PROVE  /\ Statement(t) /\ Stored(t) /\ rows'[t] # Null
         /\ rows'[t].tokenHash = hash /\ rows'[t].state = "CALLBACK"
<1>1. Statement(t) /\ Stored(t)
  BY DEF MarkCallback, Statement
<1>2. rows'[t] # Null
  BY <1>1, RowsAreKept DEF AnyStatement
<1>3. rows[t] \in Schedule /\ rows \in [Traces -> Schedule \cup {Null}]
  BY <1>1, StoredRow DEF StoreInv, StoreTypeOK
<1>. QED BY <1>1, <1>2, <1>3 DEF MarkCallback, CallbackRow, Schedule

(* An expiry fails a row that waits.                                       *)
LEMMA ExpireEffect ==
  ASSUME StoreInv, NEW t \in Traces, ExpireCallback(t)
  PROVE  /\ Statement(t) /\ Stored(t) /\ rows'[t] # Null
         /\ SameWait(t) /\ rows[t].state = "CALLBACK" /\ rows'[t].state = "FAIL"
<1>1. Statement(t) /\ Stored(t)
  BY DEF ExpireCallback, Statement
<1>2. rows'[t] # Null
  BY <1>1, RowsAreKept DEF AnyStatement
<1>3. rows[t] \in Schedule /\ rows \in [Traces -> Schedule \cup {Null}]
  BY <1>1, StoredRow DEF StoreInv, StoreTypeOK
<1>. QED BY <1>1, <1>2, <1>3
         DEF ExpireCallback, ExpireMatches, ExpiredRow, SameWait, Schedule

(* A finished row stays finished.                                          *)
LEMMA RowStepKeepsFinished ==
  ASSUME NEW r \in Schedule, NEW s, RowStep(r, s), r.finished
  PROVE  s.finished
BY DEF RowStep, Schedule, PollRow, CallbackRow, SuccessRow, FailRow,
       ReceivedRow, ExpiredRow

(* A received callback may be cleared, but no other one is written over    *)
(* it.                                                                     *)
LEMMA RowStepKeepsCallback ==
  ASSUME NEW r \in Schedule, NEW s, RowStep(r, s), r.receivedAt # Null
  PROVE  \/ s.receivedAt = Null
         \/ s.receivedAt = r.receivedAt /\ s.callbackData = r.callbackData
BY DEF RowStep, Schedule, PollRow, CallbackRow, SuccessRow, FailRow,
       ReceivedRow, ExpiredRow, ReceiveMatches

(* No statement takes finished_at away. *)
THEOREM FinishedRowsStayFinished == StoreSpec => FinishedForever
<1>1. StoreInv /\ [StoreNext]_rows =>
        [\A t \in Traces : Stored(t) /\ rows[t].finished =>
           rows'[t].finished]_rows
  BY StoredRow, StoreNextIsStatement, StepsAreRowSteps, RowStepKeepsFinished
<1>. QED BY <1>1, StoreInvariant, PTL DEF StoreSpec, FinishedForever

(* A recorded callback is never replaced by another one. *)
THEOREM FirstCallbackIsKept == StoreSpec => FirstCallbackWins
<1>1. StoreInv /\ [StoreNext]_rows =>
        [\A t \in Traces :
           (Stored(t) /\ rows[t].receivedAt # Null) =>
             \/ rows'[t].receivedAt = Null
             \/ /\ rows'[t].receivedAt = rows[t].receivedAt
                /\ rows'[t].callbackData = rows[t].callbackData]_rows
  BY StoredRow, StoreNextIsStatement, StepsAreRowSteps, RowStepKeepsCallback
<1>. QED BY <1>1, StoreInvariant, PTL DEF StoreSpec, FirstCallbackWins

-----------------------------------------------------------------------------
(* What ClaimDue selects.                                                  *)

(* The smaller of two numbers. *)
LEMMA SmallerIs ==
  ASSUME NEW a \in Nat, NEW b \in Nat
  PROVE  /\ Smaller(a, b) \in Nat
         /\ Smaller(a, b) <= a /\ Smaller(a, b) <= b
         /\ Smaller(a, b) = a \/ Smaller(a, b) = b
BY DEF Smaller

(* The merge sorts: the item at place k is that of a position at[k] of the *)
(* two lists, no position twice, in the order of dueAt; what is cut off is *)
(* due no earlier; and of any limit positions one is due no earlier than   *)
(* any item that is kept.                                                  *)
IsMergeOf(m, all, limit, at) ==
  LET len == Smaller(Len(all), limit)
  IN  /\ m = [k \in 1..len |-> all[at[k]]]
      /\ at \in [1..len -> 1..Len(all)]
      /\ \A k, l \in 1..len : at[k] = at[l] => k = l
      /\ \A k, l \in 1..len : k < l => all[at[k]].dueAt <= all[at[l]].dueAt
      /\ \A k \in 1..len, j \in 1..Len(all) :
           (\A l \in 1..len : at[l] # j) => all[at[k]].dueAt <= all[j].dueAt
      /\ \A k \in 1..len : \A T \in SUBSET (1..Len(all)) :
           Cardinality(T) >= limit =>
             \E j \in T : all[at[k]].dueAt <= all[j].dueAt

(* mergeDueCandidates sorts. *)
LEMMA MergeSorts ==
  ASSUME NEW poll, NEW callback, NEW limit \in Nat,
         Len(poll \o callback) \in Nat,
         DOMAIN (poll \o callback) = 1..Len(poll \o callback),
         \A i \in 1..Len(poll \o callback) : (poll \o callback)[i].dueAt \in Int
  PROVE  \E at : IsMergeOf(MergeDueCandidates(poll, callback, limit),
                           poll \o callback, limit, at)
<1> DEFINE all == poll \o callback
           N   == Len(all)
           len == Smaller(N, limit)
           Before(i, j) == \/ all[i].dueAt < all[j].dueAt
                           \/ all[i].dueAt = all[j].dueAt /\ i < j
           pre(j) == {i \in DOMAIN all : Before(i, j)}
           rank == [j \in DOMAIN all |-> 1 + Cardinality(pre(j))]
           place(k) == CHOOSE j \in DOMAIN all : rank[j] = k
           at == [k \in 1..len |-> place(k)]
           m  == MergeDueCandidates(poll, callback, limit)
<1>1. m = [k \in 1..len |-> all[CHOOSE j \in DOMAIN all : rank[j] = k]]
  BY DEF MergeDueCandidates
<1>2. m = [k \in 1..len |-> all[at[k]]]
  BY <1>1
<1> HIDE DEF m
<1>3. /\ N \in Nat /\ DOMAIN all = 1..N
      /\ \A i \in 1..N : all[i].dueAt \in Int
  OBVIOUS
<1> HIDE DEF all
<1>4. len \in Nat /\ len <= N /\ len <= limit
  BY <1>3, SmallerIs
<1> HIDE DEF N, len
<1>5. IsFiniteSet(1..N) /\ Cardinality(1..N) = N
  BY <1>3, FS_Interval
<1>6. \A i, j \in 1..N : i = j \/ Before(i, j) \/ Before(j, i)
  BY <1>3
<1>7. \A i, j, k \in 1..N : Before(i, j) /\ Before(j, k) => Before(i, k)
  BY <1>3
<1>8. \A i \in 1..N : ~Before(i, i)
  BY <1>3
<1> HIDE DEF Before
<1>9. ASSUME NEW j \in 1..N
      PROVE  IsFiniteSet(pre(j)) /\ Cardinality(pre(j)) \in Nat
  <2>1. pre(j) \in SUBSET (1..N)
    BY <1>3
  <2>. QED BY <2>1, <1>5, FS_Subset, FS_CardinalityType
<1>10. ASSUME NEW j \in 1..N
       PROVE  rank[j] = 1 + Cardinality(pre(j)) /\ rank[j] \in 1..N
  <2>1. pre(j) \in SUBSET (1..N) /\ pre(j) # 1..N
    BY <1>3, <1>8
  <2>2. rank[j] = 1 + Cardinality(pre(j))
    BY <1>3
  <2>. HIDE DEF pre, rank
  <2>3. /\ Cardinality(pre(j)) <= Cardinality(1..N)
        /\ Cardinality(1..N) # Cardinality(pre(j))
    BY <2>1, <1>5, FS_Subset
  <2>. QED BY <2>2, <2>3, <1>5, <1>9, <1>3
<1>11. ASSUME NEW i \in 1..N, NEW j \in 1..N, Before(i, j)
       PROVE  rank[i] < rank[j]
  <2>1. pre(i) \in SUBSET pre(j)
    BY <1>11, <1>3, <1>7
  <2>2. i \in pre(j) /\ i \notin pre(i)
    BY <1>11, <1>3, <1>8
  <2>. HIDE DEF pre, rank
  <2>3. Cardinality(pre(i)) < Cardinality(pre(j))
    BY <2>1, <2>2, <1>9, FS_Subset
  <2>. QED BY <2>3, <1>9, <1>10
<1> HIDE DEF pre
<1>12. rank \in [1..N -> 1..N]
  <2>1. rank = [j \in 1..N |-> rank[j]]
    BY <1>3
  <2>. HIDE DEF rank
  <2>. QED BY <2>1, <1>10
<1> HIDE DEF rank, at
<1>13. \A i, j \in 1..N : rank[i] = rank[j] => i = j
  BY <1>6, <1>11, <1>10
<1>14. \A k \in 1..N : \E j \in 1..N : rank[j] = k
  <2>1. rank \in Injection(1..N, 1..N)
    BY <1>12, <1>13 DEF Injection, IsInjective
  <2>2. rank \in Surjection(1..N, 1..N)
    BY <2>1, <1>5, FS_Injection
  <2>. QED BY <2>2 DEF Surjection
<1>15. ASSUME NEW k \in 1..len
       PROVE  at[k] \in 1..N /\ rank[at[k]] = k
  <2>1. \E j \in DOMAIN all : rank[j] = k
    <3>1. k \in 1..N
      BY <1>3, <1>4
    <3>. QED BY <3>1, <1>3, <1>14
  <2>2. place(k) \in DOMAIN all /\ rank[place(k)] = k
    BY <2>1
  <2>. HIDE DEF place
  <2>3. at[k] = place(k)
    BY DEF at
  <2>. QED BY <2>2, <2>3, <1>3
<1>16. at \in [1..len -> 1..N]
  <2>1. at = [k \in 1..len |-> at[k]]
    BY DEF at
  <2>. QED BY <2>1, <1>15
<1>17. \A k, l \in 1..len : at[k] = at[l] => k = l
  BY <1>15
<1>18. ASSUME NEW i \in 1..N, NEW j \in 1..N, rank[i] < rank[j]
       PROVE  all[i].dueAt <= all[j].dueAt
  <2>1. Before(i, j)
    BY <1>18, <1>6, <1>11, <1>10
  <2>. QED BY <2>1, <1>3 DEF Before
<1>19. \A k, l \in 1..len : k < l => all[at[k]].dueAt <= all[at[l]].dueAt
  BY <1>15, <1>18
<1>20. ASSUME NEW k \in 1..len, NEW j \in 1..N, \A l \in 1..len : at[l] # j
       PROVE  all[at[k]].dueAt <= all[j].dueAt
  <2>1. rank[j] \notin 1..len
    BY <1>20, <1>15, <1>13
  <2>2. rank[at[k]] < rank[j]
    BY <2>1, <1>15, <1>10, <1>4, <1>3
  <2>. QED BY <2>2, <1>15, <1>18
<1>21. ASSUME NEW k \in 1..len, NEW T \in SUBSET (1..N),
              Cardinality(T) >= limit
       PROVE  \E j \in T : all[at[k]].dueAt <= all[j].dueAt
  <2>1. CASE T \subseteq pre(at[k])
    <3>1. Cardinality(T) <= Cardinality(pre(at[k]))
      BY <2>1, <1>9, <1>15, FS_Subset
    <3>2. Cardinality(pre(at[k])) = k - 1
      BY <1>9, <1>10, <1>15
    <3>3. Cardinality(T) \in Nat
      BY <1>5, FS_Subset, FS_CardinalityType
    <3>. QED BY <3>1, <3>2, <3>3, <1>21, <1>4
  <2>2. CASE ~(T \subseteq pre(at[k]))
    <3>1. PICK j \in T : j \notin pre(at[k])
      BY <2>2
    <3>2. j \in 1..N /\ ~Before(j, at[k])
      BY <3>1, <1>3 DEF pre
    <3>3. all[at[k]].dueAt <= all[j].dueAt
      BY <3>2, <1>15, <1>3 DEF Before
    <3>. QED BY <3>3
  <2>. QED BY <2>1, <2>2
<1>22. IsMergeOf(m, all, limit, at)
  BY <1>2, <1>16, <1>17, <1>19, <1>20, <1>21 DEF IsMergeOf, N, len
<1>. QED BY <1>22 DEF m, all

(* The result of a query over a finite set. *)
LEMMA ResultsOfQuery ==
  ASSUME NEW S, IsFiniteSet(S), NEW key \in [S -> Nat], NEW limit \in Nat,
         NEW s \in OrderedResults(S, key, limit)
  PROVE  LET len == Smaller(Cardinality(S), limit)
         IN  /\ s \in Seq(S) /\ Len(s) = len /\ DOMAIN s = 1..len
             /\ \A i \in 1..len : s[i] \in S
             /\ \A i, j \in 1..len : s[i] = s[j] => i = j
             /\ \A t \in S : (\A i \in 1..len : s[i] # t) =>
                  len = limit /\ \A i \in 1..len : key[s[i]] <= key[t]
<1> DEFINE len == Smaller(Cardinality(S), limit)
<1>1. Cardinality(S) \in Nat
  BY FS_CardinalityType
<1>2. len \in Nat /\ len <= Cardinality(S) /\ len <= limit
      /\ (len = Cardinality(S) \/ len = limit)
  BY <1>1, SmallerIs
<1>3. /\ s \in [1..len -> S]
      /\ \A i, j \in 1..len : i < j => s[i] # s[j] /\ key[s[i]] <= key[s[j]]
      /\ \A t \in S \ {s[i] : i \in 1..len} :
           \A i \in 1..len : key[s[i]] <= key[t]
  BY DEF OrderedResults
<1> HIDE DEF len
<1>4. s \in Seq(S) /\ Len(s) = len /\ DOMAIN s = 1..len
  BY <1>2, <1>3
<1>5. \A i, j \in 1..len : s[i] = s[j] => i = j
  BY <1>2, <1>3
<1>6. ASSUME NEW t \in S, \A i \in 1..len : s[i] # t
      PROVE  len = limit
  <2>1. s \in Injection(1..len, S)
    BY <1>3, <1>5 DEF Injection, IsInjective
  <2>2. s \notin Surjection(1..len, S)
    BY <1>6 DEF Surjection
  <2>3. Cardinality(1..len) = len
    BY <1>2, FS_Interval
  <2>4. len # Cardinality(S)
    BY <2>1, <2>2, <2>3, FS_Injection
  <2>. QED BY <2>4, <1>2
<1>7. \A t \in S : (\A i \in 1..len : s[i] # t) =>
        len = limit /\ \A i \in 1..len : key[s[i]] <= key[t]
  BY <1>3, <1>6
<1>. QED BY <1>3, <1>4, <1>5, <1>7 DEF len

(* Items selected among the rows of S: as many as there are, up to limit,  *)
(* and none due later than a row left out.                                 *)
IsSelection(p, S, limit) ==
  /\ p \in Seq(ItemType) /\ Len(p) = Smaller(Cardinality(S), limit)
  /\ \A i \in 1..Len(p) : p[i].trace \in S /\ p[i] = Item(p[i].trace)
  /\ \A i, j \in 1..Len(p) : p[i].trace = p[j].trace => i = j
  /\ \A t \in S : (\A i \in 1..Len(p) : p[i].trace # t) =>
       /\ Len(p) = limit
       /\ \A i \in 1..Len(p) : p[i].dueAt <= DueAt(rows[t])

PollRows(now) == {t \in Traces : /\ Stored(t)
                                 /\ Claimable(rows[t], now)
                                 /\ DuePoll(rows[t], now)}

CallbackRows(now) == {t \in Traces : /\ Stored(t)
                                     /\ Claimable(rows[t], now)
                                     /\ DueCallback(rows[t])}

StoredTraces == {t \in Traces : Stored(t)}

FiniteTable == IsFiniteSet(StoredTraces)

(* Any list of items made from the result of a query by due time. *)
LEMMA SelectionOf ==
  ASSUME StoreInv, NEW S \in SUBSET StoredTraces, IsFiniteSet(S),
         NEW key \in [S -> Nat], NEW limit \in Nat,
         \A t \in S : key[t] = DueAt(rows[t]),
         NEW s \in OrderedResults(S, key, limit)
  PROVE  IsSelection([i \in DOMAIN s |-> Item(s[i])], S, limit)
<1> DEFINE len == Smaller(Cardinality(S), limit)
           p == [i \in DOMAIN s |-> Item(s[i])]
<1>1. /\ DOMAIN s = 1..len
      /\ \A i \in 1..len : s[i] \in S
      /\ \A i, j \in 1..len : s[i] = s[j] => i = j
      /\ \A t \in S : (\A i \in 1..len : s[i] # t) =>
           len = limit /\ \A i \in 1..len : key[s[i]] <= key[t]
  BY ResultsOfQuery
<1>2. len \in Nat
  BY SmallerIs, FS_CardinalityType
<1> HIDE DEF len
<1>3. \A t \in S : /\ Item(t) \in ItemType
                   /\ Item(t).trace = t /\ Item(t).dueAt = DueAt(rows[t])
  <2>. TAKE t \in S
  <2>1. rows[t] \in Schedule /\ t \in Traces
    BY StoredRow DEF StoredTraces
  <2>2. DueAt(rows[t]) \in Nat
    OBVIOUS
  <2>. QED BY <2>1, <2>2 DEF Item, ItemType, Schedule
<1>4. p = [i \in 1..len |-> Item(s[i])]
  BY <1>1
<1> HIDE DEF p
<1>5. p \in [1..len -> ItemType]
  BY <1>1, <1>3, <1>4
<1>6. p \in Seq(ItemType) /\ Len(p) = len
  BY <1>2, <1>5
<1>7. \A i \in 1..len : /\ p[i] = Item(s[i]) /\ p[i].trace = s[i]
                        /\ p[i].dueAt = DueAt(rows[s[i]])
  BY <1>1, <1>3, <1>4
<1>8. IsSelection(p, S, limit)
  BY <1>1, <1>6, <1>7 DEF IsSelection, len
<1>. QED BY <1>8 DEF p

(* What the two selects of ClaimDue return. *)
LEMMA CandidatesAreSelections ==
  ASSUME StoreInv, FiniteTable, NEW now, NEW limit \in Nat
  PROVE  /\ \A p \in PollCandidates(now, limit) :
              IsSelection(p, PollRows(now), limit)
         /\ \A c \in CallbackCandidates(now, limit) :
              IsSelection(c, CallbackRows(now), limit)
         /\ IsFiniteSet(PollRows(now)) /\ IsFiniteSet(CallbackRows(now))
<1>1. PollRows(now) \in SUBSET StoredTraces
      /\ CallbackRows(now) \in SUBSET StoredTraces
  BY DEF PollRows, CallbackRows, StoredTraces
<1>2. IsFiniteSet(PollRows(now)) /\ IsFiniteSet(CallbackRows(now))
  BY <1>1, FS_Subset DEF FiniteTable
<1>3. ASSUME NEW p \in PollCandidates(now, limit)
      PROVE  IsSelection(p, PollRows(now), limit)
  <2> DEFINE S == PollRows(now)
             key == [t \in S |-> rows[t].nextRunAt]
  <2>1. PICK s \in OrderedResults(S, key, limit) :
          p = [i \in DOMAIN s |-> Item(s[i])]
    BY DEF PollCandidates, ItemsOf, PollRows
  <2>2. key \in [S -> Nat] /\ \A t \in S : key[t] = DueAt(rows[t])
    BY StoredRow DEF PollRows, DuePoll, DueAt, Schedule
  <2>. HIDE DEF key, S
  <2>. QED BY <1>1, <1>2, <2>1, <2>2, SelectionOf DEF S
<1>4. ASSUME NEW c \in CallbackCandidates(now, limit)
      PROVE  IsSelection(c, CallbackRows(now), limit)
  <2> DEFINE S == CallbackRows(now)
             key == [t \in S |-> rows[t].receivedAt]
  <2>1. PICK s \in OrderedResults(S, key, limit) :
          c = [i \in DOMAIN s |-> Item(s[i])]
    BY DEF CallbackCandidates, ItemsOf, CallbackRows
  <2>2. key \in [S -> Nat] /\ \A t \in S : key[t] = DueAt(rows[t])
    BY StoredRow DEF CallbackRows, DueCallback, DueAt, Schedule
  <2>. HIDE DEF key, S
  <2>. QED BY <1>1, <1>2, <2>1, <2>2, SelectionOf DEF S
<1>. QED BY <1>2, <1>3, <1>4

DueRows(now) == {t \in Traces : Due(t, now)}

(* A row is due for one of the two selects, never for both. *)
LEMMA DueIsOneKind ==
  ASSUME StoreInv, FiniteTable, NEW now
  PROVE  /\ DueRows(now) = PollRows(now) \cup CallbackRows(now)
         /\ PollRows(now) \cap CallbackRows(now) = {}
         /\ IsFiniteSet(DueRows(now))
         /\ Cardinality(DueRows(now)) =
              Cardinality(PollRows(now)) + Cardinality(CallbackRows(now))
<1>1. DueRows(now) = PollRows(now) \cup CallbackRows(now)
  BY DEF DueRows, PollRows, CallbackRows, Due
<1>2. PollRows(now) \cap CallbackRows(now) = {}
  BY DEF PollRows, CallbackRows, DuePoll, DueCallback
<1>3. IsFiniteSet(PollRows(now)) /\ IsFiniteSet(CallbackRows(now))
  BY CandidatesAreSelections
<1>4. Cardinality(PollRows(now) \cap CallbackRows(now)) = 0
  BY <1>2, FS_EmptySet
<1>5. /\ Cardinality(PollRows(now)) \in Nat
      /\ Cardinality(CallbackRows(now)) \in Nat
  BY <1>3, FS_CardinalityType
<1>6. /\ IsFiniteSet(PollRows(now) \cup CallbackRows(now))
      /\ Cardinality(PollRows(now) \cup CallbackRows(now)) =
           Cardinality(PollRows(now)) + Cardinality(CallbackRows(now))
             - Cardinality(PollRows(now) \cap CallbackRows(now))
  BY <1>3, FS_Union
<1>. QED BY <1>1, <1>2, <1>4, <1>5, <1>6

(* The items of rows of due, the ones due first. *)
IsChoice(m, due, limit) ==
  LET chosen == {m[i].trace : i \in 1..Len(m)}
  IN  /\ m \in Seq(ItemType) /\ Len(m) = Smaller(Cardinality(due), limit)
      /\ \A i \in 1..Len(m) : m[i].trace \in due /\ m[i] = Item(m[i].trace)
      /\ Cardinality(chosen) = Len(m)
      /\ \A i, j \in 1..Len(m) : i < j =>
           DueAt(rows[m[i].trace]) <= DueAt(rows[m[j].trace])
      /\ \A t \in chosen, u \in due \ chosen : DueAt(rows[t]) <= DueAt(rows[u])

(* Two selections merged are the choice from all the rows of both. *)
LEMMA SelectionsMerge ==
  ASSUME NEW p, NEW c, NEW P, NEW C, NEW limit \in Nat,
         IsFiniteSet(P), IsFiniteSet(C), P \cap C = {},
         Cardinality(P \cup C) = Cardinality(P) + Cardinality(C),
         \A t \in P \cup C : DueAt(rows[t]) \in Int,
         IsSelection(p, P, limit), IsSelection(c, C, limit)
  PROVE  IsChoice(MergeDueCandidates(p, c, limit), P \cup C, limit)
<1> DEFINE all == p \o c
           N   == Len(all)
           np  == Len(p)
           nc  == Len(c)
           len == Smaller(N, limit)
           m   == MergeDueCandidates(p, c, limit)
           chosen == {m[i].trace : i \in 1..len}
           At(t) == DueAt(rows[t])
<1>1. /\ np \in Nat /\ nc \in Nat /\ N = np + nc /\ DOMAIN all = 1..N
      /\ \A i \in 1..np : all[i] = p[i]
      /\ \A i \in 1..nc : all[np + i] = c[i]
      /\ \A i \in 1..N : i \in 1..np \/ (i - np \in 1..nc /\ all[i] = c[i - np])
  <2>1. p \in Seq(ItemType) /\ c \in Seq(ItemType)
    BY DEF IsSelection
  <2>2. np \in Nat /\ nc \in Nat /\ N = np + nc /\ DOMAIN all = 1..N
    BY <2>1
  <2>3. \A i \in 1..np : all[i] = p[i]
    BY <2>1
  <2>4. \A i \in (np + 1)..N : all[i] = c[i - np]
    BY <2>1
  <2>. HIDE DEF np, nc, N, all
  <2>. QED BY <2>2, <2>3, <2>4
<1>2. /\ p \in Seq(ItemType) /\ np = Smaller(Cardinality(P), limit)
      /\ \A i \in 1..np : /\ p[i].trace \in P /\ p[i] = Item(p[i].trace)
                          /\ p[i] \in ItemType
      /\ \A i, j \in 1..np : p[i].trace = p[j].trace => i = j
      /\ \A t \in P : (\A i \in 1..np : p[i].trace # t) =>
           np = limit /\ \A i \in 1..np : p[i].dueAt <= At(t)
  BY DEF IsSelection
<1>3. /\ c \in Seq(ItemType) /\ nc = Smaller(Cardinality(C), limit)
      /\ \A i \in 1..nc : /\ c[i].trace \in C /\ c[i] = Item(c[i].trace)
                          /\ c[i] \in ItemType
      /\ \A i, j \in 1..nc : c[i].trace = c[j].trace => i = j
      /\ \A t \in C : (\A i \in 1..nc : c[i].trace # t) =>
           nc = limit /\ \A i \in 1..nc : c[i].dueAt <= At(t)
  BY DEF IsSelection
<1> HIDE DEF np, nc, all, N
<1>4. \A i \in 1..N : /\ all[i].trace \in P \cup C
                      /\ all[i] = Item(all[i].trace) /\ all[i] \in ItemType
  <2>. TAKE i \in 1..N
  <2>1. CASE i \in 1..np
    BY <2>1, <1>1, <1>2
  <2>2. CASE i - np \in 1..nc /\ all[i] = c[i - np]
    BY <2>2, <1>3
  <2>. QED BY <2>1, <2>2, <1>1
<1>5. \A i \in 1..N : all[i].dueAt = At(all[i].trace) /\ all[i].dueAt \in Int
  <2>1. \A t \in P \cup C : Item(t).dueAt = At(t)
    BY DEF Item
  <2>. HIDE DEF At
  <2>2. \A i \in 1..N : all[i].dueAt = Item(all[i].trace).dueAt
    BY <1>4
  <2>3. \A i \in 1..N : all[i].dueAt \in Int
    BY <1>4 DEF ItemType
  <2>. QED BY <2>1, <2>2, <2>3, <1>4
<1>6. \A i, j \in 1..N : all[i].trace = all[j].trace => i = j
  <2>. TAKE i, j \in 1..N
  <2>. HAVE all[i].trace = all[j].trace
  <2>1. CASE i \in 1..np /\ j \in 1..np
    BY <2>1, <1>1, <1>2
  <2>2. CASE i \notin 1..np /\ j \notin 1..np
    <3>1. i - np = j - np
      <4>1. /\ i - np \in 1..nc /\ all[i] = c[i - np]
            /\ j - np \in 1..nc /\ all[j] = c[j - np]
        BY <2>2, <1>1
      <4>2. c[i - np].trace = c[j - np].trace
        BY <4>1
      <4>. QED BY <4>1, <4>2, <1>3
    <3>. QED BY <3>1, <1>1
  <2>3. ASSUME NEW k \in 1..np, NEW l \in 1..nc
        PROVE  p[k].trace # c[l].trace
    BY <1>2, <1>3
  <2>. QED BY <2>1, <2>2, <2>3, <1>1
<1>7. PICK at : IsMergeOf(m, all, limit, at)
  <2>1. N \in Nat
    BY <1>1
  <2>. QED BY <2>1, <1>1, <1>5, MergeSorts DEF all, N
<1> HIDE DEF m
<1>8. /\ m = [k \in 1..len |-> all[at[k]]]
      /\ at \in [1..len -> 1..N]
      /\ \A k, l \in 1..len : at[k] = at[l] => k = l
      /\ \A k, l \in 1..len : k < l => all[at[k]].dueAt <= all[at[l]].dueAt
      /\ \A k \in 1..len, j \in 1..N :
           (\A l \in 1..len : at[l] # j) => all[at[k]].dueAt <= all[j].dueAt
      /\ \A k \in 1..len : \A T \in SUBSET (1..N) :
           Cardinality(T) >= limit =>
             \E j \in T : all[at[k]].dueAt <= all[j].dueAt
  BY <1>7 DEF IsMergeOf, N
<1>9. len \in Nat /\ N \in Nat
  BY <1>1, SmallerIs
<1>10. len = Smaller(Cardinality(P) + Cardinality(C), limit)
  BY <1>1, <1>2, <1>3, FS_CardinalityType DEF Smaller
<1> HIDE DEF len, At
<1>11. m \in [1..len -> ItemType] /\ DOMAIN m = 1..len
  BY <1>8, <1>4
<1>12. m \in Seq(ItemType) /\ Len(m) = len
  BY <1>9, <1>11
<1>13. \A k \in 1..len : m[k] = all[at[k]] /\ at[k] \in 1..N
  BY <1>8
<1>14. \A i \in 1..len : /\ m[i].trace \in P \cup C /\ m[i] = Item(m[i].trace)
                         /\ m[i].dueAt = At(m[i].trace)
  BY <1>4, <1>5, <1>13
<1>15. Cardinality(chosen) = len
  <2> DEFINE f == [i \in 1..len |-> m[i].trace]
  <2>2. f \in Surjection(1..len, chosen)
    BY DEF Surjection
  <2>3. \A i, j \in 1..len : f[i] = f[j] => i = j
    BY <1>6, <1>8, <1>13
  <2>4. f \in Injection(1..len, chosen)
    BY <2>2, <2>3 DEF Injection, Surjection, IsInjective
  <2>5. IsFiniteSet(1..len) /\ Cardinality(1..len) = len
    BY <1>9, FS_Interval
  <2> HIDE DEF f, chosen
  <2>. QED BY <2>2, <2>4, <2>5, FS_Surjection
<1>16. \A i, j \in 1..len : i < j => At(m[i].trace) <= At(m[j].trace)
  BY <1>8, <1>13, <1>14
<1>17. ASSUME NEW k \in 1..len, NEW u \in (P \cup C) \ chosen
       PROVE  At(m[k].trace) <= At(u)
  <2>1. ASSUME NEW j \in 1..N, all[j].dueAt <= At(u)
                                \/ all[j].trace = u,
               all[at[k]].dueAt <= all[j].dueAt
        PROVE  At(m[k].trace) <= At(u)
    <3>1. At(u) \in Int /\ all[j].dueAt <= At(u)
      BY <2>1, <1>5 DEF At
    <3>. QED BY <3>1, <2>1, <1>5, <1>13, <1>14
  <2>2. CASE \E j \in 1..N : all[j].trace = u
    <3>1. PICK j \in 1..N : all[j].trace = u
      BY <2>2
    <3>2. \A l \in 1..len : at[l] # j
      BY <3>1, <1>11, <1>13
    <3>. QED BY <3>1, <3>2, <2>1, <1>8
  <2>3. ASSUME NEW T \in SUBSET (1..N), Cardinality(T) = limit,
               \A j \in T : all[j].dueAt <= At(u)
        PROVE  At(m[k].trace) <= At(u)
    <3>1. PICK j \in T : all[at[k]].dueAt <= all[j].dueAt
      BY <2>3, <1>8
    <3>. QED BY <3>1, <2>1, <2>3
  <2>4. CASE u \in P /\ \A j \in 1..N : all[j].trace # u
    <3>1. np = limit /\ \A i \in 1..np : p[i].dueAt <= At(u)
      <4>1. \A i \in 1..np : p[i].trace # u
        BY <2>4, <1>1
      <4>. QED BY <2>4, <4>1, <1>2
    <3>2. 1..np \in SUBSET (1..N) /\ Cardinality(1..np) = limit
      BY <3>1, <1>1, FS_Interval
    <3>. QED BY <3>1, <3>2, <1>1, <2>3
  <2>5. CASE u \in C /\ \A j \in 1..N : all[j].trace # u
    <3>1. nc = limit /\ \A i \in 1..nc : c[i].dueAt <= At(u)
      <4>1. \A i \in 1..nc : np + i \in 1..N /\ c[i].trace # u
        BY <2>5, <1>1
      <4>. QED BY <2>5, <4>1, <1>3
    <3>2. /\ (np + 1)..N \in SUBSET (1..N)
          /\ Cardinality((np + 1)..N) = limit
      BY <3>1, <1>1, FS_Interval
    <3>3. \A j \in (np + 1)..N : all[j].dueAt <= At(u)
      BY <3>1, <1>1
    <3>. QED BY <3>2, <3>3, <2>3
  <2>. QED BY <2>2, <2>4, <2>5
<1>18. \A t \in chosen, u \in (P \cup C) \ chosen : At(t) <= At(u)
  BY <1>11, <1>17
<1>. QED
  BY <1>10, <1>12, <1>14, <1>15, <1>16, <1>18 DEF IsChoice, At, m

(* The list ClaimDue works through, for any limit. *)
LEMMA DueCandidates ==
  ASSUME StoreInv, FiniteTable, NEW now, NEW limit \in Nat,
         NEW p \in PollCandidates(now, limit),
         NEW c \in CallbackCandidates(now, limit)
  PROVE  IsChoice(MergeDueCandidates(p, c, limit), DueRows(now), limit)
<1>1. \A t \in PollRows(now) \cup CallbackRows(now) : DueAt(rows[t]) \in Int
  BY StoredRow
     DEF PollRows, CallbackRows, DuePoll, DueCallback, DueAt, Schedule
<1>. QED BY <1>1, CandidatesAreSelections, DueIsOneKind, SelectionsMerge

(* ... and so every choice is of the rows due first. *)
LEMMA OldestAreServed ==
  ASSUME StoreInv, FiniteTable, NEW now, NEW limit \in Nat
  PROVE  ServesOldest(now, limit)
<1>1. ASSUME NEW m, IsChoice(m, DueRows(now), limit)
      PROVE  LET chosen == {m[i].trace : i \in DOMAIN m}
             IN  /\ chosen \subseteq DueRows(now)
                 /\ Cardinality(chosen) = Len(m)
                 /\ Len(m) = Smaller(Cardinality(DueRows(now)), limit)
                 /\ \A i, j \in DOMAIN m : i < j =>
                      DueAt(rows[m[i].trace]) <= DueAt(rows[m[j].trace])
                 /\ \A t \in chosen, u \in DueRows(now) \ chosen :
                      DueAt(rows[t]) <= DueAt(rows[u])
  <2>1. DOMAIN m = 1..Len(m)
    BY <1>1 DEF IsChoice
  <2>. QED BY <1>1, <2>1 DEF IsChoice
<1>. QED BY <1>1, DueCandidates DEF ServesOldest, DueRows

(* One statement adds at most one row. *)
LEMMA StatementKeepsFinite ==
  ASSUME StoreInv, FiniteTable, [AnyStatement]_rows
  PROVE  FiniteTable'
<1>1. CASE UNCHANGED rows
  BY <1>1 DEF FiniteTable, StoredTraces, Stored
<1>2. CASE AnyStatement
  <2>. PICK t \in Traces : Statement(t)
    BY <1>2 DEF AnyStatement
  <2>1. StoredTraces' \in SUBSET (StoredTraces \cup {t})
    BY OtherRowsAreKept DEF StoredTraces, Stored
  <2>. QED BY <2>1, FS_AddElement, FS_Subset DEF FiniteTable
<1>. QED BY <1>1, <1>2

(* The table holds finitely many rows. *)
LEMMA FiniteAlways == StoreSpec => []FiniteTable
<1>1. StoreInit => FiniteTable
  <2>. SUFFICES ASSUME StoreInit PROVE FiniteTable
    OBVIOUS
  <2>1. StoredTraces = {}
    BY DEF StoreInit, StoredTraces, Stored
  <2>. QED BY <2>1, FS_EmptySet DEF FiniteTable
<1>2. StoreInv /\ FiniteTable /\ [StoreNext]_rows => FiniteTable'
  BY StatementKeepsFinite, StoreNextIsStatement
<1>. QED BY <1>1, <1>2, StoreInvariant, PTL DEF StoreSpec

(* Whatever the limit, ClaimDue chooses the rows due first.                *)
THEOREM OldestRowsAnyLimit ==
  StoreSpec => [](\A now, limit \in Nat : ServesOldest(now, limit))
<1>1. StoreInv /\ FiniteTable => \A now, limit \in Nat : ServesOldest(now, limit)
  BY OldestAreServed
<1>. QED BY <1>1, StoreInvariant, FiniteAlways, PTL

(* The limit leaves out no row that was due before one it keeps.           *)
THEOREM OldestRowsFirst == StoreSpec => []ClaimsOldestFirst
<1>1. StoreInv /\ FiniteTable => ClaimsOldestFirst
  <2>1. ASSUME NEW limit \in 1..Cardinality(Traces)
        PROVE  limit \in Nat
    OBVIOUS
  <2>. QED BY <2>1, OldestAreServed DEF ClaimsOldestFirst
<1>. QED BY <1>1, StoreInvariant, FiniteAlways, PTL
=============================================================================
