---------------------------- MODULE ScheduleStore ----------------------------
(***************************************************************************)
(* The schedules table and the statements GormStore issues against it      *)
(* (internal/store/gorm_store.go, internal/store/model.go).                *)
(*                                                                         *)
(* There is one row per trace.  Every SQL statement is one atomic action;  *)
(* a method that issues several statements (ReceiveCallback,               *)
(* ExpireCallbacks, ClaimDue) is several actions, so the gaps between its  *)
(* statements are interleaving points for every other client.              *)
(*                                                                         *)
(* A definition named Op_Variant is Op with a mistake in it, kept to show  *)
(* that the properties tell the two apart; nothing refers to it.           *)
(*                                                                         *)
(* The specification at the end lets any client issue any statement with   *)
(* any argument: what holds here holds whatever the server and the workers *)
(* do, including clients acting on state that is no longer current.        *)
(***************************************************************************)
EXTENDS Integers, FiniteSets, Sequences

CONSTANTS
  Traces,      \* trace ids (Schedule.TraceID)
  Workers,     \* worker ids (Schedule.LockedBy)
  Hashes,      \* callback token hashes (Schedule.CallbackTokenHash)
  Payloads,    \* JSONMap values
  EmptyMap,    \* JSONMap{}
  InvokeCounts,\* values of Schedule.InvokeCount
  Times,       \* instants a client may pass to a statement
  Null         \* SQL NULL, and "" for locked_by and callback_token_hash

ASSUME TimesAssumption == Times \subseteq Nat
ASSUME InvokeCountsAssumption == InvokeCounts \subseteq Nat
ASSUME PayloadsAssumption == EmptyMap \in Payloads
ASSUME NullAssumption == /\ Null \notin Nat
                         /\ Null \notin Workers
                         /\ Null \notin Hashes

VARIABLE rows  \* rows[t]: the row of trace t, Null while there is none

States == {"EMPTY", "POLL", "CALLBACK", "SUCCESS", "FAIL"}
ErrorCodes == {"", "PLUGIN_EXECUTE_ERROR", "CALLBACK_TIMEOUT"}

(* type Schedule: the columns some statement tests or the worker reads.    *)
(* finished stands for finished_at IS NOT NULL.                            *)
Schedule == [state        : States,
             invokeCount  : InvokeCounts,
             contextData  : Payloads,
             outputs      : Payloads,
             callbackData : Payloads,
             tokenHash    : Hashes \cup {Null},
             expiresAt    : Nat \cup {Null},
             receivedAt   : Nat \cup {Null},
             nextRunAt    : Nat,
             lockedBy     : Workers \cup {Null},
             lockedUntil  : Nat \cup {Null},
             finished     : BOOLEAN,
             errorCode    : ErrorCodes]

ASSUME NoRowAssumption == Null \notin Schedule

Stored(t) == rows[t] # Null

(* isFinished (worker.go, handlers.go): the states a caller sees as final. *)
IsFinal(state) == state \in {"SUCCESS", "FAIL"}

(* What a row says about its trace: the phase of its lifecycle, and the    *)
(* number of steps that have been run (Create writes 1 before the first).  *)
Phase(t) ==
  CASE ~Stored(t)                                        -> "absent"
    [] Stored(t) /\ rows[t].state = "CALLBACK"
                 /\ rows[t].receivedAt # Null            -> "answered"
    [] Stored(t) /\ rows[t].state = "CALLBACK"
                 /\ rows[t].receivedAt = Null            -> "waiting"
    [] Stored(t) /\ rows[t].state # "CALLBACK"           -> rows[t].state

StepsDone(t) ==
  IF Stored(t) /\ rows[t].state # "EMPTY" THEN rows[t].invokeCount ELSE 0

-----------------------------------------------------------------------------
(* INSERT.  Invoke creates the row before it runs the plugin.              *)

NewSchedule_NilMap(n, next) ==
  [state |-> "EMPTY", invokeCount |-> n,
   contextData |-> EmptyMap, outputs |-> EmptyMap, callbackData |-> Null,
   tokenHash |-> Null, expiresAt |-> Null, receivedAt |-> Null,
   nextRunAt |-> next, lockedBy |-> Null, lockedUntil |-> Null,
   finished |-> FALSE, errorCode |-> ""]

NewSchedule_Poll(n, next) ==
  [state |-> "POLL", invokeCount |-> n,
   contextData |-> EmptyMap, outputs |-> EmptyMap, callbackData |-> EmptyMap,
   tokenHash |-> Null, expiresAt |-> Null, receivedAt |-> Null,
   nextRunAt |-> next, lockedBy |-> Null, lockedUntil |-> Null,
   finished |-> FALSE, errorCode |-> ""]

NewSchedule(n, next) ==
  [state |-> "EMPTY", invokeCount |-> n,
   contextData |-> EmptyMap, outputs |-> EmptyMap, callbackData |-> EmptyMap,
   tokenHash |-> Null, expiresAt |-> Null, receivedAt |-> Null,
   nextRunAt |-> next, lockedBy |-> Null, lockedUntil |-> Null,
   finished |-> FALSE, errorCode |-> ""]

Create(t, n, next) ==
  /\ ~Stored(t)
  /\ rows' = [rows EXCEPT ![t] = NewSchedule(n, next)]

-----------------------------------------------------------------------------
(* The updates a plugin step makes.  None of them tests anything but the   *)
(* trace id: not the lease, not finished_at, not the invoke count.         *)

UpdateContextData(t, data) ==
  /\ Stored(t)
  /\ rows' = [rows EXCEPT ![t] = [@ EXCEPT !.contextData = data]]

UpdateOutputs(t, data) ==
  /\ Stored(t)
  /\ rows' = [rows EXCEPT ![t] = [@ EXCEPT !.outputs = data]]

PollRow_Reopen(r, n, next) ==
  [r EXCEPT !.state = "POLL", !.invokeCount = n, !.nextRunAt = next,
            !.lockedBy = Null, !.lockedUntil = Null, !.finished = FALSE]

PollRow(r, n, next) ==
  [r EXCEPT !.state = "POLL", !.invokeCount = n, !.nextRunAt = next,
            !.lockedBy = Null, !.lockedUntil = Null]

MarkPoll(t, n, next) ==
  /\ Stored(t)
  /\ rows' = [rows EXCEPT ![t] = PollRow(@, n, next)]

CallbackRow(r, n, hash, expires) ==
  [r EXCEPT !.state = "CALLBACK", !.invokeCount = n,
            !.tokenHash = hash, !.expiresAt = expires,
            !.receivedAt = Null, !.callbackData = EmptyMap,
            !.lockedBy = Null, !.lockedUntil = Null]

MarkCallback(t, n, hash, expires) ==
  /\ Stored(t)
  /\ rows' = [rows EXCEPT ![t] = CallbackRow(@, n, hash, expires)]

SuccessRow_NotFinished(r, n) ==
  [r EXCEPT !.state = "SUCCESS", !.invokeCount = n,
            !.lockedBy = Null, !.lockedUntil = Null]

SuccessRow_KeepLease(r, n) ==
  [r EXCEPT !.state = "SUCCESS", !.invokeCount = n, !.finished = TRUE]

SuccessRow(r, n) ==
  [r EXCEPT !.state = "SUCCESS", !.invokeCount = n, !.finished = TRUE,
            !.lockedBy = Null, !.lockedUntil = Null]

MarkSuccess(t, n) ==
  /\ Stored(t)
  /\ rows' = [rows EXCEPT ![t] = SuccessRow(@, n)]

FailRow(r, n) ==
  [r EXCEPT !.state = "FAIL", !.invokeCount = n, !.finished = TRUE,
            !.errorCode = "PLUGIN_EXECUTE_ERROR",
            !.lockedBy = Null, !.lockedUntil = Null]

MarkFail(t, n) ==
  /\ Stored(t)
  /\ rows' = [rows EXCEPT ![t] = FailRow(@, n)]

-----------------------------------------------------------------------------
(* ReceiveCallback: a conditional update, and when it changed no row a     *)
(* separate lookup that tells a duplicate from an invalid callback.        *)

ReceiveMatches_Again(r, hash, now) ==
  /\ r.tokenHash = hash
  /\ r.state = "CALLBACK"
  /\ ~r.finished
  /\ r.expiresAt # Null => r.expiresAt > now

ReceiveMatches(r, hash, now) ==
  /\ r.tokenHash = hash
  /\ r.state = "CALLBACK"
  /\ r.receivedAt = Null
  /\ ~r.finished
  /\ r.expiresAt # Null => r.expiresAt > now

ReceivedRow(r, data, now) ==
  [r EXCEPT !.callbackData = data, !.receivedAt = now, !.nextRunAt = now]

ReceiveCallback(t, hash, data, now) ==
  /\ Stored(t)
  /\ ReceiveMatches(rows[t], hash, now)
  /\ rows' = [rows EXCEPT ![t] = ReceivedRow(@, data, now)]

AlreadyReceived(t, hash) ==
  /\ Stored(t)
  /\ rows[t].tokenHash = hash
  /\ rows[t].state = "CALLBACK"
  /\ rows[t].receivedAt # Null
  /\ ~rows[t].finished

-----------------------------------------------------------------------------
(* SELECT ... ORDER BY key LIMIT limit.  Rows with equal keys come back in *)
(* any order, so a query has a set of possible results.                    *)

Smaller(a, b) == IF a < b THEN a ELSE b

OrderedResults(S, key, limit) ==
  {s \in [1..Smaller(Cardinality(S), limit) -> S] :
     /\ \A i, j \in DOMAIN s : i < j => s[i] # s[j] /\ key[s[i]] <= key[s[j]]
     /\ \A t \in S \ {s[i] : i \in DOMAIN s} :
          \A i \in DOMAIN s : key[s[i]] <= key[t]}

-----------------------------------------------------------------------------
(* ExpireCallbacks: select overdue callbacks, fail them one by one.  The   *)
(* update tests again that no callback came, but not the expiry.           *)

Overdue(r, now) ==
  /\ r.state = "CALLBACK"
  /\ r.receivedAt = Null
  /\ r.expiresAt # Null
  /\ r.expiresAt < now
  /\ ~r.finished

ExpireCandidates(now, limit) ==
  LET S == {t \in Traces : Stored(t) /\ Overdue(rows[t], now)}
  IN  OrderedResults(S, [t \in S |-> rows[t].expiresAt], limit)

ExpireMatches_IgnoreReceived(r) == r.state = "CALLBACK" /\ ~r.finished

ExpireMatches(r) ==
  /\ r.state = "CALLBACK"
  /\ r.receivedAt = Null
  /\ ~r.finished

ExpiredRow(r) ==
  [r EXCEPT !.state = "FAIL", !.errorCode = "CALLBACK_TIMEOUT",
            !.finished = TRUE, !.lockedBy = Null, !.lockedUntil = Null]

ExpireCallback(t) ==
  /\ Stored(t)
  /\ ExpireMatches(rows[t])
  /\ rows' = [rows EXCEPT ![t] = ExpiredRow(@)]

-----------------------------------------------------------------------------
(* RenewLock: the worker's heartbeat.                                      *)

RenewMatches_AnyOwner(r, w) == ~r.finished

RenewMatches(r, w) == r.lockedBy = w /\ ~r.finished

RenewLock(t, w, until) ==
  /\ Stored(t)
  /\ RenewMatches(rows[t], w)
  /\ rows' = [rows EXCEPT ![t] = [@ EXCEPT !.lockedUntil = until]]

-----------------------------------------------------------------------------
(* ClaimDue: two selects, a merge in memory, one conditional update per    *)
(* item.  An item is the snapshot the selects took of the row.             *)

Claimable_OnlyFree(r, now) == ~r.finished /\ r.lockedUntil = Null

Claimable(r, now) ==
  /\ ~r.finished
  /\ r.lockedUntil # Null => r.lockedUntil < now

DuePoll(r, now) == r.state = "POLL" /\ r.nextRunAt <= now

DueCallback_NotReceived(r) == r.state = "CALLBACK"

DueCallback(r) == r.state = "CALLBACK" /\ r.receivedAt # Null

DueAt(r) ==
  IF r.state = "CALLBACK" /\ r.receivedAt # Null
  THEN r.receivedAt ELSE r.nextRunAt

ItemType == [trace        : Traces,
             state        : States,
             invokeCount  : InvokeCounts,
             callbackData : Payloads,
             dueAt        : Nat]

Item(t) == [trace        |-> t,
            state        |-> rows[t].state,
            invokeCount  |-> rows[t].invokeCount,
            callbackData |-> rows[t].callbackData,
            dueAt        |-> DueAt(rows[t])]

ItemsOf(results) == {[i \in DOMAIN s |-> Item(s[i])] : s \in results}

PollCandidates(now, limit) ==
  LET S == {t \in Traces : /\ Stored(t)
                           /\ Claimable(rows[t], now)
                           /\ DuePoll(rows[t], now)}
  IN  ItemsOf(OrderedResults(S, [t \in S |-> rows[t].nextRunAt], limit))

CallbackCandidates(now, limit) ==
  LET S == {t \in Traces : /\ Stored(t)
                           /\ Claimable(rows[t], now)
                           /\ DueCallback(rows[t])}
  IN  ItemsOf(OrderedResults(S, [t \in S |-> rows[t].receivedAt], limit))

MergeDueCandidates_PollFirst(poll, callback, limit) ==
  LET all == poll \o callback
  IN  SubSeq(all, 1, Smaller(Len(all), limit))

(* mergeDueCandidates: a stable sort of poll \o callback by dueAt, cut to  *)
(* limit.                                                                  *)
MergeDueCandidates(poll, callback, limit) ==
  LET all == poll \o callback
      Before(i, j) == \/ all[i].dueAt < all[j].dueAt
                      \/ all[i].dueAt = all[j].dueAt /\ i < j
      rank == [j \in DOMAIN all |->
                 1 + Cardinality({i \in DOMAIN all : Before(i, j)})]
  IN  [k \in 1..Smaller(Len(all), limit) |->
         all[CHOOSE j \in DOMAIN all : rank[j] = k]]

(* claimDueItem tests the lease again, and the state the snapshot had; it  *)
(* does not test that the row is still the one the snapshot was taken of.  *)
ClaimMatches_IgnoreFinished(r, state, now) ==
  /\ r.lockedUntil # Null => r.lockedUntil < now
  /\ \/ state = "POLL" /\ DuePoll(r, now)
     \/ state = "CALLBACK" /\ DueCallback(r)

ClaimMatches_IgnoreLease(r, state, now) ==
  /\ ~r.finished
  /\ \/ state = "POLL" /\ DuePoll(r, now)
     \/ state = "CALLBACK" /\ DueCallback(r)

ClaimMatches_IgnoreDue(r, state, now) ==
  /\ Claimable(r, now)
  /\ r.state = state

ClaimMatches(r, state, now) ==
  /\ Claimable(r, now)
  /\ \/ state = "POLL" /\ DuePoll(r, now)
     \/ state = "CALLBACK" /\ DueCallback(r)

ClaimDueItem(t, state, w, now, until) ==
  /\ Stored(t)
  /\ ClaimMatches(rows[t], state, now)
  /\ rows' = [rows EXCEPT ![t] =
                [@ EXCEPT !.lockedBy = w, !.lockedUntil = until]]

-----------------------------------------------------------------------------
(* The table under arbitrary clients.                                      *)

StoreInit == rows = [t \in Traces |-> Null]

StoreNext ==
  \E t \in Traces :
    \/ \E n \in InvokeCounts, next \in Times : Create(t, n, next)
    \/ \E data \in Payloads : UpdateContextData(t, data)
    \/ \E data \in Payloads : UpdateOutputs(t, data)
    \/ \E n \in InvokeCounts, next \in Times : MarkPoll(t, n, next)
    \/ \E n \in InvokeCounts, hash \in Hashes, expires \in Times :
         MarkCallback(t, n, hash, expires)
    \/ \E n \in InvokeCounts : MarkSuccess(t, n)
    \/ \E n \in InvokeCounts : MarkFail(t, n)
    \/ \E hash \in Hashes, data \in Payloads, now \in Times :
         ReceiveCallback(t, hash, data, now)
    \/ ExpireCallback(t)
    \/ \E w \in Workers, until \in Times : RenewLock(t, w, until)
    \/ \E w \in Workers, state \in {"POLL", "CALLBACK"},
          now \in Times, until \in Times :
         ClaimDueItem(t, state, w, now, until)

StoreSpec == StoreInit /\ [][StoreNext]_rows

-----------------------------------------------------------------------------
(* Properties                                                              *)

(* Every row is well typed.                                                *)
StoreTypeOK == rows \in [Traces -> Schedule \cup {Null}]

(* A state the caller takes as final (isFinished in worker.go:205 and      *)
(* handlers.go:343 looks at the state) always carries finished_at, which   *)
(* is what every guard of the store looks at: a SUCCESS or FAIL row cannot *)
(* be claimed, renewed, expired or receive a callback.                     *)
FinalStateFinished ==
  \A t \in Traces : Stored(t) /\ IsFinal(rows[t].state) => rows[t].finished

(* No worker holds a lease on a finished row: every update that finishes a *)
(* row clears the lease, and neither a claim nor a late heartbeat puts it  *)
(* back (gorm_store.go:199-209, 292-309).                                  *)
FinishedRowUnleased ==
  \A t \in Traces : Stored(t) /\ rows[t].finished =>
    rows[t].lockedBy = Null /\ rows[t].lockedUntil = Null

(* A lease has an owner and a deadline or neither: a heartbeat that comes  *)
(* after the lease was cleared cannot leave a row locked by nobody.        *)
LeaseWellFormed ==
  \A t \in Traces : Stored(t) =>
    (rows[t].lockedBy = Null <=> rows[t].lockedUntil = Null)

(* A row failed with CALLBACK_TIMEOUT never got its callback: between      *)
(* expiry and a late callback exactly one wins, whatever is marked         *)
(* afterwards (gorm_store.go:143-146).                                     *)
TimedOutNeverReceived ==
  \A t \in Traces : Stored(t) /\ rows[t].errorCode = "CALLBACK_TIMEOUT" =>
    rows[t].finished /\ rows[t].receivedAt = Null

(* A finished row stays finished: no statement takes finished_at away, so  *)
(* a row a stale client writes to after the end is never run again.        *)
FinishedForever ==
  [][\A t \in Traces : Stored(t) /\ rows[t].finished =>
       rows'[t].finished]_rows

(* Only the first callback wins: once a callback is recorded, its time and *)
(* payload stay until the row waits for another callback                   *)
(* (gorm_store.go:93-98).                                                  *)
FirstCallbackWins ==
  [][\A t \in Traces :
       (Stored(t) /\ rows[t].receivedAt # Null) =>
         \/ rows'[t].receivedAt = Null
         \/ /\ rows'[t].receivedAt = rows[t].receivedAt
            /\ rows'[t].callbackData = rows[t].callbackData]_rows

Due(t, now) ==
  /\ Stored(t)
  /\ Claimable(rows[t], now)
  /\ DuePoll(rows[t], now) \/ DueCallback(rows[t])

ServesOldest(now, limit) ==
  \A p \in PollCandidates(now, limit), c \in CallbackCandidates(now, limit) :
    LET m      == MergeDueCandidates(p, c, limit)
        due    == {t \in Traces : Due(t, now)}
        chosen == {m[i].trace : i \in DOMAIN m}
    IN  /\ chosen \subseteq due
        /\ Cardinality(chosen) = Len(m)
        /\ Len(m) = Smaller(Cardinality(due), limit)
        /\ \A i, j \in DOMAIN m : i < j =>
             DueAt(rows[m[i].trace]) <= DueAt(rows[m[j].trace])
        /\ \A t \in chosen, u \in due \ chosen :
             DueAt(rows[t]) <= DueAt(rows[u])

(* ClaimDue serves the rows that waited longest: the limit applied to each *)
(* query and again to their merge leaves out no row that was due before    *)
(* one it keeps, and neither kind of row can starve the other              *)
(* (gorm_store.go:235-245, 311-325).                                       *)
ClaimsOldestFirst ==
  \A now \in Times, limit \in 1..Cardinality(Traces) : ServesOldest(now, limit)
=============================================================================
