-------------------------------- MODULE Server --------------------------------
(***************************************************************************)
(* The HTTP handlers that change schedules (internal/server/handlers.go):  *)
(* Invoke, which creates a schedule and runs the plugin's first step, and  *)
(* Callback, where third parties post their answers.  Every trace is       *)
(* invoked by one request; a third party may post to the same URL any      *)
(* number of times, at once and after having been answered.                *)
(*                                                                         *)
(* The workers are seen here only through the rows they change             *)
(* (WorkerStep); PluginRuntime replaces this by the scheduler.             *)
(***************************************************************************)
EXTENDS ExecuteRuntime, FinishCallback

CONSTANTS
  Posts,    \* the callback requests of a behaviour
  LostAcks  \* TRUE: a mark of a first step may fail and have taken effect

ASSUME ServerAssumption == LostAcks \in BOOLEAN

VARIABLES
  invoke,  \* invoke[t]: where the Invoke request of t is
  post     \* post[p]: the callback request p

serverVars == <<rows, clock, tokens, faults, notified, invoke, post>>

InvokePhases == {"none", "run", "failing", "stepped", "done"}
PostPhases == {"none", "update", "lookup", "done"}
Answers == {"", "accepted", "duplicate", "unauthorized", "refused", "notfound"}

NoInvoke == [pc |-> "none", prepared |-> Null]

NoPost == [pc |-> "none", hash |-> Null, data |-> EmptyMap, now |-> 0,
           answer |-> ""]

-----------------------------------------------------------------------------
(* Invoke                                                                  *)

InvokeGoto(t, pc) == invoke' = [invoke EXCEPT ![t].pc = pc]

InvokeCreate(t) ==
  /\ invoke[t].pc = "none"
  /\ Create(t, 1, clock)
  /\ InvokeGoto(t, "run")
  /\ UNCHANGED <<clock, tokens, faults, notified, post>>

(* An error ends the request, whether or not the row was inserted.         *)
InvokeCreateError(t) ==
  /\ invoke[t].pc = "none"
  /\ UNCHANGED rows \/ Create(t, 1, clock)
  /\ InvokeGoto(t, "done")
  /\ Fault
  /\ UNCHANGED <<clock, tokens, notified, post>>

(* executor.Execute: what the step does before it ends.                    *)
InvokeWrites(t) ==
  /\ invoke[t].pc = "run"
  /\ \E data \in Written : WriteOutputs(t, data) \/ WriteContext(t, data)
  /\ UNCHANGED <<clock, faults, notified, invoke, post>>

InvokePrepares(t) ==
  /\ invoke[t].pc = "run"
  /\ \E timeout \in Timeouts : PrepareCallback(t, clock, timeout)
  /\ invoke' = [invoke EXCEPT ![t].prepared = NewHash]
  /\ UNCHANGED <<clock, faults, notified, post>>

(* The step waits, and the runtime marks the row.                         *)
InvokeWaits(t) ==
  \/ \E after \in Delays : SetPoll(t, 1, clock, after)
  \/ \E timeout \in Timeouts :
       SetCallback(t, 1, invoke[t].prepared, clock, timeout)

InvokeStepEnds_NoSuccess(t) ==
  /\ invoke[t].pc = "run"
  /\ \/ InvokeWaits(t)
     \/ UNCHANGED rows /\ UNCHANGED tokens
     \/ MarkFail(t, 1) /\ UNCHANGED tokens
  /\ InvokeGoto(t, "stepped")
  /\ UNCHANGED <<clock, faults, notified, post>>

(* The step waits; or it returns, and the handler marks the row.           *)
InvokeStepEnds(t) ==
  /\ invoke[t].pc = "run"
  /\ \/ InvokeWaits(t)
     \/ MarkSuccess(t, 1) /\ UNCHANGED tokens
     \/ MarkFail(t, 1) /\ UNCHANGED tokens
  /\ InvokeGoto(t, "stepped")
  /\ UNCHANGED <<clock, faults, notified, post>>

(* The mark fails.  The handler ignores the error of its own MarkSuccess   *)
(* and MarkFail; an error of the runtime's mark is an error of the step,   *)
(* which the handler goes on to fail, also if the mark has taken effect.   *)
InvokeStepError(t) ==
  /\ invoke[t].pc = "run"
  /\ \/ UNCHANGED <<rows, tokens>> /\ InvokeGoto(t, "stepped")
     \/ UNCHANGED <<rows, tokens>> /\ InvokeGoto(t, "failing")
     \/ LostAcks /\ InvokeWaits(t) /\ InvokeGoto(t, "failing")
  /\ Fault
  /\ UNCHANGED <<clock, notified, post>>

InvokeFails(t) ==
  /\ invoke[t].pc = "failing"
  /\ MarkFail(t, 1)
  /\ InvokeGoto(t, "stepped")
  /\ UNCHANGED <<clock, tokens, faults, notified, post>>

(* The Get before the response; the finish callback goes by what it read.  *)
InvokeReadBack(t) ==
  /\ invoke[t].pc = "stepped"
  /\ NotifyFinish({[trace |-> t, state |-> rows[t].state]})
  /\ InvokeGoto(t, "done")
  /\ UNCHANGED <<rows, clock, tokens, faults, post>>

(* The client hangs up, which cancels the request's context, or the server *)
(* dies: no later statement of the request takes effect.                   *)
InvokeAborted(t) ==
  /\ invoke[t].pc \in {"run", "failing", "stepped"}
  /\ InvokeGoto(t, "done")
  /\ Fault
  /\ UNCHANGED <<rows, clock, tokens, notified, post>>

-----------------------------------------------------------------------------
(* Callback                                                                *)

(* A third party posts to a URL it was given.  A URL is given away when it *)
(* is minted, before any row has its token.  The token is verified in the  *)
(* instant now is read; a server without its secret, or a body that cannot *)
(* be read, ends the request.                                              *)
Verdicts(hash) ==
  {"refused", IF Verifies(clock, tokens[hash].expiresAt) THEN "" ELSE "unauthorized"}

PostArrives(p) ==
  /\ post[p].pc = "none"
  /\ \E hash \in DOMAIN tokens, data \in Payloads :
       \E answer \in Verdicts(hash) :
         post' = [post EXCEPT ![p] =
           [pc     |-> IF answer = "" THEN "update" ELSE "done",
            hash   |-> hash,
            data   |-> data,
            now    |-> clock,
            answer |-> answer]]
  /\ UNCHANGED <<rows, clock, tokens, faults, notified, invoke>>

PostTrace(p) == tokens[post[p].hash].trace

PostAnswered(p, answer) ==
  post' = [post EXCEPT ![p].pc = "done", ![p].answer = answer]

(* ReceiveCallback, the conditional update.                                *)
PostUpdates(p) ==
  /\ post[p].pc = "update"
  /\ IF ReceiveMatches(rows[PostTrace(p)], post[p].hash, post[p].now)
     THEN /\ ReceiveCallback(PostTrace(p), post[p].hash,
                             post[p].data, post[p].now)
          /\ PostAnswered(p, "accepted")
     ELSE /\ post' = [post EXCEPT ![p].pc = "lookup"]
          /\ UNCHANGED rows
  /\ UNCHANGED <<clock, tokens, faults, notified, invoke>>

(* ReceiveCallback, the lookup: by now the row may have moved on.          *)
PostLooksUp(p) ==
  /\ post[p].pc = "lookup"
  /\ PostAnswered(p, IF AlreadyReceived(PostTrace(p), post[p].hash)
                     THEN "duplicate" ELSE "notfound")
  /\ UNCHANGED <<rows, clock, tokens, faults, notified, invoke>>

(* Any error of the database is answered like a row that was not found;    *)
(* the update may have taken effect.                                       *)
PostError(p) ==
  /\ post[p].pc \in {"update", "lookup"}
  /\ \/ UNCHANGED rows
     \/ /\ post[p].pc = "update"
        /\ ReceiveCallback(PostTrace(p), post[p].hash,
                           post[p].data, post[p].now)
  /\ PostAnswered(p, "notfound")
  /\ Fault
  /\ UNCHANGED <<clock, tokens, notified, invoke>>

-----------------------------------------------------------------------------
ServerStepOf(t) ==
  \/ InvokeCreate(t) \/ InvokeWrites(t) \/ InvokePrepares(t)
  \/ InvokeStepEnds(t) \/ InvokeFails(t) \/ InvokeReadBack(t)

ServerFaultOf(t) ==
  InvokeCreateError(t) \/ InvokeStepError(t) \/ InvokeAborted(t)

PostStep(p) == PostArrives(p) \/ PostUpdates(p) \/ PostLooksUp(p)

(* The workers as the server sees them: a due row is stepped, an overdue   *)
(* wait is failed.                                                         *)
WorkerStep ==
  /\ \E t \in Traces :
       \/ /\ Stored(t)
          /\ ~rows[t].finished
          /\ DuePoll(rows[t], clock) \/ DueCallback(rows[t])
          /\ LET n == rows[t].invokeCount + 1
             IN  /\ n \in InvokeCounts
                 /\ \/ \E after \in Delays : SetPoll(t, n, clock, after)
                    \/ \E timeout \in Timeouts :
                         SetCallback(t, n, Null, clock, timeout)
                    \/ SetSuccess(t, n)
                    \/ SetFail(t, n)
       \/ /\ Stored(t)
          /\ Overdue(rows[t], clock)
          /\ ExpireCallback(t)
          /\ UNCHANGED tokens
  /\ UNCHANGED <<clock, faults, notified, invoke, post>>

ServerTick ==
  /\ clock < MaxClock
  /\ clock' = clock + 1
  /\ UNCHANGED <<rows, tokens, faults, notified, invoke, post>>

ServerInit ==
  /\ StoreInit
  /\ RuntimeInit
  /\ FinishCallbackInit
  /\ invoke = [t \in Traces |-> NoInvoke]
  /\ post = [p \in Posts |-> NoPost]

ServerNext ==
  \/ \E t \in Traces : ServerStepOf(t) \/ ServerFaultOf(t)
  \/ \E p \in Posts : PostStep(p) \/ PostError(p)
  \/ WorkerStep
  \/ ServerTick

ServerSpec == ServerInit /\ [][ServerNext]_serverVars

-----------------------------------------------------------------------------
(* Properties                                                              *)

(* Every variable is well typed.                                           *)
ServerTypeOK ==
  /\ StoreTypeOK
  /\ RuntimeTypeOK
  /\ FinishCallbackTypeOK
  /\ invoke \in [Traces -> [pc       : InvokePhases,
                            prepared : Hashes \cup {Null}]]
  /\ post \in [Posts -> [pc     : PostPhases,
                         hash   : Hashes \cup {Null},
                         data   : Payloads,
                         now    : Nat,
                         answer : Answers]]

(* A token is accepted once, however many requests with it are under way   *)
(* (gorm_store.go:93-98).                                                  *)
AcceptedOnce ==
  \A p, q \in Posts :
    /\ post[p].answer = "accepted"
    /\ post[q].answer = "accepted"
    /\ post[p].hash = post[q].hash
    => p = q

(* What a third party was told is accepted is what the plugin will read:   *)
(* while the row waits on that token it holds that payload.                *)
AcceptedIsKept ==
  \A p \in Posts :
    LET r == rows[PostTrace(p)]
    IN  post[p].answer = "accepted" /\ r.state = "CALLBACK"
          /\ r.tokenHash = post[p].hash
        => r.receivedAt = post[p].now /\ r.callbackData = post[p].data

(* A trace whose callback was accepted does not end in CALLBACK_TIMEOUT of *)
(* that wait: the expiry and the handlers work on the same row.            *)
AcceptedNotTimedOut ==
  \A p \in Posts :
    LET r == rows[PostTrace(p)]
    IN  post[p].answer = "accepted" /\ r.errorCode = "CALLBACK_TIMEOUT"
        => r.tokenHash # post[p].hash

(* The two expiry checks agree up to the fraction of a second a token      *)
(* drops: Verify lets no request through to a row that had expired when    *)
(* the request came, and it turns away none more than a second early       *)
(* (token.go:43 and 71, gorm_store.go:110).                                *)
TokenExpiryTight ==
  \A p \in Posts :
    LET expires == tokens[post[p].hash].expiresAt
    IN  /\ post[p].pc = "update" => post[p].now < expires
        /\ post[p].answer = "unauthorized" => post[p].now > expires - SecondTicks

(* While nothing fails, a row in EMPTY has a request that is still to run  *)
(* its first step: no query of a worker matches the state, so a row left   *)
(* in it would keep its caller waiting for ever (handlers.go:121-165).     *)
EmptyRowHasRequest ==
  faults = 0 =>
    \A t \in Traces : Phase(t) = "EMPTY" => invoke[t].pc = "run"

(* A callback posted before its token expires is not turned away while the *)
(* plugin goes on to wait for that very callback: what is posted to the    *)
(* URL brings the plugin back (README.md:150).                             *)
PostedCallbackNotLost ==
  \A p \in Posts :
    LET r == rows[PostTrace(p)]
    IN  ~ /\ post[p].answer = "notfound"
          /\ r.state = "CALLBACK"
          /\ r.tokenHash = post[p].hash
          /\ r.receivedAt = Null
          /\ ~r.finished

(* A callback that repeats an accepted one is answered as a success until  *)
(* the trace is finished (gorm_store.go:100-102, handlers.go:283-286).     *)
RepeatedCallbackAccepted ==
  [][\A p, q \in Posts :
       /\ post[p].answer = "accepted"
       /\ post[q].pc = "lookup"
       /\ post[q].hash = post[p].hash
       /\ post'[q].answer = "notfound"
       => rows[PostTrace(q)].finished]_serverVars
=============================================================================
