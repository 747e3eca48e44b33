----------------------------- MODULE ServerProofs -----------------------------
(***************************************************************************)
(* The invariants of the HTTP handlers, for any number of traces, of       *)
(* callback requests and of tokens, any clock and any number of faults.    *)
(*                                                                         *)
(* HandlerInv speaks of the table, the tokens and the requests.  An action *)
(* of a request for t changes the row of t only (InvokeFrame), a callback  *)
(* request changes at most the row it is answered from; the workers, as    *)
(* the server sees them, keep to OtherStep.                                *)
(***************************************************************************)
EXTENDS Server, ExecuteRuntimeProofs

-----------------------------------------------------------------------------
(* The inductive invariant.                                                *)

(* A token belongs to a trace that has a row, and a row that carries a     *)
(* token carries one of its own.                                           *)
TokenInv ==
  /\ \A hash \in DOMAIN tokens : Stored(tokens[hash].trace)
  /\ \A t \in Traces : Stored(t) => PreparedFor(t, rows[t].tokenHash)

(* Until its first step ends a row is EMPTY and waits for nothing.         *)
InvokeOf(t) ==
  /\ invoke[t].pc = "none" => ~Stored(t)
  /\ invoke[t].pc \in {"run", "failing", "stepped"} => Stored(t)
  /\ invoke[t].pc = "run" =>
       rows[t].state = "EMPTY" /\ rows[t].tokenHash = Null
  /\ PreparedFor(t, invoke[t].prepared)

(* A request that was accepted is in the row for as long as the row        *)
(* carries its token, and its trace is past its first step.                *)
Accepted(p) == post[p].answer = "accepted"

KeptBy(p) ==
  /\ invoke[PostTrace(p)].pc # "run"
  /\ rows[PostTrace(p)].tokenHash = post[p].hash =>
       /\ rows[PostTrace(p)].receivedAt = post[p].now
       /\ rows[PostTrace(p)].callbackData = post[p].data

PostOf(p) ==
  /\ post[p].pc # "none" => Issued(post[p].hash)
  /\ post[p].pc # "done" => post[p].answer = ""
  /\ post[p].pc = "update" =>
       Verifies(post[p].now, tokens[post[p].hash].expiresAt)
  /\ post[p].answer = "unauthorized" =>
       ~Verifies(post[p].now, tokens[post[p].hash].expiresAt)
  /\ Accepted(p) => KeptBy(p)

HandlerInv ==
  /\ ServerTypeOK
  /\ StoreInv
  /\ TokenInv
  /\ \A t \in Traces : InvokeOf(t)
  /\ \A p \in Posts : PostOf(p)
  /\ AcceptedOnce
  /\ EmptyRowHasRequest

-----------------------------------------------------------------------------
(* Steps that answer no callback request.                                  *)

(* The row waits anew, for a token for which nothing was accepted. *)
NewWait(t) ==
  /\ rows'[t].tokenHash \in DOMAIN tokens'
  /\ tokens'[rows'[t].tokenHash].trace = t
  /\ \A p \in Posts : Accepted(p) => post[p].hash # rows'[t].tokenHash

WaitStep(t) ==
  \/ Stored(t) /\ rows'[t] # Null /\ (SameWait(t) \/ NewWait(t))
  \/ ~Stored(t) /\ (rows'[t] # Null => rows'[t].tokenHash = Null)

(* What is accepted stays kept while no request is answered, no request    *)
(* starts its first step again and every row takes a WaitStep.             *)
LEMMA KeptWithoutAnswer ==
  ASSUME HandlerInv, UNCHANGED post,
         NEW t, TokensGrow(t), (t \in Traces /\ Stored(t)) \/ UNCHANGED tokens,
         \A u \in Traces : WaitStep(u),
         \A u \in Traces :
           invoke'[u].pc = "run" => invoke[u].pc \in {"none", "run"}
  PROVE  TokenInv' /\ (\A p \in Posts : PostOf(p)') /\ AcceptedOnce'
<1>1. RuntimeTypeOK
  BY DEF HandlerInv, ServerTypeOK
<1>2. \A hash \in DOMAIN tokens : /\ hash \in DOMAIN tokens'
                                  /\ tokens'[hash] = tokens[hash]
                                  /\ tokens[hash].trace \in Traces
  BY <1>1, TokenTypes DEF TokensGrow
<1>3. \A u \in Traces : Stored(u) => rows'[u] # Null
  BY DEF WaitStep
<1>4. TokenInv'
  <2>1. ASSUME NEW hash \in DOMAIN tokens'
        PROVE  rows'[tokens'[hash].trace] # Null
    <3>1. CASE hash \in DOMAIN tokens
      BY <3>1, <1>2, <1>3 DEF HandlerInv, TokenInv
    <3>2. CASE hash \notin DOMAIN tokens
      <4>1. tokens'[hash].trace = t /\ t \in Traces /\ Stored(t)
        BY <2>1, <3>2 DEF TokensGrow, Issued
      <4>. QED BY <4>1, <1>3
    <3>. QED BY <3>1, <3>2
  <2>2. ASSUME NEW u \in Traces, rows'[u] # Null, rows'[u].tokenHash # Null
        PROVE  /\ rows'[u].tokenHash \in DOMAIN tokens'
               /\ tokens'[rows'[u].tokenHash].trace = u
    <3>1. CASE Stored(u) /\ SameWait(u)
      <4>1. Issued(rows[u].tokenHash) /\ tokens[rows[u].tokenHash].trace = u
        BY <3>1, <2>2 DEF HandlerInv, TokenInv, PreparedFor, SameWait
      <4>. QED BY <4>1, <3>1, <1>2 DEF SameWait, Issued
    <3>2. CASE NewWait(u)
      BY <3>2 DEF NewWait
    <3>. QED BY <3>1, <3>2, <2>2 DEF WaitStep
  <2>. QED BY <2>1, <2>2 DEF TokenInv, Stored, PreparedFor, Issued
<1>5. ASSUME NEW p \in Posts
      PROVE  PostOf(p)'
  <2>1. PostOf(p)
    BY DEF HandlerInv
  <2>2. CASE post[p].pc = "none"
    BY <2>1, <2>2 DEF PostOf, Accepted
  <2>3. CASE post[p].pc # "none"
    <3> DEFINE hash == post[p].hash
               u == tokens[hash].trace
    <3>1. /\ hash \in DOMAIN tokens /\ hash \in DOMAIN tokens'
          /\ tokens'[hash] = tokens[hash] /\ u \in Traces
      BY <2>1, <2>3, <1>2 DEF PostOf, Issued
    <3>2. Stored(u)
      BY <3>1 DEF HandlerInv, TokenInv
    <3>3. ASSUME Accepted(p)
          PROVE  /\ invoke'[u].pc # "run"
                 /\ rows'[u].tokenHash = hash =>
                      /\ rows'[u].receivedAt = post[p].now
                      /\ rows'[u].callbackData = post[p].data
      <4>1. /\ invoke[u].pc # "run"
            /\ rows[u].tokenHash = hash =>
                 /\ rows[u].receivedAt = post[p].now
                 /\ rows[u].callbackData = post[p].data
        BY <3>3, <2>1 DEF PostOf, KeptBy, PostTrace
      <4>2. invoke[u].pc # "none"
        BY <3>1, <3>2 DEF HandlerInv, InvokeOf
      <4>3. invoke'[u].pc # "run"
        BY <4>1, <4>2, <3>1
      <4>4. SameWait(u) \/ NewWait(u)
        BY <3>1, <3>2 DEF WaitStep
      <4>. QED BY <4>1, <4>3, <4>4, <3>3 DEF SameWait, NewWait
    <3>. QED BY <2>1, <3>1, <3>3
             DEF PostOf, KeptBy, PostTrace, Accepted, Issued
  <2>. QED BY <2>2, <2>3
<1>6. AcceptedOnce'
  BY DEF HandlerInv, AcceptedOnce
<1>. QED BY <1>4, <1>5, <1>6

-----------------------------------------------------------------------------
(* Invoke.                                                                 *)

InvokeType == [pc : InvokePhases, prepared : Hashes \cup {Null}]

(* What an action of the request for t may touch; i is where it leaves     *)
(* the request.                                                            *)
InvokeFrame(t, i) ==
  /\ UNCHANGED clock /\ UNCHANGED post
  /\ UNCHANGED faults \/ Fault
  /\ UNCHANGED notified \/ \E readBack : NotifyFinish(readBack)
  /\ i \in InvokeType /\ invoke' = [invoke EXCEPT ![t] = i]
  /\ TokensGrow(t) /\ (Stored(t) \/ UNCHANGED tokens)
  /\ UNCHANGED rows \/ Statement(t)
  /\ WaitStep(t)
  /\ i.pc = "run" => invoke[t].pc \in {"none", "run"}

(* Where it leaves the request agrees with the row. *)
InvokeAgrees(t, i) ==
  /\ i.pc = "none" => rows'[t] = Null
  /\ i.pc \in {"run", "failing", "stepped"} => rows'[t] # Null
  /\ i.pc = "run" => rows'[t].state = "EMPTY" /\ rows'[t].tokenHash = Null
  /\ i.prepared # Null =>
       i.prepared \in DOMAIN tokens' /\ tokens'[i.prepared].trace = t
  /\ UNCHANGED faults /\ rows'[t] # Null /\ rows'[t].state = "EMPTY" =>
       (faults = 0 => i.pc = "run")

(* The types, and the phase of a row as the invariants use it. *)
LEMMA ServerTypes ==
  ASSUME HandlerInv
  PROVE  /\ StoreInv /\ RuntimeTypeOK /\ FinishCallbackTypeOK
         /\ clock \in Nat /\ faults \in Nat
         /\ tokens \in Seq(Token) /\ Len(tokens) <= MaxTokens
         /\ invoke \in [Traces -> InvokeType]
BY RuntimeAssumption
   DEF HandlerInv, ServerTypeOK, RuntimeTypeOK, Token, InvokeType

(* A row in EMPTY, told by its state.                                      *)
LEMMA EmptyPhase ==
  \A t : Phase(t) = "EMPTY" <=> Stored(t) /\ rows[t].state = "EMPTY"
BY DEF Phase

(* An action of one request that keeps to its frame, and leaves the        *)
(* request where the row is, keeps HandlerInv.                             *)
LEMMA InvokeFrameInv ==
  ASSUME HandlerInv, NEW t \in Traces, NEW i,
         InvokeFrame(t, i), InvokeAgrees(t, i)
  PROVE  HandlerInv'
<1>1. /\ StoreInv /\ RuntimeTypeOK /\ FinishCallbackTypeOK
      /\ clock \in Nat /\ faults \in Nat
      /\ invoke \in [Traces -> InvokeType]
  BY ServerTypes
<1>2. [AnyStatement]_rows
  BY DEF InvokeFrame, AnyStatement
<1>3. StoreInv'
  BY <1>1, <1>2, StatementInv
<1>4. \A u \in Traces : u # t => rows'[u] = rows[u] /\ invoke'[u] = invoke[u]
  BY <1>1, OtherRowsAreKept DEF InvokeFrame
<1>5. invoke'[t] = i /\ invoke' \in [Traces -> InvokeType]
  BY <1>1 DEF InvokeFrame
<1>6. ServerTypeOK'
  <2>1. RuntimeTypeOK'
    BY <1>1, FaultCounts DEF InvokeFrame, TokensGrow, RuntimeTypeOK, Token
  <2>2. FinishCallbackTypeOK'
    BY <1>1, NotifyType DEF InvokeFrame, FinishCallbackTypeOK
  <2>3. UNCHANGED post
    BY DEF InvokeFrame
  <2>. QED BY <1>3, <1>5, <2>1, <2>2, <2>3
           DEF HandlerInv, ServerTypeOK, StoreInv, InvokeType
<1>7. TokenInv' /\ (\A p \in Posts : PostOf(p)') /\ AcceptedOnce'
  <2>1. \A u \in Traces : WaitStep(u)
    BY <1>4 DEF InvokeFrame, WaitStep, SameWait, Stored
  <2>2. \A u \in Traces :
          invoke'[u].pc = "run" => invoke[u].pc \in {"none", "run"}
    BY <1>4, <1>5 DEF InvokeFrame
  <2>. QED BY <2>1, <2>2, KeptWithoutAnswer DEF InvokeFrame
<1>8. ASSUME NEW u \in Traces
      PROVE  InvokeOf(u)'
  <2>1. CASE u = t
    BY <2>1, <1>5 DEF InvokeAgrees, InvokeOf, PreparedFor, Issued, Stored
  <2>2. CASE u # t
    <3>1. InvokeOf(u)
      BY DEF HandlerInv
    <3>2. PreparedFor(u, invoke[u].prepared)'
      BY <3>1, <2>2, <1>4
         DEF InvokeOf, PreparedFor, Issued, InvokeFrame, TokensGrow
    <3>. QED BY <3>1, <3>2, <2>2, <1>4 DEF InvokeOf, Stored
  <2>. QED BY <2>1, <2>2
<1>9. EmptyRowHasRequest'
  <2>. SUFFICES ASSUME faults' = 0, NEW u \in Traces, rows'[u] # Null,
                       rows'[u].state = "EMPTY"
                PROVE  invoke'[u].pc = "run"
    BY EmptyPhase DEF EmptyRowHasRequest, Phase, Stored
  <2>1. UNCHANGED faults /\ faults = 0
    BY <1>1, FaultCounts DEF InvokeFrame
  <2>2. CASE u = t
    BY <2>1, <2>2, <1>5 DEF InvokeAgrees
  <2>3. CASE u # t
    BY <2>1, <2>3, <1>4, EmptyPhase
       DEF HandlerInv, EmptyRowHasRequest, Stored
  <2>. QED BY <2>2, <2>3
<1>. QED BY <1>3, <1>6, <1>7, <1>8, <1>9 DEF HandlerInv

(* An action that leaves row and tokens alone, but for the request.        *)
LEMMA QuietWait ==
  ASSUME HandlerInv, NEW t \in Traces, UNCHANGED <<rows, tokens>>
  PROVE  WaitStep(t) /\ TokensGrow(t) /\ (Stored(t) \/ UNCHANGED tokens)
BY ServerTypes, NoNewToken DEF WaitStep, SameWait, Stored

(* The insert of the row.                                                  *)
LEMMA CreateKeeps ==
  ASSUME HandlerInv, NEW t \in Traces, InvokeCreate(t) \/ InvokeCreateError(t)
  PROVE  HandlerInv'
<1>. /\ StoreInv /\ RuntimeTypeOK /\ clock \in Nat /\ 1 \in InvokeCounts
     /\ invoke \in [Traces -> InvokeType] /\ InvokeOf(t)
  BY ServerTypes, RuntimeAssumption DEF HandlerInv
<1>1. invoke[t].pc = "none" /\ ~Stored(t) /\ UNCHANGED tokens
  BY DEF InvokeCreate, InvokeCreateError, InvokeOf
<1>2. TokensGrow(t)
  BY <1>1, NoNewToken
<1>3. PreparedFor(t, invoke[t].prepared)
  BY DEF InvokeOf
<1>4. CASE Create(t, 1, clock)
  <2>1. /\ Statement(t) /\ rows'[t] # Null
        /\ rows'[t].state = "EMPTY" /\ rows'[t].tokenHash = Null
    BY <1>4, CreateEffect
  <2>2. WaitStep(t)
    BY <1>1, <2>1 DEF WaitStep
  <2>3. CASE InvokeCreate(t)
    <3> DEFINE i == [invoke[t] EXCEPT !.pc = "run"]
    <3>1. i \in InvokeType /\ i.pc = "run" /\ i.prepared = invoke[t].prepared
      BY DEF InvokeType, InvokePhases
    <3>2. InvokeFrame(t, i)
      BY <1>1, <1>2, <2>1, <2>2, <2>3, <3>1
         DEF InvokeCreate, InvokeGoto, InvokeFrame
    <3>3. InvokeAgrees(t, i)
      BY <1>1, <1>3, <2>1, <3>1 DEF InvokeAgrees, PreparedFor, Issued
    <3>. QED BY <3>2, <3>3, InvokeFrameInv
  <2>4. CASE InvokeCreateError(t)
    <3> DEFINE i == [invoke[t] EXCEPT !.pc = "done"]
    <3>1. i \in InvokeType /\ i.pc = "done" /\ i.prepared = invoke[t].prepared
      BY DEF InvokeType, InvokePhases
    <3>2. InvokeFrame(t, i)
      BY <1>1, <1>2, <2>1, <2>2, <2>4, <3>1
         DEF InvokeCreateError, InvokeGoto, InvokeFrame
    <3>3. ~UNCHANGED faults
      BY <2>4, ServerTypes, FaultCounts DEF InvokeCreateError, Fault
    <3>4. InvokeAgrees(t, i)
      BY <1>1, <1>3, <3>1, <3>3 DEF InvokeAgrees, PreparedFor, Issued
    <3>. QED BY <3>2, <3>4, InvokeFrameInv
  <2>. QED BY <2>3, <2>4
<1>5. CASE UNCHANGED rows /\ InvokeCreateError(t)
  <2> DEFINE i == [invoke[t] EXCEPT !.pc = "done"]
  <2>1. i \in InvokeType /\ i.pc = "done" /\ i.prepared = invoke[t].prepared
    BY DEF InvokeType, InvokePhases
  <2>2. WaitStep(t)
    BY <1>1, <1>5, QuietWait
  <2>3. InvokeFrame(t, i)
    BY <1>1, <1>2, <1>5, <2>1, <2>2 DEF InvokeCreateError, InvokeGoto, InvokeFrame
  <2>4. InvokeAgrees(t, i)
    BY <1>1, <1>3, <1>5, <2>1 DEF InvokeAgrees, PreparedFor, Issued, Stored
  <2>. QED BY <2>3, <2>4, InvokeFrameInv
<1>. QED BY <1>4, <1>5 DEF InvokeCreate, InvokeCreateError

(* Data the first step writes.                                             *)
LEMMA WritesKeeps ==
  ASSUME HandlerInv, NEW t \in Traces, InvokeWrites(t)
  PROVE  HandlerInv'
<1>. /\ StoreInv /\ RuntimeTypeOK
     /\ invoke \in [Traces -> InvokeType] /\ InvokeOf(t)
  BY ServerTypes DEF HandlerInv
<1> DEFINE i == invoke[t]
<1>1. /\ UNCHANGED <<clock, faults, notified, invoke, post, tokens>>
      /\ i.pc = "run"
      /\ \E data \in Payloads : UpdateOutputs(t, data) \/ UpdateContextData(t, data)
  BY RuntimeAssumption DEF InvokeWrites, WriteOutputs, WriteContext
<1>2. /\ Statement(t) /\ Stored(t) /\ rows'[t] # Null
      /\ SameWait(t) /\ rows'[t].state = rows[t].state
  BY <1>1, WriteEffect
<1>3. i \in InvokeType /\ invoke' = [invoke EXCEPT ![t] = i]
  BY <1>1
<1>4. InvokeFrame(t, i)
  BY <1>1, <1>2, <1>3, NoNewToken DEF InvokeFrame, WaitStep
<1>5. InvokeAgrees(t, i)
  BY <1>1, <1>2 DEF InvokeAgrees, InvokeOf, PreparedFor, Issued, SameWait
<1>. QED BY <1>4, <1>5, InvokeFrameInv

(* A token the first step issues.                                          *)
LEMMA PreparesKeeps ==
  ASSUME HandlerInv, NEW t \in Traces, InvokePrepares(t)
  PROVE  HandlerInv'
<1>. /\ StoreInv /\ RuntimeTypeOK /\ clock \in Nat
     /\ invoke \in [Traces -> InvokeType] /\ InvokeOf(t)
  BY ServerTypes DEF HandlerInv
<1> DEFINE i == [invoke[t] EXCEPT !.prepared = NewHash]
<1>1. PICK timeout \in Int : PrepareCallback(t, clock, timeout)
  BY RuntimeAssumption DEF InvokePrepares
<1>2. /\ UNCHANGED <<rows, clock, faults, notified, post>>
      /\ invoke[t].pc = "run" /\ Stored(t)
      /\ invoke' = [invoke EXCEPT ![t] = i]
  BY <1>1 DEF InvokePrepares, PrepareCallback, InvokeOf
<1>3. /\ TokensGrow(t) /\ NewHash \in DOMAIN tokens'
      /\ NewHash \in Hashes /\ tokens'[NewHash].trace = t
  BY <1>1, IssuedToken DEF PrepareCallback
<1>4. i \in InvokeType /\ i.pc = "run" /\ i.prepared = NewHash
  BY <1>2, <1>3 DEF InvokeType
<1> HIDE DEF i
<1>5. WaitStep(t)
  BY <1>2 DEF WaitStep, SameWait, Stored
<1>6. InvokeFrame(t, i)
  BY <1>2, <1>3, <1>4, <1>5 DEF InvokeFrame
<1>7. InvokeAgrees(t, i)
  BY <1>2, <1>3, <1>4 DEF InvokeAgrees, InvokeOf, Stored
<1>. QED BY <1>6, <1>7, InvokeFrameInv

(* A wait of a first step: no request can have been accepted for the token *)
(* it waits for, which the row carries for the first time.                 *)
LEMMA WaitsEffect ==
  ASSUME HandlerInv, NEW t \in Traces, invoke[t].pc = "run", InvokeWaits(t)
  PROVE  /\ Statement(t) /\ Stored(t) /\ rows'[t] # Null /\ TokensGrow(t)
         /\ rows'[t].state # "EMPTY" /\ WaitStep(t)
<1>. /\ StoreInv /\ RuntimeTypeOK /\ clock \in Nat /\ 1 \in InvokeCounts
     /\ InvokeOf(t)
  BY ServerTypes, RuntimeAssumption DEF HandlerInv
<1>1. CASE \E after \in Delays : SetPoll(t, 1, clock, after)
  <2>1. UNCHANGED tokens /\ \E next \in Nat : MarkPoll(t, 1, next)
    BY <1>1, RuntimeAssumption DEF SetPoll
  <2>2. /\ Statement(t) /\ Stored(t) /\ rows'[t] # Null
        /\ SameWait(t) /\ rows'[t].state # "EMPTY"
    BY <2>1, MarkEffect
  <2>. QED BY <2>1, <2>2, NoNewToken DEF WaitStep
<1>2. CASE \E timeout \in Timeouts :
             SetCallback(t, 1, invoke[t].prepared, clock, timeout)
  <2>1. PICK timeout \in Int :
          SetCallback(t, 1, invoke[t].prepared, clock, timeout)
    BY <1>2, RuntimeAssumption
  <2>2. PreparedFor(t, invoke[t].prepared)
    BY DEF InvokeOf
  <2>3. TokensGrow(t)
    BY <2>1, <2>2, SetCallbackEffect
  <2>4. PICK hash \in Hashes :
          /\ hash = invoke[t].prepared \/ ~Issued(hash)
          /\ hash \in DOMAIN tokens' /\ tokens'[hash].trace = t
          /\ tokens'[hash].expiresAt \in Nat
          /\ MarkCallback(t, 1, hash, tokens'[hash].expiresAt)
    BY <2>1, <2>2, SetCallbackEffect
  <2>5. /\ Statement(t) /\ Stored(t) /\ rows'[t] # Null
        /\ rows'[t].tokenHash = hash /\ rows'[t].state = "CALLBACK"
    BY <2>4, WaitEffect
  <2>6. ASSUME NEW p \in Posts, Accepted(p)
        PROVE  post[p].hash # hash
    <3>1. PostOf(p)
      BY DEF HandlerInv
    <3>2. Issued(post[p].hash) /\ invoke[tokens[post[p].hash].trace].pc # "run"
      BY <2>6, <3>1 DEF PostOf, KeptBy, PostTrace, Accepted
    <3>. QED BY <3>2, <2>2, <2>4, NullAssumption DEF PreparedFor
  <2>7. NewWait(t)
    BY <2>4, <2>5, <2>6 DEF NewWait
  <2>. QED BY <2>3, <2>5, <2>7 DEF WaitStep
<1>. QED BY <1>1, <1>2 DEF InvokeWaits

(* The mark at the end of the first step, and its errors.                  *)
LEMMA StepEndsKeeps ==
  ASSUME HandlerInv, NEW t \in Traces,
         InvokeStepEnds(t) \/ InvokeStepError(t) \/ InvokeFails(t)
  PROVE  HandlerInv'
<1>. /\ StoreInv /\ RuntimeTypeOK /\ clock \in Nat /\ 1 \in InvokeCounts
     /\ invoke \in [Traces -> InvokeType] /\ InvokeOf(t)
  BY ServerTypes, RuntimeAssumption DEF HandlerInv
<1> DEFINE i == invoke'[t]
<1>1. /\ invoke[t].pc \in {"run", "failing"}
      /\ InvokeGoto(t, "stepped") \/ InvokeGoto(t, "failing")
      /\ UNCHANGED <<clock, notified, post>> /\ (UNCHANGED faults \/ Fault)
  BY DEF InvokeStepEnds, InvokeStepError, InvokeFails
<1>2. Stored(t)
  BY <1>1 DEF InvokeOf
<1>3. /\ i \in InvokeType /\ i.pc \in {"stepped", "failing"}
      /\ i.prepared = invoke[t].prepared
      /\ invoke' = [invoke EXCEPT ![t] = i]
  BY <1>1 DEF InvokeGoto, InvokeType, InvokePhases
<1> HIDE DEF i
<1>4. /\ TokensGrow(t) /\ WaitStep(t) /\ rows'[t] # Null
      /\ UNCHANGED rows \/ Statement(t)
      /\ UNCHANGED faults => rows'[t].state # "EMPTY"
  <2>1. CASE /\ invoke[t].pc = "run" /\ InvokeWaits(t)
    BY <2>1, WaitsEffect
  <2>2. CASE (MarkSuccess(t, 1) \/ MarkFail(t, 1)) /\ UNCHANGED tokens
    BY <2>2, <1>2, MarkEffect, NoNewToken DEF WaitStep
  <2>3. CASE UNCHANGED <<rows, tokens>> /\ Fault
    BY <2>3, <1>2, QuietWait, FaultCounts DEF Stored, RuntimeTypeOK
  <2>. QED BY <2>1, <2>2, <2>3 DEF InvokeStepEnds, InvokeStepError, InvokeFails
<1>5. InvokeFrame(t, i)
  BY <1>1, <1>2, <1>3, <1>4 DEF InvokeFrame
<1>6. InvokeAgrees(t, i)
  BY <1>3, <1>4 DEF InvokeAgrees, InvokeOf, PreparedFor, Issued, TokensGrow
<1>. QED BY <1>5, <1>6, InvokeFrameInv

(* The read back before the response, and a request that is cut off.       *)
LEMMA EndKeeps ==
  ASSUME HandlerInv, NEW t \in Traces, InvokeReadBack(t) \/ InvokeAborted(t)
  PROVE  HandlerInv'
<1>. /\ StoreInv /\ RuntimeTypeOK /\ EmptyRowHasRequest
     /\ invoke \in [Traces -> InvokeType] /\ InvokeOf(t)
  BY ServerTypes DEF HandlerInv
<1> DEFINE i == [invoke[t] EXCEPT !.pc = "done"]
<1>1. /\ UNCHANGED <<rows, clock, tokens, post>>
      /\ invoke' = [invoke EXCEPT ![t] = i]
      /\ \/ /\ invoke[t].pc = "stepped" /\ UNCHANGED faults
            /\ \E readBack : NotifyFinish(readBack)
         \/ Fault /\ UNCHANGED notified
  BY DEF InvokeReadBack, InvokeAborted, InvokeGoto
<1>2. i \in InvokeType /\ i.pc = "done" /\ i.prepared = invoke[t].prepared
  BY DEF InvokeType, InvokePhases
<1> HIDE DEF i
<1>3. InvokeFrame(t, i)
  BY <1>1, <1>2, QuietWait DEF InvokeFrame
<1>4. UNCHANGED faults /\ faults = 0 => rows[t] = Null \/ rows[t].state # "EMPTY"
  BY <1>1, EmptyPhase, FaultCounts DEF EmptyRowHasRequest, Stored, RuntimeTypeOK
<1>5. InvokeAgrees(t, i)
  BY <1>1, <1>2, <1>4 DEF InvokeAgrees, InvokeOf, PreparedFor, Issued
<1>. QED BY <1>3, <1>5, InvokeFrameInv

-----------------------------------------------------------------------------
(* Callback.                                                               *)

PostType == [pc : PostPhases, hash : Hashes \cup {Null}, data : Payloads,
             now : Nat, answer : Answers]

(* The update of ReceiveCallback for request p takes effect. *)
Receives(p) ==
  ReceiveCallback(PostTrace(p), post[p].hash, post[p].data, post[p].now)

(* What an action of a callback request may touch; r is where it leaves    *)
(* the request.                                                            *)
PostFrame(p, r) ==
  /\ UNCHANGED <<clock, tokens, notified, invoke>>
  /\ UNCHANGED faults \/ Fault
  /\ r \in PostType /\ post' = [post EXCEPT ![p] = r]
  /\ UNCHANGED rows \/ (post[p].pc = "update" /\ Receives(p))

PostAgrees(p, r) ==
  /\ r.pc # "none" => Issued(r.hash)
  /\ r.pc # "done" => r.answer = ""
  /\ r.pc = "update" => Verifies(r.now, tokens[r.hash].expiresAt)
  /\ r.answer = "unauthorized" => ~Verifies(r.now, tokens[r.hash].expiresAt)
  /\ r.answer = "accepted" =>
       /\ post[p].pc = "update" /\ Receives(p)
       /\ r.hash = post[p].hash /\ r.data = post[p].data /\ r.now = post[p].now

(* The row of the request, before and after its update.                    *)
LEMMA ReceivesEffect ==
  ASSUME HandlerInv, NEW p \in Posts, post[p].pc = "update", Receives(p)
  PROVE  LET t == PostTrace(p)
         IN  /\ t \in Traces /\ Statement(t) /\ Stored(t) /\ rows'[t] # Null
             /\ rows[t].state = "CALLBACK" /\ rows'[t].state = "CALLBACK"
             /\ rows[t].tokenHash = post[p].hash
             /\ rows'[t].tokenHash = post[p].hash
             /\ rows[t].receivedAt = Null
             /\ rows'[t].receivedAt = post[p].now
             /\ rows'[t].callbackData = post[p].data
<1>. DEFINE t == PostTrace(p)
            hash == post[p].hash
<1>1. StoreInv /\ RuntimeTypeOK /\ PostOf(p) /\ post[p] \in PostType
  BY ServerTypes DEF HandlerInv, ServerTypeOK, PostType
<1>2. hash \in DOMAIN tokens
  BY <1>1 DEF PostOf, Issued
<1>3. t \in Traces /\ hash \in Hashes
  BY <1>1, <1>2, TokenTypes DEF PostTrace
<1>4. post[p].data \in Payloads /\ post[p].now \in Nat
  BY <1>1 DEF PostType
<1> HIDE DEF t, hash
<1>5. ReceiveCallback(t, hash, post[p].data, post[p].now)
  BY DEF Receives, t, hash
<1>6. Statement(t) /\ Stored(t)
  BY <1>3, <1>4, <1>5 DEF Statement, ReceiveCallback
<1>7. rows'[t] # Null
  BY <1>1, <1>3, <1>6, RowsAreKept DEF AnyStatement
<1>8. rows[t] \in Schedule /\ rows \in [Traces -> Schedule \cup {Null}]
  BY <1>1, <1>3, <1>6, StoredRow DEF StoreInv, StoreTypeOK
<1>9. /\ rows[t].state = "CALLBACK" /\ rows[t].tokenHash = hash
      /\ rows[t].receivedAt = Null
      /\ rows'[t] = ReceivedRow(rows[t], post[p].data, post[p].now)
  BY <1>3, <1>5, <1>8 DEF ReceiveCallback, ReceiveMatches
<1>10. /\ rows'[t].state = rows[t].state
       /\ rows'[t].tokenHash = rows[t].tokenHash
       /\ rows'[t].receivedAt = post[p].now
       /\ rows'[t].callbackData = post[p].data
  BY <1>8, <1>9 DEF ReceivedRow, Schedule
<1>. QED BY <1>3, <1>6, <1>7, <1>9, <1>10 DEF t, hash

(* An action of one callback request that keeps to its frame keeps         *)
(* HandlerInv.                                                             *)
LEMMA PostFrameInv ==
  ASSUME HandlerInv, NEW p \in Posts, NEW r,
         PostFrame(p, r), PostAgrees(p, r)
  PROVE  HandlerInv'
<1>1. /\ StoreInv /\ RuntimeTypeOK /\ FinishCallbackTypeOK
      /\ clock \in Nat /\ faults \in Nat
      /\ post \in [Posts -> PostType]
  BY ServerTypes DEF HandlerInv, ServerTypeOK, PostType
<1>2. \/ UNCHANGED rows
      \/ /\ post[p].pc = "update" /\ Receives(p)
         /\ PostTrace(p) \in Traces /\ Statement(PostTrace(p))
  BY ReceivesEffect DEF PostFrame
<1>3. [AnyStatement]_rows
  BY <1>2 DEF AnyStatement
<1>4. StoreInv'
  BY <1>1, <1>3, StatementInv
<1>5. \A u \in Traces :
        /\ rows'[u] # Null <=> rows[u] # Null
        /\ rows'[u].state = rows[u].state
        /\ rows'[u].tokenHash = rows[u].tokenHash
  <2>. TAKE u \in Traces
  <2>1. CASE UNCHANGED rows
    BY <2>1
  <2>2. CASE post[p].pc = "update" /\ Receives(p)
    <3>1. CASE u = PostTrace(p)
      BY <2>2, <3>1, ReceivesEffect DEF Stored
    <3>2. CASE u # PostTrace(p)
      BY <1>1, <2>2, <3>2, ReceivesEffect, OtherRowsAreKept
    <3>. QED BY <3>1, <3>2
  <2>. QED BY <1>2, <2>1, <2>2
<1>6. post'[p] = r /\ \A q \in Posts : q # p => post'[q] = post[q]
  BY <1>1 DEF PostFrame
<1>7. ServerTypeOK'
  <2>1. RuntimeTypeOK'
    BY <1>1, FaultCounts DEF PostFrame, RuntimeTypeOK
  <2>2. post' \in [Posts -> PostType]
    BY <1>1 DEF PostFrame
  <2>. QED BY <1>1, <1>4, <2>1, <2>2
           DEF HandlerInv, ServerTypeOK, StoreInv, PostFrame, PostType,
               FinishCallbackTypeOK
<1>8. UNCHANGED <<tokens, invoke>>
  BY DEF PostFrame
<1>9. TokenInv'
  <2>1. \A hash \in DOMAIN tokens : tokens[hash].trace \in Traces
    BY <1>1, TokenTypes
  <2>. QED BY <1>5, <1>8, <2>1
           DEF HandlerInv, TokenInv, PreparedFor, Issued, Stored
<1>10. \A t \in Traces : InvokeOf(t)'
  BY <1>5, <1>8 DEF HandlerInv, InvokeOf, PreparedFor, Issued, Stored
<1>11. ASSUME NEW q \in Posts, Accepted(q), post[p].pc = "update", Receives(p)
       PROVE  post[q].hash # post[p].hash
  <2>1. PostOf(q)
    BY DEF HandlerInv
  <2>2. SUFFICES ASSUME post[q].hash = post[p].hash PROVE FALSE
    OBVIOUS
  <2>3. PostTrace(q) = PostTrace(p)
    BY <2>2 DEF PostTrace
  <2>4. rows[PostTrace(p)].receivedAt = post[q].now
    BY <1>11, <2>1, <2>2, <2>3, ReceivesEffect DEF PostOf, KeptBy
  <2>5. post[q].now \in Nat
    BY <1>1 DEF PostType
  <2>. QED BY <1>11, <2>4, <2>5, ReceivesEffect, NullAssumption
<1>12. ASSUME NEW q \in Posts, q # p
       PROVE  PostOf(q)'
  <2>1. PostOf(q) /\ post'[q] = post[q]
    BY <1>6, <1>12 DEF HandlerInv
  <2>2. CASE ~Accepted(q)
    BY <1>8, <2>1, <2>2 DEF PostOf, Accepted, Issued
  <2>3. CASE Accepted(q)
    <3>1. Issued(post[q].hash) /\ KeptBy(q)
      BY <2>1, <2>3 DEF PostOf, Accepted
    <3>2. PostTrace(q) \in Traces
      BY <3>1, <1>1, TokenTypes DEF PostTrace, Issued
    <3>3. CASE UNCHANGED rows
      BY <1>8, <2>1, <3>1, <3>3 DEF PostOf, KeptBy, PostTrace, Accepted, Issued
    <3>4. CASE post[p].pc = "update" /\ Receives(p)
      <4>1. post[q].hash # post[p].hash
        BY <2>3, <3>4, <1>11
      <4>2. CASE PostTrace(q) = PostTrace(p)
        <5>1. rows'[PostTrace(q)].tokenHash # post[q].hash
          BY <3>4, <4>1, <4>2, ReceivesEffect
        <5>. QED BY <1>8, <2>1, <3>1, <5>1
                 DEF PostOf, KeptBy, PostTrace, Accepted, Issued
      <4>3. CASE PostTrace(q) # PostTrace(p)
        <5>1. rows'[PostTrace(q)] = rows[PostTrace(q)]
          BY <1>1, <3>2, <3>4, <4>3, ReceivesEffect, OtherRowsAreKept
        <5>. QED BY <1>8, <2>1, <3>1, <5>1
                 DEF PostOf, KeptBy, PostTrace, Accepted, Issued
      <4>. QED BY <4>2, <4>3
    <3>. QED BY <1>2, <3>3, <3>4
  <2>. QED BY <2>2, <2>3
<1>13. PostOf(p)'
  <2>1. CASE r.answer # "accepted"
    BY <1>6, <1>8, <2>1 DEF PostAgrees, PostOf, Accepted, Issued
  <2>2. CASE r.answer = "accepted"
    <3>1. /\ post[p].pc = "update" /\ Receives(p) /\ r.hash = post[p].hash
          /\ r.data = post[p].data /\ r.now = post[p].now
          /\ r.pc = "done" /\ Issued(r.hash)
      BY <2>2 DEF PostAgrees
    <3>2. invoke[PostTrace(p)].pc # "run"
      BY <3>1, ReceivesEffect DEF HandlerInv, InvokeOf
    <3>3. /\ rows'[PostTrace(p)].receivedAt = post[p].now
          /\ rows'[PostTrace(p)].callbackData = post[p].data
      BY <3>1, ReceivesEffect
    <3>4. PostTrace(p)' = PostTrace(p)
      BY <1>6, <1>8, <3>1 DEF PostTrace
    <3>. QED BY <1>6, <1>8, <2>2, <3>1, <3>2, <3>3, <3>4
             DEF PostOf, KeptBy, Accepted, Issued
  <2>. QED BY <2>1, <2>2
<1>14. AcceptedOnce'
  <2>1. \A q \in Posts : q # p /\ post'[q].answer = "accepted"
                         /\ r.answer = "accepted" => post'[q].hash # r.hash
    BY <1>6, <1>11 DEF PostAgrees, Accepted
  <2>. QED BY <1>6, <2>1 DEF HandlerInv, AcceptedOnce
<1>15. EmptyRowHasRequest'
  <2>. SUFFICES ASSUME faults' = 0, NEW u \in Traces, rows'[u] # Null,
                       rows'[u].state = "EMPTY"
                PROVE  invoke'[u].pc = "run"
    BY EmptyPhase DEF EmptyRowHasRequest, Phase, Stored
  <2>1. faults = 0
    BY <1>1, FaultCounts DEF PostFrame
  <2>. QED BY <1>5, <1>8, <2>1, EmptyPhase
           DEF HandlerInv, EmptyRowHasRequest, Stored
<1>. QED BY <1>4, <1>6, <1>7, <1>9, <1>10, <1>12, <1>13, <1>14, <1>15
         DEF HandlerInv

(* Every action of a callback request. *)
LEMMA PostKeeps ==
  ASSUME HandlerInv, NEW p \in Posts, PostStep(p) \/ PostError(p)
  PROVE  HandlerInv'
<1>1. /\ StoreInv /\ RuntimeTypeOK /\ clock \in Nat /\ PostOf(p)
      /\ post \in [Posts -> PostType]
  BY ServerTypes DEF HandlerInv, ServerTypeOK, PostType
<1>2. post[p] \in PostType
  BY <1>1
<1>3. CASE PostArrives(p)
  <2>0. PICK hash \in DOMAIN tokens, data \in Payloads :
          \E answer \in Verdicts(hash) :
            post' = [post EXCEPT ![p] =
              [pc     |-> IF answer = "" THEN "update" ELSE "done",
               hash   |-> hash,
               data   |-> data,
               now    |-> clock,
               answer |-> answer]]
    BY <1>3 DEF PostArrives
  <2>1. PICK answer \in Verdicts(hash) :
          post' = [post EXCEPT ![p] =
            [pc     |-> IF answer = "" THEN "update" ELSE "done",
             hash   |-> hash,
             data   |-> data,
             now    |-> clock,
             answer |-> answer]]
    BY <2>0
  <2> DEFINE r == [pc     |-> IF answer = "" THEN "update" ELSE "done",
                   hash   |-> hash,
                   data   |-> data,
                   now    |-> clock,
                   answer |-> answer]
  <2>2. hash \in Hashes
    BY <1>1, TokenTypes
  <2>3. r \in PostType
    BY <1>1, <2>2 DEF PostType, PostPhases, Answers, Verdicts
  <2>4. PostFrame(p, r)
    BY <1>3, <2>1, <2>3 DEF PostArrives, PostFrame
  <2>5. PostAgrees(p, r)
    BY DEF PostAgrees, Issued, Verdicts
  <2>. QED BY <2>4, <2>5, PostFrameInv
<1>4. CASE PostUpdates(p)
  <2>1. post[p].pc = "update" /\ UNCHANGED <<clock, tokens, faults, notified, invoke>>
    BY <1>4 DEF PostUpdates
  <2>2. CASE ReceiveMatches(rows[PostTrace(p)], post[p].hash, post[p].now)
    <3> DEFINE r == [post[p] EXCEPT !.pc = "done", !.answer = "accepted"]
    <3>1. Receives(p) /\ post' = [post EXCEPT ![p] = r]
      BY <1>4, <2>2 DEF PostUpdates, PostAnswered, Receives
    <3>2. /\ r \in PostType /\ r.pc = "done" /\ r.answer = "accepted"
          /\ r.hash = post[p].hash /\ r.data = post[p].data /\ r.now = post[p].now
      BY <1>2 DEF PostType, PostPhases, Answers
    <3> HIDE DEF r
    <3>3. PostFrame(p, r)
      BY <2>1, <3>1, <3>2 DEF PostFrame
    <3>4. PostAgrees(p, r)
      BY <1>1, <2>1, <3>1, <3>2 DEF PostAgrees, PostOf
    <3>. QED BY <3>3, <3>4, PostFrameInv
  <2>3. CASE ~ReceiveMatches(rows[PostTrace(p)], post[p].hash, post[p].now)
    <3> DEFINE r == [post[p] EXCEPT !.pc = "lookup"]
    <3>1. UNCHANGED rows /\ post' = [post EXCEPT ![p] = r]
      BY <1>4, <2>3 DEF PostUpdates
    <3>2. /\ r \in PostType /\ r.pc = "lookup" /\ r.answer = post[p].answer
          /\ r.hash = post[p].hash
      BY <1>2 DEF PostType, PostPhases
    <3> HIDE DEF r
    <3>3. PostFrame(p, r)
      BY <2>1, <3>1, <3>2 DEF PostFrame
    <3>4. PostAgrees(p, r)
      BY <1>1, <2>1, <3>2 DEF PostAgrees, PostOf
    <3>. QED BY <3>3, <3>4, PostFrameInv
  <2>. QED BY <2>2, <2>3
<1>5. CASE PostLooksUp(p) \/ PostError(p)
  <2>1. PICK answer \in {"duplicate", "notfound"} : PostAnswered(p, answer)
    BY <1>5 DEF PostLooksUp, PostError
  <2> DEFINE r == [post[p] EXCEPT !.pc = "done", !.answer = answer]
  <2>2. /\ r \in PostType /\ r.pc = "done" /\ r.answer = answer
        /\ r.hash = post[p].hash /\ post' = [post EXCEPT ![p] = r]
    BY <1>2, <2>1 DEF PostType, PostPhases, Answers, PostAnswered
  <2> HIDE DEF r
  <2>3. /\ post[p].pc \in {"update", "lookup"}
        /\ UNCHANGED <<clock, tokens, notified, invoke>>
        /\ UNCHANGED faults \/ Fault
        /\ UNCHANGED rows \/ (post[p].pc = "update" /\ Receives(p))
    BY <1>5 DEF PostLooksUp, PostError, Receives
  <2>4. PostFrame(p, r)
    BY <2>2, <2>3 DEF PostFrame
  <2>5. PostAgrees(p, r)
    BY <1>1, <2>2, <2>3 DEF PostAgrees, PostOf
  <2>. QED BY <2>4, <2>5, PostFrameInv
<1>. QED BY <1>3, <1>4, <1>5 DEF PostStep

-----------------------------------------------------------------------------
(* The workers, and the clock.                                             *)

(* A step that leaves every request as it is: it inserts no row, and it    *)
(* does not touch the wait, or the state, of a row still in EMPTY.         *)
OtherStep ==
  /\ UNCHANGED <<invoke, post>>
  /\ clock' \in Nat /\ faults' \in 0..MaxFaults /\ (faults' = 0 => faults = 0)
  /\ FinishCallbackTypeOK'
  /\ [AnyStatement]_rows
  /\ \E t : TokensGrow(t) /\ ((t \in Traces /\ Stored(t)) \/ UNCHANGED tokens)
  /\ \A u \in Traces :
       /\ WaitStep(u)
       /\ ~Stored(u) => rows'[u] = Null
       /\ Stored(u) =>
            /\ rows[u].state = "EMPTY" <=> rows'[u].state = "EMPTY"
            /\ rows[u].state = "EMPTY" => SameWait(u)

(* No such step disturbs the handlers. *)
LEMMA OtherStepKeeps ==
  ASSUME HandlerInv, OtherStep
  PROVE  HandlerInv'
<1>1. StoreInv /\ RuntimeTypeOK
  BY ServerTypes
<1>2. StoreInv'
  BY <1>1, StatementInv DEF OtherStep
<1>3. PICK t : TokensGrow(t) /\ ((t \in Traces /\ Stored(t)) \/ UNCHANGED tokens)
  BY DEF OtherStep
<1>4. ServerTypeOK'
  <2>1. RuntimeTypeOK'
    BY <1>3 DEF OtherStep, TokensGrow, RuntimeTypeOK, Token
  <2>. QED BY <1>2, <2>1 DEF HandlerInv, ServerTypeOK, StoreInv, OtherStep
<1>5. TokenInv' /\ (\A p \in Posts : PostOf(p)') /\ AcceptedOnce'
  BY <1>3, KeptWithoutAnswer DEF OtherStep
<1>6. ASSUME NEW u \in Traces
      PROVE  InvokeOf(u)'
  <2>1. InvokeOf(u) /\ invoke' = invoke
    BY DEF HandlerInv, OtherStep
  <2>2. PreparedFor(u, invoke[u].prepared)'
    BY <1>3, <2>1 DEF InvokeOf, PreparedFor, Issued, TokensGrow
  <2>. QED BY <2>1, <2>2 DEF InvokeOf, OtherStep, Stored, SameWait, WaitStep
<1>7. EmptyRowHasRequest'
  <2>. SUFFICES ASSUME faults' = 0, NEW u \in Traces, rows'[u] # Null,
                       rows'[u].state = "EMPTY"
                PROVE  invoke'[u].pc = "run"
    BY EmptyPhase DEF EmptyRowHasRequest, Phase, Stored
  <2>1. faults = 0 /\ Stored(u) /\ rows[u].state = "EMPTY" /\ invoke' = invoke
    BY DEF OtherStep
  <2>. QED BY <2>1, EmptyPhase DEF HandlerInv, EmptyRowHasRequest
<1>. QED BY <1>2, <1>4, <1>5, <1>6, <1>7 DEF HandlerInv

(* How a step of a worker ends. *)
MarksLater(t, n, prepared, now) ==
  \/ \E after \in Delays : SetPoll(t, n, now, after)
  \/ \E timeout \in Timeouts : SetCallback(t, n, prepared, now, timeout)
  \/ SetSuccess(t, n)
  \/ SetFail(t, n)

(* A mark of a later step: of a row that is past EMPTY, which it leaves    *)
(* waiting as before or for a token nobody has used.                       *)
LEMMA LaterMark ==
  ASSUME HandlerInv, NEW t \in Traces, Stored(t), rows[t].state # "EMPTY",
         NEW n \in InvokeCounts, NEW now \in Nat,
         NEW prepared, PreparedFor(t, prepared),
         prepared # Null => \A p \in Posts : Accepted(p) => post[p].hash # prepared,
         MarksLater(t, n, prepared, now)
  PROVE  /\ Statement(t) /\ TokensGrow(t) /\ WaitStep(t)
         /\ rows'[t] # Null /\ rows'[t].state # "EMPTY"
         /\ \/ SameWait(t)
            \/ rows'[t].tokenHash = prepared \/ ~Issued(rows'[t].tokenHash)
<1>. StoreInv /\ RuntimeTypeOK
  BY ServerTypes
<1>1. CASE \E timeout \in Timeouts : SetCallback(t, n, prepared, now, timeout)
  <2>1. PICK timeout \in Int : SetCallback(t, n, prepared, now, timeout)
    BY <1>1, RuntimeAssumption
  <2>2. TokensGrow(t)
    BY <2>1, SetCallbackEffect
  <2>3. PICK hash \in Hashes :
          /\ hash = prepared \/ ~Issued(hash)
          /\ hash \in DOMAIN tokens' /\ tokens'[hash].trace = t
          /\ tokens'[hash].expiresAt \in Nat
          /\ MarkCallback(t, n, hash, tokens'[hash].expiresAt)
    BY <2>1, SetCallbackEffect
  <2>4. /\ Statement(t) /\ rows'[t] # Null
        /\ rows'[t].tokenHash = hash /\ rows'[t].state = "CALLBACK"
    BY <2>3, WaitEffect
  <2>5. \A p \in Posts : Accepted(p) => post[p].hash # hash
    BY <2>3, NullAssumption DEF HandlerInv, PostOf, Accepted, Issued
  <2>. QED BY <2>2, <2>3, <2>4, <2>5 DEF WaitStep, NewWait
<1>2. CASE ~\E timeout \in Timeouts : SetCallback(t, n, prepared, now, timeout)
  <2>1. /\ UNCHANGED tokens
        /\ \/ \E next \in Nat : MarkPoll(t, n, next)
           \/ MarkSuccess(t, n)
           \/ MarkFail(t, n)
    BY <1>2, RuntimeAssumption DEF MarksLater, SetPoll, SetSuccess, SetFail
  <2>. QED BY <2>1, MarkEffect, NoNewToken DEF WaitStep
<1>. QED BY <1>1, <1>2

(* A statement of a worker on the row of t is such a step. *)
LEMMA OtherRowStep ==
  ASSUME HandlerInv, NEW t \in Traces, Stored(t), rows[t].state # "EMPTY",
         Statement(t), TokensGrow(t), WaitStep(t),
         rows'[t] # Null, rows'[t].state # "EMPTY",
         UNCHANGED <<invoke, post>>, FinishCallbackTypeOK',
         clock' \in Nat, faults' \in 0..MaxFaults, faults' = 0 => faults = 0
  PROVE  OtherStep
<1>1. StoreInv
  BY ServerTypes
<1>2. \A u \in Traces : u # t => rows'[u] = rows[u]
  BY <1>1, OtherRowsAreKept
<1>3. [AnyStatement]_rows
  BY DEF AnyStatement
<1>4. ASSUME NEW u \in Traces, u # t
      PROVE  /\ WaitStep(u)
             /\ ~Stored(u) => rows'[u] = Null
             /\ Stored(u) =>
                  /\ rows[u].state = "EMPTY" <=> rows'[u].state = "EMPTY"
                  /\ rows[u].state = "EMPTY" => SameWait(u)
  BY <1>2, <1>4 DEF WaitStep, SameWait, Stored
<1>. QED BY <1>3, <1>4 DEF OtherStep

(* The workers, as the server sees them, keep to OtherStep.                *)
LEMMA WorkerKeeps ==
  ASSUME HandlerInv, WorkerStep
  PROVE  HandlerInv'
<1>1. /\ UNCHANGED <<clock, faults, notified, invoke, post>>
      /\ StoreInv /\ RuntimeTypeOK /\ clock \in Nat /\ FinishCallbackTypeOK
      /\ faults \in 0..MaxFaults
  BY ServerTypes DEF WorkerStep, RuntimeTypeOK
<1>2. FinishCallbackTypeOK'
  BY <1>1 DEF FinishCallbackTypeOK
<1>3. PICK t \in Traces :
        \/ /\ Stored(t)
           /\ DuePoll(rows[t], clock) \/ DueCallback(rows[t])
           /\ LET n == rows[t].invokeCount + 1
              IN  /\ n \in InvokeCounts
                  /\ \/ \E after \in Delays : SetPoll(t, n, clock, after)
                     \/ \E timeout \in Timeouts :
                          SetCallback(t, n, Null, clock, timeout)
                     \/ SetSuccess(t, n)
                     \/ SetFail(t, n)
        \/ ExpireCallback(t) /\ UNCHANGED tokens
  BY DEF WorkerStep
<1>4. /\ Statement(t) /\ TokensGrow(t) /\ WaitStep(t) /\ Stored(t)
      /\ rows[t].state # "EMPTY" /\ rows'[t] # Null /\ rows'[t].state # "EMPTY"
  <2>1. CASE ExpireCallback(t) /\ UNCHANGED tokens
    BY <1>1, <2>1, ExpireEffect, NoNewToken DEF WaitStep
  <2>2. CASE ~(ExpireCallback(t) /\ UNCHANGED tokens)
    <3>1. Stored(t) /\ rows[t].state # "EMPTY"
      BY <1>3, <2>2 DEF DuePoll, DueCallback
    <3>2. PICK n \in InvokeCounts : MarksLater(t, n, Null, clock)
      BY <1>3, <2>2 DEF MarksLater
    <3>3. PreparedFor(t, Null)
      BY DEF PreparedFor
    <3>. QED BY <1>1, <3>1, <3>2, <3>3, LaterMark
  <2>. QED BY <1>3, <2>1, <2>2
<1>5. OtherStep
  BY <1>1, <1>2, <1>4, OtherRowStep
<1>. QED BY <1>5, OtherStepKeeps

(* A step that touches neither rows nor tokens nor requests. *)
LEMMA ClockKeeps ==
  ASSUME HandlerInv, UNCHANGED <<rows, tokens, faults, notified, invoke, post>>,
         clock' \in Nat
  PROVE  HandlerInv'
<1>1. RuntimeTypeOK' /\ StoreInv'
  BY ServerTypes, StatementInv DEF RuntimeTypeOK
<1>2. ServerTypeOK'
  BY <1>1 DEF HandlerInv, ServerTypeOK, StoreTypeOK, FinishCallbackTypeOK
<1>3. TokenInv' /\ AcceptedOnce' /\ EmptyRowHasRequest'
  BY DEF HandlerInv, TokenInv, AcceptedOnce, EmptyRowHasRequest, PreparedFor,
         Issued, Stored, Phase
<1>4. \A t \in Traces : InvokeOf(t)'
  BY DEF HandlerInv, InvokeOf, PreparedFor, Issued, Stored
<1>5. \A p \in Posts : PostOf(p)'
  BY DEF HandlerInv, PostOf, KeptBy, PostTrace, Accepted, Issued
<1>. QED BY <1>1, <1>2, <1>3, <1>4, <1>5 DEF HandlerInv

-----------------------------------------------------------------------------
(* The specification.                                                      *)

(* In the beginning there are no rows, no tokens and no requests.          *)
LEMMA ServerInitInv == ServerInit => HandlerInv
<1>. SUFFICES ASSUME ServerInit PROVE HandlerInv
  OBVIOUS
<1>1. StoreInv
  BY InitInv DEF ServerInit
<1>2. ServerTypeOK
  <2>1. RuntimeTypeOK
    BY RuntimeAssumption DEF ServerInit, RuntimeInit, RuntimeTypeOK
  <2>2. FinishCallbackTypeOK
    BY MaxNotifiedAssumption
       DEF ServerInit, FinishCallbackInit, FinishCallbackTypeOK
  <2>. QED BY <1>1, <2>1, <2>2, PayloadsAssumption
           DEF ServerInit, ServerTypeOK, StoreInv, NoInvoke, NoPost,
               InvokePhases, PostPhases, Answers
<1>3. /\ DOMAIN tokens = {} /\ \A t \in Traces : ~Stored(t)
      /\ \A t \in Traces : invoke[t].pc = "none" /\ invoke[t].prepared = Null
      /\ \A p \in Posts : post[p].pc = "none" /\ post[p].answer = ""
  <2>1. NoPost.pc = "none" /\ NoPost.answer = ""
    BY DEF NoPost
  <2>2. NoInvoke.pc = "none" /\ NoInvoke.prepared = Null
    BY DEF NoInvoke
  <2>3. DOMAIN tokens = {}
    BY DEF ServerInit, RuntimeInit
  <2>. QED BY <2>1, <2>2, <2>3 DEF ServerInit, StoreInit, Stored
<1>4. TokenInv /\ AcceptedOnce /\ EmptyRowHasRequest
  <2>1. TokenInv
    BY <1>3 DEF TokenInv
  <2>2. AcceptedOnce
    BY <1>3 DEF AcceptedOnce
  <2>3. EmptyRowHasRequest
    BY <1>3, EmptyPhase DEF EmptyRowHasRequest
  <2>. QED BY <2>1, <2>2, <2>3
<1>5. \A t \in Traces : InvokeOf(t)
  BY <1>3 DEF InvokeOf, PreparedFor
<1>6. \A p \in Posts : PostOf(p)
  BY <1>3 DEF PostOf, Accepted
<1>. QED BY <1>1, <1>2, <1>4, <1>5, <1>6 DEF HandlerInv

(* HandlerInv is inductive. *)
THEOREM HandlerInvariant == ServerSpec => []HandlerInv
<1>1. ServerInit => HandlerInv
  BY ServerInitInv
<1>2. HandlerInv /\ [ServerNext]_serverVars => HandlerInv'
  <2>. SUFFICES ASSUME HandlerInv, [ServerNext]_serverVars PROVE HandlerInv'
    OBVIOUS
  <2>1. CASE UNCHANGED serverVars
    BY <2>1, ClockKeeps, ServerTypes DEF serverVars
  <2>2. CASE ServerTick
    BY <2>2, ClockKeeps, ServerTypes DEF ServerTick
  <2>3. CASE WorkerStep
    BY <2>3, WorkerKeeps
  <2>4. ASSUME NEW p \in Posts, PostStep(p) \/ PostError(p) PROVE HandlerInv'
    BY <2>4, PostKeeps
  <2>5. ASSUME NEW t \in Traces, ServerStepOf(t) \/ ServerFaultOf(t)
        PROVE  HandlerInv'
    BY <2>5, CreateKeeps, WritesKeeps, PreparesKeeps, StepEndsKeeps, EndKeeps
       DEF ServerStepOf, ServerFaultOf
  <2>. QED BY <2>1, <2>2, <2>3, <2>4, <2>5 DEF ServerNext
<1>. QED BY <1>1, <1>2, PTL DEF ServerSpec

(* The state of the handlers stays well typed. *)
THEOREM ServerTypesCorrect == ServerSpec => []ServerTypeOK
<1>1. HandlerInv => ServerTypeOK
  BY DEF HandlerInv
<1>. QED BY <1>1, HandlerInvariant, PTL

(* Of all the requests that carry one token, one is accepted. *)
THEOREM OneAcceptedPerToken == ServerSpec => []AcceptedOnce
<1>1. HandlerInv => AcceptedOnce
  BY DEF HandlerInv
<1>. QED BY <1>1, HandlerInvariant, PTL

(* What a third party was told is accepted is what the row holds while it  *)
(* waits on that token.                                                    *)
THEOREM AcceptedCallbacksAreKept == ServerSpec => []AcceptedIsKept
<1>1. HandlerInv => AcceptedIsKept
  BY DEF HandlerInv, PostOf, Accepted, KeptBy, AcceptedIsKept
<1>. QED BY <1>1, HandlerInvariant, PTL

(* A row that timed out carries no token a request was accepted for. *)
LEMMA AcceptedInTime == HandlerInv => AcceptedNotTimedOut
<1>. SUFFICES ASSUME HandlerInv, NEW p \in Posts, Accepted(p),
                     rows[PostTrace(p)].errorCode = "CALLBACK_TIMEOUT",
                     rows[PostTrace(p)].tokenHash = post[p].hash
              PROVE  FALSE
  BY DEF AcceptedNotTimedOut, Accepted
<1>1. StoreInv /\ RuntimeTypeOK /\ PostOf(p) /\ post[p].now \in Nat
  BY ServerTypes DEF HandlerInv, ServerTypeOK
<1>2. Issued(post[p].hash) /\ rows[PostTrace(p)].receivedAt = post[p].now
  BY <1>1 DEF PostOf, Accepted, KeptBy
<1>3. PostTrace(p) \in Traces /\ Stored(PostTrace(p))
  BY <1>1, <1>2, TokenTypes DEF HandlerInv, TokenInv, PostTrace, Issued
<1>4. RowInv(rows[PostTrace(p)])
  BY <1>1, <1>3, StoredRow
<1>. QED BY <1>1, <1>2, <1>4, NullAssumption DEF RowInv

(* An accepted callback's wait does not end in CALLBACK_TIMEOUT. *)
THEOREM AcceptedCallbacksDoNotTimeOut == ServerSpec => []AcceptedNotTimedOut
<1>. QED BY AcceptedInTime, HandlerInvariant, PTL

(* No request gets past the token's expiry to a row that has expired, and  *)
(* none is turned away more than a second early.                           *)
THEOREM TokenExpiriesAgree == ServerSpec => []TokenExpiryTight
<1>1. HandlerInv => TokenExpiryTight
  <2>. SUFFICES ASSUME HandlerInv, NEW p \in Posts
                PROVE  LET expires == tokens[post[p].hash].expiresAt
                       IN  /\ post[p].pc = "update" => post[p].now < expires
                           /\ post[p].answer = "unauthorized" =>
                                post[p].now > expires - SecondTicks
    BY DEF TokenExpiryTight
  <2>1. RuntimeTypeOK /\ PostOf(p) /\ post[p].now \in Nat
    BY ServerTypes DEF HandlerInv, ServerTypeOK
  <2>2. CASE post[p].pc = "none"
    BY <2>1, <2>2 DEF PostOf
  <2>3. CASE post[p].pc # "none"
    <3>1. tokens[post[p].hash].expiresAt \in Nat
      BY <2>1, <2>3, TokenTypes DEF PostOf, Issued
    <3>. QED BY <2>1, <3>1, VerifiedIsUnexpired, RefusedOnlyInLastSecond
             DEF PostOf
  <2>. QED BY <2>2, <2>3
<1>. QED BY <1>1, HandlerInvariant, PTL

(* While nothing fails, no row is left behind in EMPTY. *)
THEOREM EmptyRowsHaveRequests == ServerSpec => []EmptyRowHasRequest
<1>1. HandlerInv => EmptyRowHasRequest
  BY DEF HandlerInv
<1>. QED BY <1>1, HandlerInvariant, PTL
=============================================================================
