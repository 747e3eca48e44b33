---------------------------- MODULE ExecuteRuntime ----------------------------
(***************************************************************************)
(* What a plugin step may ask of the runtime while it executes             *)
(* (internal/runtimeadapter/execute_runtime.go, object_store.go): write    *)
(* its data, mint a callback URL ahead of time, and leave the schedule in  *)
(* one of its states.  The step is run by the server (first step) or by a  *)
(* worker (every later one); both pass in the trace, the invoke count the  *)
(* runtime was built with and the token the step has prepared so far.      *)
(***************************************************************************)
EXTENDS ScheduleStore, CallbackToken

CONSTANTS
  MaxTokens,  \* bound: tokens issued in a behaviour
  MaxClock,   \* bound: the last instant
  MaxFaults,  \* bound: database errors, lost requests and crashes
  Written,    \* data a step writes to its outputs or its context
  Delays,     \* poll intervals a plugin asks for
  Timeouts    \* callback timeouts a plugin asks for

ASSUME RuntimeAssumption == /\ MaxTokens \in Nat
                            /\ MaxClock \in Nat
                            /\ MaxFaults \in Nat
                            /\ Written \subseteq Payloads
                            /\ Delays \subseteq Nat
                            /\ Timeouts \subseteq Int
                            /\ Hashes = 1..MaxTokens
                            /\ 1 \in InvokeCounts

VARIABLES
  clock,   \* the time of the servers' hosts
  tokens,  \* the tokens issued so far; a token's hash is its index
  faults   \* faults so far

(* issueCallback.  The nonce makes every token a new one; now is the clock *)
(* of the host that runs the step.                                         *)
IssueCallback(t, now, timeout) ==
  /\ Len(tokens) < MaxTokens
  /\ tokens' = Append(tokens, [trace     |-> t,
                               expiresAt |-> ExpiresAt(now, timeout)])

NewHash == Len(tokens) + 1

(* PrepareCallback: from here on the URL is in the plugin's hands, and the *)
(* third party's, while the row knows nothing of it.  The caller remembers *)
(* NewHash as the prepared token; a second call replaces the first.        *)
PrepareCallback(t, now, timeout) ==
  /\ IssueCallback(t, now, timeout)
  /\ UNCHANGED rows

(* SetCallback: a prepared token is used as it is, with the expiry it was  *)
(* prepared with; the timeout given here counts only without one.          *)
SetCallback(t, n, prepared, now, timeout) ==
  IF prepared # Null
  THEN /\ MarkCallback(t, n, prepared, tokens[prepared].expiresAt)
       /\ UNCHANGED tokens
  ELSE /\ IssueCallback(t, now, timeout)
       /\ MarkCallback(t, n, NewHash, ExpiresAt(now, timeout))

SetPoll(t, n, now, after) ==
  /\ MarkPoll(t, n, now + after)
  /\ UNCHANGED tokens

SetSuccess(t, n) == MarkSuccess(t, n) /\ UNCHANGED tokens

SetFail(t, n) == MarkFail(t, n) /\ UNCHANGED tokens

(* ObjectStore.Write, of the outputs or of the context data. *)
WriteOutputs(t, data) == UpdateOutputs(t, data) /\ UNCHANGED tokens

WriteContext(t, data) == UpdateContextData(t, data) /\ UNCHANGED tokens

(* A statement, a request or a process fails. *)
Fault == faults < MaxFaults /\ faults' = faults + 1

RuntimeInit == clock = 0 /\ tokens = <<>> /\ faults = 0

(* The tokens issued so far, and the clock, are well typed. *)
RuntimeTypeOK ==
  /\ clock \in Nat
  /\ tokens \in Seq([trace : Traces, expiresAt : Nat])
  /\ Len(tokens) <= MaxTokens
  /\ faults \in 0..MaxFaults
=============================================================================
