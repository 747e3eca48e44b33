---------------------------- MODULE PluginRuntime ----------------------------
(***************************************************************************)
(* The whole runtime: server processes answering Invoke and Callback,      *)
(* worker processes running the later steps, all on one schedules table    *)
(* (cmd/server.go, cmd/worker.go).  They share nothing else; every         *)
(* statement of one may fall between two statements of another.            *)
(***************************************************************************)
EXTENDS Scheduler, Server

runtimeVars == <<rows, clock, tokens, faults, notified, worker, invoke, post>>

WorkerNext ==
  /\ \E w \in Workers : SchedulerStep(w) \/ SchedulerFault(w)
  /\ UNCHANGED <<invoke, post>>

HandlerNext ==
  /\ \/ \E t \in Traces : ServerStepOf(t) \/ ServerFaultOf(t)
     \/ \E p \in Posts : PostStep(p) \/ PostError(p)
  /\ UNCHANGED worker

RuntimeTick == Tick /\ UNCHANGED <<invoke, post>>

PluginRuntimeInit ==
  /\ SchedulerInit
  /\ invoke = [t \in Traces |-> NoInvoke]
  /\ post = [p \in Posts |-> NoPost]

PluginRuntimeNext == WorkerNext \/ HandlerNext \/ RuntimeTick

PluginRuntimeSpec == PluginRuntimeInit /\ [][PluginRuntimeNext]_runtimeVars

-----------------------------------------------------------------------------
(* Properties                                                              *)

(* The first step, in the server, and a worker's step of the same trace    *)
(* are never run at once: a row becomes due only when the first step ends. *)
FirstStepAlone ==
  \A t \in Traces, w \in Workers : Running(w, t) => invoke[t].pc # "run"

(* Every trace that became final is notified, or the process that made it  *)
(* so is still to read it back: no interleaving of the server with the     *)
(* workers drops the finish callback while nothing fails.                  *)
EveryFinishNotified ==
  faults = 0 =>
    \A t \in Traces : Stored(t) /\ IsFinal(rows[t].state) =>
      \/ notified[t] > 0
      \/ invoke[t].pc = "stepped"
      \/ \E w \in Workers : OwesNotification(w, t)

(* Who reads a final row back notifies, so the caller may be told of one   *)
(* end more than once; but no more often than there were reads: one after  *)
(* each step, and one after an expiry (handlers.go:167-175,                *)
(* worker.go:93-96 and 120-129).                                           *)
NotifiedPerStep ==
  \A t \in Traces : Stored(t) =>
    notified[t] <= StepsDone(t) +
      (IF rows[t].errorCode = "CALLBACK_TIMEOUT" THEN 1 ELSE 0)

(* A step a worker runs for a callback reads the payload of a request that *)
(* was accepted, or whose answer was lost to a fault.                      *)
StepReadsAcceptedCallback ==
  \A w \in Workers, t \in Traces :
    Running(w, t) /\ RunningItem(w).state = "CALLBACK" /\ faults = 0 =>
      \E p \in Posts : /\ post[p].answer = "accepted"
                       /\ post[p].hash = rows[t].tokenHash
                       /\ post[p].data = RunningItem(w).callbackData
=============================================================================
