---------------------------- MODULE FinishCallback ----------------------------
(***************************************************************************)
(* Launching finish callbacks (notifyFinish in internal/scheduler and      *)
(* internal/server).  Both components read a row back after they changed   *)
(* it and start a goroutine that posts to the caller's URL; the row itself *)
(* does not record that this was done.  Every trace is taken to have a     *)
(* plugin_callback_info and EnablePluginCallback to be set.                *)
(***************************************************************************)
EXTENDS ScheduleStore

CONSTANT MaxNotified  \* bound: finish callbacks counted per trace

ASSUME MaxNotifiedAssumption == MaxNotified \in Nat \ {0}

VARIABLE notified  \* notified[t]: finish callbacks launched for t

ReadBackType == [trace : Traces, state : States]

(* notifyFinish for every row read back: launched if the state is final.   *)
NotifyFinish(readBack) ==
  LET final == {r.trace : r \in {x \in readBack : IsFinal(x.state)}}
  IN  notified' = [t \in Traces |-> IF t \in final
                                    THEN Smaller(notified[t] + 1, MaxNotified)
                                    ELSE notified[t]]

FinishCallbackInit == notified = [t \in Traces |-> 0]

FinishCallbackTypeOK == notified \in [Traces -> 0..MaxNotified]
=============================================================================
