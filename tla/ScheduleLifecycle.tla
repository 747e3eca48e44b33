-------------------------- MODULE ScheduleLifecycle --------------------------
(***************************************************************************)
(* What the runtime promises the caller of a plugin about one invocation,  *)
(* without workers, leases, clocks or tokens: the phases of a trace and    *)
(* how many steps of the plugin have run.  README.md of the repository     *)
(* describes them under its execution modes: a step polls, waits for a     *)
(* callback or finishes; a callback or the passing of time ends the wait;  *)
(* SUCCESS and FAIL are final.                                             *)
(***************************************************************************)
EXTENDS Naturals

CONSTANT Traces

VARIABLES
  phase,  \* phase[t]
  steps   \* steps[t]: steps of the plugin run for t

lifecycleVars == <<phase, steps>>

Init ==
  /\ phase = [t \in Traces |-> "absent"]
  /\ steps = [t \in Traces |-> 0]

Move(t, from, to) ==
  /\ phase[t] \in from
  /\ \E p \in to : phase' = [phase EXCEPT ![t] = p]

(* Invoke is accepted. *)
Submit(t) ==
  /\ Move(t, {"absent"}, {"EMPTY"})
  /\ UNCHANGED steps

(* One step of the plugin, the first or a later one. *)
RunStep(t) ==
  /\ Move(t, {"EMPTY", "POLL", "answered"},
             {"POLL", "waiting", "SUCCESS", "FAIL"})
  /\ steps' = [steps EXCEPT ![t] = @ + 1]

(* The third party answers, or does not. *)
Answer(t) ==
  /\ Move(t, {"waiting"}, {"answered"})
  /\ UNCHANGED steps

Timeout(t) ==
  /\ Move(t, {"waiting"}, {"FAIL"})
  /\ UNCHANGED steps

Next == \E t \in Traces : Submit(t) \/ RunStep(t) \/ Answer(t) \/ Timeout(t)

Spec == Init /\ [][Next]_lifecycleVars

(* An accepted invocation is carried on: a trace that polls or has been    *)
(* answered gets its next step, and a wait ends one way or the other.      *)
(* This is weak fairness of RunStep and of Answer \/ Timeout, with what    *)
(* enables them written out.  The first step is not among them: the        *)
(* request that runs it may be broken off.                                 *)
CarriesOn ==
  \A t \in Traces :
    /\ \/ []<>(phase[t] \notin {"POLL", "answered"})
       \/ []<><<RunStep(t)>>_lifecycleVars
    /\ \/ []<>(phase[t] # "waiting")
       \/ []<><<Answer(t) \/ Timeout(t)>>_lifecycleVars

FairSpec == Spec /\ CarriesOn
=============================================================================
