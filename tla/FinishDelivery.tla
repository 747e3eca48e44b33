---------------------------- MODULE FinishDelivery ----------------------------
(***************************************************************************)
(* Delivering finish callbacks (internal/finishcallback/notifier.go).      *)
(*                                                                         *)
(* Each launched goroutine posts to the caller's URL until a post is       *)
(* answered well, three times at most.  Posts and answers may be lost, be  *)
(* refused, or arrive after the goroutine stopped waiting for them; a post *)
(* that was given up may still reach the caller later.  The caller is not  *)
(* part of the runtime: it accepts or refuses what it receives.            *)
(***************************************************************************)
EXTENDS Naturals, FiniteSets

CONSTANTS
  Notifiers,    \* the goroutines of a behaviour
  MaxFailures,  \* bound: failed posts per goroutine
  MayCrash      \* TRUE: the process may die

ASSUME DeliveryAssumption == MaxFailures \in Nat /\ MayCrash \in BOOLEAN

VARIABLES
  notifier,  \* notifier[n]: the goroutine and the number of its last post
  wire,      \* posts and answers under way
  accepted,  \* posts the caller has accepted
  failures   \* failures[n]: posts of n that were lost, refused or late

deliveryVars == <<notifier, wire, accepted, failures>>

RetryTimes_OneLess == 2

RetryTimes == 3

Post(n, i) == [kind |-> "post", from |-> n, attempt |-> i]

Answer(p, ok) == [kind |-> "answer", from |-> p.from, attempt |-> p.attempt,
                  ok |-> ok]

(* What is under way for the post n is waiting on. *)
Pending(n) ==
  {m \in wire : m.from = n /\ m.attempt = notifier[n].attempt}

Fails(n) ==
  /\ failures[n] < MaxFailures
  /\ failures' = [failures EXCEPT ![n] = @ + 1]

-----------------------------------------------------------------------------
(* The goroutine.  Its context is never cancelled: both callers pass       *)
(* context.Background().                                                   *)

SendPost(n) ==
  LET i == notifier[n].attempt + 1
  IN  /\ notifier' = [notifier EXCEPT ![n] = [pc |-> "waiting", attempt |-> i]]
      /\ wire' = wire \cup {Post(n, i)}
      /\ UNCHANGED <<accepted, failures>>

Launch(n) == notifier[n].pc = "none" /\ SendPost(n)

Retry(n) == notifier[n].pc = "pausing" /\ SendPost(n)

(* A failed post is followed by a pause, the last one by giving up. *)
AfterFailure(n) ==
  notifier' = [notifier EXCEPT ![n].pc =
                 IF @ = "waiting" /\ notifier[n].attempt < RetryTimes
                 THEN "pausing" ELSE "gaveup"]

GetAnswer_IgnoreResult(n) ==
  \E a \in Pending(n) :
    /\ notifier[n].pc = "waiting"
    /\ a.kind = "answer"
    /\ notifier' = [notifier EXCEPT ![n].pc = "acked"]
    /\ wire' = wire \ {a}
    /\ UNCHANGED <<accepted, failures>>

GetAnswer_NoReturn(n) ==
  \E a \in Pending(n) :
    /\ notifier[n].pc = "waiting"
    /\ a.kind = "answer"
    /\ IF a.ok /\ notifier[n].attempt = RetryTimes
       THEN notifier' = [notifier EXCEPT ![n].pc = "acked"]
       ELSE AfterFailure(n)
    /\ wire' = wire \ {a}
    /\ UNCHANGED <<accepted, failures>>

(* An answer is good if its status is 2xx and its result is not false. *)
GetAnswer(n) ==
  \E a \in Pending(n) :
    /\ notifier[n].pc = "waiting"
    /\ a.kind = "answer"
    /\ IF a.ok THEN notifier' = [notifier EXCEPT ![n].pc = "acked"]
               ELSE AfterFailure(n)
    /\ wire' = wire \ {a}
    /\ UNCHANGED <<accepted, failures>>

TimeOut_NoDeadline(n) ==
  /\ notifier[n].pc = "waiting"
  /\ \E m \in Pending(n) : m.kind = "post"
  /\ AfterFailure(n)
  /\ Fails(n)
  /\ UNCHANGED <<wire, accepted>>

(* httpTimeout, or a connection error: nothing will come any more, or what *)
(* comes is late.                                                          *)
TimeOut(n) ==
  /\ notifier[n].pc = "waiting"
  /\ AfterFailure(n)
  /\ IF Pending(n) = {} THEN UNCHANGED failures ELSE Fails(n)
  /\ UNCHANGED <<wire, accepted>>

Die(n) ==
  /\ MayCrash
  /\ notifier[n].pc \in {"waiting", "pausing"}
  /\ notifier' = [notifier EXCEPT ![n].pc = "dead"]
  /\ UNCHANGED <<wire, accepted, failures>>

-----------------------------------------------------------------------------
(* The network and the caller.                                             *)

CallerAccepts(p) ==
  /\ p.kind = "post"
  /\ wire' = (wire \ {p}) \cup {Answer(p, TRUE)}
  /\ accepted' = accepted \cup {p}
  /\ UNCHANGED <<notifier, failures>>

CallerRefuses(p) ==
  /\ p.kind = "post"
  /\ wire' = (wire \ {p}) \cup {Answer(p, FALSE)}
  /\ Fails(p.from)
  /\ UNCHANGED <<notifier, accepted>>

Lose(m) ==
  /\ wire' = wire \ {m}
  /\ Fails(m.from)
  /\ UNCHANGED <<notifier, accepted>>

NotifierStep(n) == Retry(n) \/ GetAnswer(n) \/ TimeOut(n)

DeliveryInit ==
  /\ notifier = [n \in Notifiers |-> [pc |-> "none", attempt |-> 0]]
  /\ wire = {}
  /\ accepted = {}
  /\ failures = [n \in Notifiers |-> 0]

DeliveryNext ==
  \/ \E n \in Notifiers : Launch(n) \/ NotifierStep(n) \/ Die(n)
  \/ \E m \in wire : CallerAccepts(m) \/ CallerRefuses(m) \/ Lose(m)

(* A goroutine runs on while its process lives: the client's timeout ends  *)
(* every post and time.After every pause.  The network moves what is not   *)
(* lost.                                                                   *)
DeliverySpec ==
  /\ DeliveryInit
  /\ [][DeliveryNext]_deliveryVars
  /\ \A n \in Notifiers :
       /\ WF_deliveryVars(NotifierStep(n))
       /\ WF_deliveryVars(\E p \in Pending(n) : CallerAccepts(p))

-----------------------------------------------------------------------------
(* Properties                                                              *)

(* "Completed" in the log is true: a goroutine that stops without an error *)
(* had its last post accepted by the caller.                               *)
AckedIsAccepted ==
  \A n \in Notifiers :
    notifier[n].pc = "acked" => Post(n, notifier[n].attempt) \in accepted

(* The caller is told again only for a reason: it never accepts more posts *)
(* of a goroutine than one, and one more for each that failed.             *)
RepeatsHaveReason ==
  \A n \in Notifiers :
    Cardinality({p \in accepted : p.from = n}) <= 1 + failures[n]

(* No goroutine hangs: once launched it ends, whatever happens to its      *)
(* posts and answers.                                                      *)
EveryNotifierEnds ==
  \A n \in Notifiers :
    notifier[n].pc # "none" ~> notifier[n].pc \in {"acked", "gaveup", "dead"}

(* A caller that can be reached is told: a goroutine gives up only after   *)
(* three of its posts have failed, so with EveryNotifierEnds one that      *)
(* lives and fails twice at most is acknowledged.                          *)
TwoFailuresSurvived ==
  \A n \in Notifiers : notifier[n].pc = "gaveup" => failures[n] >= 3
=============================================================================
