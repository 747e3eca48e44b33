------------------------- MODULE FinishDeliveryProofs -------------------------
(***************************************************************************)
(* The delivery of finish callbacks, for any number of goroutines and of   *)
(* failures: each attempt that was not the last one has a failure of its   *)
(* own to show for it.                                                     *)
(***************************************************************************)
EXTENDS FinishDelivery, FiniteSetTheorems, TLAPS

Positions == {"none", "waiting", "pausing", "acked", "gaveup", "dead"}

(* Posts and answers belong to a post that was sent. *)
Sent(m) ==
  /\ m.from \in Notifiers
  /\ m.attempt \in Nat /\ 1 <= m.attempt /\ m.attempt <= notifier[m.from].attempt

DeliveryTypeOK ==
  /\ notifier \in [Notifiers -> [pc : Positions, attempt : Nat]]
  /\ failures \in [Notifiers -> Nat]
  /\ \A m \in wire : /\ Sent(m)
                     /\ \/ m = Post(m.from, m.attempt)
                        \/ \E ok \in BOOLEAN : m = Answer(m, ok)
  /\ \A p \in accepted : Sent(p) /\ p = Post(p.from, p.attempt)

(* The attempts of a goroutine, by where it is. *)
Attempts(n) ==
  LET r == notifier[n]
  IN  /\ r.pc = "none" => r.attempt = 0
      /\ r.pc = "pausing" => r.attempt < RetryTimes
      /\ r.attempt <= RetryTimes
      /\ r.pc = "gaveup" => r.attempt = RetryTimes

(* A good answer was given to a post that was accepted. *)
Truthful ==
  /\ \A m \in wire : m.kind = "answer" /\ m.ok => Post(m.from, m.attempt) \in accepted
  /\ AckedIsAccepted

(* Every attempt but the last one has failed, and so has the last one when *)
(* the goroutine knows, or when its post or its answer is gone.            *)
Accounted(n) ==
  LET r == notifier[n]
  IN  /\ r.attempt <= failures[n] + 1
      /\ r.pc \in {"pausing", "gaveup"} => r.attempt <= failures[n]
      /\ r.pc = "waiting" /\ Pending(n) = {} => r.attempt <= failures[n]
      /\ r.pc = "waiting" /\ (\E a \in Pending(n) : a.kind = "answer" /\ ~a.ok) =>
           r.attempt <= failures[n]

DeliveryInv ==
  /\ DeliveryTypeOK
  /\ Truthful
  /\ \A n \in Notifiers : Attempts(n) /\ Accounted(n)

-----------------------------------------------------------------------------
(* What a message is. *)
LEMMA Messages ==
  /\ \A n, i : /\ Post(n, i).kind = "post" /\ Post(n, i).from = n
               /\ Post(n, i).attempt = i
  /\ \A p, ok : /\ Answer(p, ok).kind = "answer" /\ Answer(p, ok).from = p.from
                /\ Answer(p, ok).attempt = p.attempt /\ Answer(p, ok).ok = ok
BY DEF Post, Answer

(* A goroutine posts: for the first time, or after a failure.              *)
LEMMA SendKeeps ==
  ASSUME DeliveryInv, NEW n \in Notifiers, notifier[n].pc \in {"none", "pausing"},
         SendPost(n)
  PROVE  DeliveryInv'
<1>0. PICK i \in Nat : i = notifier[n].attempt + 1
  BY DEF DeliveryInv, DeliveryTypeOK
<1>1. /\ notifier[n] \in [pc : Positions, attempt : Nat]
      /\ notifier[n].attempt \in Nat /\ i <= RetryTimes
      /\ i <= failures[n] + 1
  BY <1>0 DEF DeliveryInv, DeliveryTypeOK, Attempts, Accounted, RetryTimes
<1>2. /\ notifier' = [notifier EXCEPT ![n] = [pc |-> "waiting", attempt |-> i]]
      /\ wire' = wire \cup {Post(n, i)}
      /\ UNCHANGED <<accepted, failures>>
  BY <1>0 DEF SendPost
<1>3. /\ notifier' \in [Notifiers -> [pc : Positions, attempt : Nat]]
      /\ notifier'[n].pc = "waiting" /\ notifier'[n].attempt = i
      /\ \A k \in Notifiers : k # n => notifier'[k] = notifier[k]
      /\ notifier[n].attempt < i
  BY <1>0, <1>1, <1>2 DEF DeliveryInv, DeliveryTypeOK, Positions
<1>4. \A m : Sent(m) => Sent(m)'
  BY <1>1, <1>3 DEF Sent
<1>5. Sent(Post(n, i))'
  BY <1>0, <1>1, <1>3, Messages DEF Sent
<1>6. DeliveryTypeOK'
  BY <1>2, <1>3, <1>4, <1>5, Messages DEF DeliveryInv, DeliveryTypeOK
<1>7. Truthful'
  BY <1>2, <1>3, Messages DEF DeliveryInv, Truthful, AckedIsAccepted
<1>8. ASSUME NEW k \in Notifiers
      PROVE  Attempts(k)' /\ Accounted(k)'
  <2>1. CASE k # n
    <3>1. Pending(k)' = Pending(k)
      BY <1>2, <1>3, <2>1, Messages DEF Pending
    <3>. QED BY <1>2, <1>3, <2>1, <3>1 DEF DeliveryInv, Attempts, Accounted
  <2>2. CASE k = n
    <3>1. Post(n, i) \in Pending(n)'
      BY <1>2, <1>3, Messages DEF Pending
    <3>2. \A m \in Pending(n)' : m = Post(n, i)
      BY <1>2, <1>3, Messages DEF Pending, DeliveryInv, DeliveryTypeOK, Sent
    <3>3. Attempts(n)'
      BY <1>1, <1>3 DEF Attempts
    <3>4. Accounted(n)'
      BY <1>1, <1>2, <1>3, <3>1, <3>2, Messages DEF Accounted
    <3>. QED BY <2>2, <3>3, <3>4
  <2>. QED BY <2>1, <2>2
<1>. QED BY <1>6, <1>7, <1>8 DEF DeliveryInv

(* A waiting goroutine is done with its post: it has a good answer, or its *)
(* post has failed, or it dies.                                            *)
LEMMA EndKeeps ==
  ASSUME DeliveryInv, NEW n \in Notifiers, NEW pc \in Positions \ {"none", "waiting"},
         notifier' = [notifier EXCEPT ![n].pc = pc],
         wire' \in SUBSET wire, \A m \in wire : m \in wire' \/ m.from = n,
         UNCHANGED accepted, failures' \in [Notifiers -> Nat],
         \A k \in Notifiers : k # n => failures'[k] = failures[k],
         failures[n] <= failures'[n],
         pc = "acked" => Post(n, notifier[n].attempt) \in accepted,
         pc \in {"pausing", "gaveup"} => notifier[n].attempt <= failures'[n],
         pc = "pausing" => notifier[n].attempt < RetryTimes,
         pc = "gaveup" => notifier[n].attempt = RetryTimes
  PROVE  DeliveryInv'
<1>1. /\ notifier' \in [Notifiers -> [pc : Positions, attempt : Nat]]
      /\ notifier'[n].pc = pc
      /\ \A k \in Notifiers : /\ notifier'[k].attempt = notifier[k].attempt
                              /\ notifier[k].attempt \in Nat
                              /\ failures[k] \in Nat /\ failures'[k] \in Nat
      /\ \A k \in Notifiers : k # n => notifier'[k] = notifier[k]
  BY DEF DeliveryInv, DeliveryTypeOK
<1>2. \A m : Sent(m) => Sent(m)'
  BY <1>1 DEF Sent
<1>3. DeliveryTypeOK'
  BY <1>1, <1>2 DEF DeliveryInv, DeliveryTypeOK
<1>4. Truthful'
  BY <1>1 DEF DeliveryInv, Truthful, AckedIsAccepted
<1>5. ASSUME NEW k \in Notifiers
      PROVE  Attempts(k)' /\ Accounted(k)'
  <2>1. CASE k # n
    <3>1. Pending(k)' = Pending(k)
      BY <1>1, <2>1 DEF Pending
    <3>. QED BY <1>1, <2>1, <3>1 DEF DeliveryInv, Attempts, Accounted
  <2>2. CASE k = n
    BY <1>1, <2>2 DEF DeliveryInv, Attempts, Accounted
  <2>. QED BY <2>1, <2>2
<1>. QED BY <1>3, <1>4, <1>5 DEF DeliveryInv

(* The pause after a failure, or the end of the attempts. *)
LEMMA FailureKeeps ==
  ASSUME DeliveryInv, NEW n \in Notifiers, notifier[n].pc = "waiting",
         AfterFailure(n), wire' \in SUBSET wire, \A m \in wire : m \in wire' \/ m.from = n,
         UNCHANGED accepted, failures' \in [Notifiers -> Nat],
         \A k \in Notifiers : k # n => failures'[k] = failures[k],
         failures[n] <= failures'[n],
         notifier[n].attempt <= failures'[n]
  PROVE  DeliveryInv'
<1>1. notifier \in [Notifiers -> [pc : Positions, attempt : Nat]]
      /\ notifier[n].attempt \in Nat /\ notifier[n].attempt <= RetryTimes
  BY DEF DeliveryInv, DeliveryTypeOK, Attempts
<1>2. CASE notifier[n].attempt < RetryTimes
  <2>1. notifier' = [notifier EXCEPT ![n].pc = "pausing"]
    BY <1>2 DEF AfterFailure
  <2>. QED BY <1>1, <1>2, <2>1, EndKeeps DEF Positions
<1>3. CASE ~(notifier[n].attempt < RetryTimes)
  <2>1. notifier' = [notifier EXCEPT ![n].pc = "gaveup"]
    BY <1>3 DEF AfterFailure
  <2>2. notifier[n].attempt = RetryTimes
    BY <1>1, <1>3 DEF RetryTimes
  <2>. QED BY <1>1, <2>1, <2>2, EndKeeps DEF Positions, RetryTimes
<1>. QED BY <1>2, <1>3

(* A step of a goroutine. *)
LEMMA NotifierKeeps ==
  ASSUME DeliveryInv, NEW n \in Notifiers, Launch(n) \/ NotifierStep(n) \/ Die(n)
  PROVE  DeliveryInv'
<1>. /\ failures \in [Notifiers -> Nat] /\ notifier[n].attempt \in Nat
     /\ notifier \in [Notifiers -> [pc : Positions, attempt : Nat]]
     /\ Attempts(n) /\ Accounted(n)
  BY DEF DeliveryInv, DeliveryTypeOK
<1>1. CASE Launch(n) \/ Retry(n)
  BY <1>1, SendKeeps DEF Launch, Retry
<1>2. CASE GetAnswer(n)
  <2>1. PICK a \in Pending(n) :
          /\ notifier[n].pc = "waiting"
          /\ a.kind = "answer"
          /\ IF a.ok THEN notifier' = [notifier EXCEPT ![n].pc = "acked"]
                     ELSE AfterFailure(n)
          /\ wire' = wire \ {a}
          /\ UNCHANGED <<accepted, failures>>
    BY <1>2 DEF GetAnswer
  <2>2. a \in wire /\ a.from = n /\ a.attempt = notifier[n].attempt
    BY <2>1 DEF Pending
  <2>3. CASE a.ok
    <3>1. Post(n, notifier[n].attempt) \in accepted
      BY <2>1, <2>2, <2>3 DEF DeliveryInv, Truthful
    <3>2. notifier' = [notifier EXCEPT ![n].pc = "acked"] /\ wire' = wire \ {a}
          /\ UNCHANGED <<accepted, failures>>
      BY <2>1, <2>3
    <3>3. "acked" \in Positions \ {"none", "waiting"} /\ "acked" \notin {"pausing", "gaveup"}
      BY DEF Positions
    <3>4. /\ failures' \in [Notifiers -> Nat] /\ failures[n] <= failures'[n]
          /\ \A k \in Notifiers : k # n => failures'[k] = failures[k]
          /\ UNCHANGED accepted
          /\ wire' \in SUBSET wire /\ \A m \in wire : m \in wire' \/ m.from = n
      BY <2>2, <3>2
    <3>. QED BY <3>1, <3>2, <3>3, <3>4, EndKeeps
  <2>4. CASE ~a.ok
    <3>1. notifier[n].attempt <= failures[n]
      BY <2>1, <2>4 DEF Accounted
    <3>. QED BY <2>1, <2>2, <2>4, <3>1, FailureKeeps
  <2>. QED BY <2>3, <2>4
<1>3. CASE TimeOut(n)
  <2>1. /\ notifier[n].pc = "waiting" /\ AfterFailure(n)
        /\ UNCHANGED <<wire, accepted>>
    BY <1>3 DEF TimeOut
  <2>2. CASE Pending(n) = {}
    <3>1. UNCHANGED failures /\ notifier[n].attempt <= failures[n]
      BY <1>3, <2>1, <2>2 DEF TimeOut, Accounted
    <3>. QED BY <2>1, <3>1, FailureKeeps
  <2>3. CASE Pending(n) # {}
    <3>1. failures' = [failures EXCEPT ![n] = @ + 1]
      BY <1>3, <2>3 DEF TimeOut, Fails
    <3>2. /\ failures' \in [Notifiers -> Nat]
          /\ \A k \in Notifiers : k # n => failures'[k] = failures[k]
          /\ failures'[n] = failures[n] + 1
      BY <3>1
    <3>3. notifier[n].attempt <= failures'[n] /\ failures[n] <= failures'[n]
      BY <3>2 DEF Accounted
    <3>. QED BY <2>1, <3>2, <3>3, FailureKeeps
  <2>. QED BY <2>2, <2>3
<1>4. CASE Die(n)
  <2>1. notifier' = [notifier EXCEPT ![n].pc = "dead"]
        /\ UNCHANGED <<wire, accepted, failures>>
    BY <1>4 DEF Die
  <2>2. "dead" \in Positions \ {"none", "waiting"}
        /\ "dead" \notin {"acked", "pausing", "gaveup"}
    BY DEF Positions
  <2>3. /\ failures' \in [Notifiers -> Nat] /\ failures[n] <= failures'[n]
        /\ \A k \in Notifiers : k # n => failures'[k] = failures[k]
        /\ UNCHANGED accepted
        /\ wire' \in SUBSET wire /\ \A m \in wire : m \in wire' \/ m.from = n
    BY <2>1
  <2>. QED BY <2>1, <2>2, <2>3, EndKeeps
<1>. QED BY <1>1, <1>2, <1>3, <1>4 DEF NotifierStep

(* A message reaches the caller, or is lost. *)
LEMMA NetworkKeeps ==
  ASSUME DeliveryInv, NEW m \in wire,
         CallerAccepts(m) \/ CallerRefuses(m) \/ Lose(m)
  PROVE  DeliveryInv'
<1> DEFINE n == m.from
<1>. /\ failures \in [Notifiers -> Nat] /\ n \in Notifiers /\ Sent(m)
     /\ notifier \in [Notifiers -> [pc : Positions, attempt : Nat]]
  BY DEF DeliveryInv, DeliveryTypeOK, Sent
<1>1. UNCHANGED notifier /\ \A x : Sent(x) => Sent(x)'
  BY DEF CallerAccepts, CallerRefuses, Lose, Sent
<1>2. \A ok \in BOOLEAN : Sent(Answer(m, ok)) /\ Answer(m, ok) = Answer(Answer(m, ok), ok)
  BY Messages DEF Sent, Answer
<1>3. /\ failures' \in [Notifiers -> Nat]
      /\ \A k \in Notifiers : failures[k] <= failures'[k]
      /\ \A k \in Notifiers : k # n => failures'[k] = failures[k]
      /\ CallerAccepts(m) \/ failures'[n] = failures[n] + 1
  <2>1. UNCHANGED failures \/ failures' = [failures EXCEPT ![n] = @ + 1]
    BY DEF CallerAccepts, CallerRefuses, Lose, Fails
  <2>2. CallerAccepts(m) \/ failures' = [failures EXCEPT ![n] = @ + 1]
    BY DEF CallerRefuses, Lose, Fails
  <2>. QED BY <2>1, <2>2
<1>4. /\ wire' \in {wire \ {m}, (wire \ {m}) \cup {Answer(m, TRUE)},
                    (wire \ {m}) \cup {Answer(m, FALSE)}}
      /\ accepted' \in {accepted, accepted \cup {m}}
      /\ accepted' = accepted \/ m.kind = "post"
  BY DEF CallerAccepts, CallerRefuses, Lose
<1>5. m.kind = "post" => m = Post(m.from, m.attempt)
  BY Messages DEF DeliveryInv, DeliveryTypeOK
<1>6. DeliveryTypeOK'
  <2>1. ASSUME NEW x \in wire'
        PROVE  Sent(x)' /\ (x = Post(x.from, x.attempt) \/ \E ok \in BOOLEAN : x = Answer(x, ok))
    <3>1. CASE x \in wire
      BY <1>1, <3>1 DEF DeliveryInv, DeliveryTypeOK
    <3>2. CASE x \notin wire
      <4>1. PICK ok \in BOOLEAN : x = Answer(m, ok)
        BY <1>4, <3>2
      <4>. QED BY <1>1, <1>2, <4>1
    <3>. QED BY <3>1, <3>2
  <2>2. ASSUME NEW p \in accepted'
        PROVE  Sent(p)' /\ p = Post(p.from, p.attempt)
    BY <1>1, <1>4, <1>5 DEF DeliveryInv, DeliveryTypeOK
  <2>. QED BY <1>1, <1>3, <2>1, <2>2 DEF DeliveryTypeOK
<1>7. Truthful'
  <2>1. ASSUME NEW x \in wire', x.kind = "answer", x.ok
        PROVE  Post(x.from, x.attempt) \in accepted'
    <3>1. CASE x \in wire
      BY <1>4, <2>1, <3>1 DEF DeliveryInv, Truthful
    <3>2. CASE x \notin wire
      <4>1. x = Answer(m, TRUE) /\ CallerAccepts(m)
        <5>1. Answer(m, FALSE).ok = FALSE
          BY DEF Answer
        <5>2. x # Answer(m, FALSE)
          BY <2>1, <5>1
        <5>. QED BY <2>1, <3>2, <5>2 DEF CallerAccepts, CallerRefuses, Lose
      <4>2. x.from = m.from /\ x.attempt = m.attempt
        BY <4>1 DEF Answer
      <4>3. m = Post(m.from, m.attempt) /\ m \in accepted'
        BY <1>5, <4>1 DEF CallerAccepts
      <4>. QED BY <4>2, <4>3
    <3>. QED BY <3>1, <3>2
  <2>. QED BY <1>1, <1>4, <2>1 DEF DeliveryInv, Truthful, AckedIsAccepted
<1>8. ASSUME NEW k \in Notifiers
      PROVE  Attempts(k)' /\ Accounted(k)'
  <2>1. Attempts(k)'
    BY <1>1 DEF DeliveryInv, Attempts
  <2>2. notifier[k].attempt \in Nat /\ failures[k] \in Nat /\ Accounted(k)
    BY DEF DeliveryInv
  <2>3. CASE k # n
    <3>1. Pending(k)' = Pending(k)
      <4>1. \A ok \in BOOLEAN : Answer(m, ok).from # k
        BY <2>3, Messages
      <4>2. \A x : x.from = k => (x \in wire' <=> x \in wire)
        BY <1>4, <2>3, <4>1
      <4>. QED BY <1>1, <4>2 DEF Pending
    <3>. QED BY <1>1, <1>3, <2>1, <2>2, <2>3, <3>1 DEF Accounted
  <2>4. CASE k = n /\ ~CallerAccepts(m)
    <3>1. failures'[k] = failures[k] + 1
      BY <1>3, <2>4
    <3>. QED BY <1>1, <2>1, <2>2, <3>1 DEF Accounted
  <2>5. CASE k = n /\ CallerAccepts(m)
    <3>1. wire' = (wire \ {m}) \cup {Answer(m, TRUE)} /\ UNCHANGED failures
      BY <2>5 DEF CallerAccepts
    <3>2. Pending(k) # {} => Pending(k)' # {}
      <4>1. m \in Pending(k) => Answer(m, TRUE) \in Pending(k)'
        BY <1>1, <3>1, Messages DEF Pending
      <4>2. \A x \in Pending(k) : x = m \/ x \in Pending(k)'
        BY <1>1, <3>1 DEF Pending
      <4>. QED BY <4>1, <4>2
    <3>3. \A x \in Pending(k)' : x \in Pending(k) \/ x.ok
      <4>1. Answer(m, TRUE).ok = TRUE
        BY Messages
      <4>2. \A x \in Pending(k)' : x \in Pending(k) \/ x = Answer(m, TRUE)
        BY <1>1, <3>1 DEF Pending
      <4>. QED BY <4>1, <4>2
    <3>4. Pending(k)' = {} => Pending(k) = {}
      BY <3>2
    <3>5. (\E a \in Pending(k)' : a.kind = "answer" /\ ~a.ok) =>
            \E a \in Pending(k) : a.kind = "answer" /\ ~a.ok
      BY <3>3
    <3>. QED BY <1>1, <2>1, <2>2, <3>1, <3>4, <3>5 DEF Accounted
  <2>. QED BY <2>1, <2>3, <2>4, <2>5
<1>. QED BY <1>6, <1>7, <1>8 DEF DeliveryInv

(* DeliveryInv is inductive. *)
THEOREM DeliveryInvariant == DeliverySpec => []DeliveryInv
<1>1. DeliveryInit => DeliveryInv
  <2>. SUFFICES ASSUME DeliveryInit PROVE DeliveryInv
    OBVIOUS
  <2>1. \A n \in Notifiers : /\ notifier[n].pc = "none" /\ notifier[n].attempt = 0
                             /\ failures[n] = 0
    BY DEF DeliveryInit
  <2>2. DeliveryTypeOK
    BY DEF DeliveryInit, DeliveryTypeOK, Positions
  <2>3. Truthful
    BY <2>1 DEF DeliveryInit, Truthful, AckedIsAccepted
  <2>. QED BY <2>1, <2>2, <2>3 DEF DeliveryInv, Attempts, Accounted, RetryTimes
<1>2. DeliveryInv /\ [DeliveryNext]_deliveryVars => DeliveryInv'
  <2>1. CASE UNCHANGED deliveryVars
    BY <2>1 DEF deliveryVars, DeliveryInv, DeliveryTypeOK, Sent, Truthful,
                AckedIsAccepted, Attempts, Accounted, Pending
  <2>. QED BY <2>1, NotifierKeeps, NetworkKeeps DEF DeliveryNext
<1>. QED BY <1>1, <1>2, PTL DEF DeliverySpec

(* A goroutine that stops without an error had its last post accepted.     *)
THEOREM AcknowledgedPostsWereAccepted == DeliverySpec => []AckedIsAccepted
<1>1. DeliveryInv => AckedIsAccepted
  BY DEF DeliveryInv, Truthful
<1>. QED BY <1>1, DeliveryInvariant, PTL

(* A goroutine gives up only after three of its posts have failed.         *)
THEOREM TwoFailuresAreSurvived == DeliverySpec => []TwoFailuresSurvived
<1>1. DeliveryInv => TwoFailuresSurvived
  BY DEF DeliveryInv, DeliveryTypeOK, Attempts, Accounted, TwoFailuresSurvived,
         RetryTimes
<1>. QED BY <1>1, DeliveryInvariant, PTL

(* The caller accepts one post of a goroutine, and one more for each that  *)
(* failed.                                                                 *)
THEOREM RepeatsAreForFailures == DeliverySpec => []RepeatsHaveReason
<1>1. DeliveryInv => RepeatsHaveReason
  <2>. SUFFICES ASSUME DeliveryInv, NEW n \in Notifiers
                PROVE  Cardinality({p \in accepted : p.from = n}) <= 1 + failures[n]
    BY DEF RepeatsHaveReason
  <2> DEFINE mine == {p \in accepted : p.from = n}
             tries == 1..notifier[n].attempt
             all == {Post(n, i) : i \in tries}
  <2>1. /\ notifier[n].attempt \in Nat /\ failures[n] \in Nat
        /\ notifier[n].attempt <= failures[n] + 1
    BY DEF DeliveryInv, DeliveryTypeOK, Accounted
  <2>2. mine \subseteq all
    BY <2>1 DEF DeliveryInv, DeliveryTypeOK, Sent
  <2>3. IsFiniteSet(tries) /\ Cardinality(tries) = notifier[n].attempt
    <3>1. \A b \in Nat : IsFiniteSet(1..b) /\ Cardinality(1..b) = b
      <4>1. \A b \in Nat : /\ IsFiniteSet(1..b)
                            /\ Cardinality(1..b) = IF 1 > b THEN 0 ELSE b - 1 + 1
        BY FS_Interval
      <4>. QED BY <4>1
    <3>. QED BY <2>1, <3>1
  <2>4. IsFiniteSet(all) /\ Cardinality(all) <= Cardinality(tries)
    <3>1. [i \in tries |-> Post(n, i)] \in Surjection(tries, all)
      BY DEF Surjection
    <3>. QED BY <2>3, <3>1, FS_Surjection
  <2>5. /\ IsFiniteSet(mine) /\ Cardinality(mine) <= Cardinality(all)
    BY <2>2, <2>4, FS_Subset
  <2>6. Cardinality(mine) \in Nat /\ Cardinality(all) \in Nat
    BY <2>4, <2>5, FS_CardinalityType
  <2> HIDE DEF mine, all
  <2>7. Cardinality(mine) <= 1 + failures[n]
    BY <2>1, <2>3, <2>4, <2>5, <2>6
  <2>. QED BY <2>7 DEF mine
<1>. QED BY <1>1, DeliveryInvariant, PTL
=============================================================================
