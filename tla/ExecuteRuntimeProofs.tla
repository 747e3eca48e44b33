------------------------- MODULE ExecuteRuntimeProofs -------------------------
(***************************************************************************)
(* What a step can do through the runtime, whoever runs it: facts about    *)
(* tokens, for every resolution of the clock, and about the operations of  *)
(* ExecuteRuntime, which the proofs about the handlers and the workers     *)
(* share.                                                                  *)
(***************************************************************************)
EXTENDS ExecuteRuntime, FinishCallback, ScheduleStoreProofs

-----------------------------------------------------------------------------
(* The two expiries of a token.                                            *)

(* Cutting an instant to seconds takes off less than one second. *)
LEMMA EmbeddedExpiryBounds ==
  ASSUME NEW expires \in Nat
  PROVE  /\ EmbeddedExpiry(expires) \in Int
         /\ EmbeddedExpiry(expires) <= expires
         /\ expires < EmbeddedExpiry(expires) + SecondTicks
<1>1. /\ expires \div SecondTicks \in Int
      /\ expires % SecondTicks \in 0..(SecondTicks - 1)
      /\ expires = SecondTicks * (expires \div SecondTicks)
                     + (expires % SecondTicks)
  BY SecondTicksAssumption
<1>. QED BY <1>1, SecondTicksAssumption DEF EmbeddedExpiry

(* A token Verify lets through belongs to a row that has not expired at    *)
(* that instant: the check of the token never admits what the check of the *)
(* table, callback_expires_at > now, would call late (token.go:71,         *)
(* gorm_store.go:110).                                                     *)
THEOREM VerifiedIsUnexpired ==
  \A now, expires \in Nat : Verifies(now, expires) => now < expires
BY EmbeddedExpiryBounds, SecondTicksAssumption DEF Verifies

(* A token is turned away less than a second before its row expires, never *)
(* earlier.                                                                *)
THEOREM RefusedOnlyInLastSecond ==
  \A now, expires \in Nat :
    ~Verifies(now, expires) => now > expires - SecondTicks
BY EmbeddedExpiryBounds, SecondTicksAssumption DEF Verifies

(* A token issued for a second or more verifies at the instant it is       *)
(* issued; for less it may be refused from the start (token.go:38 and 43). *)
THEOREM FreshTokenVerifies ==
  ASSUME NEW now \in Nat, NEW ttl \in Int, ttl >= SecondTicks
  PROVE  Verifies(now, ExpiresAt(now, ttl))
<1>1. ExpiresAt(now, ttl) = now + ttl /\ now + ttl \in Nat
  BY SecondTicksAssumption DEF ExpiresAt
<1>. QED BY <1>1, EmbeddedExpiryBounds, SecondTicksAssumption DEF Verifies

-----------------------------------------------------------------------------
(* The tokens issued so far.                                               *)

Token == [trace : Traces, expiresAt : Nat]

Issued(hash) == hash \in DOMAIN tokens

(* Tokens are added, and never changed or taken away; the ones added are   *)
(* of trace t.                                                             *)
TokensGrow(t) ==
  /\ tokens' \in Seq(Token) /\ Len(tokens') <= MaxTokens
  /\ \A hash \in DOMAIN tokens :
       hash \in DOMAIN tokens' /\ tokens'[hash] = tokens[hash]
  /\ \A hash \in DOMAIN tokens' : ~Issued(hash) => tokens'[hash].trace = t

(* The tokens, and what is true of each one. *)
LEMMA TokenTypes ==
  ASSUME RuntimeTypeOK
  PROVE  /\ DOMAIN tokens = 1..Len(tokens) /\ Len(tokens) \in Nat
         /\ \A hash \in DOMAIN tokens :
              /\ hash \in Hashes /\ hash # Null
              /\ tokens[hash] \in Token
              /\ tokens[hash].trace \in Traces /\ tokens[hash].expiresAt \in Nat
<1>1. tokens \in Seq(Token) /\ Len(tokens) <= MaxTokens
  BY DEF RuntimeTypeOK, Token
<1>2. DOMAIN tokens = 1..Len(tokens) /\ Len(tokens) \in Nat
  BY <1>1
<1>3. \A hash \in DOMAIN tokens : tokens[hash] \in Token
  BY <1>1
<1>4. \A hash \in DOMAIN tokens : hash \in Hashes
  BY <1>1, <1>2, RuntimeAssumption
<1>. QED BY <1>2, <1>3, <1>4, NullAssumption DEF Token

(* A step that issues no token leaves those there are.                     *)
LEMMA NoNewToken ==
  ASSUME RuntimeTypeOK, UNCHANGED tokens, NEW t
  PROVE  TokensGrow(t)
BY DEF RuntimeTypeOK, TokensGrow, Token, Issued

(* A token expires at some instant, whatever lifetime was asked for.       *)
LEMMA ExpiryType ==
  ASSUME NEW now \in Nat, NEW ttl \in Int
  PROVE  ExpiresAt(now, ttl) \in Nat
BY DefaultTTLAssumption DEF ExpiresAt

(* issueCallback: the token is a new one, of this trace. *)
LEMMA IssuedToken ==
  ASSUME RuntimeTypeOK, NEW t \in Traces, NEW now \in Nat, NEW timeout \in Int,
         IssueCallback(t, now, timeout)
  PROVE  /\ TokensGrow(t)
         /\ ~Issued(NewHash) /\ NewHash \in DOMAIN tokens'
         /\ NewHash \in Hashes
         /\ tokens'[NewHash].trace = t
         /\ tokens'[NewHash].expiresAt = ExpiresAt(now, timeout)
<1> DEFINE e == [trace |-> t, expiresAt |-> ExpiresAt(now, timeout)]
<1>1. /\ tokens \in Seq(Token) /\ Len(tokens) < MaxTokens
      /\ Len(tokens) \in Nat /\ MaxTokens \in Nat
  BY RuntimeAssumption DEF RuntimeTypeOK, Token, IssueCallback
<1>2. e \in Token
  BY ExpiryType DEF Token
<1>3. tokens' = Append(tokens, e)
  BY DEF IssueCallback
<1> HIDE DEF e
<1>4. /\ tokens' \in Seq(Token) /\ Len(tokens') = Len(tokens) + 1
      /\ DOMAIN tokens = 1..Len(tokens)
      /\ DOMAIN tokens' = 1..(Len(tokens) + 1)
      /\ \A hash \in 1..Len(tokens) : tokens'[hash] = tokens[hash]
      /\ tokens'[Len(tokens) + 1] = e
  BY <1>1, <1>2, <1>3
<1>5. \A hash \in DOMAIN tokens' : ~Issued(hash) => hash = NewHash
  BY <1>1, <1>4 DEF Issued, NewHash
<1>6. /\ tokens'[NewHash] = e /\ e.trace = t
      /\ e.expiresAt = ExpiresAt(now, timeout)
  BY <1>4 DEF NewHash, e
<1>7. ~Issued(NewHash) /\ NewHash \in DOMAIN tokens' /\ NewHash \in Hashes
  BY <1>1, <1>4, RuntimeAssumption DEF Issued, NewHash
<1>8. TokensGrow(t)
  <2>1. Len(tokens') <= MaxTokens
    BY <1>1, <1>4
  <2>2. \A hash \in DOMAIN tokens : hash \in DOMAIN tokens' /\ tokens'[hash] = tokens[hash]
    BY <1>1, <1>4 DEF Issued
  <2>3. \A hash \in DOMAIN tokens' : ~Issued(hash) => tokens'[hash].trace = t
    BY <1>5, <1>6
  <2>. QED BY <1>4, <2>1, <2>2, <2>3 DEF TokensGrow
<1>. QED BY <1>6, <1>7, <1>8

-----------------------------------------------------------------------------
(* The marks of a step.                                                    *)

(* A token a step of t may wait for: one it prepared, or none.             *)
PreparedFor(t, prepared) ==
  prepared # Null => Issued(prepared) /\ tokens[prepared].trace = t

(* SetCallback: the row waits for the prepared token or for a new one.     *)
LEMMA SetCallbackEffect ==
  ASSUME RuntimeTypeOK, NEW t \in Traces, NEW n \in InvokeCounts,
         NEW now \in Nat, NEW timeout \in Int,
         NEW prepared, PreparedFor(t, prepared),
         SetCallback(t, n, prepared, now, timeout)
  PROVE  /\ TokensGrow(t)
         /\ \E hash \in Hashes :
              /\ hash = prepared \/ ~Issued(hash)
              /\ hash \in DOMAIN tokens' /\ tokens'[hash].trace = t
              /\ tokens'[hash].expiresAt \in Nat
              /\ MarkCallback(t, n, hash, tokens'[hash].expiresAt)
<1>1. CASE prepared # Null
  <2>1. UNCHANGED tokens /\ MarkCallback(t, n, prepared, tokens[prepared].expiresAt)
    BY <1>1 DEF SetCallback
  <2>2. Issued(prepared) /\ tokens[prepared].trace = t
    BY <1>1 DEF PreparedFor
  <2>. QED BY <2>1, <2>2, TokenTypes, NoNewToken DEF Issued
<1>2. CASE prepared = Null
  <2>1. /\ IssueCallback(t, now, timeout)
        /\ MarkCallback(t, n, NewHash, ExpiresAt(now, timeout))
    BY <1>2 DEF SetCallback
  <2>2. /\ TokensGrow(t)
        /\ ~Issued(NewHash) /\ NewHash \in DOMAIN tokens'
        /\ NewHash \in Hashes
        /\ tokens'[NewHash].trace = t
        /\ tokens'[NewHash].expiresAt = ExpiresAt(now, timeout)
    BY <2>1, IssuedToken
  <2>. QED BY <2>1, <2>2, ExpiryType
<1>. QED BY <1>1, <1>2

(* Launching finish callbacks keeps the counters in their bound.           *)
LEMMA NotifyType ==
  ASSUME FinishCallbackTypeOK, NEW readBack, NotifyFinish(readBack)
  PROVE  FinishCallbackTypeOK'
BY MaxNotifiedAssumption DEF FinishCallbackTypeOK, NotifyFinish, Smaller

(* A fault is counted.                                                     *)
LEMMA FaultCounts ==
  ASSUME RuntimeTypeOK, Fault
  PROVE  faults' \in 0..MaxFaults /\ faults' = faults + 1 /\ faults' # 0
BY RuntimeAssumption DEF RuntimeTypeOK, Fault
=============================================================================
