---------------------------- MODULE CallbackToken ----------------------------
(***************************************************************************)
(* The times a callback token carries (internal/callback/token.go).  The   *)
(* clock counts ticks; a token embeds its expiry cut to whole seconds      *)
(* while the schedules table keeps the full instant.  The signature and    *)
(* the nonce make a token unguessable and unique: a token is modelled by   *)
(* the order in which it was issued (ExecuteRuntime).                      *)
(***************************************************************************)
EXTENDS Integers

CONSTANTS
  SecondTicks,  \* ticks in a second
  DefaultTTL    \* defaultTTL, in ticks

ASSUME SecondTicksAssumption == SecondTicks \in Nat \ {0}
ASSUME DefaultTTLAssumption == DefaultTTL \in Nat \ {0}

(* Issue: the instant stored in callback_expires_at. *)
ExpiresAt(now, ttl) == now + (IF ttl <= 0 THEN DefaultTTL ELSE ttl)

(* expiresAt.Unix(), the expiry inside the token: the whole seconds of it. *)
EmbeddedExpiry_RoundUp(expires) ==
  SecondTicks * ((expires + SecondTicks - 1) \div SecondTicks)

EmbeddedExpiry(expires) == SecondTicks * (expires \div SecondTicks)

(* Verify, after the signature: now is before the embedded expiry. *)
Verifies(now, expires) == now < EmbeddedExpiry(expires)
=============================================================================
