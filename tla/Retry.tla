-------------------------------- MODULE Retry --------------------------------
(***************************************************************************)
(* The retry schedule of send/retry.rs (`Policy`): exponential backoff     *)
(* with a ceiling, and a total queue lifetime after which the message is   *)
(* given up.  The schedule is pure arithmetic; the delivery worker is its  *)
(* only caller.                                                            *)
(***************************************************************************)
EXTENDS Integers

CONSTANTS
  FirstDelay,   \* delay before the first retry
  DelayCap,     \* ceiling of the delay between two tries
  Lifetime,     \* how long a message may wait before it is given up
  GiveUp        \* next_delay's `None`

ASSUME RetryAssumption ==
  /\ FirstDelay \in Nat \ {0}
  /\ DelayCap \in Nat \ {0}
  /\ Lifetime \in Nat
  /\ GiveUp \notin Nat

\* The loop of next_delay: double per failed attempt, stop once at the ceiling.
Doubled[attempt \in Nat] ==
  IF attempt <= 1
    THEN FirstDelay
    ELSE IF Doubled[attempt - 1] >= DelayCap
           THEN Doubled[attempt - 1]
           ELSE 2 * Doubled[attempt - 1]

\* delay.min(self.cap); the ceiling is also what an overlong doubling yields.
Capped(delay) == IF delay \in 0 .. DelayCap THEN delay ELSE DelayCap

\* Variant: the lifetime is never spent.
NextDelayForever(attempt, elapsed) == Capped(Doubled[attempt])

\* When to try again after the attempt-th failure, `elapsed` after the message
\* was accepted; GiveUp once the lifetime is spent.
NextDelay(attempt, elapsed) ==
  IF elapsed >= Lifetime THEN GiveUp ELSE Capped(Doubled[attempt])
==============================================================================
