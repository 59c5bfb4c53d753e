----------------------------- MODULE Resilience -----------------------------
(***************************************************************************)
(* crates/resilience: calls to an upstream made through one shared         *)
(* CircuitBreaker, each running retry_with_backoff inside the breaker (as  *)
(* the OpenRouter provider and the MCP client do).                         *)
(*                                                                         *)
(* An Instant in the future is modelled by the ticks left until it.  A     *)
(* call the breaker rejects changes nothing and is no step.                *)
(***************************************************************************)
EXTENDS Integers, FiniteSets

CONSTANTS
  Calls,             \* callers of the breaker, each making one call after another
  failure_threshold,
  open_duration,     \* in ticks
  Policies,          \* RetryPolicy values
  U64Max,            \* the largest u64, where saturating_mul stops
  MaxDrops           \* bound on call futures dropped before they resolve

ASSUME ResilienceAssumption ==
  /\ failure_threshold \in Nat /\ open_duration \in Nat
  /\ U64Max \in Nat /\ MaxDrops \in Nat
  /\ Policies \subseteq [max_attempts : Nat, initial_backoff_ms : 0..U64Max,
                         max_backoff_ms : 0..U64Max, backoff_multiplier : Nat]

VARIABLES
  policy,    \* the RetryPolicy the calls share
  state,     \* the breaker: "closed", "open" or "half"
  failures,  \* consecutive_failures, while closed
  cooldown,  \* ticks until `until`, while open
  pc,        \* each caller: "idle", "attempt" or "backoff"
  attempt,   \* its zero-based attempt
  wait,      \* ticks of backoff left
  upstream,  \* "flaky", or "well" once every attempt succeeds
  \* history and bounds
  probe,     \* the call was admitted as the half-open probe
  drops

breakerVars == <<state, failures, cooldown>>
callVars == <<pc, attempt, wait, probe>>
vars == <<policy, state, failures, cooldown, pc, attempt, wait, upstream, probe, drops>>

InFlight(c) == pc[c] # "idle"

\* The breaker's counters and every call's retry state stay in range.
TypeOK ==
  /\ policy \in Policies
  /\ state \in {"closed", "open", "half"}
  /\ failures \in Nat /\ cooldown \in 0..open_duration
  /\ pc \in [Calls -> {"idle", "attempt", "backoff"}]
  /\ attempt \in [Calls -> Nat] /\ wait \in [Calls -> Nat]
  /\ upstream \in {"flaky", "well"}
  /\ probe \in [Calls -> BOOLEAN]
  /\ drops \in 0..MaxDrops

Init ==
  /\ policy \in Policies
  /\ state = "closed" /\ failures = 0 /\ cooldown = 0
  /\ pc = [c \in Calls |-> "idle"]
  /\ attempt = [c \in Calls |-> 0] /\ wait = [c \in Calls |-> 0]
  /\ upstream = "flaky"
  /\ probe = [c \in Calls |-> FALSE]
  /\ drops = 0

-----------------------------------------------------------------------------
(* RetryPolicy *)

Min2(a, b) == IF a < b THEN a ELSE b
Max2(a, b) == IF a < b THEN b ELSE a

\* Mutant: the product wraps.
wrapping_mul(a, b) == (a * b) % (U64Max + 1)

saturating_mul(a, b) == Min2(a * b, U64Max)

\* base_delay_ms: multiply once per retry, and stop at the cap.
base_delay_ms(p, retry_index) ==
  LET delay[i \in 0..retry_index] ==
        IF i = 0 THEN p.initial_backoff_ms
        ELSE IF i > 1 /\ delay[i - 1] >= p.max_backoff_ms THEN p.max_backoff_ms
        ELSE saturating_mul(delay[i - 1], p.backoff_multiplier)
  IN  Min2(delay[retry_index], p.max_backoff_ms)

attempts == Max2(policy.max_attempts, 1)

-----------------------------------------------------------------------------
(* CircuitBreaker *)

\* Mutant: one tick too long.
OpenBreakerLonger == state' = "open" /\ failures' = 0 /\ cooldown' = open_duration + 1

\* Open, until open_duration from now.
OpenBreaker == state' = "open" /\ failures' = 0 /\ cooldown' = open_duration

\* on_success closes the breaker, whatever its state.
on_success == state' = "closed" /\ failures' = 0 /\ cooldown' = 0

\* Mutant: a failed probe leaves the breaker half-open.
on_failure_half_stays ==
  CASE state = "closed" ->
         IF failures + 1 >= failure_threshold
           THEN OpenBreaker
           ELSE failures' = failures + 1 /\ UNCHANGED <<state, cooldown>>
    [] OTHER -> UNCHANGED breakerVars

\* on_failure counts a failure of a closed breaker, up to the threshold, and
\* reopens a half-open one; an open one stays as it is.
on_failure ==
  CASE state = "closed" ->
         IF failures + 1 >= failure_threshold
           THEN OpenBreaker
           ELSE failures' = failures + 1 /\ UNCHANGED <<state, cooldown>>
    [] state = "half" -> OpenBreaker
    [] state = "open" -> UNCHANGED breakerVars

Starts(c, isProbe) ==
  /\ pc' = [pc EXCEPT ![c] = "attempt"]
  /\ attempt' = [attempt EXCEPT ![c] = 0]
  /\ probe' = [probe EXCEPT ![c] = isProbe]
  /\ UNCHANGED wait

Ends(c) ==
  /\ pc' = [pc EXCEPT ![c] = "idle"]
  /\ attempt' = [attempt EXCEPT ![c] = 0]
  /\ wait' = [wait EXCEPT ![c] = 0]
  /\ probe' = [probe EXCEPT ![c] = FALSE]

\* admit: through a closed breaker ...
AdmitClosed(c) ==
  /\ ~InFlight(c) /\ state = "closed"
  /\ Starts(c, FALSE)
  /\ UNCHANGED <<policy, breakerVars, upstream, drops>>

\* ... or, past the cooldown of an open one, as the probe.
AdmitProbe(c) ==
  /\ ~InFlight(c) /\ state = "open" /\ cooldown = 0
  /\ state' = "half"
  /\ Starts(c, TRUE)
  /\ UNCHANGED <<policy, failures, cooldown, upstream, drops>>

-----------------------------------------------------------------------------
(* retry_with_backoff, inside call *)

AttemptSucceeds(c) ==
  /\ pc[c] = "attempt"
  /\ on_success
  /\ Ends(c)
  /\ UNCHANGED <<policy, upstream, drops>>

\* The last attempt failed, or failed with an error that is not retryable.
CallFails(c, retryable) ==
  /\ pc[c] = "attempt" /\ upstream = "flaky"
  /\ ~retryable \/ attempt[c] + 1 >= attempts
  /\ on_failure
  /\ Ends(c)
  /\ UNCHANGED <<policy, upstream, drops>>

\* A retryable failure sleeps for a delay drawn by jittered_delay ...
BacksOff(c, delay) ==
  /\ pc[c] = "attempt" /\ upstream = "flaky"
  /\ attempt[c] + 1 < attempts
  /\ delay \in 0..base_delay_ms(policy, attempt[c])
  /\ pc' = [pc EXCEPT ![c] = "backoff"]
  /\ wait' = [wait EXCEPT ![c] = delay]
  /\ UNCHANGED <<policy, breakerVars, attempt, probe, upstream, drops>>

\* ... and tries again.
Retries(c) ==
  /\ pc[c] = "backoff" /\ wait[c] = 0
  /\ pc' = [pc EXCEPT ![c] = "attempt"]
  /\ attempt' = [attempt EXCEPT ![c] = @ + 1]
  /\ UNCHANGED <<policy, breakerVars, wait, probe, upstream, drops>>

-----------------------------------------------------------------------------
(* What the callers and the world do *)

\* The future of a call is dropped (a tool that timed out, a client that hung
\* up): neither on_success nor on_failure runs.
CallDropped(c) ==
  /\ InFlight(c) /\ drops < MaxDrops
  /\ drops' = drops + 1
  /\ Ends(c)
  /\ UNCHANGED <<policy, breakerVars, upstream>>

\* Time passes.
Tick ==
  /\ cooldown > 0 \/ \E c \in Calls : wait[c] > 0
  /\ cooldown' = Max2(cooldown - 1, 0)
  /\ wait' = [c \in Calls |-> Max2(wait[c] - 1, 0)]
  /\ UNCHANGED <<policy, state, failures, pc, attempt, upstream, probe, drops>>

\* The upstream recovers for good.
UpstreamRecovers ==
  /\ upstream = "flaky" /\ upstream' = "well"
  /\ UNCHANGED <<policy, breakerVars, callVars, drops>>

CallStep(c) ==
  \/ AttemptSucceeds(c)
  \/ \E retryable \in BOOLEAN : CallFails(c, retryable)
  \/ \E delay \in 0..policy.max_backoff_ms : BacksOff(c, delay)
  \/ Retries(c)

Next ==
  \/ \E c \in Calls : AdmitClosed(c) \/ AdmitProbe(c) \/ CallStep(c) \/ CallDropped(c)
  \/ Tick
  \/ UpstreamRecovers

Spec == Init /\ [][Next]_vars

\* An attempt is bounded by a timeout and a backoff by the timer, and somebody
\* goes on calling.  Nothing makes the upstream recover.
Fairness ==
  /\ \A c \in Calls : WF_vars(CallStep(c))
  /\ WF_vars(\E c \in Calls : AdmitProbe(c))
  /\ WF_vars(Tick)

FairSpec == Spec /\ Fairness

-----------------------------------------------------------------------------
(* Correctness *)

\* The half-open breaker is waiting for somebody: until a call is dropped, a
\* half-open state always has its probe in flight, however late the calls
\* admitted before the trip report their own outcome.
HalfOpenHasProbe ==
  state = "half" /\ drops = 0 => \E c \in Calls : probe[c] /\ InFlight(c)

\* The breaker trips at the threshold, not after it: a closed breaker has room
\* for one more failure (the first one always trips it when the threshold is 0).
ClosedBelowThreshold ==
  state = "closed" => failures < Max2(failure_threshold, 1)

\* A call makes at most max_attempts attempts, and one when max_attempts is 0.
AttemptsBounded == \A c \in Calls : InFlight(c) => attempt[c] < attempts

\* initial * multiplier^i, with no bound on it.
ExactDelay(p, n) ==
  LET exact[i \in 0..n] ==
        IF i = 0 THEN p.initial_backoff_ms ELSE exact[i - 1] * p.backoff_multiplier
  IN  exact[n]

\* The delay before a retry is initial * multiplier^i up to the cap, even where
\* the product no longer fits in a u64.
BackoffCapped ==
  \A i \in 0..policy.max_attempts :
    base_delay_ms(policy, i) = Min2(ExactDelay(policy, i), policy.max_backoff_ms)

\* Failures, attempts and delays stay within what the caller configured.
CallsBounded == ClosedBelowThreshold /\ AttemptsBounded /\ BackoffCapped

\* The breaker heals by itself: if the upstream recovers, the breaker closes and
\* stays closed, with no operator to reset it, as long as no call is dropped.
Heals == [](drops = 0) => ((upstream = "well") ~> [](state = "closed"))

\* "The open state expires on its own [...] rather than requiring an external
\* operator to reset it", whatever becomes of the calls.
HealsAlways == (upstream = "well") ~> [](state = "closed")
=============================================================================
