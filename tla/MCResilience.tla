--------------------------- MODULE MCResilience ---------------------------
(* Resilience on small instances. *)
EXTENDS Resilience, TLC

Policy(n, initial, cap, multiplier) ==
  [max_attempts |-> n, initial_backoff_ms |-> initial,
   max_backoff_ms |-> cap, backoff_multiplier |-> multiplier]

\* Two attempts, with a wait of up to one tick between them.
OnePolicy == {Policy(2, 1, 1, 2)}

\* Caps and products on both sides of U64Max, no retry at all, no growth, and
\* a first delay above the cap.
ManyPolicies ==
  OnePolicy \cup
  {Policy(n, initial, cap, multiplier) :
     n \in {0, 3}, initial \in {1, 3}, cap \in {0, 2, 3}, multiplier \in {0, 2, 3}}
=============================================================================
