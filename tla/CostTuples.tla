----------------------------- MODULE CostTuples -----------------------------
(***************************************************************************)
(* The cost arithmetic of ardur-core-types (cost.rs).  A cost tuple is a   *)
(* function from the metered dimensions to naturals; every operation of    *)
(* the code acts on each dimension separately.  Integer widths are kept:   *)
(* budgets are u64, deltas i64, envelopes u32, and every operation clamps  *)
(* where the code clamps.                                                  *)
(***************************************************************************)
EXTENDS Integers

CONSTANTS
  Dims,      \* the metered dimensions (tokens_in, tokens_out, cents, ...)
  U32Max,    \* u32::MAX, the largest envelope entry
  I64Max,    \* i64::MAX, the largest delta entry
  U64Max     \* u64::MAX, the largest balance entry

ASSUME WidthAssumption ==
  /\ U32Max \in Nat /\ I64Max \in Nat /\ U64Max \in Nat
  /\ U32Max <= I64Max
  /\ U32Max + I64Max + 1 <= U64Max

CostTuple    == [Dims -> 0..U64Max]
CostEnvelope == [Dims -> 0..U32Max]
CostDelta    == [Dims -> (-I64Max - 1)..I64Max]

ZERO == [d \in Dims |-> 0]

Clamp(lo, hi, n) == IF n < lo THEN lo ELSE IF n > hi THEN hi ELSE n

\* CostTuple::covers: large enough on every dimension.
covers(have, need) == \A d \in Dims : have[d] >= need[d]

\* CostTuple::checked_sub, for a subtrahend that is covered.
minus(a, b) == [d \in Dims |-> a[d] - b[d]]

\* CostTuple::saturating_add: each dimension stops at u64::MAX.
saturating_add(a, b) == [d \in Dims |-> Clamp(0, U64Max, a[d] + b[d])]

\* CostTuple::first_dimension_over: which dimension it is does not matter,
\* only that there is one.
over(a, ceiling) == \E d \in Dims : a[d] > ceiling[d]

\* CostDelta::between: reserved - actual, clamped to i64.
between(reserved, actual) ==
  [d \in Dims |-> Clamp(-I64Max - 1, I64Max, reserved[d] - actual[d])]

\* CostDelta::full_credit: the delta that releases a whole hold.
full_credit(reserved) == between(reserved, ZERO)

\* CostTuple::apply_delta: clamped to 0..u64::MAX.
apply_delta(base, delta) ==
  [d \in Dims |-> Clamp(0, U64Max, base[d] + delta[d])]

\* Mutant: the rollback returns the hold and forgets the overrun debit.
rollback_credit_no_overrun(reserved, before, after) ==
  [d \in Dims |->
     IF after[d] >= before[d]
       THEN Clamp(0, U64Max, reserved[d] - (after[d] - before[d]))
       ELSE reserved[d]]

\* gate.rs rollback_credit: what a finalize really took from the balance,
\* given the balance before and after its refund step.
rollback_credit(reserved, before, after) ==
  [d \in Dims |->
     IF after[d] >= before[d]
       THEN Clamp(0, U64Max, reserved[d] - (after[d] - before[d]))
       ELSE Clamp(0, U64Max, reserved[d] + (before[d] - after[d]))]
=============================================================================
