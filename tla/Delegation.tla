----------------------------- MODULE Delegation -----------------------------
(***************************************************************************)
(* The delegate_task tool (crates/delegate-tool): at most MaxConcurrency   *)
(* calls hold a permit; each runs spawn, ask and terminate on a blocking   *)
(* thread of its own. The fused runtime puts a timeout around the call,    *)
(* and a turn that is dropped drops it: that ends the future that holds    *)
(* the permit and not the thread.                                          *)
(***************************************************************************)
EXTENDS Naturals, FiniteSets

CONSTANTS Delegations, MaxConcurrency

ASSUME DelegationAssumption == MaxConcurrency \in Nat /\ IsFiniteSet(Delegations)

VARIABLES
  permits,  \* calls that hold a permit of the semaphore
  worker,   \* how far the thread of a call is
  answered, \* what the call returned to the tool loop
  children, \* calls whose child was spawned
  receipted \* calls whose child was terminated, with a receipt

delegVars == <<permits, worker, answered, children, receipted>>

\* The permits, every call's thread and its answer keep their types.
DelegTypeOK ==
  /\ permits \subseteq Delegations
  /\ children \subseteq Delegations /\ receipted \subseteq Delegations
  /\ worker \in [Delegations -> {"none", "spawn", "ask", "terminate", "done", "panicked"}]
  /\ answered \in [Delegations -> {"none", "denied", "output", "error", "dropped"}]

DelegInit ==
  /\ permits = {} /\ children = {} /\ receipted = {}
  /\ worker = [d \in Delegations |-> "none"]
  /\ answered = [d \in Delegations |-> "none"]

Running(d) == worker[d] \in {"spawn", "ask", "terminate"}

\* invoke without a free permit fails fast.
Denies(d) ==
  /\ worker[d] = "none" /\ answered[d] = "none"
  /\ Cardinality(permits) >= MaxConcurrency
  /\ answered' = [answered EXCEPT ![d] = "denied"]
  /\ UNCHANGED <<permits, worker, children, receipted>>

\* try_acquire_owned, then spawn_blocking.
Delegates(d) ==
  /\ worker[d] = "none" /\ answered[d] = "none"
  /\ Cardinality(permits) < MaxConcurrency
  /\ permits' = permits \cup {d}
  /\ worker' = [worker EXCEPT ![d] = "spawn"]
  /\ UNCHANGED <<answered, children, receipted>>

\* The call returns: the permit is dropped with the future, unless it is gone.
Returns(d, result) ==
  /\ permits' = permits \ {d}
  /\ answered' = [answered EXCEPT ![d] = IF @ = "dropped" THEN @ ELSE result]

\* run_delegation: the parent's token is bad, no runtime can be built or the spawn
\* is refused; or the child is spawned.
WorkerSpawns(d) ==
  /\ worker[d] = "spawn"
  /\ \/ /\ worker' = [worker EXCEPT ![d] = "ask"]
        /\ children' = children \cup {d}
        /\ UNCHANGED <<permits, answered>>
     \/ /\ worker' = [worker EXCEPT ![d] = "done"]
        /\ \E result \in {"denied", "error"} : Returns(d, result)
        /\ UNCHANGED children
  /\ UNCHANGED receipted

\* The ask answers or fails; the child is terminated either way.
WorkerAsks(d) ==
  /\ worker[d] = "ask"
  /\ worker' = [worker EXCEPT ![d] = "terminate"]
  /\ UNCHANGED <<permits, answered, children, receipted>>

WorkerTerminates(d) ==
  /\ worker[d] = "terminate"
  /\ worker' = [worker EXCEPT ![d] = "done"]
  /\ receipted' = receipted \cup {d}
  /\ \E result \in {"output", "error"} : Returns(d, result)
  /\ UNCHANGED children

\* The thread panics: invoke reports it, and the child goes with its runtime.
WorkerPanics(d) ==
  /\ Running(d)
  /\ worker' = [worker EXCEPT ![d] = "panicked"]
  /\ Returns(d, "error")
  /\ UNCHANGED <<children, receipted>>

\* The tool's timeout, or the turn's cancellation, drops invoke.
InvokeDropped(d) ==
  /\ d \in permits
  /\ permits' = permits \ {d}
  /\ answered' = [answered EXCEPT ![d] = "dropped"]
  /\ UNCHANGED <<worker, children, receipted>>

WorkerStep(d) ==
  WorkerSpawns(d) \/ WorkerAsks(d) \/ WorkerTerminates(d) \/ WorkerPanics(d)

DelegNext ==
  \E d \in Delegations : Denies(d) \/ Delegates(d) \/ WorkerStep(d) \/ InvokeDropped(d)

DelegSpec == DelegInit /\ [][DelegNext]_delegVars

-----------------------------------------------------------------------------
(* Properties *)

\* The threads that run beyond the ceiling are threads whose call was dropped: the
\* permit goes with the call, so the ceiling of lib.rs:50 and :136 (calls "spawned
\* but not yet terminated") is one on waiting calls only. A permit is held for a
\* running thread, and a thread that lost its permit lost its call.
CeilingBesideDropped ==
  /\ \A d \in permits : Running(d)
  /\ Cardinality({d \in Delegations : Running(d)}) <=
       MaxConcurrency + Cardinality({d \in Delegations : Running(d) /\ answered[d] = "dropped"})

\* A child that was spawned has been terminated with a receipt when its thread is
\* done, whether its ask succeeded or not and whether its call is still there or
\* was dropped (lib.rs:440); only a panic leaves none.
ChildReceipted ==
  \A d \in children : worker[d] = "done" => d \in receipted

\* The ceiling holds for the calls that wait, and no child is left behind.
DelegationSound == CeilingBesideDropped /\ ChildReceipted
=============================================================================
