---------------------------- MODULE MultiAgents ----------------------------
(***************************************************************************)
(* The sub-agent registry (crates/multi-agent). An ask reserves its cents  *)
(* under a read lock, runs the child with no lock held and, when the child *)
(* fails, rolls back only if the registry still holds the instance it      *)
(* reserved from: an id may be terminated and spawned again in between.    *)
(***************************************************************************)
EXTENDS Naturals, FiniteSets, Functions

CONSTANTS
  AgentIds, Askers,
  CentsMax,     \* the envelope every sub-agent is given
  AskCents,     \* what an ask may reserve
  MaxInstances  \* bound: spawns

ASSUME AgentAssumption ==
  /\ CentsMax \in Nat /\ AskCents \subseteq Nat
  /\ MaxInstances \in Nat /\ IsFiniteSet(Askers)

VARIABLES
  agents,      \* the registry: the instance (its session) an id stands for
  idOf,        \* the id each instance was spawned under; spawned so far
  closed,      \* the ids in `terminated`
  used,        \* cost_used, by instance
  chatAllowed, \* instances whose token still allows chat.submit
  asking,      \* the asks in flight
  reviving,    \* spawns of each id between their two locks
  ending,      \* ids removed by a terminate that has not noted them yet
  spent,       \* cents of the asks that ran, by instance
  totals       \* total_cost of the termination receipts, by instance

agentVars == <<agents, idOf, closed, used, chatAllowed, asking, reviving, ending, spent,
               totals>>

Instances == 1..MaxInstances
NoInstance == 0
NoReceipt == 100000
Spawned == DOMAIN idOf
Idle == [at |-> "idle", inst |-> NoInstance, cents |-> 0]

\* Agents, meters and asks keep their types: no release takes back more than was
\* reserved.
AgentTypeOK ==
  /\ agents \in [AgentIds -> {NoInstance} \cup Instances]
  /\ Spawned \subseteq Instances /\ \A i \in Spawned : idOf[i] \in AgentIds
  /\ closed \subseteq AgentIds /\ ending \subseteq AgentIds /\ reviving \in [AgentIds -> Nat]
  /\ used \in [Instances -> Nat] /\ spent \in [Instances -> Nat]
  /\ chatAllowed \subseteq Spawned
  /\ asking \in [Askers -> [at : {"idle", "child"}, inst : {NoInstance} \cup Instances,
                            cents : AskCents \cup {0}]]
  /\ totals \in [Instances -> Nat]

AgentInit ==
  /\ agents = [id \in AgentIds |-> NoInstance]
  /\ idOf = [i \in {} |-> NoInstance]
  /\ closed = {} /\ ending = {} /\ chatAllowed = {}
  /\ used = [i \in Instances |-> 0] /\ spent = [i \in Instances |-> 0]
  /\ asking = [a \in Askers |-> Idle]
  /\ totals = [i \in Instances |-> NoReceipt]
  /\ reviving = [id \in AgentIds |-> 0]

-----------------------------------------------------------------------------
(* InMemoryMultiAgentRuntime *)

\* spawn takes the id out of `terminated`, ...
SpawnRevives(id) ==
  /\ Cardinality(Spawned) + reviving[id] < MaxInstances
  /\ closed' = closed \ {id}
  /\ reviving' = [reviving EXCEPT ![id] = @ + 1]
  /\ UNCHANGED <<agents, idOf, used, chatAllowed, asking, ending, spent, totals>>

\* ... then registers an instance under the other lock: the token attenuated,
\* maybe away from chat.submit, a fresh session; a live agent under the id is
\* replaced.
SpawnAgent(id, chat) ==
  /\ reviving[id] > 0 /\ Cardinality(Spawned) < MaxInstances
  /\ reviving' = [reviving EXCEPT ![id] = @ - 1]
  /\ LET i == Cardinality(Spawned) + 1
     IN /\ idOf' = [j \in Spawned \cup {i} |-> IF j = i THEN id ELSE idOf[j]]
        /\ agents' = [agents EXCEPT ![id] = i]
        /\ chatAllowed' = IF chat THEN chatAllowed \cup {i} ELSE chatAllowed
  /\ UNCHANGED <<closed, used, asking, ending, spent, totals>>

Live(i) == agents[idOf[i]] = i

\* try_reserve: a compare-and-swap loop.
Fits(i, cents) == used[i] + cents <= CentsMax

\* ask: the lookup by handle, and the reservation.
AskReserves(a, i, cents) ==
  /\ asking[a] = Idle /\ i \in Spawned
  /\ Live(i) /\ Fits(i, cents)
  /\ used' = [used EXCEPT ![i] = @ + cents]
  /\ asking' = [asking EXCEPT ![a] = [at |-> "child", inst |-> i, cents |-> cents]]
  /\ UNCHANGED <<agents, idOf, closed, chatAllowed, reviving, ending, spent, totals>>

\* The child ran the turn: CapVerifyingRuntime let it through.
ChildAnswers(a) ==
  /\ asking[a].at = "child" /\ asking[a].inst \in chatAllowed
  /\ spent' = [spent EXCEPT ![asking[a].inst] = @ + asking[a].cents]
  /\ asking' = [asking EXCEPT ![a] = Idle]
  /\ UNCHANGED <<agents, idOf, closed, used, chatAllowed, reviving, ending, totals>>

\* Mutant: the rollback looks the agent up by id.
ReleasedById(i, cents) ==
  LET now == agents[idOf[i]]
  IN IF now = NoInstance THEN used
     ELSE [used EXCEPT ![now] = IF @ > cents THEN @ - cents ELSE 0]

\* release saturates at zero, and only on the same instance.
Released(i, cents) ==
  IF Live(i) THEN [used EXCEPT ![i] = IF @ > cents THEN @ - cents ELSE 0] ELSE used

\* The child refused or failed.
ChildFails(a) ==
  /\ asking[a].at = "child"
  /\ used' = Released(asking[a].inst, asking[a].cents)
  /\ asking' = [asking EXCEPT ![a] = Idle]
  /\ UNCHANGED <<agents, idOf, closed, chatAllowed, reviving, ending, spent, totals>>

\* terminate: the entry under the handle's id is removed, whatever instance it
\* is, and the receipt made of what it used; ...
Terminate(i) ==
  /\ i \in Spawned /\ agents[idOf[i]] # NoInstance
  /\ LET gone == agents[idOf[i]]
     IN totals' = [totals EXCEPT ![gone] = used[gone]]
  /\ agents' = [agents EXCEPT ![idOf[i]] = NoInstance]
  /\ ending' = ending \cup {idOf[i]}
  /\ UNCHANGED <<idOf, closed, used, chatAllowed, asking, reviving, spent>>

\* ... then the id is noted under the other lock.
TerminateNotes(id) ==
  /\ id \in ending
  /\ ending' = ending \ {id} /\ closed' = closed \cup {id}
  /\ UNCHANGED <<agents, idOf, used, chatAllowed, asking, reviving, spent, totals>>

AgentNext ==
  \/ \E id \in AgentIds :
       \/ TerminateNotes(id) \/ SpawnRevives(id)
       \/ \E chat \in BOOLEAN : SpawnAgent(id, chat)
  \/ \E i \in Spawned : Terminate(i)
  \/ \E a \in Askers :
       \/ ChildAnswers(a) \/ ChildFails(a)
       \/ \E i \in Spawned : \E cents \in AskCents : AskReserves(a, i, cents)

AgentSpec == AgentInit /\ [][AgentNext]_agentVars

-----------------------------------------------------------------------------
(* Properties *)

\* What the asks in flight hold of an instance's envelope.
HeldFor(i) ==
  SumFunctionOnSet([a \in Askers |-> asking[a].cents],
                   {a \in Askers : asking[a].at = "child" /\ asking[a].inst = i})

\* The meter of a live sub-agent is exactly what its own asks spent and hold,
\* and within its envelope, whichever asks failed and whichever ids were reused
\* meanwhile (runtime.rs:283 and :309, agent.rs:74).
MeterExact ==
  \A i \in Spawned :
    /\ Live(i) => used[i] = spent[i] + HeldFor(i)
    /\ used[i] >= spent[i] + HeldFor(i)
    /\ used[i] <= CentsMax

\* A termination receipt covers everything the instance ever spends, the asks
\* still in flight when it was removed included (runtime.rs:350).
ReceiptCoversSpend ==
  \A i \in Spawned : totals[i] # NoReceipt => totals[i] >= spent[i] + HeldFor(i)

\* The meter and the receipt made of it account for every cent.
SpendAccounted == MeterExact /\ ReceiptCoversSpend
=============================================================================
