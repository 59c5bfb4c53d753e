---------------------------- MODULE AgentsProofs ----------------------------
(***************************************************************************)
(* Work beside the turn, for any number of tasks, sub-agents, asks and     *)
(* delegations: a background task's record agrees with the receipt it      *)
(* names, and child agents stay within what they were given. What keeps    *)
(* it in bounds, for any number of callers, any threshold and any policy:  *)
(* a half-open breaker waits for a probe that is in flight, and failures,  *)
(* attempts and delays stay within what was configured. What the agent     *)
(* relies on later, for any number of blocks, revokers, lookups, rows and  *)
(* writers: tokens only narrow, what was revoked stays denied, and a       *)
(* search leaves out what was forgotten and nothing else. What comes in    *)
(* from chat channels, for any number of requests, deliveries, handlers    *)
(* and forwarded messages, any replay window and any queue: a request runs *)
(* once at most unless it was forgotten early, and a message that was      *)
(* acknowledged is worked on in order. The answers of a provider are in    *)
(* StreamProofs.                                                           *)
(*                                                                         *)
(* Every part has an inductive invariant of its own (BgInv, DelegInv,      *)
(* AgentInv, BoundsInv, CapInv, DenyInv, MemInv, StreamInv and ChanInv).   *)
(* The parts share no variable, so the composition keeps each of them.     *)
(***************************************************************************)
EXTENDS MCAgents, StreamProofs

-----------------------------------------------------------------------------
(* Background tasks *)

\* What an unlocked command relies on when it comes back from its receipt: it
\* still knows its task and its receipt is in the log. A refused token was
\* counted, and every directive was a command.
BgPending ==
  /\ repl.step # "idle" => repl.task \in BgTasks /\ repl.verb \in CommandVerb
  /\ repl.step = "apply" => repl.verb \in minted[repl.task]
  /\ \A t \in BgTasks : bgPc[t] = "refused" => mintFailures > 0
  /\ \A t \in BgTasks :
       directives[t] + (IF repl.step # "idle" /\ repl.task = t THEN 1 ELSE 0) <= commands
BgInv == BgTypeOK /\ BgPending /\ RecordMatchesReceipt

\* No task, no command.
LEMMA BgInitInv == BgInit => BgInv
BY BgAssumption DEF BgInit, BgInv, BgTypeOK, BgPending, RecordMatchesReceipt, IdleRepl,
   Active, Terminal, OutcomeVerb, CommandVerb

\* The record of one task, for the steps of another.
RecordFits(t) == status[t] \in Terminal =>
    \/ receiptId[t] \in minted[t] /\
         \/ status[t] = "Completed" /\ receiptId[t] = "completed"
         \/ status[t] = "Failed" /\ receiptId[t] = "failed"
         \/ status[t] = "Cancelled" /\ receiptId[t] \in {"cancelled", "interrupt"}
    \/ status[t] = "Failed" /\ receiptId[t] = "none" /\ mintFailures > 0

\* A record that is left alone, or is active, stays right while the log grows.
LEMMA RecordFrame ==
  ASSUME RecordMatchesReceipt, NEW t \in BgTasks,
         \/ status'[t] = status[t] /\ receiptId'[t] = receiptId[t]
         \/ status'[t] \notin Terminal,
         minted[t] \subseteq minted'[t], mintFailures > 0 => mintFailures' > 0
  PROVE  RecordFits(t)'
<1>1. RecordFits(t)
  BY DEF RecordMatchesReceipt, RecordFits
<1> QED BY <1>1 DEF RecordFits

\* Every step of a task's future keeps the invariant.
LEMMA FutureKeeps == ASSUME BgInv, NEW u \in BgTasks, FutureStep(u) PROVE BgInv'
<1>a. /\ status \in [BgTasks -> Active \cup Terminal \cup {"absent"}]
      /\ bgPc \in [BgTasks -> {"none", "spawned", "polled", "provider", "completed",
                               "failed", "record", "refused", "dead", "done"}]
      /\ receiptId \in [BgTasks -> OutcomeVerb \cup CommandVerb \cup {"none"}]
      /\ minted \in [BgTasks -> SUBSET (OutcomeVerb \cup CommandVerb)]
      /\ mintFailures \in Nat /\ RecordMatchesReceipt
      /\ \A t \in BgTasks : minted[t] \in SUBSET (OutcomeVerb \cup CommandVerb)
  BY BgAssumption DEF BgInv, BgTypeOK
<1>b. \A t \in BgTasks : minted[t] \subseteq minted'[t]
  BY <1>a DEF FutureStep, OwnFutureStep, FirstPoll, TaskStarts, TaskStartsRefused, RefusalRecorded, OutcomeMinted,
     RecordOutcome, OutcomeMintFails, TaskDropped, ProviderAnswers
<1>c. UNCHANGED <<aborted, directives, repl, commands>>
  BY DEF FutureStep, OwnFutureStep, FirstPoll, TaskStarts, TaskStartsRefused, RefusalRecorded, OutcomeMinted,
     RecordOutcome, OutcomeMintFails, TaskDropped, ProviderAnswers
<1>d. mintFailures' = mintFailures \/ mintFailures' = mintFailures + 1
  BY DEF FutureStep, OwnFutureStep, FirstPoll, TaskStarts, TaskStartsRefused, RefusalRecorded, OutcomeMinted,
     RecordOutcome, OutcomeMintFails, TaskDropped, ProviderAnswers
<1>e. mintFailures > 0 => mintFailures' > 0
  BY <1>a, <1>d
<1>1. BgTypeOK'
  <2> USE BgAssumption DEF BgInv, BgTypeOK, Active, Terminal, OutcomeVerb, CommandVerb
  <2>1. CASE FirstPoll(u)
    BY <2>1 DEF FirstPoll
  <2>2. CASE TaskStarts(u)
    BY <2>2 DEF TaskStarts
  <2>3. CASE TaskStartsRefused(u)
    BY <2>3 DEF TaskStartsRefused
  <2>4. CASE RefusalRecorded(u)
    BY <2>4 DEF RefusalRecorded
  <2>5. CASE OutcomeMinted(u)
    BY <2>5 DEF OutcomeMinted
  <2>6. CASE RecordOutcome(u)
    BY <2>6 DEF RecordOutcome
  <2>7. CASE OutcomeMintFails(u)
    BY <2>7 DEF OutcomeMintFails
  <2>8. CASE TaskDropped(u)
    BY <2>8 DEF TaskDropped
  <2>9. ASSUME NEW verb \in OutcomeVerb, ProviderAnswers(u, verb) PROVE BgTypeOK'
    BY <2>9 DEF ProviderAnswers
  <2> QED BY <2>1, <2>2, <2>3, <2>4, <2>5, <2>6, <2>7, <2>8, <2>9 DEF FutureStep, OwnFutureStep
<1>2. BgPending'
  <2>1. \A t \in BgTasks : bgPc'[t] = "refused" => mintFailures' > 0
    <3>1. CASE TaskStartsRefused(u)
      BY <1>a, <3>1 DEF TaskStartsRefused
    <3>2. CASE ~TaskStartsRefused(u)
      <4>1. \A t \in BgTasks : bgPc'[t] = "refused" => bgPc[t] = "refused"
        BY <1>a, <3>2 DEF FutureStep, OwnFutureStep, FirstPoll, TaskStarts, RefusalRecorded, OutcomeMinted,
           RecordOutcome, OutcomeMintFails, TaskDropped, ProviderAnswers, OutcomeVerb
      <4> QED BY <1>e, <4>1 DEF BgInv, BgPending
    <3> QED BY <3>1, <3>2
  <2> QED BY <1>b, <1>c, <2>1 DEF BgInv, BgPending
<1>3. ASSUME NEW t \in BgTasks PROVE RecordFits(t)'
  <2>1. CASE t # u
    <3>1. status'[t] = status[t] /\ receiptId'[t] = receiptId[t]
      BY <1>a, <2>1 DEF FutureStep, OwnFutureStep, FirstPoll, TaskStarts, TaskStartsRefused, RefusalRecorded,
         OutcomeMinted, RecordOutcome, OutcomeMintFails, TaskDropped, ProviderAnswers
    <3> QED BY <1>a, <1>b, <1>e, <3>1, RecordFrame
  <2>2. CASE t = u /\ (FirstPoll(u) \/ TaskStarts(u) \/ TaskStartsRefused(u) \/ OutcomeMinted(u)
                        \/ TaskDropped(u) \/ \E verb \in OutcomeVerb : ProviderAnswers(u, verb))
    <3>1. \/ status'[t] = status[t] /\ receiptId'[t] = receiptId[t]
          \/ status'[t] \notin Terminal
      BY <1>a, <2>2 DEF FirstPoll, TaskStarts, TaskStartsRefused, OutcomeMinted, TaskDropped,
         ProviderAnswers, Terminal
    <3> QED BY <1>a, <1>b, <1>e, <3>1, RecordFrame
  <2>3. CASE t = u /\ RecordOutcome(u)
    BY <1>a, <2>3 DEF RecordOutcome, RecordFits, OutcomeVerb, Terminal
  <2>4. CASE t = u /\ RefusalRecorded(u)
    BY <1>a, <2>4 DEF RefusalRecorded, RecordFits, BgInv, BgPending, Terminal
  <2>5. CASE t = u /\ OutcomeMintFails(u)
    BY <1>a, <2>5 DEF OutcomeMintFails, RecordFits, Terminal
  <2> QED BY <2>1, <2>2, <2>3, <2>4, <2>5 DEF FutureStep, OwnFutureStep
<1> QED BY <1>1, <1>2, <1>3 DEF BgInv, RecordMatchesReceipt, RecordFits

\* Every step of the REPL keeps it, wherever the task has got to since the check.
LEMMA ReplKeeps ==
  ASSUME BgInv, \/ ReplStep
                \/ \E t \in BgTasks : Spawn(t) \/ \E verb \in CommandVerb : CommandChecks(t, verb)
  PROVE  BgInv'
<1>a. /\ status \in [BgTasks -> Active \cup Terminal \cup {"absent"}]
      /\ receiptId \in [BgTasks -> OutcomeVerb \cup CommandVerb \cup {"none"}]
      /\ minted \in [BgTasks -> SUBSET (OutcomeVerb \cup CommandVerb)]
      /\ \A t \in BgTasks : minted[t] \in SUBSET (OutcomeVerb \cup CommandVerb)
      /\ directives \in [BgTasks -> 0..MaxCommands]
      /\ repl \in [task : BgTasks \cup {NoTask}, verb : CommandVerb \cup {"none"},
                   step : {"idle", "mint", "apply"}]
      /\ mintFailures \in Nat /\ commands \in Nat /\ RecordMatchesReceipt
  BY BgAssumption DEF BgInv, BgTypeOK
<1>b. \A t \in BgTasks : directives[t] \in Nat
  BY <1>a, BgAssumption
<1> USE DEF IdleRepl
<1>1. ASSUME NEW u \in BgTasks, Spawn(u) PROVE BgInv'
  <2>1. BgTypeOK'
    BY <1>1 DEF Spawn, BgInv, BgTypeOK, Active
  <2>2. BgPending'
    BY <1>1, <1>a DEF Spawn, BgInv, BgTypeOK, BgPending
  <2>3. ASSUME NEW t \in BgTasks PROVE RecordFits(t)'
    BY <1>1, <1>a, RecordFrame DEF Spawn, Terminal
  <2> QED BY <2>1, <2>2, <2>3 DEF BgInv, RecordMatchesReceipt, RecordFits
<1>2. ASSUME NEW u \in BgTasks, NEW verb \in CommandVerb, CommandChecks(u, verb) PROVE BgInv'
  <2>1. BgTypeOK'
    BY <1>2, BgAssumption DEF CommandChecks, BgInv, BgTypeOK
  <2>2. BgPending'
    BY <1>2, <1>a, <1>b DEF CommandChecks, BgInv, BgPending
  <2>3. ASSUME NEW t \in BgTasks PROVE RecordFits(t)'
    BY <1>2, <1>a, RecordFrame DEF CommandChecks
  <2> QED BY <2>1, <2>2, <2>3 DEF BgInv, RecordMatchesReceipt, RecordFits
<1>3. CASE CommandMints
  <2>0. repl.task \in BgTasks /\ repl.verb \in CommandVerb
    BY <1>3 DEF CommandMints, BgInv, BgPending
  <2>1. BgTypeOK'
    BY <1>3, <2>0 DEF CommandMints, BgInv, BgTypeOK
  <2>2. BgPending'
    BY <1>3, <1>a, <1>b, <2>0 DEF CommandMints, BgInv, BgPending
  <2>3. ASSUME NEW t \in BgTasks PROVE RecordFits(t)'
    BY <1>3, <1>a, RecordFrame DEF CommandMints
  <2> QED BY <2>1, <2>2, <2>3 DEF BgInv, RecordMatchesReceipt, RecordFits
<1>4. CASE CommandMintFails
  <2>1. BgTypeOK'
    BY <1>4, BgAssumption DEF CommandMintFails, BgInv, BgTypeOK
  <2>2. BgPending'
    BY <1>4, <1>a, <1>b DEF CommandMintFails, BgInv, BgPending
  <2>3. ASSUME NEW t \in BgTasks PROVE RecordFits(t)'
    BY <1>4, <1>a, RecordFrame DEF CommandMintFails
  <2> QED BY <2>1, <2>2, <2>3 DEF BgInv, RecordMatchesReceipt, RecordFits
<1>5. CASE CancelApplies
  <2>0. repl.task \in BgTasks /\ repl.verb \in {"cancelled", "interrupt"} /\ repl.verb \in minted[repl.task]
    BY <1>5 DEF CancelApplies, BgInv, BgPending
  <2>1. BgTypeOK'
    BY <1>5, <2>0 DEF CancelApplies, BgInv, BgTypeOK, Terminal, CommandVerb
  <2>2. BgPending'
    BY <1>5, <1>a, <1>b DEF CancelApplies, BgInv, BgPending
  <2>3. ASSUME NEW t \in BgTasks PROVE RecordFits(t)'
    <3>1. CASE t = repl.task
      BY <1>5, <1>a, <2>0, <3>1 DEF CancelApplies, RecordFits
    <3>2. CASE t # repl.task
      BY <1>5, <1>a, <2>0, <3>2, RecordFrame DEF CancelApplies
    <3> QED BY <3>1, <3>2
  <2> QED BY <2>1, <2>2, <2>3 DEF BgInv, RecordMatchesReceipt, RecordFits
<1>6. CASE SteerApplies
  <2>0. repl.task \in BgTasks /\ directives[repl.task] + 1 <= commands /\ commands \in 0..MaxCommands
    BY <1>6 DEF SteerApplies, BgInv, BgPending, BgTypeOK
  <2>a. directives[repl.task] + 1 \in 0..MaxCommands
    BY <2>0, <1>b, BgAssumption
  <2>1. BgTypeOK'
    BY <1>6, <2>0, <2>a DEF SteerApplies, BgInv, BgTypeOK
  <2>2. BgPending'
    BY <1>6, <1>a, <1>b, <2>0 DEF SteerApplies, BgInv, BgPending
  <2>3. ASSUME NEW t \in BgTasks PROVE RecordFits(t)'
    BY <1>6, <1>a, RecordFrame DEF SteerApplies
  <2> QED BY <2>1, <2>2, <2>3 DEF BgInv, RecordMatchesReceipt, RecordFits
<1> QED BY <1>1, <1>2, <1>3, <1>4, <1>5, <1>6 DEF ReplStep

\* Every step of a task or of the user keeps the invariant.
LEMMA BgNextInv == BgInv /\ [BgNext]_bgVars => BgInv'
<1>1. BgInv /\ UNCHANGED bgVars => BgInv'
  BY DEF bgVars, BgInv, BgTypeOK, BgPending, RecordMatchesReceipt
<1> QED BY <1>1, FutureKeeps, ReplKeeps DEF BgNext

\* A background task's record names a receipt that is in the log and says what
\* the record says, although cancel, interrupt and the outcome check, mint and
\* write without a common lock (background_task.rs, run_background_task).
THEOREM BackgroundRecordMatchesReceipt == BgSpec => []RecordMatchesReceipt
<1>1. BgInit => BgInv
  BY BgInitInv
<1>2. BgInv /\ [BgNext]_bgVars => BgInv'
  BY BgNextInv
<1>3. BgInv => RecordMatchesReceipt
  BY DEF BgInv
<1> QED BY <1>1, <1>2, <1>3, PTL DEF BgSpec

-----------------------------------------------------------------------------
(* Delegations *)

\* A permit belongs to a running worker whose caller waits, and a worker that is
\* running without a permit has lost its caller; there are never more permits
\* than the semaphore has. A child is being asked, being terminated, receipted or lost
\* in a panic.
DelegInv ==
  /\ DelegTypeOK
  /\ Cardinality(permits) <= MaxConcurrency
  /\ \A d \in permits : Running(d) /\ answered[d] = "none"
  /\ \A d \in Delegations : Running(d) /\ d \notin permits => answered[d] = "dropped"
  /\ \A d \in children : worker[d] \in {"ask", "terminate", "panicked"} \/ d \in receipted

\* Nothing runs and no permit is taken.
LEMMA DelegInitInv == DelegInit => DelegInv
BY DelegationAssumption, FS_EmptySet DEF DelegInit, DelegInv, DelegTypeOK, Running

\* Giving back a permit leaves no more of them.
LEMMA PermitReturned ==
  ASSUME DelegInv, NEW d
  PROVE  Cardinality(permits \ {d}) <= MaxConcurrency
<1>1. IsFiniteSet(permits) /\ Cardinality(permits) \in Nat
  BY DelegationAssumption, FS_Subset, FS_CardinalityType DEF DelegInv, DelegTypeOK
<1>2. Cardinality(permits \ {d}) <= Cardinality(permits) /\ Cardinality(permits \ {d}) \in Nat
  BY <1>1, FS_Subset, FS_CardinalityType
<1> QED BY <1>1, <1>2, DelegationAssumption DEF DelegInv

\* Every step of a call or of its thread keeps the invariant.
LEMMA DelegNextInv == DelegInv /\ [DelegNext]_delegVars => DelegInv'
<1> SUFFICES ASSUME DelegInv, [DelegNext]_delegVars PROVE DelegInv'
  OBVIOUS
<1>a. IsFiniteSet(permits) /\ Cardinality(permits) \in Nat /\ MaxConcurrency \in Nat
  BY DelegationAssumption, FS_Subset, FS_CardinalityType DEF DelegInv, DelegTypeOK
<1> USE DEF DelegInv, DelegTypeOK, Running
<1>1. ASSUME NEW d \in Delegations, Denies(d) PROVE DelegInv'
  BY <1>1 DEF Denies
<1>2. ASSUME NEW d \in Delegations, Delegates(d) PROVE DelegInv'
  <2>1. Cardinality(permits \cup {d}) <= MaxConcurrency
    <3>1. d \notin permits
      BY <1>2 DEF Delegates
    <3>2. Cardinality(permits \cup {d}) = Cardinality(permits) + 1
      BY <1>a, <3>1, FS_AddElement
    <3> QED BY <1>a, <1>2, <3>2 DEF Delegates
  <2> QED BY <1>2, <2>1 DEF Delegates
<1>3. ASSUME NEW d \in Delegations, WorkerSpawns(d) PROVE DelegInv'
  BY <1>3, PermitReturned DEF WorkerSpawns, Returns
<1>4. ASSUME NEW d \in Delegations, WorkerAsks(d) PROVE DelegInv'
  BY <1>4 DEF WorkerAsks
<1>5. ASSUME NEW d \in Delegations, WorkerTerminates(d) PROVE DelegInv'
  BY <1>5, PermitReturned DEF WorkerTerminates, Returns
<1>6. ASSUME NEW d \in Delegations, WorkerPanics(d) PROVE DelegInv'
  BY <1>6, PermitReturned DEF WorkerPanics, Returns
<1>7. ASSUME NEW d \in Delegations, InvokeDropped(d) PROVE DelegInv'
  BY <1>7, PermitReturned DEF InvokeDropped
<1>8. CASE UNCHANGED delegVars
  BY <1>8 DEF delegVars
<1> QED BY <1>1, <1>2, <1>3, <1>4, <1>5, <1>6, <1>7, <1>8 DEF DelegNext, WorkerStep

\* The threads are those with a permit and those whose call was dropped.
LEMMA DelegInvSound == DelegInv => DelegationSound
<1> SUFFICES ASSUME DelegInv PROVE DelegationSound
  OBVIOUS
<1> DEFINE Threads == {d \in Delegations : Running(d)}
           Orphans == {d \in Delegations : Running(d) /\ answered[d] = "dropped"}
<1>1. Threads = permits \cup Orphans /\ permits \subseteq Delegations
  BY DEF DelegInv, DelegTypeOK
<1>2. IsFiniteSet(permits) /\ IsFiniteSet(Orphans)
  BY <1>1, DelegationAssumption, FS_Subset
<1>3. Cardinality(Threads) <= Cardinality(permits) + Cardinality(Orphans)
  <2>1. /\ Cardinality(permits) \in Nat /\ Cardinality(Orphans) \in Nat
        /\ Cardinality(permits \cap Orphans) \in Nat
    BY <1>2, FS_CardinalityType, FS_Intersection
  <2>2. Cardinality(permits \cup Orphans) =
          Cardinality(permits) + Cardinality(Orphans) - Cardinality(permits \cap Orphans)
    BY <1>2, FS_Union
  <2> HIDE DEF Threads, Orphans
  <2> QED BY <1>1, <2>1, <2>2
<1>4. /\ Cardinality(permits) \in Nat /\ Cardinality(Orphans) \in Nat
      /\ Cardinality(Threads) \in Nat
  BY <1>1, <1>2, FS_CardinalityType, FS_Union
<1>5. CeilingBesideDropped
  <2>1. Cardinality(permits) <= MaxConcurrency /\ MaxConcurrency \in Nat
    BY DelegationAssumption DEF DelegInv
  <2>2. Cardinality(Threads) <= MaxConcurrency + Cardinality(Orphans)
    <3> HIDE DEF Threads, Orphans
    <3> QED BY <1>3, <1>4, <2>1
  <2> QED BY <2>2 DEF DelegInv, CeilingBesideDropped
<1>6. ChildReceipted
  BY DEF DelegInv, ChildReceipted
<1> QED BY <1>5, <1>6 DEF DelegationSound

\* However timeouts and cancelled turns drop the calls of delegate_task, the threads
\* that run beyond its permits are those of dropped calls, and a thread that ends
\* without a panic has terminated its child with a receipt, its call dropped or not.
THEOREM DelegationStaysSound == DelegSpec => []DelegationSound
<1>1. DelegInit => DelegInv
  BY DelegInitInv
<1>2. DelegInv /\ [DelegNext]_delegVars => DelegInv'
  BY DelegNextInv
<1>3. DelegInv => DelegationSound
  BY DelegInvSound
<1> QED BY <1>1, <1>2, <1>3, PTL DEF DelegSpec

-----------------------------------------------------------------------------
(* Sub-agents *)

Holding(i) == {a \in Askers : asking[a].at = "child" /\ asking[a].inst = i}
Cents == [a \in Askers |-> asking[a].cents]

\* The registry names spawned instances by their own ids, instances are numbered
\* as they are spawned, an ask in flight is on a spawned instance, and an instance
\* with a receipt is out of the registry for good.
RegistryInv ==
  /\ agents \in [AgentIds -> {NoInstance} \cup Instances]
  /\ idOf \in [Spawned -> AgentIds]
  /\ \E n \in 0..MaxInstances : Spawned = 1..n
  /\ closed \subseteq AgentIds /\ ending \subseteq AgentIds /\ chatAllowed \subseteq Spawned
  /\ reviving \in [AgentIds -> Nat]
  /\ used \in [Instances -> Nat] /\ spent \in [Instances -> Nat] /\ totals \in [Instances -> Nat]
  /\ asking \in [Askers -> [at : {"idle", "child"}, inst : {NoInstance} \cup Instances,
                            cents : AskCents \cup {0}]]
  /\ \A id \in AgentIds : agents[id] # NoInstance => agents[id] \in Spawned /\ idOf[agents[id]] = id
  /\ \A a \in Askers : asking[a].at = "child" => asking[a].inst \in Spawned
  /\ \A i \in Instances \ Spawned : used[i] = 0 /\ spent[i] = 0 /\ totals[i] = NoReceipt
  /\ \A i \in Spawned : totals[i] # NoReceipt => ~Live(i)
AgentInv == RegistryInv /\ SpendAccounted

\* The asks on an instance are finitely many and hold naturals.
LEMMA HeldType ==
  ASSUME RegistryInv, NEW i
  PROVE  /\ HeldFor(i) = SumFunctionOnSet(Cents, Holding(i))
         /\ IsFiniteSet(Holding(i)) /\ Holding(i) \subseteq Askers
         /\ \A a \in Askers : Cents[a] \in Nat /\ Cents[a] \in Int /\ Cents[a] = asking[a].cents
         /\ HeldFor(i) \in Nat
<1>1. HeldFor(i) = SumFunctionOnSet(Cents, Holding(i))
  BY DEF HeldFor, Cents, Holding
<1>2. IsFiniteSet(Holding(i)) /\ Holding(i) \subseteq Askers
  BY AgentAssumption, FS_Subset DEF Holding
<1>3. \A a \in Askers : Cents[a] \in Nat /\ Cents[a] \in Int /\ Cents[a] = asking[a].cents
  <2>1. \A a \in Askers : asking[a].cents \in AskCents \cup {0} /\ Cents[a] = asking[a].cents
    BY DEF RegistryInv, Cents
  <2>2. \A n \in AskCents \cup {0} : n \in Nat /\ n \in Int
    BY AgentAssumption
  <2> QED BY <2>1, <2>2
<1>4. HeldFor(i) \in Nat
  BY <1>1, <1>2, <1>3, SumNat
<1> QED BY <1>1, <1>2, <1>3, <1>4

\* Asks that do not change hold what they held.
LEMMA HeldSame == ASSUME UNCHANGED asking, NEW i PROVE HeldFor(i)' = HeldFor(i)
BY DEF HeldFor

\* An ask that starts adds its cents to its own instance's and to no other's.
LEMMA HeldStarts ==
  ASSUME RegistryInv, NEW a \in Askers, NEW i \in Instances, NEW cents \in AskCents,
         asking[a] = Idle,
         asking' = [asking EXCEPT ![a] = [at |-> "child", inst |-> i, cents |-> cents]]
  PROVE  HeldFor(i)' = HeldFor(i) + cents /\ \A j : j # i => HeldFor(j)' = HeldFor(j)
<1>1. asking \in [Askers -> [at : {"idle", "child"}, inst : {NoInstance} \cup Instances,
                             cents : AskCents \cup {0}]]
  BY DEF RegistryInv
<1>2. /\ \A b \in Askers \ {a} : asking'[b] = asking[b]
      /\ asking'[a] = [at |-> "child", inst |-> i, cents |-> cents]
      /\ cents \in Nat /\ cents \in Int
  BY <1>1, AgentAssumption
<1>3. ASSUME NEW j PROVE HeldFor(j)' = SumFunctionOnSet(Cents', Holding(j)')
  BY DEF HeldFor, Cents, Holding
<1>5. Cents'[a] = cents
  BY <1>2 DEF Cents
<1>4. \A b \in Askers : Cents[b] \in Int /\ Cents'[b] \in Int /\ (b # a => Cents'[b] = Cents[b])
  <2>1. \A b \in Askers : b # a => Cents'[b] = Cents[b]
    BY <1>2 DEF Cents
  <2>2. \A b \in Askers : Cents[b] \in Int
    BY HeldType
  <2> QED BY <1>2, <1>5, <2>1, <2>2
<1>6. ASSUME NEW j PROVE SumFunctionOnSet(Cents', Holding(j)) = HeldFor(j)
  <2>1. a \notin Holding(j)
    BY DEF Holding, Idle
  <2>2. IsFiniteSet(Holding(j)) /\ Holding(j) \subseteq Askers
    BY HeldType
  <2>3. \A x \in Holding(j) : Cents[x] \in Int
    BY <1>4, <2>2
  <2>4. \A x \in Holding(j) : Cents'[x] = Cents[x]
    BY <1>4, <2>1, <2>2
  <2> QED BY <2>2, <2>3, <2>4, SumSame, HeldType
<1>7. ASSUME NEW j, j # i PROVE HeldFor(j)' = HeldFor(j)
  <2>1. Holding(j)' = Holding(j)
    BY <1>2, <1>7 DEF Holding, Idle
  <2> QED BY <1>3, <1>6, <2>1
<1>8. HeldFor(i)' = HeldFor(i) + cents
  <2>1. Holding(i)' = Holding(i) \cup {a} /\ a \notin Holding(i)
    BY <1>2 DEF Holding, Idle
  <2>2. IsFiniteSet(Holding(i)) /\ Holding(i) \cup {a} \subseteq Askers
    BY HeldType
  <2>3. \A x \in Holding(i) \cup {a} : Cents'[x] \in Int
    BY <1>4, <2>2
  <2>4. SumFunctionOnSet(Cents', Holding(i) \cup {a}) = SumFunctionOnSet(Cents', Holding(i)) + Cents'[a]
    BY <2>1, <2>2, <2>3, SumJoin
  <2> QED BY <1>3, <1>5, <1>6, <2>1, <2>4
<1> QED BY <1>7, <1>8

\* An ask that ends takes them away again, and held them until then.
LEMMA HeldEnds ==
  ASSUME RegistryInv, NEW a \in Askers, asking[a].at = "child",
         NEW i, i = asking[a].inst, asking' = [asking EXCEPT ![a] = Idle]
  PROVE  /\ HeldFor(i)' \in Nat /\ HeldFor(i) = HeldFor(i)' + asking[a].cents
         /\ \A j : j # i => HeldFor(j)' = HeldFor(j)
<1>1. asking \in [Askers -> [at : {"idle", "child"}, inst : {NoInstance} \cup Instances,
                             cents : AskCents \cup {0}]]
  BY DEF RegistryInv
<1>2. (\A b \in Askers \ {a} : asking'[b] = asking[b]) /\ asking'[a] = Idle
  BY <1>1
<1>3. ASSUME NEW j PROVE HeldFor(j)' = SumFunctionOnSet(Cents', Holding(j) \ {a})
  <2>1. Holding(j)' = Holding(j) \ {a}
    BY <1>2 DEF Holding, Idle
  <2> QED BY <2>1 DEF HeldFor, Cents, Holding
<1>4. ASSUME NEW j PROVE HeldFor(j)' = SumFunctionOnSet(Cents, Holding(j) \ {a})
  <2>1. IsFiniteSet(Holding(j) \ {a}) /\ Holding(j) \ {a} \subseteq Askers
    BY HeldType, FS_RemoveElement
  <2>2. \A x \in Holding(j) \ {a} : Cents[x] \in Int
    BY <2>1, HeldType
  <2>3. \A x \in Holding(j) \ {a} : Cents'[x] = Cents[x]
    BY <1>2, <2>1 DEF Cents
  <2> QED BY <1>3, <2>1, <2>2, <2>3, SumSame
<1>5. ASSUME NEW j, j # i PROVE HeldFor(j)' = HeldFor(j)
  <2>1. Holding(j) \ {a} = Holding(j)
    BY <1>5 DEF Holding
  <2> QED BY <1>4, <2>1, HeldType
<1>6. HeldFor(i)' \in Nat /\ HeldFor(i) = HeldFor(i)' + asking[a].cents
  <2>1. a \in Holding(i) /\ IsFiniteSet(Holding(i)) /\ Holding(i) \subseteq Askers
    BY HeldType DEF Holding
  <2>2. IsFiniteSet(Holding(i) \ {a})
    BY <2>1, FS_RemoveElement
  <2>3. \A x \in Askers : Cents[x] \in Nat /\ Cents[x] \in Int
    BY HeldType
  <2>4. SumFunctionOnSet(Cents, Holding(i)) = Cents[a] + SumFunctionOnSet(Cents, Holding(i) \ {a})
    BY <2>1, <2>3, SumTakeOut
  <2>5. SumFunctionOnSet(Cents, Holding(i) \ {a}) \in Nat
    BY <2>1, <2>2, <2>3, SumNat
  <2>6. HeldFor(i)' = SumFunctionOnSet(Cents, Holding(i) \ {a})
    BY <1>4
  <2>7. HeldFor(i) = Cents[a] + HeldFor(i)' /\ HeldFor(i)' \in Nat
    BY <2>4, <2>5, <2>6, HeldType
  <2>8. Cents[a] \in Nat /\ Cents[a] = asking[a].cents
    BY HeldType
  <2>9. \A x, y \in Nat : x + y = y + x
    OBVIOUS
  <2> QED BY <2>7, <2>8, <2>9
<1> QED BY <1>5, <1>6

\* One instance's account: the two halves of SpendAccounted.
AccountOf(i) ==
  /\ Live(i) => used[i] = spent[i] + HeldFor(i)
  /\ used[i] >= spent[i] + HeldFor(i)
  /\ used[i] <= CentsMax
  /\ totals[i] # NoReceipt => totals[i] >= spent[i] + HeldFor(i)

\* SpendAccounted, instance by instance.
LEMMA AccountSplit == SpendAccounted <=> \A i \in Spawned : AccountOf(i)
BY DEF SpendAccounted, MeterExact, ReceiptCoversSpend, AccountOf

\* An empty registry.
LEMMA AgentInitInv == AgentInit => AgentInv
<1> SUFFICES ASSUME AgentInit PROVE AgentInv
  OBVIOUS
<1>1. Spawned = {} /\ idOf \in [Spawned -> AgentIds] /\ Spawned = 1..0
  BY DEF AgentInit, Spawned
<1>2. \E n \in 0..MaxInstances : Spawned = 1..n
  BY <1>1, AgentAssumption
<1>3. RegistryInv
  BY <1>1, <1>2 DEF AgentInit, RegistryInv, Idle, NoInstance, NoReceipt, Instances
<1> QED BY <1>1, <1>3 DEF AgentInv, SpendAccounted, MeterExact, ReceiptCoversSpend

\* Spawning numbers a fresh instance and leaves every account as it is; an
\* instance that is replaced under its id stops being live.
LEMMA SpawnKeeps ==
  ASSUME AgentInv, NEW id \in AgentIds, NEW chat \in BOOLEAN, SpawnAgent(id, chat)
  PROVE  AgentInv'
<1>0. PICK n \in 0..MaxInstances : Spawned = 1..n
  BY DEF AgentInv, RegistryInv
<1>1. Cardinality(Spawned) = n /\ n \in Nat /\ n < MaxInstances /\ MaxInstances \in Nat
  <2>1. Cardinality(1..n) = n
    BY <1>0, AgentAssumption, FS_Interval
  <2> QED BY <1>0, <2>1, AgentAssumption DEF SpawnAgent
<1> DEFINE i == n + 1
<1>2. /\ idOf' = [j \in Spawned \cup {i} |-> IF j = i THEN id ELSE idOf[j]]
      /\ agents' = [agents EXCEPT ![id] = i]
      /\ chatAllowed' = IF chat THEN chatAllowed \cup {i} ELSE chatAllowed
      /\ reviving[id] > 0 /\ reviving' = [reviving EXCEPT ![id] = @ - 1]
      /\ UNCHANGED <<closed, used, asking, ending, spent, totals>>
  BY <1>1 DEF SpawnAgent
<1>3. i \in Instances /\ i \notin Spawned /\ Spawned \cup {i} = 1..i /\ i \in 0..MaxInstances
      /\ Spawned \subseteq Instances /\ i # NoInstance
  BY <1>0, <1>1 DEF Instances, NoInstance
<1> HIDE DEF i
<1>4. /\ Spawned' = Spawned \cup {i} /\ idOf'[i] = id /\ (\A j \in Spawned : idOf'[j] = idOf[j])
      /\ idOf' \in [Spawned' -> AgentIds]
  BY <1>2, <1>3 DEF Spawned, AgentInv, RegistryInv
<1>5. /\ agents' \in [AgentIds -> {NoInstance} \cup Instances] /\ agents'[id] = i
      /\ \A x \in AgentIds \ {id} : agents'[x] = agents[x]
  BY <1>2, <1>3 DEF AgentInv, RegistryInv
<1>6. \A j \in Spawned : Live(j)' => Live(j)
  BY <1>3, <1>4, <1>5 DEF Live, AgentInv, RegistryInv
<1>7. RegistryInv'
  <2>1. \E m \in 0..MaxInstances : Spawned' = 1..m
    BY <1>3, <1>4
  <2>2. \A x \in AgentIds : agents'[x] # NoInstance => agents'[x] \in Spawned' /\ idOf'[agents'[x]] = x
    BY <1>3, <1>4, <1>5 DEF AgentInv, RegistryInv
  <2>3. closed' \subseteq AgentIds /\ chatAllowed' \subseteq Spawned'
    BY <1>2, <1>4 DEF AgentInv, RegistryInv
  <2>4. \A a \in Askers : asking'[a].at = "child" => asking'[a].inst \in Spawned'
    BY <1>2, <1>4 DEF AgentInv, RegistryInv
  <2>5. \A j \in Instances \ Spawned' : used'[j] = 0 /\ spent'[j] = 0 /\ totals'[j] = NoReceipt
    BY <1>2, <1>4 DEF AgentInv, RegistryInv
  <2>6. \A j \in Spawned' : totals'[j] # NoReceipt => ~Live(j)'
    BY <1>2, <1>3, <1>4, <1>6 DEF AgentInv, RegistryInv
  <2>7. ending' \subseteq AgentIds /\ used' \in [Instances -> Nat] /\ spent' \in [Instances -> Nat]
        /\ totals' \in [Instances -> Nat]
        /\ asking' \in [Askers -> [at : {"idle", "child"}, inst : {NoInstance} \cup Instances,
                                   cents : AskCents \cup {0}]]
    BY <1>2 DEF AgentInv, RegistryInv
  <2>8. reviving' \in [AgentIds -> Nat]
    BY <1>2 DEF AgentInv, RegistryInv
  <2> QED BY <1>4, <1>5, <2>1, <2>2, <2>3, <2>4, <2>5, <2>6, <2>7, <2>8 DEF RegistryInv
<1>8. ASSUME NEW j \in Spawned' PROVE AccountOf(j)'
  <2>0. HeldFor(j)' = HeldFor(j)
    BY <1>2, HeldSame
  <2>1. CASE j \in Spawned
    BY <1>2, <1>6, <2>0, <2>1, AccountSplit DEF AgentInv, AccountOf
  <2>2. CASE j = i
    <3>1. Holding(j) = {}
      BY <1>3, <2>2 DEF Holding, AgentInv, RegistryInv
    <3>2. HeldFor(j) = 0
      BY <3>1, SumEmpty, HeldType DEF AgentInv
    <3>3. used[j] = 0 /\ spent[j] = 0 /\ totals[j] = NoReceipt
      BY <1>3, <2>2 DEF AgentInv, RegistryInv
    <3> QED BY <1>2, <2>0, <3>2, <3>3, AgentAssumption DEF AccountOf
  <2> QED BY <1>4, <2>1, <2>2
<1> QED BY <1>7, <1>8 DEF AgentInv, AccountOf, SpendAccounted, MeterExact, ReceiptCoversSpend

\* An ask's reservation and what it holds go up together.
LEMMA AskKeeps ==
  ASSUME AgentInv, NEW a \in Askers, NEW i \in Spawned, NEW cents \in AskCents,
         AskReserves(a, i, cents)
  PROVE  AgentInv'
<1>0. PICK n \in 0..MaxInstances : Spawned = 1..n
  BY DEF AgentInv, RegistryInv
<1>1. Spawned \subseteq Instances /\ i \in Instances /\ cents \in Nat /\ RegistryInv /\ NoInstance \notin Instances
  BY <1>0, AgentAssumption DEF Instances, AgentInv, NoInstance
<1>2. /\ asking[a] = Idle /\ Live(i) /\ Fits(i, cents)
      /\ used' = [used EXCEPT ![i] = @ + cents]
      /\ asking' = [asking EXCEPT ![a] = [at |-> "child", inst |-> i, cents |-> cents]]
      /\ UNCHANGED <<agents, idOf, closed, chatAllowed, reviving, ending, spent, totals>>
  BY DEF AskReserves
<1>3. /\ HeldFor(i)' = HeldFor(i) + cents /\ \A j : j # i => HeldFor(j)' = HeldFor(j)
  BY <1>1, <1>2, HeldStarts
<1>4. Spawned' = Spawned /\ \A j : Live(j)' <=> Live(j)
  BY <1>2 DEF Spawned, Live
<1>5. used \in [Instances -> Nat] /\ used' \in [Instances -> Nat] /\ used'[i] = used[i] + cents
      /\ \A j \in Instances \ {i} : used'[j] = used[j]
  <2>1. used \in [Instances -> Nat]
    BY <1>1 DEF RegistryInv
  <2>2. used' = [used EXCEPT ![i] = @ + cents] /\ i \in Instances /\ cents \in Nat
    BY <1>1, <1>2
  <2> QED BY ONLY <2>1, <2>2
<1>6. RegistryInv'
  <2>1. asking' \in [Askers -> [at : {"idle", "child"}, inst : {NoInstance} \cup Instances,
                                cents : AskCents \cup {0}]]
    BY <1>1, <1>2 DEF RegistryInv
  <2>2. \A b \in Askers : asking'[b].at = "child" => asking'[b].inst \in Spawned'
    BY <1>2, <1>4 DEF AgentInv, RegistryInv
  <2>3. \A j \in Instances \ Spawned' : used'[j] = 0
    BY <1>1, <1>4, <1>5 DEF RegistryInv
  <2> QED BY <1>1, <1>2, <1>4, <1>5, <2>1, <2>2, <2>3 DEF RegistryInv
<1>7. ASSUME NEW j \in Spawned PROVE AccountOf(j)'
  <2>1. AccountOf(j) /\ spent[j] \in Nat /\ HeldFor(j) \in Nat /\ totals[j] \in Nat /\ used[j] \in Nat
    BY <1>1, AccountSplit, HeldType DEF AgentInv, RegistryInv
  <2>2. CASE j = i
    <3>1. used[i] + cents <= CentsMax /\ used[i] = spent[i] + HeldFor(i) /\ totals[i] = NoReceipt
      BY <1>1, <1>2, <2>1, <2>2 DEF Fits, AccountOf, RegistryInv
    <3> QED BY <1>1, <1>2, <1>3, <1>5, <2>1, <2>2, <3>1 DEF AccountOf
  <2>3. CASE j # i
    BY <1>1, <1>2, <1>3, <1>4, <1>5, <2>1, <2>3 DEF AccountOf
  <2> QED BY <2>2, <2>3
<1> QED BY <1>4, <1>6, <1>7 DEF AgentInv, AccountOf, SpendAccounted, MeterExact, ReceiptCoversSpend

\* A child that answers turns what its ask held into what it spent; one that
\* fails gives it back, if the instance is still the one it reserved from.
LEMMA ChildKeeps ==
  ASSUME AgentInv, NEW a \in Askers, ChildAnswers(a) \/ ChildFails(a)
  PROVE  AgentInv'
<1>0. PICK n \in 0..MaxInstances : Spawned = 1..n
  BY DEF AgentInv, RegistryInv
<1>a. PICK i : i = asking[a].inst
  OBVIOUS
<1>b. PICK cents : cents = asking[a].cents
  OBVIOUS
<1>1. /\ asking[a].at = "child" /\ i \in Spawned /\ i \in Instances /\ Spawned \subseteq Instances
      /\ cents \in Nat /\ RegistryInv
  <2>1. asking[a].at = "child" /\ RegistryInv
    BY DEF ChildAnswers, ChildFails, AgentInv
  <2>2. i \in Spawned
    BY <2>1, <1>a DEF RegistryInv
  <2>3. cents \in Nat
    BY <2>1, <1>b, HeldType
  <2> QED BY <1>0, <2>1, <2>2, <2>3, AgentAssumption DEF Instances
<1>2. /\ asking' = [asking EXCEPT ![a] = Idle]
      /\ UNCHANGED <<agents, idOf, closed, chatAllowed, reviving, ending, totals>>
  BY DEF ChildAnswers, ChildFails
<1>3. /\ HeldFor(i)' \in Nat /\ HeldFor(i) = HeldFor(i)' + cents
      /\ \A j : j # i => HeldFor(j)' = HeldFor(j)
  BY <1>1, <1>2, <1>a, <1>b, HeldEnds
<1>4. Spawned' = Spawned /\ \A j : Live(j)' <=> Live(j)
  BY <1>2 DEF Spawned, Live
<1>5. used \in [Instances -> Nat] /\ spent \in [Instances -> Nat]
      /\ used[i] \in Nat /\ spent[i] \in Nat /\ totals[i] \in Nat
  BY <1>1 DEF RegistryInv
<1>6. AccountOf(i)
  BY <1>1, AccountSplit DEF AgentInv
<1>7. /\ used' \in [Instances -> Nat] /\ spent' \in [Instances -> Nat]
      /\ \A j \in Instances \ {i} : used'[j] = used[j] /\ spent'[j] = spent[j]
      /\ \/ used'[i] = used[i] /\ spent'[i] = spent[i] + cents
         \/ Live(i) /\ used'[i] = used[i] - cents /\ spent'[i] = spent[i]
         \/ ~Live(i) /\ used'[i] = used[i] /\ spent'[i] = spent[i]
  <2>1. CASE ChildAnswers(a)
    <3>1. spent' = [spent EXCEPT ![i] = @ + cents] /\ used' = used
      BY <2>1, <1>a, <1>b DEF ChildAnswers
    <3> QED BY <1>1, <1>5, <3>1
  <2>2. CASE ChildFails(a) /\ Live(i)
    <3>1. used' = [used EXCEPT ![i] = IF @ > cents THEN @ - cents ELSE 0] /\ spent' = spent
      BY <2>2, <1>a, <1>b DEF ChildFails, Released
    <3>2. used[i] >= cents
      BY <1>1, <1>3, <1>5, <1>6 DEF AccountOf
    <3>3. (IF used[i] > cents THEN used[i] - cents ELSE 0) = used[i] - cents /\ used[i] - cents \in Nat
      BY <1>1, <1>5, <3>2
    <3> QED BY <1>1, <1>5, <2>2, <3>1, <3>3
  <2>3. CASE ChildFails(a) /\ ~Live(i)
    BY <2>3, <1>a, <1>b, <1>5 DEF ChildFails, Released
  <2> QED BY <2>1, <2>2, <2>3
<1>8. RegistryInv'
  <2>1. asking' \in [Askers -> [at : {"idle", "child"}, inst : {NoInstance} \cup Instances,
                                cents : AskCents \cup {0}]]
    BY <1>1, <1>2 DEF RegistryInv, Idle
  <2>2. \A b \in Askers : asking'[b].at = "child" => asking'[b].inst \in Spawned'
    BY <1>2, <1>4 DEF AgentInv, RegistryInv, Idle
  <2>3. \A j \in Instances \ Spawned' : used'[j] = 0 /\ spent'[j] = 0
    BY <1>1, <1>4, <1>7 DEF RegistryInv
  <2> QED BY <1>1, <1>2, <1>4, <1>7, <2>1, <2>2, <2>3 DEF RegistryInv
<1>9. ASSUME NEW j \in Spawned PROVE AccountOf(j)'
  <2>1. CASE j = i
    BY <1>1, <1>2, <1>3, <1>4, <1>5, <1>6, <1>7, <2>1, AgentAssumption DEF AccountOf
  <2>2. CASE j # i
    <3>1. AccountOf(j)
      BY AccountSplit DEF AgentInv
    <3> QED BY <1>1, <1>2, <1>3, <1>4, <1>7, <2>2, <3>1 DEF AccountOf
  <2> QED BY <2>1, <2>2
<1> QED BY <1>4, <1>8, <1>9 DEF AgentInv, AccountOf, SpendAccounted, MeterExact, ReceiptCoversSpend

\* The receipt is made of a live instance's exact meter, and nothing reserves
\* from the instance afterwards.
LEMMA TerminateKeeps == ASSUME AgentInv, NEW k \in Spawned, Terminate(k) PROVE AgentInv'
<1>0. PICK n \in 0..MaxInstances : Spawned = 1..n
  BY DEF AgentInv, RegistryInv
<1>1. Spawned \subseteq Instances /\ RegistryInv /\ NoInstance \notin Instances
  BY <1>0, AgentAssumption DEF Instances, AgentInv, NoInstance
<1>2. PICK id \in AgentIds : id = idOf[k]
  BY <1>1 DEF RegistryInv
<1>3. PICK gone \in Spawned : gone = agents[id] /\ idOf[gone] = id /\ Live(gone)
  BY <1>1, <1>2 DEF Terminate, RegistryInv, Live
<1>4. /\ totals' = [totals EXCEPT ![gone] = used[gone]]
      /\ agents' = [agents EXCEPT ![id] = NoInstance]
      /\ ending' = ending \cup {id}
      /\ UNCHANGED <<idOf, closed, used, chatAllowed, asking, reviving, spent>>
  BY <1>2, <1>3 DEF Terminate
<1>5. Spawned' = Spawned /\ \A j \in Spawned : (Live(j)' => Live(j) /\ j # gone)
  BY <1>1, <1>3, <1>4 DEF Spawned, Live, RegistryInv
<1>6. RegistryInv'
  <2>1. agents' \in [AgentIds -> {NoInstance} \cup Instances] /\ totals' \in [Instances -> Nat]
        /\ ending' \subseteq AgentIds
    BY <1>1, <1>3, <1>4 DEF RegistryInv
  <2>2. \A x \in AgentIds : agents'[x] # NoInstance => agents'[x] \in Spawned' /\ idOf'[agents'[x]] = x
    BY <1>1, <1>4, <1>5 DEF RegistryInv
  <2>3. \A j \in Spawned' : totals'[j] # NoReceipt => ~Live(j)'
    BY <1>1, <1>4, <1>5 DEF RegistryInv
  <2>4. \A j \in Instances \ Spawned' : totals'[j] = NoReceipt
    BY <1>1, <1>3, <1>4, <1>5 DEF RegistryInv
  <2> QED BY <1>1, <1>4, <1>5, <2>1, <2>2, <2>3, <2>4 DEF RegistryInv
<1>7. ASSUME NEW j \in Spawned PROVE AccountOf(j)'
  <2>1. AccountOf(j) /\ HeldFor(j)' = HeldFor(j) /\ spent[j] \in Nat /\ HeldFor(j) \in Nat /\ used[j] \in Nat
    BY <1>1, <1>4, AccountSplit, HeldSame, HeldType DEF AgentInv, RegistryInv
  <2>2. totals'[j] = totals[j] \/ totals'[j] = used[j]
    BY <1>1, <1>3, <1>4 DEF RegistryInv
  <2> QED BY <1>4, <1>5, <2>1, <2>2 DEF AccountOf
<1> QED BY <1>5, <1>6, <1>7 DEF AgentInv, AccountOf, SpendAccounted, MeterExact, ReceiptCoversSpend

\* Every step of the registry keeps its accounts.
LEMMA AgentNextInv == AgentInv /\ [AgentNext]_agentVars => AgentInv'
<1> SUFFICES ASSUME AgentInv, [AgentNext]_agentVars PROVE AgentInv'
  OBVIOUS
<1>1. ASSUME NEW id \in AgentIds, TerminateNotes(id) PROVE AgentInv'
  <2>1. \A i : HeldFor(i)' = HeldFor(i)
    BY <1>1, HeldSame DEF TerminateNotes
  <2>2. RegistryInv'
    BY <1>1 DEF TerminateNotes, AgentInv, RegistryInv, Spawned, Live
  <2>3. SpendAccounted'
    BY <1>1, <2>1 DEF TerminateNotes, AgentInv, SpendAccounted, MeterExact, ReceiptCoversSpend, Spawned, Live
  <2> QED BY <2>2, <2>3 DEF AgentInv
<1>3. ASSUME NEW id \in AgentIds, SpawnRevives(id) PROVE AgentInv'
  <2>1. \A i : HeldFor(i)' = HeldFor(i)
    BY <1>3, HeldSame DEF SpawnRevives
  <2>2. RegistryInv'
    BY <1>3 DEF SpawnRevives, AgentInv, RegistryInv, Spawned, Live
  <2>3. SpendAccounted'
    BY <1>3, <2>1 DEF SpawnRevives, AgentInv, SpendAccounted, MeterExact, ReceiptCoversSpend, Spawned, Live
  <2> QED BY <2>2, <2>3 DEF AgentInv
<1>2. CASE UNCHANGED agentVars
  <2>1. \A i : HeldFor(i)' = HeldFor(i)
    BY <1>2, HeldSame DEF agentVars
  <2>2. RegistryInv'
    BY <1>2 DEF agentVars, AgentInv, RegistryInv, Spawned, Live
  <2>3. SpendAccounted'
    BY <1>2, <2>1 DEF agentVars, AgentInv, SpendAccounted, MeterExact, ReceiptCoversSpend, Spawned, Live
  <2> QED BY <2>2, <2>3 DEF AgentInv
<1> QED BY <1>1, <1>2, <1>3, SpawnKeeps, AskKeeps, ChildKeeps, TerminateKeeps DEF AgentNext

\* A sub-agent's meter is what its asks spent and hold, within its envelope, and
\* its termination receipt covers what it ever spends, whichever asks fail and
\* whichever ids are terminated and spawned again while they run.
THEOREM AgentsSpendAccounted == AgentSpec => []SpendAccounted
<1>1. AgentInit => AgentInv
  BY AgentInitInv
<1>2. AgentInv /\ [AgentNext]_agentVars => AgentInv'
  BY AgentNextInv
<1>3. AgentInv => SpendAccounted
  BY DEF AgentInv
<1> QED BY <1>1, <1>2, <1>3, PTL DEF AgentSpec

-----------------------------------------------------------------------------
(* Capability tokens *)

\* A set of naturals that is not empty has a least member, the one Least chooses.
LEMMA LeastWorks ==
  ASSUME NEW S, S \subseteq Nat, S # {}
  PROVE  Least(S) \in S /\ \A k \in S : Least(S) <= k
BY LeastOf DEF Least

\* Blocks of a token that was issued: its scope and what narrows it.
CapInv == token \in Seq(Scopes \cup Narrowings) /\ CapTypeOK

\* No token yet.
LEMMA CapInitInv == CapInit => CapInv
BY DEF CapInit, CapInv, CapTypeOK

\* Issuing and attenuating keep a token's shape.
LEMMA CapNextInv == CapInv /\ [CapNext]_token => CapInv'
<1> SUFFICES ASSUME CapInv, [CapNext]_token PROVE CapInv'
  OBVIOUS
<1>1. ASSUME NEW scope \in Scopes, Issues(scope) PROVE CapInv'
  BY <1>1 DEF CapInv, CapTypeOK, Issues
<1>2. ASSUME NEW rule \in Narrowings, Attenuates(rule) PROVE CapInv'
  <2>1. token' \in Seq(Scopes \cup Narrowings) /\ Len(token') = Len(token) + 1
    BY <1>2 DEF CapInv, Attenuates
  <2>2. Len(token) \in Nat /\ Len(token) > 0 /\ token \in Seq(Scopes \cup Narrowings)
    BY <1>2 DEF CapInv, Attenuates
  <2>3. \A i \in 1..Len(token) : token'[i] = token[i]
    BY <1>2, <2>2 DEF Attenuates
  <2>4. token'[Len(token) + 1] = rule
    BY <1>2, <2>2 DEF Attenuates
  <2>5. token'[1] \in Scopes
    BY <1>2, <2>2, <2>3 DEF CapInv, CapTypeOK, Attenuates
  <2>6. ASSUME NEW i \in 2..Len(token') PROVE token'[i] \in Narrowings
    BY <1>2, <2>1, <2>2, <2>3, <2>4 DEF CapInv, CapTypeOK, Attenuates
  <2> QED BY <2>1, <2>5, <2>6 DEF CapInv, CapTypeOK
<1>3. CASE UNCHANGED token
  BY <1>3 DEF CapInv, CapTypeOK
<1> QED BY <1>1, <1>2, <1>3 DEF CapNext

\* The error reported tells which checks failed.
LEMMA ErrorSays ==
  ASSUME NEW t, NEW req
  PROVE  /\ AuthzError(t, req) = "none" <=> FailedChecks(t, req) = {}
         /\ AuthzError(t, req) = "BudgetExhausted" =>
              \A p \in {"time", "audience", "tool"} : p \notin FailedChecks(t, req)
<1>1. FailedChecks(t, req) \subseteq {"time", "audience", "tool", "cost"}
  BY DEF FailedChecks
<1> QED BY <1>1 DEF AuthzError

\* A block lets a request through.
Passes(b, req) ==
  /\ b.kind \in {"scope", "expiry"} => ~(req.now > b.expires)
  /\ b.kind \in {"scope", "audience"} => req.audience = b.audience
  /\ b.kind \in {"scope", "tools"} => req.tool \in b.tools
  /\ b.kind \in {"scope", "budget"} => ~(ClampI64(req.cost) > ClampI64(b.budget))

\* No check fails exactly when every block lets the request through.
LEMMA NoneFails ==
  ASSUME NEW t, NEW req
  PROVE  AuthzError(t, req) = "none" <=> \A i \in 1..Len(t) : Passes(t[i], req)
<1>1. FailedChecks(t, req) = {} <=>
        \A p \in {"time", "audience", "tool", "cost"}, i \in 1..Len(t) : ~Violates(t[i], req, p)
  BY DEF FailedChecks
<1>2. ASSUME NEW b
      PROVE Passes(b, req) <=> \A p \in {"time", "audience", "tool", "cost"} : ~Violates(b, req, p)
  BY DEF Violates, Passes
<1> QED BY <1>1, <1>2, ErrorSays

\* Blocks of an issued token: the first is its scope, the others are not.
LEMMA Blocks ==
  ASSUME CapInv, token # <<>>
  PROVE  /\ 1 \in 1..Len(token) /\ Len(token) \in Nat
         /\ \A i \in 1..Len(token) : token[i].expires \in Nat /\ token[i].budget \in Nat
         /\ \A i \in 1..Len(token) : token[i].kind = "scope" <=> i = 1
<1>1. Len(token) \in Nat /\ Len(token) > 0
  BY DEF CapInv
<1>2. token[1].kind = "scope"
  BY CapTokenAssumption DEF CapInv, CapTypeOK
<1>3. \A i \in 2..Len(token) : token[i] \in Narrowings /\ token[i].kind # "scope"
  BY CapTokenAssumption DEF CapInv, CapTypeOK
<1>4. \A i \in 1..Len(token) : token[i] \in Scopes \cup Narrowings
  BY DEF CapInv
<1>5. \A i \in 1..Len(token) : token[i].kind = "scope" <=> i = 1
  BY <1>1, <1>2, <1>3
<1> QED BY <1>1, <1>4, <1>5, CapTokenAssumption

\* An i64 is a natural that no number of the token exceeds.
LEMMA Clamped ==
  ASSUME NEW n \in Nat
  PROVE  ClampI64(n) \in Nat /\ ClampI64(n) <= n /\ ClampI64(n) <= I64Max
         /\ (n <= I64Max => ClampI64(n) = n)
         /\ \A k \in Nat : k <= n => ClampI64(k) <= ClampI64(n)
BY CapTokenAssumption DEF ClampI64

\* What a token allows, what is left of it without its last blocks allows.
LEMMA PrefixAllows ==
  ASSUME CapInv, token # <<>>, NEW req, Authorized(token, req), NEW n \in 1..Len(token)
  PROVE  Authorized(SubSeq(token, 1, n), req)
<1> DEFINE s == SubSeq(token, 1, n)
<1>1. Len(token) \in Nat /\ token \in Seq(Scopes \cup Narrowings)
  BY DEF CapInv
<1>2. Len(s) = n /\ \A i \in 1..n : s[i] = token[i] /\ i \in 1..Len(token)
  BY <1>1
<1> HIDE DEF s
<1>3. AuthzError(s, req) = "none"
  BY <1>2, NoneFails DEF Authorized
<1>4. OfKind(s, {"other"}) = {}
  BY <1>2 DEF Authorized, Projectable, OfKind
<1> QED BY <1>3, <1>4 DEF Authorized, Projectable, s

\* The claims' expiry and budget are the least of what bounds them.
LEMMA ClaimsLeast ==
  ASSUME CapInv, token # <<>>
  PROVE  LET claims == effective_claims(token) IN
         /\ claims.tools = {x \in token[1].tools : \A r \in OfKind(token, {"tools"}) : x \in r.tools}
         /\ claims.audience = token[1].audience
         /\ \E i \in 1..Len(token) : /\ token[i].kind \in {"scope", "expiry"}
                                     /\ claims.expires = token[i].expires
         /\ claims.budget \in Nat /\ claims.budget <= token[1].budget
         /\ \A i \in 1..Len(token) : token[i].kind = "budget" => claims.budget <= ClampI64(token[i].budget)
         /\ \/ claims.budget = token[1].budget
            \/ \E i \in 1..Len(token) : /\ token[i].kind = "budget"
                                        /\ claims.budget = ClampI64(token[i].budget)
<1> DEFINE E == {r.expires : r \in OfKind(token, {"scope", "expiry"})}
           B == {token[1].budget} \cup {ClampI64(r.budget) : r \in OfKind(token, {"budget"})}
           claims == effective_claims(token)
<1>0. \A K : \A r : r \in OfKind(token, K) <=> \E i \in 1..Len(token) : r = token[i] /\ r.kind \in K
  BY DEF OfKind
<1>1. E \subseteq Nat /\ token[1].expires \in E
  BY <1>0, Blocks
<1>2. B \subseteq Nat /\ token[1].budget \in B
  BY <1>0, Blocks, Clamped
<1>3. Least(E) \in E
  BY <1>1, LeastWorks
<1>4. Least(B) \in B /\ \A k \in B : Least(B) <= k
  BY <1>2, LeastWorks
<1>5. /\ claims.expires = Least(E) /\ claims.budget = Least(B)
      /\ claims.tools = {x \in token[1].tools : \A r \in OfKind(token, {"tools"}) : x \in r.tools}
      /\ claims.audience = token[1].audience
  BY DEF effective_claims
<1>6. \E i \in 1..Len(token) : token[i].kind \in {"scope", "expiry"} /\ claims.expires = token[i].expires
  <2>1. PICK r \in OfKind(token, {"scope", "expiry"}) : Least(E) = r.expires
    BY <1>3
  <2>2. claims.expires = r.expires
    BY <1>5, <2>1
  <2> HIDE DEF claims, E
  <2>3. PICK i \in 1..Len(token) : r = token[i] /\ r.kind \in {"scope", "expiry"}
    BY <1>0
  <2> QED BY <2>2, <2>3
<1>7. \A i \in 1..Len(token) : token[i].kind = "budget" => ClampI64(token[i].budget) \in B
  BY <1>0
<1>8. \/ claims.budget = token[1].budget
      \/ \E i \in 1..Len(token) : token[i].kind = "budget" /\ claims.budget = ClampI64(token[i].budget)
  <2>1. CASE Least(B) = token[1].budget
    BY <1>5, <2>1
  <2>2. CASE Least(B) # token[1].budget
    <3>1. PICK r \in OfKind(token, {"budget"}) : Least(B) = ClampI64(r.budget)
      BY <1>4, <2>2
    <3>2. claims.budget = ClampI64(r.budget)
      BY <1>5, <3>1
    <3> HIDE DEF claims, B
    <3>3. PICK i \in 1..Len(token) : r = token[i] /\ r.kind \in {"budget"}
      BY <1>0
    <3> QED BY <3>2, <3>3
  <2> QED BY <2>1, <2>2
<1> HIDE DEF B, E, claims
<1>9. claims.budget \in Nat /\ claims.budget <= token[1].budget
      /\ \A i \in 1..Len(token) : token[i].kind = "budget" => claims.budget <= ClampI64(token[i].budget)
  BY <1>2, <1>4, <1>5, <1>7
<1> QED BY <1>5, <1>6, <1>8, <1>9 DEF claims

\* The claims are as narrow as the checks, and no narrower than the request.
LEMMA ClaimsFit ==
  ASSUME CapInv, token # <<>>, NEW req \in Requests, Authorized(token, req)
  PROVE  LET claims == effective_claims(token) IN
         /\ req.now <= claims.expires /\ req.tool \in claims.tools
         /\ ClampI64(req.cost) <= claims.budget /\ req.audience = claims.audience
         /\ \A tool \in claims.tools, cost \in 0..claims.budget :
              Authorized(token, [req EXCEPT !.tool = tool, !.cost = cost])
<1> DEFINE claims == effective_claims(token)
<1>0. /\ \A i \in 1..Len(token) : Passes(token[i], req)
      /\ req.now \in Nat /\ req.cost \in Nat /\ Projectable(token)
      /\ 1 \in 1..Len(token) /\ token[1].kind = "scope"
      /\ \A i \in 1..Len(token) : /\ token[i].expires \in Nat /\ token[i].budget \in Nat
                                  /\ token[i].kind = "scope" <=> i = 1
  BY NoneFails, Blocks, CapTokenAssumption DEF Authorized
<1>1. /\ claims.tools = {x \in token[1].tools : \A r \in OfKind(token, {"tools"}) : x \in r.tools}
      /\ claims.audience = token[1].audience
      /\ \E i \in 1..Len(token) : /\ token[i].kind \in {"scope", "expiry"}
                                  /\ claims.expires = token[i].expires
      /\ claims.budget \in Nat /\ claims.budget <= token[1].budget
      /\ \A i \in 1..Len(token) : token[i].kind = "budget" => claims.budget <= ClampI64(token[i].budget)
      /\ \/ claims.budget = token[1].budget
         \/ \E i \in 1..Len(token) : /\ token[i].kind = "budget"
                                     /\ claims.budget = ClampI64(token[i].budget)
  BY ClaimsLeast
<1>2. \A x : x \in claims.tools <=>
        x \in token[1].tools /\ \A i \in 1..Len(token) : token[i].kind = "tools" => x \in token[i].tools
  BY <1>1 DEF OfKind
<1> HIDE DEF claims
<1>3. req.now <= claims.expires
  BY <1>0, <1>1 DEF Passes
<1>4. req.tool \in claims.tools /\ req.audience = claims.audience
  BY <1>0, <1>1, <1>2 DEF Passes
<1>5. ClampI64(req.cost) <= claims.budget
  <2>1. ClampI64(req.cost) \in Nat
    BY <1>0, Clamped
  <2>2. ASSUME NEW i \in 1..Len(token), token[i].kind \in {"scope", "budget"}
        PROVE /\ ClampI64(req.cost) <= ClampI64(token[i].budget)
              /\ ClampI64(token[i].budget) \in Nat /\ ClampI64(token[i].budget) <= token[i].budget
    <3>1. ClampI64(token[i].budget) \in Nat /\ ClampI64(token[i].budget) <= token[i].budget
      BY <1>0, Clamped
    <3>2. ~(ClampI64(req.cost) > ClampI64(token[i].budget))
      BY <1>0, <2>2 DEF Passes
    <3> QED BY <2>1, <3>1, <3>2
  <2> QED BY <1>0, <1>1, <2>1, <2>2
<1>6. ASSUME NEW tool \in claims.tools, NEW cost \in 0..claims.budget
      PROVE Authorized(token, [req EXCEPT !.tool = tool, !.cost = cost])
  <2> DEFINE asks == [req EXCEPT !.tool = tool, !.cost = cost]
  <2>1. /\ asks.now = req.now /\ asks.audience = req.audience
        /\ asks.tool = tool /\ asks.cost = cost /\ cost \in Nat /\ cost <= claims.budget
    <3>1. req = [now |-> req.now, audience |-> req.audience, tool |-> req.tool, cost |-> req.cost]
      BY CapTokenAssumption
    <3> QED BY <1>1, <3>1
  <2> HIDE DEF asks
  <2>2. ASSUME NEW i \in 1..Len(token) PROVE Passes(token[i], asks)
    <3>1. token[i].kind \in {"scope", "budget"} => ~(ClampI64(cost) > ClampI64(token[i].budget))
      <4>1. ClampI64(cost) \in Nat /\ ClampI64(cost) <= cost
            /\ ClampI64(token[i].budget) \in Nat /\ ClampI64(token[i].budget) <= I64Max
        BY <1>0, <2>1, Clamped
      <4>2. CASE token[i].kind = "scope"
        <5>1. cost <= token[i].budget
          BY <1>0, <1>1, <2>1, <4>2
        <5>2. ClampI64(cost) <= ClampI64(token[i].budget)
          BY <1>0, <2>1, <5>1, Clamped
        <5> QED BY <4>1, <5>2
      <4>3. CASE token[i].kind = "budget"
        BY <1>1, <2>1, <4>1, <4>3
      <4> QED BY <4>2, <4>3
    <3>2. token[i].kind \in {"scope", "tools"} => tool \in token[i].tools
      BY <1>0, <1>2
    <3> QED BY <1>0, <2>1, <3>1, <3>2 DEF Passes
  <2>3. AuthzError(token, asks) = "none"
    BY <2>2, NoneFails
  <2> QED BY <1>0, <2>3 DEF Authorized, asks
<1> QED BY <1>3, <1>4, <1>5, <1>6 DEF claims

\* A budget error is only the budget's: the request at no cost passes.
LEMMA FreePasses ==
  ASSUME CapInv, token # <<>>, NEW req \in Requests, AuthzError(token, req) = "BudgetExhausted"
  PROVE  AuthzError(token, [req EXCEPT !.cost = 0]) = "none"
<1> DEFINE asks == [req EXCEPT !.cost = 0]
<1>1. asks.now = req.now /\ asks.audience = req.audience /\ asks.tool = req.tool /\ asks.cost = 0
  <2>1. req = [now |-> req.now, audience |-> req.audience, tool |-> req.tool, cost |-> req.cost]
    BY CapTokenAssumption
  <2> QED BY <2>1
<1> HIDE DEF asks
<1>2. ASSUME NEW i \in 1..Len(token) PROVE Passes(token[i], asks)
  <2>1. /\ ~Violates(token[i], req, "time") /\ ~Violates(token[i], req, "audience")
        /\ ~Violates(token[i], req, "tool")
    BY ErrorSays DEF FailedChecks
  <2>2. ~(ClampI64(0) > ClampI64(token[i].budget))
    <3>1. token[i].budget \in Nat
      BY Blocks
    <3>2. ClampI64(0) \in Nat /\ ClampI64(token[i].budget) \in Nat
          /\ ClampI64(0) <= ClampI64(token[i].budget)
      BY <3>1, Clamped
    <3> QED BY <3>2
  <2> QED BY <1>1, <2>1, <2>2 DEF Passes, Violates
<1> QED BY <1>2, NoneFails DEF asks

\* A token of that shape narrows.
LEMMA CapInvSound == CapInv => TokensNarrow
BY PrefixAllows, ClaimsFit, FreePasses DEF TokensNarrow

\* What a token allows, every token it was narrowed from allows; the claims
\* handed on allow exactly what the checks do; a budget error is only the budget's
\* (cap-token/src/verify.rs, effective_claims_from_blocks and map_authz_error).
THEOREM CapTokensNarrow == CapSpec => []TokensNarrow
BY CapInitInv, CapNextInv, CapInvSound, PTL DEF CapSpec

-----------------------------------------------------------------------------
(* The deny list *)

\* An id that has a line of its own, and one whose line is over: nothing that
\* is appended can change that line.
StartsLine(k) == k = 1 \/ denyFile[k - 1] = Newline
OwnLine(id) ==
  \E k \in 1..Len(denyFile) :
    denyFile[k] = id /\ StartsLine(k) /\ (k = Len(denyFile) \/ denyFile[k + 1] = Newline)
DoneLine(id) ==
  \E k \in 1..(Len(denyFile) - 1) : denyFile[k] = id /\ StartsLine(k) /\ denyFile[k + 1] = Newline

Marks == BlockIds \cup {Newline, OddCut, EvenCut}
RevokerRecords ==
  [at : {"idle", "hex", "newline", "done", "dead"}, ids : Seq(BlockIds), alone : BOOLEAN]
VerifierRecords ==
  [at : {"idle", "denied"}]
  \cup [at : {"store", "look"}, token : TokenIds, read : SUBSET Seq(Marks),
        due : BOOLEAN, raced : BOOLEAN]
  \cup [at : {"passed"}, overdue : BOOLEAN]

\* The file and the revokers: what was revoked for good has a line that is over,
\* and a revoker that had its line to itself so far has an own line.
FileInv ==
  /\ denyFile \in Seq(Marks) /\ settled \subseteq BlockIds
  /\ revoker \in [Revokers -> RevokerRecords]
  /\ \A r \in Revokers : revoker[r].at \in {"hex", "newline"} => revoker[r].ids # <<>>
  /\ \A id \in settled : DoneLine(id)
  /\ \A r \in Revokers : revoker[r].at = "newline" /\ revoker[r].alone => OwnLine(revoker[r].ids[1])

\* A lookup that owes a denial: an id of its token is in the read it holds, or in
\* the list it has stored it to, and in every read that can still be stored over it.
OwesDenial(v) ==
  verifier[v].at \in {"store", "look"} /\ verifier[v].due /\ ~verifier[v].raced
CaughtBy(v, id) ==
  /\ verifier[v].at = "store" => <<id>> \in verifier[v].read
  /\ verifier[v].at = "look" => <<id>> \in denyCache
  /\ \A u \in Verifiers \ {v} : verifier[u].at = "store" => <<id>> \in verifier[u].read
LookInv ==
  /\ verifier \in [Verifiers -> VerifierRecords]
  /\ \A v \in Verifiers : OwesDenial(v) =>
       \E id \in Members(verifier[v].token) : id \in settled /\ CaughtBy(v, id)
  /\ RevokedStaysDenied

DenyInv == FileInv /\ LookInv

\* An id whose line is its own is one of the lines that are read.
LEMMA OwnLineRead == ASSUME FileInv, NEW id \in BlockIds, OwnLine(id) PROVE <<id>> \in FileLines
<1>1. PICK k \in 1..Len(denyFile) :
        denyFile[k] = id /\ StartsLine(k) /\ (k = Len(denyFile) \/ denyFile[k + 1] = Newline)
  BY DEF OwnLine
<1>2. denyFile \in Seq(Marks) /\ id # Newline
  BY DenyListAssumption DEF FileInv, Newline
<1>3. SubSeq(denyFile, k, k) = <<id>>
  <2> DEFINE line == SubSeq(denyFile, k, k)
  <2>1. Len(line) = 1 /\ line \in Seq(Marks) /\ line[1] = denyFile[k]
    BY <1>1, <1>2
  <2> HIDE DEF line
  <2>2. line = <<id>>
    BY <1>1, <2>1
  <2> QED BY <2>2 DEF line
<1>4. /\ \A i \in k..k : denyFile[i] # Newline
      /\ k = 1 \/ denyFile[k - 1] = Newline
      /\ k = Len(denyFile) \/ denyFile[k + 1] = Newline
  BY <1>1, <1>2 DEF StartsLine
<1> DEFINE ij == <<k, k>>
<1>5. ij \in (1..Len(denyFile)) \X (1..Len(denyFile)) /\ ij[1] = k /\ ij[2] = k /\ k <= k
  BY <1>1
<1> HIDE DEF ij
<1> QED BY <1>3, <1>4, <1>5 DEF FileLines

\* A line that is over is a line of its own.
LEMMA DoneLineOwn == ASSUME FileInv, NEW id, DoneLine(id) PROVE OwnLine(id)
BY DEF FileInv, DoneLine, OwnLine

\* An append leaves lines that are over as they are, a newline also a line that
\* is still open.
LEMMA AppendKeeps ==
  ASSUME FileInv, NEW mark \in Marks, denyFile' = Append(denyFile, mark), NEW id
  PROVE  /\ DoneLine(id) => DoneLine(id)'
         /\ OwnLine(id) /\ mark = Newline => DoneLine(id)'
<1>1. denyFile \in Seq(Marks) /\ Len(denyFile) \in Nat
  BY DEF FileInv
<1>2. /\ Len(denyFile') = Len(denyFile) + 1 /\ denyFile'[Len(denyFile) + 1] = mark
      /\ \A k \in 1..Len(denyFile) : denyFile'[k] = denyFile[k]
  BY <1>1
<1>3. ASSUME NEW k \in 1..Len(denyFile), StartsLine(k) PROVE k = 1 \/ denyFile'[k - 1] = Newline
  BY <1>1, <1>2, <1>3 DEF StartsLine
<1>4. ASSUME DoneLine(id) PROVE DoneLine(id)'
  <2>1. PICK k \in 1..(Len(denyFile) - 1) :
          denyFile[k] = id /\ StartsLine(k) /\ denyFile[k + 1] = Newline
    BY <1>4 DEF DoneLine
  <2>2. k \in 1..(Len(denyFile') - 1) /\ denyFile'[k] = id /\ denyFile'[k + 1] = Newline
        /\ (k = 1 \/ denyFile'[k - 1] = Newline)
    BY <1>1, <1>2, <1>3, <2>1
  <2> QED BY <2>2 DEF DoneLine, StartsLine
<1>5. ASSUME OwnLine(id), mark = Newline PROVE DoneLine(id)'
  <2>1. PICK k \in 1..Len(denyFile) :
          denyFile[k] = id /\ StartsLine(k) /\ (k = Len(denyFile) \/ denyFile[k + 1] = Newline)
    BY <1>5 DEF OwnLine
  <2>2. k \in 1..(Len(denyFile') - 1) /\ denyFile'[k] = id /\ denyFile'[k + 1] = Newline
        /\ (k = 1 \/ denyFile'[k - 1] = Newline)
    BY <1>1, <1>2, <1>3, <1>5, <2>1
  <2> QED BY <2>2 DEF DoneLine, StartsLine
<1> QED BY <1>4, <1>5

\* Revokers change what lookups hold in no way, and what is settled stays.
LEMMA LookFrame ==
  ASSUME LookInv, UNCHANGED <<verifier, denyCache>>, settled \subseteq settled'
  PROVE  LookInv'
BY DEF LookInv, OwesDenial, CaughtBy, RevokedStaysDenied, Members

\* Lookups leave the file and the revokers alone.
LEMMA FileFrame == ASSUME FileInv, UNCHANGED <<denyFile, revoker, settled>> PROVE FileInv'
BY DEF FileInv, DoneLine, OwnLine, StartsLine

\* A revoke that begins holds the ids of its token.
LEMMA BeginKeeps ==
  ASSUME FileInv, NEW r \in Revokers, NEW t \in TokenIds, RevokeBegins(r, t)
  PROVE  FileInv'
<1>1. t \in Seq(BlockIds) /\ t # <<>>
  BY DenyListAssumption
<1>2. revoker' \in [Revokers -> RevokerRecords]
  BY <1>1 DEF FileInv, RevokeBegins, RevokerRecords
<1>3. \A x \in Revokers : x # r => revoker'[x] = revoker[x]
  BY DEF FileInv, RevokeBegins
<1>4. revoker'[r].at = "hex" /\ revoker'[r].ids = t
  BY DEF FileInv, RevokeBegins
<1> QED BY <1>1, <1>2, <1>3, <1>4 DEF FileInv, RevokeBegins, DoneLine, OwnLine, StartsLine

\* The hex begins a line or spoils the one it lands in; it spoils the line of
\* everyone who still owes a newline.
LEMMA HexKeeps == ASSUME FileInv, NEW r \in Revokers, WritesHex(r) PROVE FileInv'
<1>1. revoker[r] \in RevokerRecords /\ revoker[r].ids # <<>> /\ revoker[r].ids[1] \in BlockIds
  BY DEF FileInv, WritesHex, RevokerRecords
<1>2. PICK id \in BlockIds : id = revoker[r].ids[1]
  BY <1>1
<1>3. denyFile' = Append(denyFile, id) /\ id \in Marks /\ denyFile' \in Seq(Marks)
      /\ Len(denyFile) \in Nat /\ denyFile \in Seq(Marks) /\ UNCHANGED settled
  BY <1>2 DEF WritesHex, Marks, FileInv
<1>4. /\ revoker' \in [Revokers -> RevokerRecords]
      /\ revoker'[r].at = "newline" /\ revoker'[r].ids = revoker[r].ids
      /\ revoker'[r].alone = AtLineStart
  BY <1>1 DEF FileInv, WritesHex, RevokerRecords, AtLineStart
<1>5. ASSUME NEW x \in Revokers, x # r
      PROVE /\ revoker'[x].at = revoker[x].at /\ revoker'[x].ids = revoker[x].ids
            /\ revoker'[x].at = "newline" => ~revoker'[x].alone
  <2>1. revoker[x] \in RevokerRecords
    BY DEF FileInv
  <2>2. revoker'[x] = [revoker[x] EXCEPT !.alone = @ /\ revoker[x].at # "newline"]
    BY <1>5 DEF WritesHex
  <2> QED BY <2>1, <2>2 DEF RevokerRecords
<1>6. ASSUME AtLineStart PROVE OwnLine(id)'
  <2>1. Len(denyFile') = Len(denyFile) + 1 /\ denyFile'[Len(denyFile) + 1] = id
        /\ \A k \in 1..Len(denyFile) : denyFile'[k] = denyFile[k]
    BY <1>3
  <2>2. Len(denyFile) = 0 \/ denyFile'[Len(denyFile)] = Newline
    BY <1>3, <1>6, <2>1 DEF AtLineStart
  <2> QED BY <1>3, <2>1, <2>2 DEF OwnLine, StartsLine
<1>7. \A i \in settled' : DoneLine(i)'
  BY <1>3, AppendKeeps DEF FileInv
<1>8. ASSUME NEW x \in Revokers, revoker'[x].at = "newline", revoker'[x].alone
      PROVE OwnLine(revoker[x].ids[1])' /\ revoker'[x].ids = revoker[x].ids
  BY <1>2, <1>4, <1>5, <1>6, <1>8
<1>9. \A x \in Revokers : revoker'[x].at \in {"hex", "newline"} => revoker'[x].ids # <<>>
  BY <1>1, <1>4, <1>5 DEF FileInv
<1> QED BY <1>3, <1>4, <1>7, <1>8, <1>9 DEF FileInv, OwnLine, StartsLine

\* The newline ends every line that is still open.
LEMMA NewlineKeeps == ASSUME FileInv, NEW r \in Revokers, WritesNewline(r) PROVE FileInv'
<1>1. revoker[r] \in RevokerRecords /\ revoker[r].ids # <<>> /\ revoker[r].ids[1] \in BlockIds
  BY DEF FileInv, WritesNewline, RevokerRecords
<1>2. denyFile' = Append(denyFile, Newline) /\ Newline \in Marks /\ denyFile' \in Seq(Marks)
  BY DEF WritesNewline, Marks, FileInv
<1>3. /\ revoker' \in [Revokers -> RevokerRecords]
      /\ revoker'[r].at # "newline" /\ (revoker'[r].at = "hex" => revoker'[r].ids # <<>>)
      /\ \A x \in Revokers : x # r => revoker'[x] = revoker[x]
  <2> DEFINE gone == NotRevoking("done")
             on == [at |-> "hex", ids |-> Tail(revoker[r].ids), alone |-> revoker[r].alone]
  <2>1. gone \in RevokerRecords /\ gone.at = "done"
    BY DEF RevokerRecords, NotRevoking
  <2>2. Tail(revoker[r].ids) \in Seq(BlockIds)
        /\ (Len(revoker[r].ids) # 1 => Tail(revoker[r].ids) # <<>>)
    <3>1. PICK ids \in Seq(BlockIds) : ids = revoker[r].ids /\ ids # <<>>
      BY <1>1 DEF RevokerRecords
    <3>2. Len(ids) \in Nat /\ Len(ids) > 0 /\ Tail(ids) \in Seq(BlockIds) /\ Len(Tail(ids)) = Len(ids) - 1
      BY <3>1
    <3>3. Len(ids) # 1 => Tail(ids) # <<>>
      <4>1. \A s \in Seq(BlockIds) : s = <<>> => Len(s) = 0
        OBVIOUS
      <4>2. Tail(ids) = <<>> => Len(Tail(ids)) = 0
        BY <3>2, <4>1, Zenon
      <4> QED BY <3>2, <4>2
    <3> QED BY <3>1, <3>2, <3>3, Zenon
  <2>3. on \in RevokerRecords /\ on.at = "hex" /\ on.ids = Tail(revoker[r].ids)
    BY <1>1, <2>2 DEF RevokerRecords
  <2>4. revoker' = [revoker EXCEPT ![r] = IF Len(revoker[r].ids) = 1 THEN gone ELSE on]
    BY Zenon DEF WritesNewline
  <2> HIDE DEF gone, on
  <2> QED BY <2>1, <2>2, <2>3, <2>4 DEF FileInv
<1>4. ASSUME NEW id, DoneLine(id) \/ OwnLine(id) PROVE DoneLine(id)'
  BY <1>2, <1>4, AppendKeeps
<1>5. /\ settled' \subseteq BlockIds
      /\ \A id \in settled' : id \in settled \/ OwnLine(id)
  BY <1>1 DEF FileInv, WritesNewline
<1>6. \A id \in settled' : DoneLine(id)'
  BY <1>4, <1>5 DEF FileInv
<1>7. ASSUME NEW x \in Revokers, revoker'[x].at = "newline", revoker'[x].alone
      PROVE OwnLine(revoker[x].ids[1])'
  <2>1. revoker'[x] = revoker[x] /\ OwnLine(revoker[x].ids[1])
    BY <1>3, <1>7 DEF FileInv
  <2>2. PICK id : id = revoker[x].ids[1]
    OBVIOUS
  <2>3. DoneLine(id)'
    BY <1>4, <2>1, <2>2
  <2>4. Len(denyFile') \in Nat
    BY <1>2
  <2>5. OwnLine(id)'
    BY <2>3, <2>4 DEF DoneLine, OwnLine
  <2> QED BY <2>1, <2>2, <2>5 DEF OwnLine, StartsLine
<1> QED BY <1>2, <1>3, <1>5, <1>6, <1>7 DEF FileInv

\* A revoker that dies leaves the file as it is or cuts its hex short; neither
\* touches a line that is over.
LEMMA DieKeeps == ASSUME FileInv, NEW r \in Revokers, RevokerDies(r) PROVE FileInv'
<1>1. denyFile \in Seq(Marks) /\ UNCHANGED settled
  BY DEF FileInv, RevokerDies
<1>2. denyFile' = denyFile \/ \E cut \in {OddCut, EvenCut} : denyFile' = Append(denyFile, cut)
  BY DEF RevokerDies
<1>3. denyFile' \in Seq(Marks)
  BY <1>1, <1>2 DEF Marks
<1>4. \A id \in settled' : DoneLine(id)'
  <2>1. CASE denyFile' = denyFile
    BY <1>1, <2>1 DEF FileInv, DoneLine, StartsLine
  <2>2. ASSUME NEW cut \in {OddCut, EvenCut}, denyFile' = Append(denyFile, cut)
        PROVE \A id \in settled' : DoneLine(id)'
    <3>1. cut \in Marks
      BY DEF Marks
    <3> QED BY <1>1, <2>2, <3>1, AppendKeeps DEF FileInv
  <2> QED BY <1>2, <2>1, <2>2
<1>5. ASSUME NEW x \in Revokers
      PROVE /\ revoker'[x] \in RevokerRecords
            /\ revoker'[x].at \in {"hex", "newline"} => revoker'[x].ids # <<>>
            /\ revoker'[x].at = "newline" => ~revoker'[x].alone
  <2>1. CASE x = r
    <3>1. revoker'[x] = NotRevoking("dead")
      BY <2>1 DEF RevokerDies
    <3> QED BY <3>1 DEF NotRevoking, RevokerRecords
  <2>2. CASE x # r
    <3>1. revoker[x] \in RevokerRecords
          /\ (revoker[x].at \in {"hex", "newline"} => revoker[x].ids # <<>>)
      BY DEF FileInv
    <3>2. revoker'[x] = [revoker[x] EXCEPT !.alone = @ /\ revoker[x].at # "newline"]
      BY <2>2 DEF RevokerDies
    <3> QED BY <3>1, <3>2 DEF RevokerRecords
  <2> QED BY <2>1, <2>2
<1>6. revoker' \in [Revokers -> RevokerRecords]
  <2>1. revoker' = [x \in Revokers |-> revoker'[x]]
    BY DEF RevokerDies
  <2> QED BY <1>5, <2>1
<1>7. settled' \subseteq BlockIds
  BY <1>1 DEF FileInv
<1> QED BY <1>3, <1>4, <1>5, <1>6, <1>7 DEF FileInv

\* What was revoked for good is in the lines that are read.
LEMMA SettledRead == ASSUME FileInv, NEW id \in settled PROVE <<id>> \in FileLines
<1>1. id \in BlockIds /\ OwnLine(id)
  BY DoneLineOwn DEF FileInv
<1> QED BY <1>1, OwnLineRead

\* Records a lookup may hold, told apart by where it is.
LEMMA VerifierShape ==
  ASSUME LookInv, NEW v \in Verifiers
  PROVE  /\ verifier[v] \in VerifierRecords
         /\ verifier[v].at \in {"store", "look"} =>
              verifier[v] \in [at : {"store", "look"}, token : TokenIds, read : SUBSET Seq(Marks),
                               due : BOOLEAN, raced : BOOLEAN]
BY DEF LookInv, VerifierRecords

\* A read sees every line that is over, so it is as good for the others as for
\* the reader; without an older read about, nothing stale can be stored later.
LEMMA ReadsKeeps ==
  ASSUME DenyInv, NEW v \in Verifiers, NEW t \in TokenIds, VerifyReads(v, t) PROVE LookInv'
<1>1. FileLines \subseteq Seq(Marks)
  <2>1. ASSUME NEW i \in 1..Len(denyFile), NEW j \in 1..Len(denyFile)
        PROVE SubSeq(denyFile, i, j) \in Seq(Marks)
    BY DEF DenyInv, FileInv
  <2> QED BY <2>1 DEF FileLines
<1> DEFINE held == [at |-> "store", token |-> t, read |-> FileLines,
                    due |-> Members(t) \cap settled # {},
                    raced |-> \E u \in Verifiers \ {v} : verifier[u].at = "store"]
<1>2. held \in VerifierRecords /\ [at |-> "denied"] \in VerifierRecords
  BY <1>1 DEF VerifierRecords
<1>3. \/ verifier' = [verifier EXCEPT ![v] = held]
      \/ verifier' = [verifier EXCEPT ![v] = [at |-> "denied"]]
  BY DEF VerifyReads
<1>4. UNCHANGED <<settled, denyCache>> /\ verifier \in [Verifiers -> VerifierRecords]
  BY DEF VerifyReads, DenyInv, LookInv
<1>5. verifier' \in [Verifiers -> VerifierRecords] /\ \A u \in Verifiers : u # v => verifier'[u] = verifier[u]
  BY <1>2, <1>3, <1>4
<1>6. verifier'[v] = held \/ verifier'[v] = [at |-> "denied"]
  BY <1>3, <1>4
<1>7. ASSUME NEW w \in Verifiers, OwesDenial(w)'
      PROVE \E id \in Members(verifier[w].token)' : id \in settled' /\ CaughtBy(w, id)'
  <2>1. CASE w = v
    <3>1. verifier'[v] = held
      BY <1>6, <1>7, <2>1 DEF OwesDenial
    <3>2. /\ verifier'[v].token = t /\ verifier'[v].read = FileLines /\ verifier'[v].at = "store"
          /\ Members(t) \cap settled # {} /\ \A u \in Verifiers \ {v} : verifier[u].at # "store"
      <4>1. verifier'[v].due /\ ~verifier'[v].raced
        BY <1>7, <2>1, Zenon DEF OwesDenial
      <4>2. held.due /\ ~held.raced
        BY <3>1, <4>1, Zenon
      <4>3. held.token = t /\ held.read = FileLines /\ held.at = "store"
        OBVIOUS
      <4>4. Members(t) \cap settled # {} /\ ~\E u \in Verifiers \ {v} : verifier[u].at = "store"
        BY <4>2
      <4> HIDE DEF held
      <4> QED BY <3>1, <4>3, <4>4
    <3>3. PICK id \in Members(t) : id \in settled
      BY <3>2
    <3>4. <<id>> \in FileLines
      BY <3>3, SettledRead DEF DenyInv
    <3>5. CaughtBy(v, id)'
      BY <1>5, <3>2, <3>4 DEF CaughtBy
    <3> QED BY <1>4, <2>1, <3>2, <3>3, <3>5
  <2>2. CASE w # v
    <3>1. verifier'[w] = verifier[w] /\ OwesDenial(w)
      BY <1>5, <1>7, <2>2 DEF OwesDenial
    <3>2. PICK id \in Members(verifier[w].token) : id \in settled /\ CaughtBy(w, id)
      BY <3>1 DEF DenyInv, LookInv
    <3>3. <<id>> \in FileLines
      BY <3>2, SettledRead DEF DenyInv
    <3>4. verifier'[v].at = "store" => <<id>> \in verifier'[v].read
      BY <1>6, <3>3
    <3> HIDE DEF held
    <3>5. CaughtBy(w, id)'
      BY <1>4, <1>5, <2>2, <3>1, <3>2, <3>4 DEF CaughtBy
    <3> QED BY <1>4, <3>1, <3>2, <3>5
  <2> QED BY <2>1, <2>2
<1>8. verifier'[v].at # "passed"
  BY <1>6
<1> HIDE DEF held
<1>9. RevokedStaysDenied'
  BY <1>5, <1>8 DEF DenyInv, LookInv, RevokedStaysDenied
<1> QED BY <1>5, <1>7, <1>9 DEF LookInv

\* Storing a read is fair to everyone who looks after it: it was taken after
\* theirs, or they know of the race.
LEMMA StoresKeeps == ASSUME DenyInv, NEW v \in Verifiers, VerifyStores(v) PROVE LookInv'
<1> DEFINE Holds == [at : {"store", "look"}, token : TokenIds, read : SUBSET Seq(Marks),
                     due : BOOLEAN, raced : BOOLEAN]
<1>1. verifier[v] \in Holds /\ verifier[v].at = "store"
  BY VerifierShape DEF DenyInv, VerifyStores
<1>2. /\ verifier' = [verifier EXCEPT ![v].at = "look"] /\ denyCache' = verifier[v].read
      /\ verifier \in [Verifiers -> VerifierRecords] /\ UNCHANGED settled
  BY DEF VerifyStores, DenyInv, LookInv
<1>3. verifier'[v] = [verifier[v] EXCEPT !.at = "look"] /\ \A u \in Verifiers : u # v => verifier'[u] = verifier[u]
  BY <1>2
<1>4. /\ verifier'[v].token = verifier[v].token /\ verifier'[v].read = verifier[v].read
      /\ verifier'[v].due = verifier[v].due /\ verifier'[v].raced = verifier[v].raced
      /\ verifier'[v].at = "look" /\ verifier'[v] \in Holds
  BY <1>1, <1>3
<1>5. verifier' \in [Verifiers -> VerifierRecords]
  <2>1. verifier'[v] \in VerifierRecords
    BY <1>4 DEF VerifierRecords
  <2> QED BY <1>2, <1>3, <2>1
<1>6. ASSUME NEW w \in Verifiers, OwesDenial(w)'
      PROVE \E id \in Members(verifier[w].token)' : id \in settled' /\ CaughtBy(w, id)'
  <2>1. OwesDenial(w) /\ verifier'[w].token = verifier[w].token
    BY <1>1, <1>3, <1>4, <1>6 DEF OwesDenial
  <2>2. PICK id \in Members(verifier[w].token) : id \in settled /\ CaughtBy(w, id)
    BY <2>1 DEF DenyInv, LookInv
  <2>3. <<id>> \in verifier[v].read
    BY <1>1, <2>2 DEF CaughtBy
  <2>4. CaughtBy(w, id)'
    BY <1>2, <1>3, <1>4, <2>2, <2>3 DEF CaughtBy
  <2> QED BY <1>2, <2>1, <2>2, <2>4
<1>7. RevokedStaysDenied'
  BY <1>3, <1>4 DEF DenyInv, LookInv, RevokedStaysDenied
<1> QED BY <1>5, <1>6, <1>7 DEF LookInv

\* A lookup that owes a denial finds the id.
LEMMA LooksKeeps == ASSUME DenyInv, NEW v \in Verifiers, VerifyLooks(v) PROVE LookInv'
<1> DEFINE passed == [at |-> "passed", overdue |-> verifier[v].due /\ ~verifier[v].raced]
           caught == \E id \in Members(verifier[v].token) : <<id>> \in denyCache
<1>1. /\ verifier' = [verifier EXCEPT ![v] = IF caught THEN [at |-> "denied"] ELSE passed]
      /\ verifier[v].at = "look" /\ UNCHANGED <<settled, denyCache>>
  BY DEF VerifyLooks
<1>2. passed \in VerifierRecords /\ [at |-> "denied"] \in VerifierRecords
  BY DEF VerifierRecords
<1>3. ~caught => ~(verifier[v].due /\ ~verifier[v].raced)
  BY <1>1 DEF DenyInv, LookInv, OwesDenial, CaughtBy
<1>4. passed.at = "passed" /\ (passed.overdue <=> verifier[v].due /\ ~verifier[v].raced)
  OBVIOUS
<1> HIDE DEF passed, caught
<1>5. verifier \in [Verifiers -> VerifierRecords]
  BY DEF DenyInv, LookInv
<1>6. /\ verifier' \in [Verifiers -> VerifierRecords]
      /\ \A u \in Verifiers : u # v => verifier'[u] = verifier[u]
      /\ verifier'[v].at \in {"denied", "passed"}
      /\ verifier'[v].at = "passed" => ~verifier'[v].overdue
  BY <1>1, <1>2, <1>3, <1>4, <1>5
<1>7. RevokedStaysDenied'
  BY <1>6 DEF DenyInv, LookInv, RevokedStaysDenied
<1>8. ASSUME NEW w \in Verifiers, OwesDenial(w)'
      PROVE \E id \in Members(verifier[w].token)' : id \in settled' /\ CaughtBy(w, id)'
  <2>1. w # v /\ verifier'[w] = verifier[w] /\ OwesDenial(w)
    BY <1>6, <1>8 DEF OwesDenial
  <2>2. PICK id \in Members(verifier[w].token) : id \in settled /\ CaughtBy(w, id)
    BY <2>1 DEF DenyInv, LookInv
  <2>3. CaughtBy(w, id)'
    BY <1>1, <1>6, <2>1, <2>2 DEF CaughtBy
  <2> QED BY <1>1, <2>1, <2>2, <2>3
<1> QED BY <1>6, <1>7, <1>8 DEF LookInv

\* Every step of a revoker or a lookup keeps the invariant.
LEMMA DenyNextInv == DenyInv /\ [DenyNext]_denyVars => DenyInv'
<1> SUFFICES ASSUME DenyInv, [DenyNext]_denyVars PROVE DenyInv'
  OBVIOUS
<1>0. FileInv /\ LookInv
  BY DEF DenyInv
<1>1. ASSUME NEW r \in Revokers, NEW t \in TokenIds, RevokeBegins(r, t) PROVE DenyInv'
  BY <1>0, <1>1, BeginKeeps, LookFrame DEF RevokeBegins, DenyInv
<1>2. ASSUME NEW r \in Revokers, WritesHex(r) PROVE DenyInv'
  BY <1>0, <1>2, HexKeeps, LookFrame DEF WritesHex, DenyInv
<1>3. ASSUME NEW r \in Revokers, WritesNewline(r) PROVE DenyInv'
  BY <1>0, <1>3, NewlineKeeps, LookFrame DEF WritesNewline, DenyInv
<1>4. ASSUME NEW r \in Revokers, RevokerDies(r) PROVE DenyInv'
  BY <1>0, <1>4, DieKeeps, LookFrame DEF RevokerDies, DenyInv
<1>5. ASSUME NEW v \in Verifiers, NEW t \in TokenIds, VerifyReads(v, t) PROVE DenyInv'
  BY <1>0, <1>5, ReadsKeeps, FileFrame DEF VerifyReads, DenyInv
<1>6. ASSUME NEW v \in Verifiers, VerifyStores(v) PROVE DenyInv'
  BY <1>0, <1>6, StoresKeeps, FileFrame DEF VerifyStores, DenyInv
<1>7. ASSUME NEW v \in Verifiers, VerifyLooks(v) PROVE DenyInv'
  BY <1>0, <1>7, LooksKeeps, FileFrame DEF VerifyLooks, DenyInv
<1>8. CASE UNCHANGED denyVars
  BY <1>0, <1>8, LookFrame, FileFrame DEF denyVars, DenyInv
<1> QED BY <1>1, <1>2, <1>3, <1>4, <1>5, <1>6, <1>7, <1>8 DEF DenyNext

\* Nothing is revoked, nobody looks.
LEMMA DenyInitInv == DenyInit => DenyInv
<1> SUFFICES ASSUME DenyInit PROVE DenyInv
  OBVIOUS
<1>1. FileInv
  <2>1. \A r \in Revokers : revoker[r] = NotRevoking("idle")
    BY DEF DenyInit
  <2>2. NotRevoking("idle") \in RevokerRecords /\ NotRevoking("idle").at = "idle"
    BY DEF NotRevoking, RevokerRecords
  <2>3. revoker \in [Revokers -> RevokerRecords]
    BY <2>2 DEF DenyInit
  <2> QED BY <2>1, <2>2, <2>3 DEF DenyInit, FileInv
<1>2. LookInv
  <2>1. verifier \in [Verifiers -> VerifierRecords]
    BY DEF DenyInit, VerifierRecords
  <2> QED BY <2>1 DEF DenyInit, LookInv, OwesDenial, RevokedStaysDenied
<1> QED BY <1>1, <1>2 DEF DenyInv

\* A token does not pass the list once one of its blocks was revoked by a revoke
\* that returned and had its line to itself, unless a lookup of the same list
\* still held an older read (cap-token/src/denylist.rs).
THEOREM DenyListRevokedStaysDenied == DenySpec => []RevokedStaysDenied
<1>1. DenyInv => RevokedStaysDenied
  BY DEF DenyInv, LookInv
<1> QED BY <1>1, DenyInitInv, DenyNextInv, PTL DEF DenySpec

-----------------------------------------------------------------------------
(* What a search recalls *)

\* Jobs of the writers, while there is one.
Jobs == [at : {"upsert", "index", "delete"}, row : Rows, next : {"index", "delete"},
         chain : SUBSET (Facts \cup Tombs)]

\* The store: finitely many rows, indexed only when stored; what was forgotten
\* has a tombstone among them.
StoreInv ==
  /\ points \subseteq Rows /\ IsFiniteSet(points) /\ lex \subseteq Ids(points)
  /\ job \in [MemoryWriters -> {IdleJob} \cup Jobs]
  /\ \A w \in MemoryWriters : job[w].at = "index" => job[w].row \in points
  /\ \A s \in Subjects, root \in Roots : <<s, root>> \in forgotten =>
       \E r \in points : r.subject = s /\ r.root = root /\ r.cut # NoCut

\* The search: it knows the chains it owes to leave out, and its candidates so far
\* are enough while the pool holds every row.
Findable(s, dead) == {r \in points : r.cut = NoCut /\ r.root \notin dead /\ r.subject = s}
SearchInv ==
  /\ search.at = "dense" =>
       /\ search.due \subseteq search.dead /\ search.least \in Nat
       /\ search.least <= Cardinality(Findable(search.subject, search.dead))
  /\ search.at = "fuse" =>
       /\ search.due \subseteq search.dead /\ search.least \in Nat
       /\ search.dense \subseteq Findable(search.subject, search.dead)
       /\ Cardinality(points) <= PoolSize => search.least <= Cardinality(search.dense)
  /\ search.at = "answered" =>
       /\ \A r \in search.out : /\ r.cut = NoCut /\ r.subject = search.subject
                                /\ r.root \notin search.due
       /\ Cardinality(search.out) <= TopK
       /\ search.fits => Cardinality(search.out) >= (IF search.least < TopK THEN search.least ELSE TopK)

MemInv == StoreInv /\ SearchInv

\* Some n members of a finite set: no more than n, and all when there are no more.
LEMMA UpToSome ==
  ASSUME NEW S, IsFiniteSet(S), NEW n \in Nat, NEW T \in UpTo(n, S)
  PROVE  /\ T \subseteq S /\ IsFiniteSet(T) /\ Cardinality(T) \in Nat /\ Cardinality(S) \in Nat
         /\ Cardinality(T) = IF Cardinality(S) < n THEN Cardinality(S) ELSE n
         /\ Cardinality(S) <= n => T = S
<1>1. T \in SUBSET S /\ Cardinality(T) = IF Cardinality(S) < n THEN Cardinality(S) ELSE n
  BY DEF UpTo, kSubset
<1>2. IsFiniteSet(T) /\ (Cardinality(S) = Cardinality(T) => S = T)
  BY <1>1, FS_Subset
<1>3. Cardinality(T) \in Nat /\ Cardinality(S) \in Nat
  BY <1>2, FS_CardinalityType
<1> QED BY <1>1, <1>2, <1>3

\* Ids are at most as many as the rows that carry them.
LEMMA FewIds ==
  ASSUME NEW rows, IsFiniteSet(rows)
  PROVE  IsFiniteSet(Ids(rows)) /\ Cardinality(Ids(rows)) <= Cardinality(rows)
<1> DEFINE F == [r \in rows |-> r.id]
<1>1. F \in Surjection(rows, Ids(rows))
  BY DEF Surjection, Ids
<1> HIDE DEF F
<1> QED BY <1>1, FS_Surjection

\* Rows that are added leave the search's account right: there are more to find,
\* and the pool that holds them all held them before.
LEMMA SearchFrame ==
  ASSUME MemInv, UNCHANGED search, points \subseteq points', IsFiniteSet(points')
  PROVE  SearchInv'
<1>1. IsFiniteSet(points) /\ Cardinality(points) \in Nat /\ Cardinality(points') \in Nat
      /\ Cardinality(points) <= Cardinality(points')
  BY FS_Subset, FS_CardinalityType DEF MemInv, StoreInv
<1>2. ASSUME NEW s, NEW dead
      PROVE /\ Findable(s, dead) \subseteq Findable(s, dead)'
            /\ Cardinality(Findable(s, dead)) <= Cardinality(Findable(s, dead)')
            /\ Cardinality(Findable(s, dead)) \in Nat /\ Cardinality(Findable(s, dead)') \in Nat
  <2>1. Findable(s, dead) \subseteq Findable(s, dead)' /\ Findable(s, dead)' \subseteq points'
    BY DEF Findable
  <2>2. IsFiniteSet(Findable(s, dead)') /\ IsFiniteSet(Findable(s, dead))
        /\ Cardinality(Findable(s, dead)) <= Cardinality(Findable(s, dead)')
    BY <2>1, FS_Subset
  <2> QED BY <2>1, <2>2, FS_CardinalityType
<1>3. CASE search.at = "dense"
  <2>1. PICK s, dead : s = search.subject /\ dead = search.dead
    OBVIOUS
  <2>2. search.least <= Cardinality(Findable(s, dead)')
    BY <1>2, <1>3, <2>1 DEF MemInv, SearchInv
  <2> QED BY <1>3, <2>1, <2>2 DEF MemInv, SearchInv, Findable
<1>4. CASE search.at = "fuse"
  <2>1. PICK s, dead : s = search.subject /\ dead = search.dead
    OBVIOUS
  <2>2. search.dense \subseteq Findable(s, dead)'
    BY <1>2, <1>4, <2>1 DEF MemInv, SearchInv
  <2>3. Cardinality(points') <= PoolSize => search.least <= Cardinality(search.dense)
    BY <1>1, <1>4, MemoryAssumption DEF MemInv, SearchInv
  <2> QED BY <1>4, <2>1, <2>2, <2>3 DEF MemInv, SearchInv, Findable
<1>5. CASE search.at \notin {"dense", "fuse"}
  BY <1>5 DEF MemInv, SearchInv
<1> QED BY <1>3, <1>4, <1>5

\* Steps that leave the rows and what was forgotten alone keep the store right
\* when the jobs and the index are.
LEMMA StoreFrame ==
  ASSUME StoreInv, UNCHANGED <<points, forgotten>>, lex' \subseteq Ids(points),
         job' \in [MemoryWriters -> {IdleJob} \cup Jobs],
         \A w \in MemoryWriters : job'[w].at = "index" => job'[w].row \in points
  PROVE  StoreInv'
BY DEF StoreInv, Ids

\* A new job has not stored its row yet.
LEMMA JobStarts ==
  ASSUME MemInv, NEW w \in MemoryWriters, NEW row \in Rows, NEW next \in {"index", "delete"},
         NEW chain \in SUBSET (Facts \cup Tombs),
         job' = [job EXCEPT ![w] = [at |-> "upsert", row |-> row, next |-> next, chain |-> chain]],
         UNCHANGED <<points, lex, search, forgotten>>
  PROVE  MemInv'
<1> DEFINE new == [at |-> "upsert", row |-> row, next |-> next, chain |-> chain]
<1>1. new \in Jobs /\ new.at # "index"
  BY DEF Jobs
<1> HIDE DEF new
<1>2. job' = [job EXCEPT ![w] = new]
  BY DEF new
<1>3. job' \in [MemoryWriters -> {IdleJob} \cup Jobs]
      /\ \A v \in MemoryWriters : job'[v].at = "index" => job'[v].row \in points
  BY <1>1, <1>2 DEF MemInv, StoreInv
<1>4. StoreInv'
  BY <1>3, StoreFrame DEF MemInv, StoreInv
<1>5. SearchInv'
  BY SearchFrame DEF MemInv, StoreInv
<1> QED BY <1>4, <1>5 DEF MemInv

\* The shape of a job that is not idle.
LEMMA JobShape ==
  ASSUME MemInv, NEW w \in MemoryWriters, job[w].at # "idle"
  PROVE  job[w] \in Jobs
BY DEF MemInv, StoreInv, IdleJob

\* A job that is over, with the index as it leaves it.
LEMMA JobEnds ==
  ASSUME MemInv, NEW w \in MemoryWriters, job' = [job EXCEPT ![w] = IdleJob],
         UNCHANGED <<points, search, forgotten>>, lex' \subseteq Ids(points)
  PROVE  MemInv'
<1>1. job' \in [MemoryWriters -> {IdleJob} \cup Jobs]
      /\ \A v \in MemoryWriters : job'[v].at = "index" => job'[v].row \in points
  BY DEF MemInv, StoreInv, IdleJob
<1>2. StoreInv'
  BY <1>1, StoreFrame DEF MemInv
<1>3. SearchInv'
  BY SearchFrame DEF MemInv, StoreInv
<1> QED BY <1>2, <1>3 DEF MemInv

\* A row is stored, acknowledged or not: the index may name it from then on, and a
\* tombstone is there when its forgetting is acknowledged.
LEMMA UpsertKeeps ==
  ASSUME MemInv, NEW w \in MemoryWriters, Upserts(w) \/ UpsertFails(w)
  PROVE  MemInv'
<1>1. job[w] \in Jobs
  BY JobShape DEF Upserts, UpsertFails
<1>2. PICK row \in Rows : row = job[w].row
  BY <1>1 DEF Jobs
<1>3. points' = points \/ points' = points \cup {row}
  BY <1>2 DEF Upserts, UpsertFails
<1>4. points \subseteq points' /\ points' \subseteq Rows /\ IsFiniteSet(points') /\ lex' \subseteq Ids(points')
      /\ UNCHANGED search
  <2>1. IsFiniteSet(points \cup {row})
    BY FS_AddElement DEF MemInv, StoreInv
  <2>2. UNCHANGED <<lex, search>>
    BY DEF Upserts, UpsertFails
  <2>3. points \subseteq points' /\ points' \subseteq Rows /\ IsFiniteSet(points')
    BY <1>3, <2>1 DEF MemInv, StoreInv
  <2>4. Ids(points) \subseteq Ids(points')
    BY <2>3 DEF Ids
  <2> QED BY <2>2, <2>3, <2>4 DEF MemInv, StoreInv
<1>5. /\ job' \in [MemoryWriters -> {IdleJob} \cup Jobs]
      /\ \A v \in MemoryWriters : job'[v].at = "index" => job'[v].row \in points'
  <2>1. CASE Upserts(w)
    <3>1. job' = [job EXCEPT ![w].at = job[w].next] /\ row \in points'
      BY <1>2, <2>1 DEF Upserts
    <3>2. job[w].next \in {"index", "delete"}
      BY <1>1 DEF Jobs
    <3>3. PICK new : new = [job[w] EXCEPT !.at = job[w].next]
      OBVIOUS
    <3>4. new \in Jobs /\ new.row = row
      BY <1>1, <1>2, <3>2, <3>3 DEF Jobs
    <3>5. job' = [job EXCEPT ![w] = new]
      BY <3>1, <3>3
    <3>6. job \in [MemoryWriters -> {IdleJob} \cup Jobs]
          /\ \A v \in MemoryWriters : job[v].at = "index" => job[v].row \in points
      BY DEF MemInv, StoreInv
    <3>7. job' \in [MemoryWriters -> {IdleJob} \cup Jobs]
      BY <3>4, <3>5, <3>6
    <3>8. ASSUME NEW v \in MemoryWriters, job'[v].at = "index" PROVE job'[v].row \in points'
      BY <1>4, <3>1, <3>4, <3>5, <3>6, <3>8
    <3> QED BY <3>7, <3>8
  <2>2. CASE UpsertFails(w)
    BY <1>4, <2>2 DEF UpsertFails, MemInv, StoreInv, IdleJob
  <2> QED BY <2>1, <2>2
<1>6. ASSUME NEW s \in Subjects, NEW root \in Roots, <<s, root>> \in forgotten'
      PROVE \E r \in points' : r.subject = s /\ r.root = root /\ r.cut # NoCut
  <2>1. CASE <<s, root>> \in forgotten
    BY <1>4, <2>1 DEF MemInv, StoreInv
  <2>2. CASE <<s, root>> \notin forgotten
    <3>1. row \in points' /\ row.cut # NoCut /\ <<s, root>> = <<row.subject, row.root>>
      BY <1>2, <1>6, <2>2 DEF Upserts, UpsertFails
    <3> QED BY <3>1
  <2> QED BY <2>1, <2>2
<1>7. SearchInv'
  BY <1>4, SearchFrame
<1> QED BY <1>4, <1>5, <1>6, <1>7 DEF MemInv, StoreInv

\* Steps of the search leave the store alone.
LEMMA SearchStore ==
  ASSUME MemInv, UNCHANGED <<points, lex, job, forgotten>> PROVE StoreInv'
BY DEF MemInv, StoreInv, Ids

\* A search that begins: the chains it owes to leave out are cut off in what it
\* saw, and the live rows are findable.
LEMMA BeginsKeeps == ASSUME MemInv, NEW s \in Subjects, SearchBegins(s) PROVE MemInv'
<1>0. PICK scrolled \in UpTo(ScrollLimit, OfSubject(s)) :
        search' = [at |-> "dense", subject |-> s, dead |-> Cutoffs(scrolled),
                   due |-> {root \in Roots : /\ <<s, root>> \in forgotten
                                             /\ Cardinality(OfSubject(s)) <= ScrollLimit},
                   least |-> Cardinality({r \in OfSubject(s) :
                               r.cut = NoCut /\ r.root \notin Cutoffs(OfSubject(s))})]
  BY DEF SearchBegins
<1> DEFINE due == {root \in Roots : /\ <<s, root>> \in forgotten
                                    /\ Cardinality(OfSubject(s)) <= ScrollLimit}
           alive == {r \in OfSubject(s) : r.cut = NoCut /\ r.root \notin Cutoffs(OfSubject(s))}
<1>1. OfSubject(s) \subseteq points /\ IsFiniteSet(points) /\ IsFiniteSet(OfSubject(s)) /\ ScrollLimit \in Nat
  <2>1. OfSubject(s) \subseteq points /\ IsFiniteSet(points)
    BY DEF OfSubject, MemInv, StoreInv
  <2> QED BY <2>1, FS_Subset, MemoryAssumption
<1>2. scrolled \subseteq OfSubject(s) /\ (Cardinality(OfSubject(s)) <= ScrollLimit => scrolled = OfSubject(s))
  BY <1>1, UpToSome
<1>3. due \subseteq Cutoffs(scrolled)
  <2> SUFFICES ASSUME NEW root \in Roots, <<s, root>> \in forgotten,
                      Cardinality(OfSubject(s)) <= ScrollLimit
               PROVE root \in Cutoffs(scrolled)
    OBVIOUS
  <2>1. PICK r \in points : r.subject = s /\ r.root = root /\ r.cut # NoCut
    BY DEF MemInv, StoreInv
  <2>2. r \in scrolled
    BY <1>2, <2>1 DEF OfSubject
  <2> QED BY <2>1, <2>2 DEF Cutoffs
<1>4. alive \subseteq Findable(s, Cutoffs(scrolled)) /\ Findable(s, Cutoffs(scrolled)) \subseteq points
  BY <1>1, <1>2 DEF Findable, Cutoffs, OfSubject
<1>5. Cardinality(alive) \in Nat /\ Cardinality(alive) <= Cardinality(Findable(s, Cutoffs(scrolled)))
  <2>1. IsFiniteSet(Findable(s, Cutoffs(scrolled)))
    BY <1>1, <1>4, FS_Subset
  <2>2. IsFiniteSet(alive) /\ Cardinality(alive) <= Cardinality(Findable(s, Cutoffs(scrolled)))
    BY <1>4, <2>1, FS_Subset
  <2> QED BY <2>2, FS_CardinalityType
<1>6. /\ search'.at = "dense" /\ search'.subject = s /\ search'.dead = Cutoffs(scrolled)
      /\ search'.due = due /\ search'.least = Cardinality(alive)
  BY <1>0
<1> HIDE DEF due, alive
<1>7. UNCHANGED points
  BY DEF SearchBegins
<1>8. PICK dead : dead = Cutoffs(scrolled)
  OBVIOUS
<1>9. Findable(s, dead)' = Findable(s, dead)
  BY <1>7 DEF Findable
<1>10. /\ search'.due \subseteq search'.dead /\ search'.least \in Nat
       /\ search'.least <= Cardinality(Findable(s, dead)')
  BY <1>3, <1>5, <1>6, <1>8, <1>9
<1>11. SearchInv'
  BY <1>6, <1>8, <1>10 DEF SearchInv, Findable
<1> QED BY <1>11, SearchStore DEF SearchBegins, MemInv

\* The vector hits: all that is findable, while the pool holds every row.
LEMMA DenseKeeps == ASSUME MemInv, SearchDense PROVE MemInv'
<1> DEFINE F == Findable(search.subject, search.dead)
<1>0. PICK hits \in UpTo(PoolSize, points) :
        search' = [at |-> "fuse", subject |-> search.subject, dead |-> search.dead,
                   due |-> search.due, least |-> search.least,
                   dense |-> {r \in hits : /\ r.cut = NoCut /\ r.root \notin search.dead
                                           /\ r.subject = search.subject}]
  BY DEF SearchDense
<1> DEFINE found == {r \in hits : /\ r.cut = NoCut /\ r.root \notin search.dead
                                  /\ r.subject = search.subject}
<1>1. /\ search.due \subseteq search.dead /\ search.least \in Nat
      /\ search.least <= Cardinality(F) /\ IsFiniteSet(points) /\ PoolSize \in Nat
  BY MemoryAssumption DEF SearchDense, MemInv, SearchInv, StoreInv
<1>2. hits \subseteq points /\ (Cardinality(points) <= PoolSize => hits = points)
  BY <1>1, UpToSome
<1>3. found \subseteq F /\ (hits = points => found = F)
  BY <1>2 DEF Findable
<1>4. /\ search'.at = "fuse" /\ search'.subject = search.subject /\ search'.dead = search.dead
      /\ search'.due = search.due /\ search'.least = search.least /\ search'.dense = found
  BY <1>0
<1>5. UNCHANGED points
  BY DEF SearchDense
<1>6. F = {r \in points : r.cut = NoCut /\ r.root \notin search.dead /\ r.subject = search.subject}
  BY DEF Findable
<1>7. search'.dense \subseteq Findable(search.subject, search.dead)'
  BY <1>3, <1>4, <1>5, <1>6 DEF Findable
<1> HIDE DEF F, found
<1>8. Cardinality(points') <= PoolSize => search'.least <= Cardinality(search'.dense)
  BY <1>1, <1>2, <1>3, <1>4, <1>5
<1>9. SearchInv'
  BY <1>1, <1>4, <1>7, <1>8 DEF SearchInv
<1> QED BY <1>9, SearchStore DEF SearchDense, MemInv

\* The answer: nothing but candidates of the search, and all that the pool and
\* TopK allow.
LEMMA FusesKeeps == ASSUME MemInv, SearchFuses PROVE MemInv'
<1>1. PICK hits \in SUBSET lex : Cardinality(hits) <= PoolSize /\
        \E fused \in UpTo(PoolSize, Ids(search.dense) \cup hits) :
         \E out \in UpTo(TopK, {r \in search.dense \cup fetch_live(hits) : r.id \in fused}) :
           search' = [at |-> "answered", subject |-> search.subject, due |-> search.due,
                      least |-> search.least, out |-> out,
                      fits |-> Cardinality(points) <= PoolSize]
  BY DEF SearchFuses
<1>2. PICK fused \in UpTo(PoolSize, Ids(search.dense) \cup hits) :
         \E out \in UpTo(TopK, {r \in search.dense \cup fetch_live(hits) : r.id \in fused}) :
           search' = [at |-> "answered", subject |-> search.subject, due |-> search.due,
                      least |-> search.least, out |-> out,
                      fits |-> Cardinality(points) <= PoolSize]
  BY <1>1
<1> DEFINE C == {r \in search.dense \cup fetch_live(hits) : r.id \in fused}
<1>3. PICK out \in UpTo(TopK, C) :
           search' = [at |-> "answered", subject |-> search.subject, due |-> search.due,
                      least |-> search.least, out |-> out,
                      fits |-> Cardinality(points) <= PoolSize]
  BY <1>2
<1>4. /\ search.due \subseteq search.dead /\ search.least \in Nat /\ search.at = "fuse"
      /\ search.dense \subseteq Findable(search.subject, search.dead)
      /\ Cardinality(points) <= PoolSize => search.least <= Cardinality(search.dense)
      /\ IsFiniteSet(points) /\ lex \subseteq Ids(points) /\ PoolSize \in Nat /\ TopK \in Nat
  BY MemoryAssumption DEF SearchFuses, MemInv, SearchInv, StoreInv
<1>5. \A r \in search.dense \cup fetch_live(hits) :
        r \in points /\ r.cut = NoCut /\ r.root \notin search.dead /\ r.subject = search.subject
  BY <1>4 DEF fetch_live, Findable
<1>6. C \subseteq points /\ IsFiniteSet(C)
  <2>1. C \subseteq points
    BY <1>5
  <2> QED BY <1>4, <2>1, FS_Subset
<1>7. /\ out \subseteq C /\ Cardinality(out) \in Nat /\ Cardinality(C) \in Nat
      /\ Cardinality(out) = IF Cardinality(C) < TopK THEN Cardinality(C) ELSE TopK
  <2> HIDE DEF C
  <2> QED BY <1>4, <1>6, UpToSome
<1>8. ASSUME Cardinality(points) <= PoolSize PROVE search.least <= Cardinality(C)
  <2>1. Ids(search.dense) \cup hits \subseteq Ids(points)
    BY <1>4, <1>5 DEF Ids
  <2>2. IsFiniteSet(Ids(points)) /\ Cardinality(Ids(points)) <= Cardinality(points)
    BY <1>4, FewIds
  <2>3. IsFiniteSet(Ids(search.dense) \cup hits)
        /\ Cardinality(Ids(search.dense) \cup hits) <= Cardinality(Ids(points))
    BY <2>1, <2>2, FS_Subset
  <2>4. Cardinality(Ids(search.dense) \cup hits) \in Nat /\ Cardinality(Ids(points)) \in Nat
        /\ Cardinality(points) \in Nat
    BY <1>4, <2>2, <2>3, FS_CardinalityType
  <2>5. Cardinality(Ids(search.dense) \cup hits) <= PoolSize
    BY <1>4, <1>8, <2>2, <2>3, <2>4
  <2>6. fused = Ids(search.dense) \cup hits
    BY <1>4, <2>3, <2>5, UpToSome
  <2>7. search.dense \subseteq C
    BY <2>6 DEF Ids
  <2>8. IsFiniteSet(search.dense) /\ Cardinality(search.dense) <= Cardinality(C)
    BY <1>6, <2>7, FS_Subset
  <2>9. Cardinality(search.dense) \in Nat
    BY <2>8, FS_CardinalityType
  <2> HIDE DEF C
  <2> QED BY <1>4, <1>7, <1>8, <2>8, <2>9
<1>9. /\ search'.at = "answered" /\ search'.subject = search.subject /\ search'.due = search.due
      /\ search'.least = search.least /\ search'.out = out
  BY <1>3
<1>10. search'.fits => Cardinality(points) <= PoolSize
  BY <1>3
<1>11. \A r \in out : r.cut = NoCut /\ r.subject = search.subject /\ r.root \notin search.due
  BY <1>4, <1>5, <1>7
<1> HIDE DEF C
<1>12. Cardinality(out) <= TopK /\ (search'.fits => Cardinality(out) >= (IF search.least < TopK THEN search.least ELSE TopK))
  BY <1>4, <1>7, <1>8, <1>10
<1>13. SearchInv'
  BY <1>9, <1>11, <1>12 DEF SearchInv
<1> QED BY <1>13, SearchStore DEF SearchFuses, MemInv

\* Every step of a writer keeps the invariant.
LEMMA WriterKeeps == ASSUME MemInv, NEW w \in MemoryWriters, WriterStep(w) PROVE MemInv'
<1>0. points \subseteq Rows /\ lex \subseteq Ids(points)
  BY DEF MemInv, StoreInv
<1>1. ASSUME NEW f \in Facts, Records(w, f) PROVE MemInv'
  <2>1. DataRow(f) \in Rows
    BY DEF DataRow, Rows, Subjects, Roots
  <2>2. job' = [job EXCEPT ![w] = [at |-> "upsert", row |-> DataRow(f), next |-> "index", chain |-> {}]]
        /\ UNCHANGED <<points, lex, search, forgotten>>
    BY <1>1 DEF Records
  <2>3. PICK row \in Rows, chain \in SUBSET (Facts \cup Tombs) : row = DataRow(f) /\ chain = {}
    BY <2>1
  <2> QED BY <2>2, <2>3, JobStarts
<1>2. ASSUME NEW target \in points, NEW at \in CutTimes, NEW t \in Tombs PROVE Tombstone(t, target, at) \in Rows
  BY <1>0 DEF Tombstone, Rows
<1>3. ASSUME NEW target \in points, NEW at \in CutTimes, NEW t \in Tombs, Forgets(w, target, at, t)
      PROVE MemInv'
  <2>1. job' = [job EXCEPT ![w] = [at |-> "upsert", row |-> Tombstone(t, target, at), next |-> "index",
                                   chain |-> {}]]
        /\ UNCHANGED <<points, lex, search, forgotten>>
    BY <1>3 DEF Forgets
  <2>2. PICK row \in Rows, chain \in SUBSET (Facts \cup Tombs) : row = Tombstone(t, target, at) /\ chain = {}
    BY <1>2
  <2> QED BY <2>1, <2>2, JobStarts
<1>4. ASSUME NEW target \in points, NEW at \in CutTimes, NEW t \in Tombs, Invalidates(w, target, at, t)
      PROVE MemInv'
  <2>1. PICK chain \in SUBSET (Facts \cup Tombs) :
          job' = [job EXCEPT ![w] = [at |-> "upsert", next |-> "delete",
                                     row |-> Tombstone(t, target, at), chain |-> chain]]
    <3>1. ASSUME NEW chain \in UpTo(ScrollLimit, OfRoot(target.root))
          PROVE Ids(chain) \in SUBSET (Facts \cup Tombs)
      <4>1. chain \subseteq points
        BY DEF UpTo, kSubset, OfRoot
      <4> QED BY <1>0, <4>1 DEF Ids, Rows
    <3> QED BY <1>4, <3>1 DEF Invalidates
  <2>2. UNCHANGED <<points, lex, search, forgotten>>
    BY <1>4 DEF Invalidates
  <2>3. [at |-> "upsert", next |-> "delete", row |-> Tombstone(t, target, at), chain |-> chain]
        = [at |-> "upsert", row |-> Tombstone(t, target, at), next |-> "delete", chain |-> chain]
    OBVIOUS
  <2> QED BY <1>2, <2>1, <2>2, <2>3, JobStarts
<1>5. ASSUME Indexes(w) PROVE MemInv'
  <2>1. job[w].row.id \in Ids(points)
    BY <1>5 DEF Indexes, MemInv, StoreInv, Ids
  <2>2. lex' \subseteq Ids(points)
    BY <1>0, <1>5, <2>1 DEF Indexes
  <2> QED BY <1>5, <2>2, JobEnds DEF Indexes
<1>6. ASSUME Unindexes(w) PROVE MemInv'
  <2>1. lex' \subseteq Ids(points)
    BY <1>0, <1>6 DEF Unindexes
  <2> QED BY <1>6, <2>1, JobEnds DEF Unindexes
<1> QED BY <1>1, <1>3, <1>4, <1>5, <1>6, UpsertKeeps DEF WriterStep

\* Every step of the memory keeps the invariant.
LEMMA MemNextInv == MemInv /\ [MemNext]_memVars => MemInv'
<1> SUFFICES ASSUME MemInv, [MemNext]_memVars PROVE MemInv'
  OBVIOUS
<1>1. CASE SearchFails
  <2>1. SearchInv'
    BY <1>1 DEF SearchFails, IdleSearch, SearchInv
  <2> QED BY <1>1, <2>1, SearchStore DEF SearchFails, MemInv
<1>2. CASE UNCHANGED memVars
  <2>1. UNCHANGED <<points, lex, job, search, forgotten>>
    BY <1>2 DEF memVars
  <2>2. SearchInv'
    BY <2>1, SearchFrame DEF MemInv, StoreInv
  <2> QED BY <2>1, <2>2, SearchStore DEF MemInv
<1> QED BY <1>1, <1>2, WriterKeeps, BeginsKeeps, DenseKeeps, FusesKeeps DEF MemNext

\* No rows, no jobs, no search.
LEMMA MemInitInv == MemInit => MemInv
BY FS_EmptySet DEF MemInit, MemInv, StoreInv, SearchInv, IdleJob, IdleSearch, Ids

\* The invariant says what a search owes.
LEMMA MemInvSound == MemInv => RecallSound
BY DEF MemInv, StoreInv, SearchInv, RecallSound

\* A search answers at most TopK data rows of the asked subject, none of a chain
\* forgotten before it began, and misses no live row while all rows fit the
\* candidate pool, whichever writers and faults come between its reads
\* (memory-qdrant/src/hybrid.rs, search_filtered).
THEOREM MemoryRecallSound == MemSpec => []RecallSound
BY MemInitInv, MemNextInv, MemInvSound, PTL DEF MemSpec

-----------------------------------------------------------------------------
(***************************************************************************)
(* The breaker and the retries. That a half-open breaker waits for a probe *)
(* is by cases on how a step leaves it half-open: only AdmitProbe makes it *)
(* so, and every resolved call, stale or not, ends it. CallsBounded is     *)
(* inductive with the types (BoundsInv), but for the table of delays: that *)
(* the saturating loop of base_delay_ms computes the capped power is an    *)
(* induction over the attempts (DelayExact), done over the set of the      *)
(* attempts it holds for.                                                  *)
(***************************************************************************)
\* A closed breaker with no calls is well typed.
LEMMA InitType == Init => TypeOK
BY ResilienceAssumption DEF Init, TypeOK

\* A call that ends leaves the calls well typed ...
LEMMA EndsType ==
  ASSUME TypeOK, NEW c \in Calls, Ends(c)
  PROVE  /\ pc' \in [Calls -> {"idle", "attempt", "backoff"}]
         /\ attempt' \in [Calls -> Nat] /\ wait' \in [Calls -> Nat]
         /\ probe' \in [Calls -> BOOLEAN]
<1>1. probe' \in [Calls -> BOOLEAN]
  BY DEF TypeOK, Ends
<1> QED BY <1>1 DEF TypeOK, Ends

\* ... and so does one that starts.
LEMMA StartsType ==
  ASSUME TypeOK, NEW c \in Calls, NEW b \in BOOLEAN, Starts(c, b)
  PROVE  /\ pc' \in [Calls -> {"idle", "attempt", "backoff"}]
         /\ attempt' \in [Calls -> Nat] /\ wait' \in [Calls -> Nat]
         /\ probe' \in [Calls -> BOOLEAN]
<1>1. probe' \in [Calls -> BOOLEAN]
  BY DEF TypeOK, Starts
<1> QED BY <1>1 DEF TypeOK, Starts

\* An outcome, stale or not, leaves the breaker closed or open, never half-open.
LEMMA OutcomeType ==
  ASSUME TypeOK, on_success \/ on_failure
  PROVE  /\ state' \in {"closed", "open"}
         /\ failures' \in Nat /\ cooldown' \in 0..open_duration
<1>1. CASE on_success
  BY <1>1, ResilienceAssumption DEF TypeOK, on_success
<1>2. CASE on_failure
  <2>1. state \in {"closed", "open", "half"} /\ failures \in Nat /\ cooldown \in 0..open_duration
    BY DEF TypeOK
  <2>2. CASE OpenBreaker
    BY <2>2, ResilienceAssumption DEF OpenBreaker
  <2>3. CASE state = "closed" /\ ~OpenBreaker
    <3>1. failures' = failures + 1 /\ UNCHANGED <<state, cooldown>>
      BY <1>2, <2>3 DEF on_failure
    <3> QED BY <2>1, <2>3, <3>1
  <2>4. CASE state = "half"
    BY <1>2, <2>2, <2>4 DEF on_failure
  <2>5. CASE state = "open"
    <3>1. UNCHANGED <<state, failures, cooldown>>
      BY <1>2, <2>5 DEF on_failure, breakerVars
    <3> QED BY <2>1, <2>5, <3>1
  <2> QED BY <2>1, <2>2, <2>3, <2>4, <2>5
<1> QED BY <1>1, <1>2

\* Every action keeps the types, one case each.
LEMMA NextType == TypeOK /\ [Next]_vars => TypeOK'
<1> SUFFICES ASSUME TypeOK, [Next]_vars PROVE TypeOK'
  OBVIOUS
<1> USE ResilienceAssumption
<1>1. ASSUME NEW c \in Calls, AdmitClosed(c) PROVE TypeOK'
  BY <1>1, StartsType DEF AdmitClosed, TypeOK, breakerVars
<1>2. ASSUME NEW c \in Calls, AdmitProbe(c) PROVE TypeOK'
  BY <1>2, StartsType DEF AdmitProbe, TypeOK
<1>3. ASSUME NEW c \in Calls, AttemptSucceeds(c) PROVE TypeOK'
  BY <1>3, EndsType, OutcomeType DEF AttemptSucceeds, TypeOK
<1>4. ASSUME NEW c \in Calls, NEW r \in BOOLEAN, CallFails(c, r) PROVE TypeOK'
  <2>1. on_failure /\ Ends(c) /\ UNCHANGED <<policy, upstream, drops>>
    BY <1>4 DEF CallFails
  <2> QED BY <2>1, EndsType, OutcomeType DEF TypeOK
<1>5. ASSUME NEW c \in Calls, NEW delay \in 0..policy.max_backoff_ms, BacksOff(c, delay)
      PROVE TypeOK'
  <2>1. policy.max_backoff_ms \in Nat
    BY DEF TypeOK
  <2>2. delay \in Nat
    BY <2>1
  <2>3. /\ pc' = [pc EXCEPT ![c] = "backoff"] /\ wait' = [wait EXCEPT ![c] = delay]
        /\ UNCHANGED <<policy, state, failures, cooldown, attempt, probe, upstream, drops>>
    BY <1>5 DEF BacksOff, breakerVars
  <2> QED BY <2>2, <2>3 DEF TypeOK
<1>6. ASSUME NEW c \in Calls, Retries(c) PROVE TypeOK'
  BY <1>6 DEF Retries, TypeOK, breakerVars
<1>7. ASSUME NEW c \in Calls, CallDropped(c) PROVE TypeOK'
  BY <1>7, EndsType DEF CallDropped, TypeOK, breakerVars
<1>8. CASE Tick
  <2>1. wait' \in [Calls -> Nat]
    BY <1>8 DEF Tick, TypeOK, Max2
  <2>2. cooldown' \in 0..open_duration
    BY <1>8 DEF Tick, TypeOK, Max2
  <2> QED BY <1>8, <2>1, <2>2 DEF Tick, TypeOK
<1>9. CASE UpstreamRecovers
  BY <1>9 DEF UpstreamRecovers, TypeOK, breakerVars, callVars
<1>10. CASE UNCHANGED vars
  BY <1>10 DEF vars, TypeOK
<1> QED
  BY <1>1, <1>2, <1>3, <1>4, <1>5, <1>6, <1>7, <1>8, <1>9, <1>10 DEF Next, CallStep

\* The breaker's cooldown, its counters and every call's retry state stay in
\* range through admit, on_success, on_failure and the retry loop.
THEOREM ResilienceTypeOK == Spec => []TypeOK
<1>1. Init => TypeOK
  BY InitType
<1>2. TypeOK /\ [Next]_vars => TypeOK'
  BY NextType
<1> QED BY <1>1, <1>2, PTL DEF Spec

-----------------------------------------------------------------------------

\* A step that leaves the breaker half-open leaves its probe in flight.
LEMMA NextProbe == TypeOK /\ HalfOpenHasProbe /\ [Next]_vars => HalfOpenHasProbe'
<1> SUFFICES ASSUME TypeOK, HalfOpenHasProbe, [Next]_vars, state' = "half", drops' = 0
             PROVE  \E c \in Calls : probe'[c] /\ pc'[c] # "idle"
  BY DEF HalfOpenHasProbe, InFlight
<1>a. drops \in Nat
  BY ResilienceAssumption DEF TypeOK
<1>b. ASSUME state = "half", drops = 0
      PROVE  \E c \in Calls : probe[c] /\ pc[c] # "idle"
  BY <1>b DEF HalfOpenHasProbe, InFlight
<1>1. ASSUME NEW c \in Calls, AdmitClosed(c) PROVE FALSE
  BY <1>1 DEF AdmitClosed, breakerVars
<1>2. ASSUME NEW c \in Calls, AdmitProbe(c) PROVE \E d \in Calls : probe'[d] /\ pc'[d] # "idle"
  <2>1. probe'[c] = TRUE
    BY <1>2 DEF AdmitProbe, Starts, TypeOK
  <2>2. pc'[c] = "attempt"
    BY <1>2 DEF AdmitProbe, Starts, TypeOK
  <2> QED BY <2>1, <2>2
<1>3. ASSUME NEW c \in Calls, AttemptSucceeds(c) PROVE FALSE
  BY <1>3 DEF AttemptSucceeds, on_success
<1>4. ASSUME NEW c \in Calls, NEW r \in BOOLEAN, CallFails(c, r) PROVE FALSE
  <2>1. on_failure
    BY <1>4 DEF CallFails
  <2> QED BY <2>1, OutcomeType
<1>5. ASSUME NEW c \in Calls, NEW delay \in 0..policy.max_backoff_ms, BacksOff(c, delay)
      PROVE \E d \in Calls : probe'[d] /\ pc'[d] # "idle"
  <2>1. /\ state = "half" /\ drops = 0 /\ probe' = probe
        /\ pc' = [pc EXCEPT ![c] = "backoff"]
    BY <1>5 DEF BacksOff, breakerVars
  <2>2. PICK d \in Calls : probe[d] /\ pc[d] # "idle"
    BY <1>b, <2>1
  <2>3. pc'[d] # "idle"
    BY <2>1, <2>2 DEF TypeOK
  <2> QED BY <2>1, <2>2, <2>3
<1>6. ASSUME NEW c \in Calls, Retries(c) PROVE \E d \in Calls : probe'[d] /\ pc'[d] # "idle"
  <2>1. /\ state = "half" /\ drops = 0 /\ probe' = probe
        /\ pc' = [pc EXCEPT ![c] = "attempt"]
    BY <1>6 DEF Retries, breakerVars
  <2>2. PICK d \in Calls : probe[d] /\ pc[d] # "idle"
    BY <1>b, <2>1
  <2>3. pc'[d] # "idle"
    BY <2>1, <2>2 DEF TypeOK
  <2> QED BY <2>1, <2>2, <2>3
<1>7. ASSUME NEW c \in Calls, CallDropped(c) PROVE FALSE
  BY <1>7, <1>a DEF CallDropped
<1>8. CASE Tick \/ UpstreamRecovers \/ UNCHANGED vars
  <2>1. state = "half" /\ drops = 0 /\ probe' = probe /\ pc' = pc
    BY <1>8 DEF Tick, UpstreamRecovers, breakerVars, callVars, vars
  <2> QED BY <2>1, <1>b
<1> QED
  BY <1>1, <1>2, <1>3, <1>4, <1>5, <1>6, <1>7, <1>8 DEF Next, CallStep

\* Whatever late outcomes arrive from calls admitted before a trip, on_success
\* and on_failure never leave the breaker half-open with nobody to resolve it:
\* admit's probe is in flight, unless a caller dropped a call.
THEOREM ResilienceHalfOpenHasProbe == Spec => []HalfOpenHasProbe
<1>1. Init => TypeOK /\ HalfOpenHasProbe
  BY InitType DEF Init, HalfOpenHasProbe
<1>2. TypeOK /\ HalfOpenHasProbe /\ [Next]_vars => (TypeOK /\ HalfOpenHasProbe)'
  BY NextType, NextProbe
<1> QED BY <1>1, <1>2, PTL DEF Spec

-----------------------------------------------------------------------------
(* The delays *)

\* One step of the delay, and of what it would be with no bound.
NextDelay(p, i, d) ==
  IF i > 1 /\ d >= p.max_backoff_ms THEN p.max_backoff_ms
  ELSE saturating_mul(d, p.backoff_multiplier)

\* The delays of the retries 0..n and what they would be with no bound, and how
\* they compare: below the cap a delay is exact, at the cap the exact one is too.
\* A multiplier of 0 leaves nothing to wait for after the first retry.
DelayTables(p, n, f, g) ==
  /\ f \in [0..n -> Nat] /\ g \in [0..n -> Nat]
  /\ f[0] = p.initial_backoff_ms /\ g[0] = p.initial_backoff_ms
  /\ \A i \in 1..n : f[i] = NextDelay(p, i, f[i - 1]) /\ g[i] = g[i - 1] * p.backoff_multiplier
  /\ \A i \in 0..n : /\ f[i] < p.max_backoff_ms => f[i] = g[i]
                     /\ f[i] >= p.max_backoff_ms => g[i] >= p.max_backoff_ms
                     /\ i > 0 /\ p.backoff_multiplier = 0 => g[i] = 0

PolicySet == [max_attempts : Nat, initial_backoff_ms : 0..U64Max,
              max_backoff_ms : 0..U64Max, backoff_multiplier : Nat]

\* Products of naturals, for the steps below.
LEMMA Product ==
  ASSUME NEW a \in Nat, NEW m \in Nat
  PROVE  a * m \in Nat /\ (m # 0 => a * m >= a) /\ (m = 0 => a * m = 0)
<1>1. CASE m = 0
  BY <1>1
<1>2. CASE m # 0
  <2>1. m - 1 \in Nat /\ a * m = a + a * (m - 1)
    BY <1>2
  <2>2. a * (m - 1) \in Nat
    BY <2>1
  <2> QED BY <1>2, <2>1, <2>2
<1> QED BY <1>1, <1>2

\* One retry more keeps the comparison, whether the product stays below the cap,
\* passes it, or no longer fits in a u64.
LEMMA DelayStep ==
  ASSUME NEW p \in PolicySet, U64Max \in Nat, NEW i \in Nat \ {0}, NEW d \in Nat, NEW e \in Nat,
         d < p.max_backoff_ms => d = e,
         d >= p.max_backoff_ms => e >= p.max_backoff_ms,
         i > 1 /\ p.backoff_multiplier = 0 => e = 0,
         i = 1 => d = e
  PROVE  LET d2 == NextDelay(p, i, d)
             e2 == e * p.backoff_multiplier
         IN  /\ d2 \in Nat /\ e2 \in Nat
             /\ d2 < p.max_backoff_ms => d2 = e2
             /\ d2 >= p.max_backoff_ms => e2 >= p.max_backoff_ms
             /\ p.backoff_multiplier = 0 => e2 = 0
<1>1. PICK m \in Nat, c \in 0..U64Max : m = p.backoff_multiplier /\ c = p.max_backoff_ms
  BY DEF PolicySet
<1>2. PICK dm \in Nat : dm = d * m /\ (m # 0 => dm >= d) /\ (m = 0 => dm = 0)
  BY Product
<1>3. PICK em \in Nat : em = e * m /\ (m # 0 => em >= e) /\ (m = 0 => em = 0)
  BY Product
<1>4. d = e => dm = em
  BY <1>2, <1>3
<1>5. CASE i > 1 /\ d >= c
  <2>1. NextDelay(p, i, d) = c
    BY <1>1, <1>5 DEF NextDelay
  <2>2. e >= c /\ em >= c
    BY <1>1, <1>3, <1>5
  <2> QED BY <1>1, <1>3, <2>1, <2>2
<1>6. CASE ~(i > 1 /\ d >= c)
  <2>1. NextDelay(p, i, d) = IF dm < U64Max THEN dm ELSE U64Max
    BY <1>1, <1>2, <1>6 DEF NextDelay, saturating_mul, Min2
  <2>2. d = e
    BY <1>1, <1>6
  <2> QED BY <1>1, <1>2, <1>3, <1>4, <2>1, <2>2
<1> QED BY <1>5, <1>6

\* The tables exist, however many retries they are for.
LEMMA TablesExist ==
  ASSUME NEW p \in PolicySet, U64Max \in Nat, NEW n \in Nat
  PROVE  \E f, g : DelayTables(p, n, f, g)
<1> DEFINE G == {k \in Nat : \E f, g : DelayTables(p, k, f, g)}
<1>1. 0 \in G
  <2> DEFINE f0 == [i \in 0..0 |-> p.initial_backoff_ms]
  <2>1. p.initial_backoff_ms \in Nat
    BY DEF PolicySet
  <2>2. DelayTables(p, 0, f0, f0)
    BY <2>1 DEF DelayTables
  <2> QED BY <2>2
<1>2. ASSUME NEW k \in Nat, k \in G PROVE k + 1 \in G
  <2>1. PICK f, g : DelayTables(p, k, f, g)
    BY <1>2
  <2> DEFINE d2 == NextDelay(p, k + 1, f[k])
             e2 == g[k] * p.backoff_multiplier
             ff == [i \in 0..(k + 1) |-> IF i <= k THEN f[i] ELSE d2]
             gg == [i \in 0..(k + 1) |-> IF i <= k THEN g[i] ELSE e2]
  <2>2. /\ f[k] \in Nat /\ g[k] \in Nat /\ k + 1 \in Nat \ {0}
        /\ f[k] < p.max_backoff_ms => f[k] = g[k]
        /\ f[k] >= p.max_backoff_ms => g[k] >= p.max_backoff_ms
        /\ k + 1 > 1 /\ p.backoff_multiplier = 0 => g[k] = 0
        /\ k + 1 = 1 => f[k] = g[k]
    BY <2>1 DEF DelayTables
  <2>3. /\ d2 \in Nat /\ e2 \in Nat
        /\ d2 < p.max_backoff_ms => d2 = e2
        /\ d2 >= p.max_backoff_ms => e2 >= p.max_backoff_ms
        /\ p.backoff_multiplier = 0 => e2 = 0
    BY <2>2, DelayStep
  <2>4. \A i \in 0..k : ff[i] = f[i] /\ gg[i] = g[i]
    OBVIOUS
  <2>5. ff[k + 1] = d2 /\ gg[k + 1] = e2
    OBVIOUS
  <2>6. ff \in [0..(k + 1) -> Nat] /\ gg \in [0..(k + 1) -> Nat]
    BY <2>1, <2>3 DEF DelayTables
  <2>7. ASSUME NEW i \in 1..(k + 1)
        PROVE ff[i] = NextDelay(p, i, ff[i - 1]) /\ gg[i] = gg[i - 1] * p.backoff_multiplier
    <3>1. CASE i = k + 1
      BY <2>4, <2>5, <3>1
    <3>2. CASE i # k + 1
      <4>1. i \in 1..k /\ i \in 0..k /\ i - 1 \in 0..k
        BY <3>2
      <4> HIDE DEF ff, gg
      <4> QED BY <2>1, <2>4, <4>1 DEF DelayTables
    <3> QED BY <3>1, <3>2
  <2>8. ASSUME NEW i \in 0..(k + 1)
        PROVE /\ ff[i] < p.max_backoff_ms => ff[i] = gg[i]
              /\ ff[i] >= p.max_backoff_ms => gg[i] >= p.max_backoff_ms
              /\ i > 0 /\ p.backoff_multiplier = 0 => gg[i] = 0
    <3>1. i = k + 1 \/ i \in 0..k
      OBVIOUS
    <3> HIDE DEF ff, gg, d2, e2
    <3> QED BY <2>1, <2>3, <2>4, <2>5, <3>1 DEF DelayTables
  <2>9. ff[0] = p.initial_backoff_ms /\ gg[0] = p.initial_backoff_ms
    BY <2>1, <2>4 DEF DelayTables
  <2> HIDE DEF ff, gg
  <2>10. DelayTables(p, k + 1, ff, gg)
    BY <2>6, <2>7, <2>8, <2>9 DEF DelayTables
  <2> QED BY <2>10
<1> HIDE DEF G
<1>3. Nat \subseteq G
  BY <1>1, <1>2, NaturalInduction
<1> QED BY <1>3 DEF G

\* base_delay_ms and ExactDelay are defined by functions that obey the recursion.
LEMMA DelayRecursion ==
  ASSUME NEW p, NEW n, NEW f,
         f = [i \in 0..n |->
                IF i = 0 THEN p.initial_backoff_ms
                ELSE IF i > 1 /\ f[i - 1] >= p.max_backoff_ms THEN p.max_backoff_ms
                ELSE saturating_mul(f[i - 1], p.backoff_multiplier)]
  PROVE  \E k : /\ k = [i \in 0..n |->
                          IF i = 0 THEN p.initial_backoff_ms
                          ELSE IF i > 1 /\ k[i - 1] >= p.max_backoff_ms THEN p.max_backoff_ms
                          ELSE saturating_mul(k[i - 1], p.backoff_multiplier)]
                /\ base_delay_ms(p, n) = Min2(k[n], p.max_backoff_ms)
BY Zenon DEF base_delay_ms

\* The same of the exact delay.
LEMMA ExactRecursion ==
  ASSUME NEW p, NEW n, NEW g,
         g = [i \in 0..n |->
                IF i = 0 THEN p.initial_backoff_ms ELSE g[i - 1] * p.backoff_multiplier]
  PROVE  \E k : /\ k = [i \in 0..n |->
                          IF i = 0 THEN p.initial_backoff_ms ELSE k[i - 1] * p.backoff_multiplier]
                /\ ExactDelay(p, n) = k[n]
BY Zenon DEF ExactDelay

\* The loop of base_delay_ms, which stops at the cap and saturates at u64::MAX,
\* computes initial * multiplier^n up to the cap.
LEMMA DelayExact ==
  ASSUME NEW p \in PolicySet, U64Max \in Nat, NEW n \in Nat
  PROVE  base_delay_ms(p, n) = Min2(ExactDelay(p, n), p.max_backoff_ms)
<1>1. PICK f, g : DelayTables(p, n, f, g)
  BY TablesExist
<1>2. f = [i \in 0..n |->
             IF i = 0 THEN p.initial_backoff_ms
             ELSE IF i > 1 /\ f[i - 1] >= p.max_backoff_ms THEN p.max_backoff_ms
             ELSE saturating_mul(f[i - 1], p.backoff_multiplier)]
  <2>1. f = [i \in 0..n |-> f[i]] /\ f[0] = p.initial_backoff_ms
    BY <1>1 DEF DelayTables
  <2>2. ASSUME NEW i \in 0..n, i # 0
        PROVE f[i] = IF i > 1 /\ f[i - 1] >= p.max_backoff_ms THEN p.max_backoff_ms
                     ELSE saturating_mul(f[i - 1], p.backoff_multiplier)
    <3>1. i \in 1..n
      BY <2>2
    <3> QED BY <1>1, <3>1 DEF DelayTables, NextDelay
  <2> QED BY <2>1, <2>2
<1>3. g = [i \in 0..n |->
             IF i = 0 THEN p.initial_backoff_ms ELSE g[i - 1] * p.backoff_multiplier]
  BY <1>1 DEF DelayTables
<1>4. PICK k : /\ k = [i \in 0..n |->
                         IF i = 0 THEN p.initial_backoff_ms
                         ELSE IF i > 1 /\ k[i - 1] >= p.max_backoff_ms THEN p.max_backoff_ms
                         ELSE saturating_mul(k[i - 1], p.backoff_multiplier)]
               /\ base_delay_ms(p, n) = Min2(k[n], p.max_backoff_ms)
  BY <1>2, DelayRecursion
<1>5. PICK h : /\ h = [i \in 0..n |->
                         IF i = 0 THEN p.initial_backoff_ms ELSE h[i - 1] * p.backoff_multiplier]
               /\ ExactDelay(p, n) = h[n]
  BY <1>3, ExactRecursion
<1> DEFINE G == {i \in Nat : i <= n => k[i] = f[i] /\ h[i] = g[i]}
<1>6. 0 \in G
  <2>1. k[0] = p.initial_backoff_ms
    BY <1>4
  <2>2. h[0] = p.initial_backoff_ms
    BY <1>5
  <2> QED BY <1>1, <2>1, <2>2 DEF DelayTables
<1>7. ASSUME NEW i \in Nat, i \in G PROVE i + 1 \in G
  <2> SUFFICES ASSUME i + 1 <= n PROVE k[i + 1] = f[i + 1] /\ h[i + 1] = g[i + 1]
    OBVIOUS
  <2>1. i + 1 \in 1..n /\ i + 1 \in 0..n /\ i + 1 # 0 /\ (i + 1) - 1 = i /\ k[i] = f[i] /\ h[i] = g[i]
    BY <1>7
  <2>2. k[i + 1] = NextDelay(p, i + 1, k[i])
    BY <1>4, <2>1 DEF NextDelay
  <2>3. h[i + 1] = h[i] * p.backoff_multiplier
    BY <1>5, <2>1
  <2>4. f[i + 1] = NextDelay(p, i + 1, f[i]) /\ g[i + 1] = g[i] * p.backoff_multiplier
    BY <1>1, <2>1 DEF DelayTables
  <2> QED BY <2>1, <2>2, <2>3, <2>4
<1> HIDE DEF G
<1>8. n \in G
  BY <1>6, <1>7, NaturalInduction
<1>9. k[n] = f[n] /\ h[n] = g[n]
  BY <1>8 DEF G
<1>10. /\ f[n] \in Nat /\ g[n] \in Nat /\ p.max_backoff_ms \in Nat
       /\ f[n] < p.max_backoff_ms => f[n] = g[n]
       /\ f[n] >= p.max_backoff_ms => g[n] >= p.max_backoff_ms
  BY <1>1 DEF DelayTables, PolicySet
<1>11. Min2(f[n], p.max_backoff_ms) = Min2(g[n], p.max_backoff_ms)
  BY <1>10 DEF Min2
<1> QED BY <1>4, <1>5, <1>9, <1>11

-----------------------------------------------------------------------------
(* What the calls are bounded by *)

\* A call that sleeps has an attempt left.
SleepsInBounds == \A c \in Calls : pc[c] = "backoff" => attempt[c] + 1 < attempts

BoundsInv == TypeOK /\ ClosedBelowThreshold /\ AttemptsBounded /\ SleepsInBounds

\* The threshold is reached by the failure that trips the breaker.
LEMMA OutcomeBelow ==
  ASSUME TypeOK, ClosedBelowThreshold, on_success \/ on_failure
  PROVE  ClosedBelowThreshold'
<1>1. failure_threshold \in Nat /\ failures \in Nat
  BY ResilienceAssumption DEF TypeOK
<1>2. CASE on_success
  BY <1>1, <1>2 DEF on_success, ClosedBelowThreshold, Max2
<1>3. CASE on_failure
  <2>1. CASE state = "closed"
    <3>1. IF failures + 1 >= failure_threshold
            THEN OpenBreaker
            ELSE failures' = failures + 1 /\ UNCHANGED <<state, cooldown>>
      BY <1>3, <2>1 DEF on_failure
    <3> QED BY <1>1, <3>1 DEF OpenBreaker, ClosedBelowThreshold, Max2
  <2>2. CASE state = "half"
    <3>1. OpenBreaker
      BY <1>3, <2>2 DEF on_failure
    <3> QED BY <3>1 DEF OpenBreaker, ClosedBelowThreshold
  <2>3. CASE state = "open"
    <3>1. UNCHANGED breakerVars
      BY <1>3, <2>3 DEF on_failure
    <3> QED BY <3>1 DEF breakerVars, ClosedBelowThreshold
  <2> QED BY <2>1, <2>2, <2>3 DEF TypeOK
<1> QED BY <1>2, <1>3

\* Every step keeps the bounds: an attempt is counted only by a call that slept,
\* and a call only sleeps with an attempt left.
LEMMA NextBounds == BoundsInv /\ [Next]_vars => BoundsInv'
<1> SUFFICES ASSUME BoundsInv, [Next]_vars PROVE BoundsInv'
  OBVIOUS
<1>a. /\ TypeOK /\ ClosedBelowThreshold /\ AttemptsBounded /\ SleepsInBounds /\ TypeOK'
      /\ pc \in [Calls -> {"idle", "attempt", "backoff"}] /\ attempt \in [Calls -> Nat]
  BY NextType DEF BoundsInv, TypeOK
<1>b. attempts \in Nat \ {0}
  BY <1>a, ResilienceAssumption DEF TypeOK, attempts, Max2
<1>c. attempts' = attempts
  BY <1>a DEF Next, AdmitClosed, AdmitProbe, CallStep, AttemptSucceeds, CallFails, BacksOff, Retries,
     CallDropped, Tick, UpstreamRecovers, vars, attempts
<1>1. ASSUME NEW c \in Calls, AdmitClosed(c) \/ AdmitProbe(c) PROVE BoundsInv'
  BY <1>1, <1>a, <1>b, <1>c
  DEF AdmitClosed, AdmitProbe, Starts, BoundsInv, ClosedBelowThreshold, AttemptsBounded,
      SleepsInBounds, InFlight, breakerVars
<1>2. ASSUME NEW c \in Calls, Ends(c) PROVE AttemptsBounded' /\ SleepsInBounds'
  BY <1>2, <1>a, <1>b, <1>c DEF Ends, AttemptsBounded, SleepsInBounds, InFlight
<1>3. ASSUME NEW c \in Calls, AttemptSucceeds(c) PROVE BoundsInv'
  BY <1>2, <1>3, <1>a, OutcomeBelow DEF AttemptSucceeds, BoundsInv
<1>4. ASSUME NEW c \in Calls, NEW retryable \in BOOLEAN, CallFails(c, retryable) PROVE BoundsInv'
  BY <1>2, <1>4, <1>a, OutcomeBelow DEF CallFails, BoundsInv
<1>5. ASSUME NEW c \in Calls, CallDropped(c) PROVE BoundsInv'
  BY <1>2, <1>5, <1>a DEF CallDropped, BoundsInv, ClosedBelowThreshold, breakerVars
<1>6. ASSUME NEW c \in Calls, NEW delay, BacksOff(c, delay) PROVE BoundsInv'
  BY <1>6, <1>a, <1>b, <1>c
  DEF BacksOff, BoundsInv, ClosedBelowThreshold, AttemptsBounded, SleepsInBounds, InFlight, breakerVars
<1>7. ASSUME NEW c \in Calls, Retries(c) PROVE BoundsInv'
  BY <1>7, <1>a, <1>b, <1>c
  DEF Retries, BoundsInv, ClosedBelowThreshold, AttemptsBounded, SleepsInBounds, InFlight, breakerVars
<1>8. CASE Tick \/ UpstreamRecovers \/ UNCHANGED vars
  BY <1>8, <1>a, <1>c
  DEF Tick, UpstreamRecovers, vars, breakerVars, callVars, BoundsInv, ClosedBelowThreshold,
      AttemptsBounded, SleepsInBounds, InFlight
<1> QED
  BY <1>1, <1>3, <1>4, <1>5, <1>6, <1>7, <1>8 DEF Next, CallStep

\* Failures, attempts and delays stay within what the caller configured: the
\* breaker trips at its threshold, a call makes at most max_attempts attempts, and
\* the delay before each retry is initial * multiplier^i up to the cap although it
\* is computed in a u64 that saturates.
THEOREM ResilienceCallsBounded == Spec => []CallsBounded
<1>1. Init => BoundsInv
  <2>1. Init => TypeOK
    BY InitType
  <2>2. Init => ClosedBelowThreshold /\ AttemptsBounded /\ SleepsInBounds
    BY ResilienceAssumption DEF Init, ClosedBelowThreshold, AttemptsBounded, SleepsInBounds, InFlight, Max2
  <2> QED BY <2>1, <2>2 DEF BoundsInv
<1>2. BoundsInv /\ [Next]_vars => BoundsInv'
  BY NextBounds
<1>3. BoundsInv => CallsBounded
  <2> SUFFICES ASSUME BoundsInv PROVE BackoffCapped
    BY DEF BoundsInv, CallsBounded
  <2>1. policy \in PolicySet /\ U64Max \in Nat
    BY ResilienceAssumption DEF BoundsInv, TypeOK, PolicySet
  <2>2. \A i \in 0..policy.max_attempts : i \in Nat
    OBVIOUS
  <2> QED BY <2>1, <2>2, DelayExact DEF BackoffCapped
<1> QED BY <1>1, <1>2, <1>3, PTL DEF Spec

-----------------------------------------------------------------------------
(***************************************************************************)
(* Messages from chat channels. That a request runs once needs to be said  *)
(* of requests that are still in a handler's hand (HandsInv), and of the   *)
(* replay cache at a time when it has been pruned: a request that is no    *)
(* longer remembered was dropped early, or it is past its window for good  *)
(* and no handler holds it as fresh, because its window had begun when it  *)
(* was remembered and the clock does not go back. That an acknowledged     *)
(* message is not lost needs that the worker stops only when nobody holds  *)
(* a sender (QueueInv).                                                    *)
(***************************************************************************)
InHand(h) == handler[h].at \in {"parsed", "copied"}
Stamped(r) == \E h \in Handlers : handler[h].at = "stamped" /\ handler[h].req = r

\* A request that is not accepted again: it is remembered, or its window is over
\* and no handler found otherwise before; or it was dropped early.
Over(r) == second > SignedAt[r] + ReplayWindow /\ ~Stamped(r)
Spent(r) == r \in seen \/ r \in lapsed \/ Over(r)
IsTaken(m) == \E i \in 1..Len(taken) : taken[i] = m

\* Types of the intake, the queue, the worker and what is shown.
ChanTypes ==
  /\ second \in Nat /\ seen \subseteq SlackRequests /\ lapsed \subseteq SlackRequests
  /\ handler \in [Handlers -> [at : {"idle", "stamped", "parsed", "copied"},
                               req : SlackRequests \cup {"none"}, now : Nat]]
  /\ answers \in [SlackRequests -> SUBSET {200, 401, 503}]
  /\ forwarder \in {"waits", "holds", "sends", "stopped"}
  /\ arriving \subseteq Inbound /\ carried \in Inbound \cup {"none"}
  /\ workQueue \in Seq(ChannelMessages) /\ sender \in BOOLEAN
  /\ turn \in [at : {"idle", "placeholder", "streams", "gone"},
               msg : ChannelMessages \cup {"none"}, reply : Nat, last_sent : Nat]
  /\ handled \in Seq(ChannelMessages) /\ taken \in Seq(ChannelMessages)
  /\ DOMAIN display = ChannelMessages /\ missed \subseteq ChannelMessages

\* What the handlers and the forwarder have in hand was not taken and is in one
\* hand only, but for what was dropped early, and a Slack request there is spent. A
\* handler that has read the clock found its request fresh.
HandsInv ==
  /\ \A h \in Handlers : InHand(h) =>
       /\ handler[h].req \in SlackRequests /\ IsMessage[handler[h].req]
       /\ Spent(handler[h].req) /\ (IsTaken(handler[h].req) => handler[h].req \in lapsed)
  /\ \A g, h \in Handlers :
       InHand(g) /\ InHand(h) /\ handler[g].req = handler[h].req => g = h \/ handler[g].req \in lapsed
  /\ forwarder \in {"holds", "sends"} => carried \in Inbound /\ carried \notin arriving
  /\ carried # "none" => ~IsTaken(carried)
  /\ \A m \in arriving : ~IsTaken(m)
  /\ \A r \in SlackRequests : IsTaken(r) => Spent(r)
ClockInv ==
  /\ \A r \in seen : SignedAt[r] <= second + ReplayWindow
  /\ \A h \in Handlers : handler[h].at = "stamped" =>
       /\ handler[h].req \in SlackRequests /\ handler[h].now <= second
       /\ Fresh(handler[h].now, handler[h].req)

\* No message is taken twice, unless it was dropped early.
TakenOnce == \A i, j \in 1..Len(taken) : taken[i] = taken[j] => i = j \/ taken[i] \in lapsed

\* The queue and the worker.
Current == IF turn.msg = "none" THEN <<>> ELSE <<turn.msg>>
QueueInv ==
  /\ Len(workQueue) <= QueueCapacity
  /\ taken = handled \o Current \o workQueue
  /\ turn.msg = "none" <=> turn.at \in {"idle", "gone"}
  /\ turn.at = "gone" => workQueue = <<>> /\ ~sender /\ Copies = {} /\ forwarder # "sends"
  /\ \A r \in SlackRequests : IsMessage[r] /\ 200 \in answers[r] => IsTaken(r)

\* What a channel shows of the turn that runs and of those that are over.
IsHandled(m) == \E i \in 1..Len(handled) : handled[i] = m
ShownInv ==
  /\ turn.at = "streams" /\ turn.msg \notin missed =>
       display[turn.msg] = IF turn.reply = 0 THEN <<"placeholder">> ELSE Reply(turn.reply)
  /\ \A m \in ChannelMessages : IsHandled(m) /\ m \notin missed /\ m # turn.msg =>
       display[m] \notin {<<"nothing">>, <<"placeholder">>}
  /\ turn.reply <= MaxDeltas /\ turn.last_sent <= turn.reply
  /\ turn.at = "placeholder" => turn.reply = 0

ChanInv == ChanTypes /\ HandsInv /\ ClockInv /\ TakenOnce /\ QueueInv /\ ShownInv

\* An empty queue and idle hands.
LEMMA ChanInitInv == ChannelInit => ChanInv
<1> SUFFICES ASSUME ChannelInit PROVE ChanInv
  OBVIOUS
<1> USE ChannelAssumption DEF ChannelInit, ChannelMessages, NoTurn, NoRequest
<1>1. ChanTypes
  BY DEF ChanTypes
<1>2. HandsInv /\ ClockInv /\ TakenOnce /\ ShownInv
  BY DEF HandsInv, ClockInv, TakenOnce, ShownInv, IsTaken, IsHandled, InHand
<1>3. QueueInv
  BY DEF QueueInv, Current
<1> QED BY <1>1, <1>2, <1>3 DEF ChanInv

\* What the invariant is for.
LEMMA ChanInvSound == ChanInv => ChannelsSound /\ ChannelTypeOK
<1> SUFFICES ASSUME ChanInv PROVE ChannelsSound /\ ChannelTypeOK
  OBVIOUS
<1> USE DEF ChanInv
<1>1. RunsOnce
  BY DEF RunsOnce, TakenOnce
<1>2. AcknowledgedIsHandled
  <2>1. taken = handled \o (IF turn.msg = "none" THEN <<>> ELSE <<turn.msg>>) \o workQueue
    BY DEF QueueInv, Current
  <2>2. ASSUME NEW r \in SlackRequests, IsMessage[r], 200 \in answers[r] PROVE r \in Range(taken)
    <3>1. taken \in Seq(ChannelMessages) /\ IsTaken(r)
      BY <2>2 DEF ChanTypes, QueueInv
    <3> QED BY <3>1 DEF IsTaken, Range
  <2>3. turn.at = "gone" => Range(taken) \subseteq Range(handled)
    <3>1. turn.at = "gone" => taken = handled
      BY <2>1 DEF QueueInv, ChanTypes
    <3> QED BY <3>1
  <2> QED BY <2>1, <2>2, <2>3 DEF AcknowledgedIsHandled
<1>3. ReplyShown
  <2>1. \A m \in Range(handled) : m \in ChannelMessages /\ IsHandled(m)
    BY DEF Range, IsHandled, ChanTypes
  <2> QED BY <2>1 DEF ReplyShown, ShownInv
<1>4. ChannelTypeOK
  BY DEF ChannelTypeOK, ChanTypes, QueueInv, ShownInv
<1> QED BY <1>1, <1>2, <1>3, <1>4 DEF ChannelsSound

\* A message that is appended is taken, and nothing else is.
LEMMA TakenAppended ==
  ASSUME ChanTypes, NEW m \in ChannelMessages, taken' = Append(taken, m), NEW x
  PROVE  IsTaken(x)' <=> IsTaken(x) \/ x = m
<1>1. taken \in Seq(ChannelMessages)
  BY DEF ChanTypes
<1>2. /\ Len(taken') = Len(taken) + 1 /\ taken'[Len(taken) + 1] = m
      /\ \A i \in 1..Len(taken) : taken'[i] = taken[i]
  BY <1>1
<1>3. \A i \in 1..Len(taken') : i \in 1..Len(taken) \/ i = Len(taken) + 1
  BY <1>1, <1>2
<1>4. ASSUME IsTaken(x)' PROVE IsTaken(x) \/ x = m
  BY <1>4, <1>2, <1>3 DEF IsTaken
<1>5. ASSUME IsTaken(x) PROVE IsTaken(x)'
  <2>1. PICK i \in 1..Len(taken) : taken[i] = x
    BY <1>5 DEF IsTaken
  <2>2. i \in 1..Len(taken')
    BY <1>1, <1>2
  <2> QED BY <2>1, <2>2, <1>2 DEF IsTaken
<1>6. ASSUME x = m PROVE IsTaken(x)'
  <2>1. Len(taken) + 1 \in 1..Len(taken')
    BY <1>1, <1>2
  <2> QED BY <2>1, <1>2, <1>6 DEF IsTaken
<1> QED BY <1>4, <1>5, <1>6

\* What was not taken before is taken once; what was dropped early may be again.
LEMMA TakenOnceAppended ==
  ASSUME ChanTypes, TakenOnce, NEW m \in ChannelMessages, IsTaken(m) => m \in lapsed,
         taken' = Append(taken, m), lapsed' = lapsed
  PROVE  TakenOnce'
<1>1. taken \in Seq(ChannelMessages)
  BY DEF ChanTypes
<1>2. /\ Len(taken') = Len(taken) + 1 /\ taken'[Len(taken) + 1] = m
      /\ \A i \in 1..Len(taken) : taken'[i] = taken[i]
  BY <1>1
<1>3. \A i \in 1..Len(taken) : taken[i] = m => m \in lapsed
  BY DEF IsTaken
<1> QED BY <1>1, <1>2, <1>3 DEF TakenOnce

\* A request that was found fresh had begun its window, and it was not over.
LEMMA FreshWindow ==
  ASSUME NEW now \in Nat, NEW r \in SlackRequests, Fresh(now, r)
  PROVE  SignedAt[r] <= now + ReplayWindow /\ ~(now > SignedAt[r] + ReplayWindow)
<1>1. SignedAt[r] \in Nat /\ ReplayWindow \in Nat
  BY ChannelAssumption
<1> QED BY <1>1 DEF Fresh, AbsDiff

\* What was spent stays spent and no hand takes anything: then the hands are kept.
LEMMA HandsKept ==
  ASSUME ChanInv, UNCHANGED <<taken, lapsed, arriving, carried, forwarder>>,
         \A q \in SlackRequests : Spent(q) => Spent(q)',
         \A g \in Handlers : InHand(g)' => InHand(g) /\ handler'[g].req = handler[g].req
  PROVE  HandsInv' /\ TakenOnce' /\ \A x : IsTaken(x)' <=> IsTaken(x)
<1> USE DEF ChanInv
<1>1. \A x : IsTaken(x)' <=> IsTaken(x)
  BY DEF IsTaken
<1>2. ASSUME NEW g \in Handlers, InHand(g)'
      PROVE  /\ handler'[g].req \in SlackRequests /\ IsMessage[handler'[g].req]
             /\ Spent(handler[g].req)' /\ (IsTaken(handler[g].req)' => handler'[g].req \in lapsed')
  BY <1>1, <1>2 DEF HandsInv
<1>3. \A f, g \in Handlers : InHand(f)' /\ InHand(g)' /\ handler'[f].req = handler'[g].req
                             => f = g \/ handler'[f].req \in lapsed'
  BY DEF HandsInv
<1>4. /\ forwarder' \in {"holds", "sends"} => carried' \in Inbound /\ carried' \notin arriving'
      /\ carried' # "none" => ~IsTaken(carried)'
      /\ \A m \in arriving' : ~IsTaken(m)'
      /\ \A q \in SlackRequests : IsTaken(q)' => Spent(q)'
  BY <1>1 DEF HandsInv
<1>5. TakenOnce'
  BY DEF TakenOnce
<1> QED BY <1>1, <1>2, <1>3, <1>4, <1>5 DEF HandsInv

\* Nobody reads the clock or the cache: what was spent is spent.
LEMMA SpentKept ==
  ASSUME UNCHANGED <<second, seen, lapsed>>,
         \A g \in Handlers : handler'[g].at = "stamped" => handler'[g] = handler[g]
  PROVE  \A q \in SlackRequests : Spent(q) => Spent(q)'
<1>1. \A q : Stamped(q)' => Stamped(q)
  BY DEF Stamped
<1> QED BY <1>1 DEF Spent, Over

\* A handler goes on with what it has in hand, or is done with it.
LEMMA HandlersKept ==
  ASSUME ChanInv, UNCHANGED <<second, seen, lapsed, taken, arriving, carried, forwarder>>,
         \A g \in Handlers : \/ handler'[g] = handler[g]
                             \/ handler'[g].at = "idle"
                             \/ InHand(g) /\ InHand(g)' /\ handler'[g].req = handler[g].req
  PROVE  HandsInv' /\ ClockInv' /\ TakenOnce' /\ \A x : IsTaken(x)' <=> IsTaken(x)
<1>1. \A g \in Handlers : handler'[g].at = "stamped" => handler'[g] = handler[g]
  BY DEF InHand
<1>2. \A g \in Handlers : InHand(g)' => InHand(g) /\ handler'[g].req = handler[g].req
  BY DEF InHand
<1>3. ClockInv'
  BY <1>1 DEF ChanInv, ClockInv, Fresh
<1> QED BY <1>1, <1>2, <1>3, SpentKept, HandsKept

\* A request that is delivered is refused, or a handler holds it as fresh: then it
\* is not over.
LEMMA DeliversInv ==
  ASSUME ChanInv, NEW h \in Handlers, NEW r \in SlackRequests, SlackDelivers(h, r) PROVE ChanInv'
<1> USE DEF ChanInv
<1>0. /\ handler[h].at = "idle" /\ second \in Nat
      /\ UNCHANGED <<second, seen, lapsed, forwarder, arriving, carried, workQueue, sender, turn,
                     display, handled, taken, missed>>
  BY DEF SlackDelivers, ChanTypes
<1>1. \A x : IsTaken(x)' <=> IsTaken(x)
  BY <1>0 DEF IsTaken
<1>2. PICK v \in {NoRequest, [at |-> "stamped", req |-> r, now |-> second]} :
        /\ handler' = [handler EXCEPT ![h] = v]
        /\ v.at = "stamped" => Fresh(second, r)
        /\ answers' \in [SlackRequests -> SUBSET {200, 401, 503}]
        /\ \A q \in SlackRequests : 200 \in answers'[q] => 200 \in answers[q]
  <2>1. CASE ~Fresh(second, r) /\ Answer(h, r, 401)
    <3>1. handler' = [handler EXCEPT ![h] = NoRequest] /\ answers' = [answers EXCEPT ![r] = @ \cup {401}]
      BY <2>1 DEF Answer
    <3>2. answers' \in [SlackRequests -> SUBSET {200, 401, 503}]
          /\ \A q \in SlackRequests : 200 \in answers'[q] => 200 \in answers[q]
      BY <3>1 DEF ChanTypes
    <3>3. NoRequest.at = "idle"
      BY DEF NoRequest
    <3> QED BY <3>1, <3>2, <3>3
  <2>2. CASE /\ Fresh(second, r) /\ UNCHANGED answers
             /\ handler' = [handler EXCEPT ![h] = [at |-> "stamped", req |-> r, now |-> second]]
    BY <2>2 DEF ChanTypes
  <2> QED BY <2>1, <2>2 DEF SlackDelivers
<1>3. \A g \in Handlers : handler'[g] = IF g = h THEN v ELSE handler[g]
  BY <1>2 DEF ChanTypes
<1>4. v \in [at : {"idle", "stamped"}, req : SlackRequests \cup {"none"}, now : Nat]
      /\ (v.at = "stamped" => v.req = r /\ v.now = second)
  BY <1>0 DEF NoRequest
<1>5. \A g \in Handlers : InHand(g)' <=> InHand(g)
  BY <1>0, <1>3, <1>4 DEF InHand
<1>6. ChanTypes'
  BY <1>0, <1>2, <1>4 DEF ChanTypes
<1>7. ASSUME NEW q \in SlackRequests, Spent(q) PROVE Spent(q)'
  <2>1. CASE q \in seen \/ q \in lapsed
    BY <1>0, <2>1 DEF Spent
  <2>2. CASE Over(q)
    <3>1. v.at = "stamped" => q # r
      BY <1>0, <1>2, <2>2, FreshWindow DEF Over
    <3> QED BY <1>0, <1>3, <1>4, <2>2, <3>1 DEF Spent, Over, Stamped
  <2> QED BY <1>7, <2>1, <2>2 DEF Spent
<1>8. HandsInv'
  <2>1. \A g \in Handlers : InHand(g)' => InHand(g) /\ handler'[g] = handler[g]
    BY <1>0, <1>3, <1>5 DEF InHand
  <2> QED BY <1>0, <1>1, <1>7, <2>1, HandsKept
<1>9. ClockInv'
  BY <1>0, <1>2, <1>3, <1>4 DEF ClockInv, Fresh
<1>10. TakenOnce' /\ ShownInv'
  BY <1>0 DEF TakenOnce, ShownInv, IsHandled, Reply
<1>11. QueueInv'
  <2>1. Copies' = Copies
    BY <1>0, <1>3, <1>4 DEF Copies
  <2> QED BY <1>0, <1>1, <1>2, <2>1 DEF QueueInv, Current
<1> QED BY <1>6, <1>8, <1>9, <1>10, <1>11

\* The cache is pruned and the request remembered. What is pruned was dropped early,
\* or it is over; a request that was not remembered is new, or was dropped early.
LEMMA RemembersInv ==
  ASSUME ChanInv, NEW h \in Handlers, SlackRemembers(h) PROVE ChanInv'
<1> USE DEF ChanInv
<1> DEFINE r == handler[h].req
           kept == Retained(h)
<1>0. /\ handler[h].at = "stamped" /\ second \in Nat /\ r \in SlackRequests
      /\ handler[h].now \in Nat /\ handler[h].now <= second /\ Fresh(handler[h].now, r)
      /\ seen' = kept \cup {r} /\ kept \subseteq seen /\ lapsed' = lapsed \cup DroppedEarly(h)
      /\ DroppedEarly(h) \subseteq SlackRequests
      /\ UNCHANGED <<second, forwarder, arriving, carried, workQueue, sender, turn,
                     display, handled, taken, missed>>
  BY DEF SlackRemembers, ChanTypes, ClockInv, Retained, DroppedEarly
<1>1. \A x : IsTaken(x)' <=> IsTaken(x)
  BY <1>0 DEF IsTaken
<1>2. PICK v \in {NoRequest, [at |-> "parsed", req |-> r, now |-> 0]} :
        /\ handler' = [handler EXCEPT ![h] = v]
        /\ v.at = "parsed" => r \notin kept /\ IsMessage[r]
        /\ answers' \in [SlackRequests -> SUBSET {200, 401, 503}]
        /\ \A q \in SlackRequests : IsMessage[q] /\ 200 \in answers'[q] => 200 \in answers[q]
  <2>1. ASSUME NEW code \in {200, 401}, Answer(h, r, code), code = 200 => ~IsMessage[r]
        PROVE  /\ handler' = [handler EXCEPT ![h] = NoRequest] /\ NoRequest.at = "idle"
               /\ answers' \in [SlackRequests -> SUBSET {200, 401, 503}]
               /\ \A q \in SlackRequests : IsMessage[q] /\ 200 \in answers'[q] => 200 \in answers[q]
    <3>1. handler' = [handler EXCEPT ![h] = NoRequest] /\ answers' = [answers EXCEPT ![r] = @ \cup {code}]
      BY <2>1 DEF Answer
    <3> HIDE DEF r
    <3> QED BY <1>0, <2>1, <3>1 DEF ChanTypes, NoRequest
  <2>2. CASE \/ r \in kept /\ Answer(h, r, 401)
             \/ r \notin kept /\ ~IsMessage[r] /\ Answer(h, r, 200)
    BY <2>1, <2>2
  <2>3. CASE /\ r \notin kept /\ IsMessage[r] /\ UNCHANGED answers
             /\ handler' = [handler EXCEPT ![h] = [at |-> "parsed", req |-> r, now |-> 0]]
    BY <2>3 DEF ChanTypes
  <2> QED BY <2>2, <2>3 DEF SlackRemembers
<1>3. \A g \in Handlers : handler'[g] = IF g = h THEN v ELSE handler[g]
  BY <1>2 DEF ChanTypes
<1>4. v \in [at : {"idle", "parsed"}, req : SlackRequests \cup {"none"}, now : Nat]
      /\ (v.at = "parsed" => v.req = r)
  BY <1>0 DEF NoRequest
<1>5. ChanTypes'
  BY <1>0, <1>2, <1>4 DEF ChanTypes
<1>6. ASSUME NEW q \in SlackRequests, Spent(q) PROVE Spent(q)'
  <2>1. CASE q \in kept \/ q \in lapsed
    BY <1>0, <2>1 DEF Spent
  <2>2. CASE Over(q)
    <3>1. ~Stamped(q)'
      BY <1>3, <1>4, <2>2 DEF Over, Stamped
    <3> QED BY <1>0, <2>2, <3>1 DEF Spent, Over
  <2>3. CASE q \in seen \ kept
    <3>1. CASE Fresh(second, q) \/ Stamped(q)
      BY <1>0, <2>3, <3>1 DEF Spent, DroppedEarly, Stamped
    <3>2. CASE ~Fresh(second, q) /\ ~Stamped(q)
      <4>1. SignedAt[q] <= second + ReplayWindow /\ SignedAt[q] \in Nat /\ ReplayWindow \in Nat
        BY <2>3, ChannelAssumption DEF ClockInv
      <4>2. second > SignedAt[q] + ReplayWindow
        BY <1>0, <3>2, <4>1 DEF Fresh, AbsDiff
      <4>3. ~Stamped(q)'
        BY <1>3, <1>4, <3>2 DEF Stamped
      <4> QED BY <1>0, <4>2, <4>3 DEF Spent, Over
    <3> QED BY <3>1, <3>2
  <2> QED BY <1>6, <2>1, <2>2, <2>3 DEF Spent
<1>7. r \notin kept => ~Spent(r) \/ r \in lapsed
  BY <1>0 DEF Spent, Over, Stamped, Retained
<1>8. HandsInv'
  <2>1. v.at = "parsed" =>
          /\ IsTaken(r) => r \in lapsed
          /\ \A g \in Handlers : InHand(g) /\ handler[g].req = r => r \in lapsed
    BY <1>0, <1>2, <1>7 DEF HandsInv
  <2>2. \A g \in Handlers : InHand(g)' =>
          IF g = h THEN v.at = "parsed" /\ handler'[g].req = r ELSE InHand(g) /\ handler'[g] = handler[g]
    BY <1>3, <1>4 DEF InHand
  <2>3. ASSUME NEW g \in Handlers, InHand(g)'
        PROVE  /\ handler'[g].req \in SlackRequests /\ IsMessage[handler'[g].req]
               /\ Spent(handler[g].req)' /\ (IsTaken(handler[g].req)' => handler'[g].req \in lapsed')
    <3>1. CASE g = h
      <4>1. handler'[g].req = r /\ v.at = "parsed"
        BY <2>2, <2>3, <3>1
      <4>2. Spent(handler[g].req)'
        BY <1>0, <4>1 DEF Spent
      <4> QED BY <1>0, <1>1, <1>2, <2>1, <4>1, <4>2
    <3>2. CASE g # h
      BY <1>0, <1>1, <1>6, <2>2, <2>3, <3>2 DEF HandsInv
    <3> QED BY <3>1, <3>2
  <2>4. \A f, g \in Handlers : InHand(f)' /\ InHand(g)' /\ handler'[f].req = handler'[g].req
                               => f = g \/ handler'[f].req \in lapsed'
    BY <1>0, <2>1, <2>2 DEF HandsInv
  <2>5. \A q \in SlackRequests : IsTaken(q)' => Spent(q)'
    BY <1>1, <1>6 DEF HandsInv
  <2>6. /\ forwarder' \in {"holds", "sends"} => carried' \in Inbound /\ carried' \notin arriving'
        /\ carried' # "none" => ~IsTaken(carried)'
        /\ \A m \in arriving' : ~IsTaken(m)'
    BY <1>0, <1>1 DEF HandsInv
  <2> QED BY <2>3, <2>4, <2>5, <2>6 DEF HandsInv
<1>9. ClockInv'
  <2>1. SignedAt[r] <= second + ReplayWindow
    <3>1. SignedAt[r] <= handler[h].now + ReplayWindow /\ SignedAt[r] \in Nat /\ ReplayWindow \in Nat
      BY <1>0, FreshWindow, ChannelAssumption
    <3> QED BY <1>0, <3>1
  <2>2. \A g \in Handlers : handler'[g].at = "stamped" => handler'[g] = handler[g]
    BY <1>3, <1>4
  <2> QED BY <1>0, <2>1, <2>2 DEF ClockInv, Fresh
<1>10. TakenOnce' /\ ShownInv'
  BY <1>0 DEF TakenOnce, ShownInv, IsHandled, Reply
<1>11. QueueInv'
  <2>1. Copies' = Copies
    BY <1>0, <1>3, <1>4 DEF Copies
  <2> QED BY <1>0, <1>1, <1>2, <2>1 DEF QueueInv, Current
<1> QED BY <1>5, <1>8, <1>9, <1>10, <1>11

\* An answer other than 200 promises nothing.
LEMMA Refused ==
  ASSUME ChanInv, NEW h \in Handlers, NEW r \in SlackRequests, Answer(h, r, 503),
         UNCHANGED <<second, seen, lapsed, forwarder, arriving, carried, workQueue, sender, turn,
                     display, handled, taken, missed>>
  PROVE  ChanInv'
<1> USE DEF ChanInv
<1>1. /\ answers' = [answers EXCEPT ![r] = @ \cup {503}]
      /\ handler' = [handler EXCEPT ![h] = NoRequest] /\ NoRequest.at = "idle"
  BY DEF Answer, NoRequest
<1>2. ChanTypes'
  BY <1>1 DEF ChanTypes, NoRequest
<1>3. \A g \in Handlers : handler'[g] = handler[g] \/ handler'[g].at = "idle"
  BY <1>1 DEF ChanTypes
<1>4. HandsInv' /\ ClockInv' /\ TakenOnce' /\ \A x : IsTaken(x)' <=> IsTaken(x)
  BY <1>3, HandlersKept
<1>5. ShownInv'
  BY DEF ShownInv, IsHandled, Reply
<1>6. QueueInv'
  <2>1. Copies = {} => Copies' = {}
    BY <1>3 DEF Copies
  <2>2. \A q \in SlackRequests : 200 \in answers'[q] => 200 \in answers[q]
    BY <1>1 DEF ChanTypes
  <2> QED BY <1>4, <2>1, <2>2 DEF QueueInv, Current
<1> QED BY <1>2, <1>4, <1>5, <1>6

\* A handler gets its copy of the sender, or the worker is gone.
LEMMA CopiesSenderInv ==
  ASSUME ChanInv, NEW h \in Handlers, SlackCopiesSender(h) PROVE ChanInv'
<1> USE DEF ChanInv
<1>0. /\ handler[h].at = "parsed" /\ InHand(h) /\ handler[h].req \in SlackRequests
      /\ UNCHANGED <<second, seen, lapsed, forwarder, arriving, carried, workQueue, sender, turn,
                     display, handled, taken, missed>>
  BY DEF SlackCopiesSender, HandsInv, InHand
<1>1. CASE ~sender /\ Answer(h, handler[h].req, 503)
  BY <1>0, <1>1, Refused
<1>2. CASE sender /\ handler' = [handler EXCEPT ![h].at = "copied"] /\ UNCHANGED answers
  <2> DEFINE v == [at |-> "copied", req |-> handler[h].req, now |-> handler[h].now]
  <2>1. handler' = [handler EXCEPT ![h] = v]
    <3>1. handler[h] \in [at : {"idle", "stamped", "parsed", "copied"},
                          req : SlackRequests \cup {"none"}, now : Nat]
      BY DEF ChanTypes
    <3>2. [handler[h] EXCEPT !.at = "copied"] = v
      BY <3>1
    <3> QED BY <1>2, <3>2
  <2>2. v \in [at : {"idle", "stamped", "parsed", "copied"}, req : SlackRequests \cup {"none"}, now : Nat]
    BY <1>0 DEF ChanTypes
  <2>3. \A g \in Handlers : handler'[g] = IF g = h THEN v ELSE handler[g]
    BY <2>1 DEF ChanTypes
  <2>4. ChanTypes'
    <3>1. handler' \in [Handlers -> [at : {"idle", "stamped", "parsed", "copied"},
                                     req : SlackRequests \cup {"none"}, now : Nat]]
      <4> HIDE DEF v
      <4> QED BY <2>1, <2>2 DEF ChanTypes
    <3> QED BY <1>0, <1>2, <3>1 DEF ChanTypes
  <2>5. HandsInv' /\ ClockInv' /\ TakenOnce' /\ \A x : IsTaken(x)' <=> IsTaken(x)
    <3>1. InHand(h) /\ InHand(h)' /\ handler'[h].req = handler[h].req
      BY <1>0, <2>3 DEF InHand
    <3>2. \A g \in Handlers : g # h => handler'[g] = handler[g]
      BY <2>3
    <3> QED BY <1>0, <3>1, <3>2, HandlersKept
  <2>6. ShownInv'
    BY <1>0 DEF ShownInv, IsHandled, Reply
  <2>7. QueueInv'
    BY <1>0, <1>2, <2>5 DEF QueueInv, Current
  <2> QED BY <2>4, <2>5, <2>6, <2>7
<1> QED BY <1>1, <1>2 DEF SlackCopiesSender

\* The queue takes a message that was in hand.
LEMMA Accepted ==
  ASSUME ChanInv, NEW m \in ChannelMessages, IsTaken(m) => m \in lapsed, turn.at # "gone", lapsed' = lapsed,
         Len(workQueue) < QueueCapacity, workQueue' = Append(workQueue, m), taken' = Append(taken, m),
         turn' = turn, handled' = handled
  PROVE  /\ workQueue' \in Seq(ChannelMessages) /\ taken' \in Seq(ChannelMessages)
         /\ Len(workQueue') <= QueueCapacity
         /\ TakenOnce' /\ taken' = (handled \o Current \o workQueue)'
         /\ \A x : IsTaken(x)' <=> IsTaken(x) \/ x = m
<1> USE DEF ChanInv
<1>1. workQueue \in Seq(ChannelMessages) /\ taken \in Seq(ChannelMessages)
      /\ handled \in Seq(ChannelMessages) /\ Current \in Seq(ChannelMessages)
      /\ QueueCapacity \in Nat
  BY ChannelAssumption DEF ChanTypes, Current
<1>2. /\ Len(workQueue') <= QueueCapacity
      /\ workQueue' \in Seq(ChannelMessages) /\ taken' \in Seq(ChannelMessages)
  BY <1>1
<1>3. TakenOnce'
  BY TakenOnceAppended
<1>4. taken' = (handled \o Current \o workQueue)'
  <2>1. taken = handled \o Current \o workQueue
    BY DEF QueueInv
  <2>2. Append(handled \o Current \o workQueue, m) = handled \o Current \o Append(workQueue, m)
    <3>1. /\ Append(workQueue, m) = workQueue \o <<m>> /\ <<m>> \in Seq(ChannelMessages)
          /\ handled \o Current \in Seq(ChannelMessages)
          /\ handled \o Current \o workQueue \in Seq(ChannelMessages)
      BY <1>1, AppendIsConcat
    <3>2. Append(handled \o Current \o workQueue, m) = (handled \o Current \o workQueue) \o <<m>>
      BY <3>1, AppendIsConcat
    <3>4. ((handled \o Current) \o workQueue) \o <<m>> = (handled \o Current) \o (workQueue \o <<m>>)
      BY <1>1, <3>1, ConcatAssociative
    <3> QED BY <3>1, <3>2, <3>4
  <2>3. Current' = Current
    BY DEF Current
  <2> QED BY <2>1, <2>2, <2>3
<1>5. \A x : IsTaken(x)' <=> IsTaken(x) \/ x = m
  BY TakenAppended
<1> QED BY <1>1, <1>2, <1>3, <1>4, <1>5

\* A handler's copy of the sender keeps the worker alive.
LEMMA EnqueuesInv ==
  ASSUME ChanInv, NEW h \in Handlers, SlackEnqueues(h) PROVE ChanInv'
<1> USE DEF ChanInv
<1> DEFINE m == handler[h].req
<1>0. /\ m \in SlackRequests /\ handler[h].at = "copied" /\ InHand(h) /\ Spent(m) /\ IsMessage[m]
      /\ (IsTaken(m) => m \in lapsed) /\ turn.at # "gone" /\ m \in ChannelMessages
      /\ UNCHANGED <<second, seen, lapsed, forwarder, arriving, carried, sender, turn, display, handled, missed>>
  BY DEF SlackEnqueues, HandsInv, InHand, QueueInv, Copies, ChannelMessages
<1>1. CASE Len(workQueue) = QueueCapacity /\ UNCHANGED <<workQueue, taken>>
  <2>1. Answer(h, m, 503)
    BY <1>1 DEF SlackEnqueues
  <2> QED BY <1>0, <1>1, <2>1, Refused
<1>2. CASE /\ Len(workQueue) < QueueCapacity
           /\ workQueue' = Append(workQueue, m) /\ taken' = Append(taken, m)
  <2>2. /\ workQueue' \in Seq(ChannelMessages) /\ taken' \in Seq(ChannelMessages)
        /\ Len(workQueue') <= QueueCapacity
        /\ TakenOnce' /\ taken' = (handled \o Current \o workQueue)'
        /\ \A x : IsTaken(x)' <=> IsTaken(x) \/ x = m
    BY <1>0, <1>2, Accepted
  <2>3. taken' # taken
    BY <1>2 DEF ChanTypes
  <2>4. Answer(h, m, 200)
    BY <2>3 DEF SlackEnqueues
  <2>5. /\ answers' = [answers EXCEPT ![m] = @ \cup {200}]
        /\ handler' = [handler EXCEPT ![h] = NoRequest] /\ NoRequest.at = "idle"
    BY <2>4 DEF Answer, NoRequest
  <2>6. ChanTypes'
    <3> HIDE DEF m
    <3> QED BY <1>0, <2>2, <2>5 DEF ChanTypes, NoRequest
  <2>7. \A g \in Handlers : handler'[g].at # "idle" => g # h /\ handler'[g] = handler[g]
    BY <2>5 DEF ChanTypes
  <2>8. HandsInv'
    <3>2. \A q \in SlackRequests : Spent(q) => Spent(q)'
      BY <1>0, <2>7, SpentKept
    <3>3. \A g \in Handlers : InHand(g)' => g # h /\ InHand(g) /\ handler'[g] = handler[g]
      BY <2>7 DEF InHand
    <3>4. ASSUME NEW g \in Handlers, InHand(g)'
          PROVE  /\ handler'[g].req \in SlackRequests /\ IsMessage[handler'[g].req]
                 /\ Spent(handler[g].req)' /\ (IsTaken(handler[g].req)' => handler'[g].req \in lapsed')
      <4>1. g # h /\ InHand(g) /\ handler'[g] = handler[g]
        BY <3>3, <3>4
      <4>2. handler[g].req = m => m \in lapsed
        BY <1>0, <4>1 DEF HandsInv
      <4> QED BY <1>0, <2>2, <3>2, <4>1, <4>2 DEF HandsInv
    <3>5. \A f, g \in Handlers : InHand(f)' /\ InHand(g)' /\ handler'[f].req = handler'[g].req
                                 => f = g \/ handler'[f].req \in lapsed'
      BY <1>0, <3>3 DEF HandsInv
    <3>6. \A n \in Inbound : n # m
      BY <1>0, ChannelAssumption
    <3>7. carried' # "none" => ~IsTaken(carried)'
      BY <1>0, <2>2, <3>6 DEF HandsInv, ChanTypes
    <3>8. \A n \in arriving' : ~IsTaken(n)'
      BY <1>0, <2>2, <3>6 DEF HandsInv, ChanTypes
    <3>9. \A q \in SlackRequests : IsTaken(q)' => Spent(q)'
      BY <1>0, <2>2, <3>2 DEF HandsInv
    <3>10. forwarder' \in {"holds", "sends"} => carried' \in Inbound /\ carried' \notin arriving'
      BY <1>0 DEF HandsInv
    <3> QED BY <3>4, <3>5, <3>7, <3>8, <3>9, <3>10 DEF HandsInv
  <2>9. ClockInv'
    BY <1>0, <2>7 DEF ClockInv, Fresh
  <2>10. ShownInv'
    BY <1>0 DEF ShownInv, IsHandled, Reply
  <2>11. QueueInv'
    <3>1. \A q \in SlackRequests : IsMessage[q] /\ 200 \in answers'[q] => IsTaken(q)'
      BY <1>0, <2>2, <2>5 DEF QueueInv, ChanTypes
    <3> QED BY <1>0, <2>2, <3>1 DEF QueueInv
  <2> QED BY <2>2, <2>6, <2>8, <2>9, <2>10, <2>11
<1> QED BY <1>1, <1>2 DEF SlackEnqueues, Offer

\* The forwarder takes a message, and asks for the sender.
LEMMA ForwarderInv ==
  ASSUME ChanInv, ForwarderFails \/ ForwarderCopiesSender \/ \E m \in Inbound : ForwarderReceives(m) PROVE ChanInv'
<1> USE DEF ChanInv
<1>1. UNCHANGED <<second, seen, lapsed, handler, answers, workQueue, sender, turn, display, handled, taken, missed>>
  BY DEF ForwarderFails, ForwarderCopiesSender, ForwarderReceives
<1>2. /\ \A x : IsTaken(x)' <=> IsTaken(x)
      /\ \A x \in SlackRequests : Spent(x) => Spent(x)'
      /\ \A g \in Handlers : InHand(g)' <=> InHand(g)
  BY <1>1, SpentKept DEF IsTaken, InHand
<1>3. /\ arriving' \subseteq arriving
      /\ carried' = carried \/ carried' \in arriving
      /\ carried' \in Inbound \cup {"none"} /\ forwarder' \in {"waits", "holds", "sends", "stopped"}
      /\ forwarder' = "sends" => sender
      /\ forwarder' \in {"holds", "sends"} => carried' \in Inbound /\ carried' \notin arriving'
  <2>1. CASE ForwarderCopiesSender \/ ForwarderFails
    BY <2>1 DEF ForwarderCopiesSender, ForwarderFails, ChanTypes, HandsInv
  <2>2. ASSUME NEW m \in Inbound, ForwarderReceives(m)
        PROVE  /\ arriving' = arriving \ {m} /\ carried' = m /\ m \in arriving /\ forwarder' = "holds"
    BY <2>2 DEF ForwarderReceives
  <2> QED BY <2>1, <2>2
<1>4. ChanTypes'
  BY <1>1, <1>3 DEF ChanTypes
<1>5. HandsInv'
  <2>1. \A g \in Handlers : InHand(g)' =>
          /\ handler'[g].req \in SlackRequests /\ IsMessage[handler'[g].req]
          /\ Spent(handler[g].req)' /\ (IsTaken(handler[g].req)' => handler'[g].req \in lapsed')
    BY <1>1, <1>2 DEF HandsInv
  <2>2. /\ carried' # "none" => ~IsTaken(carried)'
        /\ \A m \in arriving' : ~IsTaken(m)'
    BY <1>1, <1>2, <1>3 DEF HandsInv
  <2>3. /\ \A q \in SlackRequests : IsTaken(q)' => Spent(q)'
        /\ \A f, g \in Handlers : InHand(f)' /\ InHand(g)' /\ handler'[f].req = handler'[g].req
                                  => f = g \/ handler'[f].req \in lapsed'
    BY <1>1, <1>2 DEF HandsInv
  <2> QED BY <1>3, <2>1, <2>2, <2>3 DEF HandsInv
<1>6. TakenOnce' /\ ShownInv' /\ ClockInv'
  BY <1>1 DEF TakenOnce, ShownInv, IsHandled, Reply, ClockInv, Fresh
<1>7. QueueInv'
  BY <1>1, <1>2, <1>3 DEF QueueInv, Current, Copies
<1> QED BY <1>4, <1>5, <1>6, <1>7

\* The forwarder sends what it holds, which is no Slack request, or drops it.
LEMMA ForwarderSendsInv == ASSUME ChanInv, ForwarderSends PROVE ChanInv'
<1> USE DEF ChanInv
<1>0. /\ carried \in Inbound /\ carried \in ChannelMessages /\ ~IsTaken(carried) /\ turn.at # "gone"
      /\ carried # "none" /\ \A q \in SlackRequests : q # carried
      /\ carried \notin arriving
  BY ChannelAssumption DEF ForwarderSends, HandsInv, QueueInv, ChannelMessages
<1>1. /\ UNCHANGED <<second, seen, lapsed, handler, answers, arriving, sender, turn, display, handled, missed>>
      /\ forwarder' = "waits" /\ carried' = "none"
  BY DEF ForwarderSends
<1>2. /\ workQueue' \in Seq(ChannelMessages) /\ taken' \in Seq(ChannelMessages)
      /\ Len(workQueue') <= QueueCapacity
      /\ TakenOnce' /\ taken' = (handled \o Current \o workQueue)'
      /\ \A x : (IsTaken(x) => IsTaken(x)') /\ (IsTaken(x)' => IsTaken(x) \/ x = carried)
  <2>1. CASE UNCHANGED <<workQueue, taken>>
    <3>1. \A x : IsTaken(x)' <=> IsTaken(x)
      BY <2>1 DEF IsTaken
    <3>2. TakenOnce' /\ Current' = Current
      BY <2>1, <1>1 DEF TakenOnce, Current
    <3> QED BY <2>1, <3>1, <3>2, <1>1 DEF ChanTypes, QueueInv
  <2>2. CASE /\ Len(workQueue) < QueueCapacity
             /\ workQueue' = Append(workQueue, carried) /\ taken' = Append(taken, carried)
    BY <2>2, <1>0, <1>1, Accepted
  <2> QED BY <2>1, <2>2 DEF ForwarderSends, Offer
<1>3. ChanTypes'
  BY <1>1, <1>2 DEF ChanTypes
<1>4. HandsInv'
  <2>1. \A q \in SlackRequests : (Spent(q) => Spent(q)') /\ (IsTaken(q)' <=> IsTaken(q))
    BY <1>0, <1>1, <1>2, SpentKept
  <2>2. \A g \in Handlers : InHand(g)' =>
          /\ InHand(g) /\ handler'[g].req \in SlackRequests /\ IsMessage[handler'[g].req]
          /\ Spent(handler[g].req)' /\ (IsTaken(handler[g].req)' => handler'[g].req \in lapsed')
    BY <1>1, <2>1 DEF HandsInv, InHand
  <2>3. \A n \in arriving' : ~IsTaken(n)'
    BY <1>0, <1>1, <1>2 DEF HandsInv
  <2>4. /\ \A q \in SlackRequests : IsTaken(q)' => Spent(q)'
        /\ \A f, g \in Handlers : InHand(f)' /\ InHand(g)' /\ handler'[f].req = handler'[g].req
                                  => f = g \/ handler'[f].req \in lapsed'
    BY <1>1, <2>1, <2>2 DEF HandsInv
  <2> QED BY <1>1, <2>2, <2>3, <2>4 DEF HandsInv
<1>5. ShownInv' /\ ClockInv'
  BY <1>1 DEF ShownInv, IsHandled, Reply, ClockInv, Fresh
<1>6. QueueInv'
  BY <1>0, <1>1, <1>2 DEF QueueInv, Copies
<1> QED BY <1>2, <1>3, <1>4, <1>5, <1>6

\* Nothing but the worker, its queue and what is shown changes in the worker's steps.
WorkerFrame ==
  UNCHANGED <<second, seen, lapsed, handler, answers, forwarder, arriving, carried, sender, taken>>

\* They leave what is in hand alone.
LEMMA WorkerHands == ASSUME ChanInv, WorkerFrame PROVE HandsInv' /\ ClockInv' /\ TakenOnce' /\ \A x : IsTaken(x)' <=> IsTaken(x)
BY HandlersKept DEF WorkerFrame

\* The worker takes the oldest message.
LEMMA WorkerTakesInv == ASSUME ChanInv, WorkerTakes PROVE ChanInv'
<1> USE DEF ChanInv
<1>1. HandsInv' /\ ClockInv' /\ TakenOnce' /\ \A x : IsTaken(x)' <=> IsTaken(x)
  BY WorkerHands DEF WorkerTakes, WorkerFrame
<1>2. /\ workQueue \in Seq(ChannelMessages) /\ workQueue # <<>> /\ handled \in Seq(ChannelMessages)
      /\ turn.at = "idle" /\ turn.msg = "none"
  BY DEF WorkerTakes, ChanTypes, QueueInv
<1>3. /\ Head(workQueue) \in ChannelMessages /\ Tail(workQueue) \in Seq(ChannelMessages)
      /\ Len(Tail(workQueue)) = Len(workQueue) - 1
      /\ workQueue = <<Head(workQueue)>> \o Tail(workQueue)
  BY <1>2
<1>4. /\ turn' = [at |-> "placeholder", msg |-> Head(workQueue), reply |-> 0, last_sent |-> 0]
      /\ workQueue' = Tail(workQueue)
      /\ UNCHANGED <<second, seen, lapsed, handler, answers, forwarder, arriving, carried, sender, display, handled, taken, missed>>
  BY DEF WorkerTakes, NoTurn
<1>5. ChanTypes'
  BY <1>3, <1>4 DEF ChanTypes
<1>6. QueueInv'
  <2>1. Head(workQueue) # "none"
    BY <1>3, ChannelAssumption DEF ChannelMessages
  <2>2. Current = <<>> /\ Current' = <<Head(workQueue)>>
    BY <1>2, <1>4, <2>1 DEF Current
  <2>3. taken = handled \o workQueue
    BY <1>2, <2>2 DEF QueueInv
  <2>4. handled \o (<<Head(workQueue)>> \o Tail(workQueue)) = (handled \o <<Head(workQueue)>>) \o Tail(workQueue)
    BY <1>2, <1>3
  <2>5. taken' = (handled \o Current \o workQueue)'
    BY <1>3, <1>4, <2>2, <2>3, <2>4
  <2>6. Len(workQueue') <= QueueCapacity
    BY <1>2, <1>3, <1>4, ChannelAssumption DEF QueueInv
  <2> QED BY <1>1, <1>4, <2>1, <2>5, <2>6 DEF QueueInv
<1>7. ShownInv'
  <2>1. \A x \in ChannelMessages : x # turn.msg
    BY <1>2, ChannelAssumption DEF ChannelMessages
  <2> QED BY <1>4, <2>1, ChannelAssumption DEF ShownInv, IsHandled
<1> QED BY <1>1, <1>5, <1>6, <1>7

\* A turn is about a message.
LEMMA CurrentTurn ==
  ASSUME ChanInv, turn.at \in {"placeholder", "streams"}
  PROVE  turn.msg \in ChannelMessages /\ turn.msg # "none"
BY DEF ChanInv, QueueInv, ChanTypes

\* A turn goes on: its message stays the worker's.
LEMMA TurnGoesOn ==
  ASSUME ChanInv, turn.at \in {"placeholder", "streams"}, WorkerFrame, UNCHANGED <<workQueue, handled>>,
         turn' \in [at : {"streams"}, msg : {turn.msg}, reply : Nat, last_sent : Nat],
         turn'.last_sent <= turn'.reply, turn'.reply <= MaxDeltas,
         DOMAIN display' = ChannelMessages,
         \A x \in ChannelMessages : x # turn.msg => display'[x] = display[x],
         missed' \subseteq missed \cup {turn.msg}, missed \ {turn.msg} \subseteq missed',
         turn.msg \notin missed' =>
           display'[turn.msg] = IF turn'.reply = 0 THEN <<"placeholder">> ELSE Reply(turn'.reply)
  PROVE  ChanInv'
<1> USE DEF ChanInv
<1>1. HandsInv' /\ ClockInv' /\ TakenOnce' /\ \A x : IsTaken(x)' <=> IsTaken(x)
  BY WorkerHands
<1>2. turn.msg \in ChannelMessages /\ turn.msg # "none"
  BY CurrentTurn
<1>3. ChanTypes'
  BY <1>2 DEF ChanTypes, WorkerFrame
<1>4. QueueInv'
  <2>1. Current' = Current
    BY DEF Current
  <2> QED BY <1>1, <1>2, <2>1 DEF QueueInv, WorkerFrame
<1>5. ShownInv'
  <2>1. \A x : IsHandled(x)' <=> IsHandled(x)
    BY DEF IsHandled
  <2>3. turn.msg \notin missed' =>
          display'[turn'.msg] = IF turn'.reply = 0 THEN <<"placeholder">> ELSE Reply(turn'.reply)
    OBVIOUS
  <2>4. ASSUME NEW x \in ChannelMessages, IsHandled(x)', x \notin missed', x # turn'.msg
        PROVE  display'[x] \notin {<<"nothing">>, <<"placeholder">>}
    BY <1>2, <2>1, <2>4 DEF ShownInv
  <2>5. Reply(turn'.reply) = Reply(turn.reply)'
    BY DEF Reply
  <2> QED BY <2>3, <2>4, <2>5 DEF ShownInv
<1> QED BY <1>1, <1>3, <1>4, <1>5

\* A turn is over: its message is handled, and what is shown of it is no
\* placeholder unless it was missed.
LEMMA TurnOverInv ==
  ASSUME ChanInv, turn.at \in {"placeholder", "streams"}, WorkerFrame, UNCHANGED workQueue, TurnOver,
         DOMAIN display' = ChannelMessages,
         \A x \in ChannelMessages : x # turn.msg => display'[x] = display[x],
         missed' \subseteq missed \cup {turn.msg}, missed \ {turn.msg} \subseteq missed',
         turn.msg \notin missed' => display'[turn.msg] \notin {<<"nothing">>, <<"placeholder">>}
  PROVE  ChanInv'
<1> USE DEF ChanInv
<1>1. HandsInv' /\ ClockInv' /\ TakenOnce' /\ \A x : IsTaken(x)' <=> IsTaken(x)
  BY WorkerHands
<1>2. turn.msg \in ChannelMessages /\ turn.msg # "none"
  BY CurrentTurn
<1>3. /\ turn' = [at |-> "idle", msg |-> "none", reply |-> 0, last_sent |-> 0]
      /\ handled' = Append(handled, turn.msg) /\ handled \in Seq(ChannelMessages)
      /\ handled' \in Seq(ChannelMessages) /\ handled' = handled \o <<turn.msg>>
  BY <1>2, AppendIsConcat DEF TurnOver, NoTurn, ChanTypes
<1>4. ChanTypes'
  BY <1>2, <1>3 DEF ChanTypes, WorkerFrame
<1>5. QueueInv'
  <2>1. Current = <<turn.msg>> /\ Current' = <<>>
    BY <1>2, <1>3 DEF Current
  <2>2. taken' = handled' \o Current' \o workQueue'
    BY <1>3, <2>1 DEF QueueInv, WorkerFrame
  <2> QED BY <1>1, <1>3, <2>2 DEF QueueInv, WorkerFrame
<1>6. ShownInv'
  <2>1. \A x : IsHandled(x)' => IsHandled(x) \/ x = turn.msg
    BY <1>3 DEF IsHandled
  <2>2. ASSUME NEW x \in ChannelMessages, IsHandled(x)', x \notin missed'
        PROVE  display'[x] \notin {<<"nothing">>, <<"placeholder">>}
    BY <1>2, <2>1, <2>2 DEF ShownInv
  <2> QED BY <1>3, <2>2, ChannelAssumption DEF ShownInv
<1> QED BY <1>1, <1>4, <1>5, <1>6

\* The placeholder is shown, or the message given up.
LEMMA PlaceholderInv == ASSUME ChanInv, PostsPlaceholder PROVE ChanInv'
<1> USE DEF ChanInv
<1>1. turn.msg \in ChannelMessages
  BY CurrentTurn DEF PostsPlaceholder
<1>2. WorkerFrame /\ UNCHANGED workQueue /\ turn.at = "placeholder"
  BY DEF PostsPlaceholder, WorkerFrame
<1>3. CASE TurnOver /\ EditFails
  BY <1>1, <1>2, <1>3, TurnOverInv DEF EditFails, ChanTypes
<1>4. CASE /\ Shows(<<"placeholder">>) /\ turn' = [turn EXCEPT !.at = "streams"]
           /\ UNCHANGED <<handled, missed>>
  <2>1. turn.reply = 0 /\ turn.last_sent <= turn.reply /\ turn.reply \in Nat /\ turn.last_sent \in Nat
        /\ 0 <= MaxDeltas
    BY <1>2, ChannelAssumption DEF ShownInv, ChanTypes
  <2>2. turn' = [at |-> "streams", msg |-> turn.msg, reply |-> turn.reply, last_sent |-> turn.last_sent]
    BY <1>4 DEF ChanTypes
  <2>3. /\ display'[turn.msg] = <<"placeholder">> /\ DOMAIN display' = ChannelMessages
        /\ \A x \in ChannelMessages : x # turn.msg => display'[x] = display[x]
    BY <1>1, <1>4 DEF Shows, ChanTypes
  <2> QED BY <1>2, <1>4, <2>1, <2>2, <2>3, TurnGoesOn
<1> QED BY <1>3, <1>4 DEF PostsPlaceholder

\* A delta is edited in, or missed until the next one.
LEMMA DeltaInv == ASSUME ChanInv, StreamsDelta PROVE ChanInv'
<1> USE DEF ChanInv
<1>1. turn.msg \in ChannelMessages /\ turn.reply \in Nat /\ turn.last_sent \in Nat
      /\ turn.last_sent <= turn.reply
  BY CurrentTurn DEF StreamsDelta, ChanTypes, ShownInv
<1>2. /\ WorkerFrame /\ UNCHANGED <<workQueue, handled>> /\ turn.at = "streams" /\ turn.reply < MaxDeltas
      /\ MaxDeltas \in Nat
  BY ChannelAssumption DEF StreamsDelta, WorkerFrame
<1>3. CASE /\ Shows(Reply(turn.reply + 1)) /\ missed' = missed \ {turn.msg}
           /\ turn' = [turn EXCEPT !.reply = @ + 1, !.last_sent = turn.reply + 1]
  <2>1. turn' = [at |-> "streams", msg |-> turn.msg, reply |-> turn.reply + 1, last_sent |-> turn.reply + 1]
    BY <1>2, <1>3 DEF ChanTypes
  <2>2. /\ display'[turn.msg] = Reply(turn.reply + 1) /\ DOMAIN display' = ChannelMessages
        /\ \A x \in ChannelMessages : x # turn.msg => display'[x] = display[x]
    BY <1>1, <1>3 DEF Shows, ChanTypes
  <2>3. turn.reply + 1 \in Nat /\ turn.reply + 1 # 0 /\ turn.reply + 1 <= MaxDeltas
    BY <1>1, <1>2
  <2> QED BY <1>2, <1>3, <2>1, <2>2, <2>3, TurnGoesOn
<1>4. CASE EditFails /\ turn' = [turn EXCEPT !.reply = @ + 1]
  <2>1. turn' = [at |-> "streams", msg |-> turn.msg, reply |-> turn.reply + 1, last_sent |-> turn.last_sent]
    BY <1>2, <1>4 DEF ChanTypes
  <2>2. turn.reply + 1 \in Nat /\ turn.last_sent <= turn.reply + 1 /\ turn.reply + 1 <= MaxDeltas
    BY <1>1, <1>2
  <2>3. missed' = missed \cup {turn.msg} /\ display' = display /\ DOMAIN display = ChannelMessages
    BY <1>4 DEF EditFails, ChanTypes
  <2> QED BY <1>1, <1>2, <2>1, <2>2, <2>3, TurnGoesOn
<1> QED BY <1>3, <1>4 DEF StreamsDelta

\* The three ways a stream ends.
LEMMA TurnEndsInv == ASSUME ChanInv, TurnFinishes \/ TurnErrs \/ TurnPanics PROVE ChanInv'
<1> USE DEF ChanInv
<1>1. /\ turn.at \in {"placeholder", "streams"} /\ WorkerFrame /\ UNCHANGED workQueue /\ TurnOver
      /\ DOMAIN display = ChannelMessages /\ turn.reply \in Nat
  BY DEF TurnFinishes, TurnErrs, TurnPanics, WorkerFrame, ChanTypes
<1>2. turn.msg \in ChannelMessages
  BY <1>1, CurrentTurn
<1>3. CASE TurnFinishes
  <2>1. CASE turn.reply # 0 /\ UNCHANGED <<display, missed>>
    <3>1. turn.msg \notin missed => display[turn.msg] = Reply(turn.reply)
      BY <1>3, <2>1 DEF TurnFinishes, ShownInv
    <3>2. Reply(turn.reply) \notin {<<"nothing">>, <<"placeholder">>}
      BY DEF Reply
    <3> QED BY <1>1, <2>1, <3>1, <3>2, TurnOverInv
  <2>2. CASE Shows(<<"No response generated.">>) /\ UNCHANGED missed
    <3>1. /\ display'[turn.msg] = <<"No response generated.">> /\ DOMAIN display' = ChannelMessages
          /\ \A x \in ChannelMessages : x # turn.msg => display'[x] = display[x]
      BY <1>1, <1>2, <2>2 DEF Shows
    <3>2. <<"No response generated.">> \notin {<<"nothing">>, <<"placeholder">>}
      OBVIOUS
    <3> QED BY <1>1, <2>2, <3>1, <3>2, TurnOverInv
  <2>3. CASE EditFails
    BY <1>1, <2>3, TurnOverInv DEF EditFails
  <2> QED BY <1>3, <2>1, <2>2, <2>3 DEF TurnFinishes
<1>4. CASE TurnErrs
  <2>1. CASE Shows(<<"Sorry">>) /\ missed' = missed \ {turn.msg}
    <3>1. /\ display'[turn.msg] = <<"Sorry">> /\ DOMAIN display' = ChannelMessages
          /\ \A x \in ChannelMessages : x # turn.msg => display'[x] = display[x]
      BY <1>1, <1>2, <2>1 DEF Shows
    <3>2. <<"Sorry">> \notin {<<"nothing">>, <<"placeholder">>}
      OBVIOUS
    <3> QED BY <1>1, <2>1, <3>1, <3>2, TurnOverInv
  <2>2. CASE EditFails
    BY <1>1, <2>2, TurnOverInv DEF EditFails
  <2> QED BY <1>4, <2>1, <2>2 DEF TurnErrs
<1>5. CASE TurnPanics
  BY <1>1, <1>5, TurnOverInv DEF TurnPanics
<1> QED BY <1>3, <1>4, <1>5

\* The last sender is gone, the worker stops; a shutdown takes the sender.
LEMMA StopInv == ASSUME ChanInv, WorkerExits \/ Shutdown PROVE ChanInv'
<1> USE DEF ChanInv
<1>1. /\ UNCHANGED <<second, seen, lapsed, handler, answers, forwarder, arriving, carried, taken, workQueue, display, handled, missed>>
      /\ sender' \in BOOLEAN /\ (~sender => ~sender')
      /\ \/ turn' = turn
         \/ /\ turn.at = "idle" /\ turn' = [at |-> "gone", msg |-> "none", reply |-> 0, last_sent |-> 0]
            /\ ~sender /\ workQueue = <<>> /\ Copies = {} /\ forwarder # "sends"
  <2>1. CASE WorkerExits
    <3>1. [NoTurn EXCEPT !.at = "gone"] = [at |-> "gone", msg |-> "none", reply |-> 0, last_sent |-> 0]
      BY DEF NoTurn
    <3> QED BY <2>1, <3>1 DEF WorkerExits, ChanTypes
  <2>2. CASE Shutdown
    BY <2>2 DEF Shutdown, ChanTypes
  <2> QED BY <2>1, <2>2
<1>2. HandsInv' /\ ClockInv' /\ TakenOnce' /\ \A x : IsTaken(x)' <=> IsTaken(x)
  BY <1>1, HandlersKept
<1>3. ChanTypes'
  BY <1>1 DEF ChanTypes
<1>4. ShownInv'
  <2>1. turn'.msg = turn.msg
    BY <1>1 DEF QueueInv
  <2> QED BY <1>1, <2>1, ChannelAssumption DEF ShownInv, IsHandled, Reply
<1>5. QueueInv'
  <2>1. Current' = Current /\ Copies' = Copies
    BY <1>1 DEF Current, QueueInv, Copies
  <2> QED BY <1>1, <1>2, <2>1 DEF QueueInv
<1> QED BY <1>2, <1>3, <1>4, <1>5

\* The clock only goes forward, so a window that is over stays over.
LEMMA SecondPassesInv == ASSUME ChanInv, SecondPasses PROVE ChanInv'
<1> USE DEF ChanInv
<1>1. /\ UNCHANGED <<seen, lapsed, handler, answers, forwarder, arriving, carried, taken, workQueue, sender,
                     turn, display, handled, missed>>
      /\ second \in Nat /\ second' = second + 1 /\ ReplayWindow \in Nat
  BY ChannelAssumption DEF SecondPasses, ChanTypes
<1>2. \A x : IsTaken(x)' <=> IsTaken(x)
  BY <1>1 DEF IsTaken
<1>3. \A q \in SlackRequests : SignedAt[q] \in Nat
  BY ChannelAssumption
<1>4. \A q \in SlackRequests : Spent(q) => Spent(q)'
  BY <1>1, <1>3 DEF Spent, Over, Stamped
<1>5. HandsInv' /\ TakenOnce'
  BY <1>1, <1>4, HandsKept DEF InHand
<1>6. ChanTypes' /\ ClockInv' /\ ShownInv'
  BY <1>1, <1>3 DEF ChanTypes, ClockInv, Fresh, ShownInv, IsHandled, Reply
<1>7. QueueInv'
  BY <1>1, <1>2 DEF QueueInv, Current, Copies
<1> QED BY <1>5, <1>6, <1>7

\* Every step keeps the invariant.
LEMMA ChanNextInv == ChanInv /\ [ChannelNext]_channelVars => ChanInv'
<1> SUFFICES ASSUME ChanInv, [ChannelNext]_channelVars PROVE ChanInv'
  OBVIOUS
<1>1. CASE UNCHANGED channelVars
  <2> USE <1>1 DEF channelVars, ChanInv
  <2>1. HandsInv' /\ ClockInv' /\ TakenOnce' /\ \A x : IsTaken(x)' <=> IsTaken(x)
    BY HandlersKept
  <2>2. ChanTypes' /\ ShownInv'
    BY DEF ChanTypes, ShownInv, IsHandled, Reply
  <2>3. QueueInv'
    BY <2>1 DEF QueueInv, Current, Copies
  <2> QED BY <2>1, <2>2, <2>3
<1>2. CASE ChannelNext
  BY <1>2, DeliversInv, RemembersInv, CopiesSenderInv, EnqueuesInv, ForwarderInv, ForwarderSendsInv, WorkerTakesInv,
     PlaceholderInv, DeltaInv, TurnEndsInv, StopInv, SecondPassesInv
  DEF ChannelNext
<1> QED BY <1>1, <1>2

\* For any number of requests, deliveries, handlers and forwarded messages, any
\* window and any queue: a request runs once at most unless a handler that read
\* another clock dropped it early, what was acknowledged is worked on in order, over
\* a shutdown too, and a reply is shown unless its placeholder or its last edit
\* failed or its turn panicked.
THEOREM ChannelsKeepTheirWord == ChannelInit /\ [][ChannelNext]_channelVars => [](ChannelsSound /\ ChannelTypeOK)
<1>1. ChannelInit => ChanInv
  BY ChanInitInv
<1>2. ChanInv /\ [ChannelNext]_channelVars => ChanInv'
  BY ChanNextInv
<1>3. ChanInv => ChannelsSound /\ ChannelTypeOK
  BY ChanInvSound
<1> QED BY <1>1, <1>2, <1>3, PTL

-----------------------------------------------------------------------------
(* The parts together *)

\* The parts share no state, so a step of the whole is a step of each, or
\* leaves it alone.
LEMMA AgentsSteps ==
  [AgentsNext]_agentsVars =>
    /\ [BgNext]_bgVars /\ [AgentNext]_agentVars /\ [DelegNext]_delegVars /\ [Next]_vars
    /\ [MemNext]_memVars /\ [CapNext]_token /\ [DenyNext]_denyVars
    /\ [StreamNext]_streamVars /\ [ChannelNext]_channelVars
<1> SUFFICES ASSUME [AgentsNext]_agentsVars
             PROVE /\ [BgNext]_bgVars /\ [AgentNext]_agentVars /\ [DelegNext]_delegVars
                   /\ [Next]_vars /\ [MemNext]_memVars /\ [CapNext]_token /\ [DenyNext]_denyVars
                   /\ [StreamNext]_streamVars /\ [ChannelNext]_channelVars
  OBVIOUS
<1>1. CASE UNCHANGED agentsVars
  BY <1>1 DEF agentsVars, reliedVars, incomingVars
<1>2. CASE WorkNext /\ UNCHANGED <<reliedVars, incomingVars>>
  BY <1>2 DEF WorkNext, reliedVars, incomingVars
<1>3. CASE ReliedNext /\ UNCHANGED <<bgVars, agentVars, delegVars, vars>>
  BY <1>3 DEF ReliedNext, reliedVars, incomingVars
<1> QED BY <1>1, <1>2, <1>3 DEF AgentsNext

\* The types of the store and of a search, with the faults that were counted.
MemCounts ==
  /\ search.at \in {"idle", "dense", "fuse", "answered"}
  /\ forgotten \subseteq Subjects \X Roots /\ memFaults \in 0..MaxMemFaults

\* Only an upsert forgets, a search goes through its four stages, and faults stop at
\* their bound.
LEMMA MemTypes ==
  /\ MemInit => MemCounts
  /\ MemInv /\ MemCounts /\ [MemNext]_memVars => MemCounts'
  /\ MemInv /\ MemCounts => MemTypeOK
<1>1. MemInit => MemCounts
  BY MemoryAssumption DEF MemInit, MemCounts, IdleSearch
<1>2. ASSUME MemInv, MemCounts, [MemNext]_memVars PROVE MemCounts'
  <2> USE <1>2 DEF MemCounts
  <2>a. MaxMemFaults \in Nat
    BY MemoryAssumption
  <2>1. ASSUME NEW w \in MemoryWriters, WriterStep(w) PROVE MemCounts'
    <3>1. job[w].at = "upsert" =>
            job[w].row.subject \in Subjects /\ job[w].row.root \in Roots
      BY DEF MemInv, StoreInv, Jobs, Rows, IdleJob
    <3>2. CASE Upserts(w)
      BY <3>1, <3>2 DEF Upserts
    <3>3. CASE ~Upserts(w)
      BY <2>1, <2>a, <3>3
      DEF WriterStep, Records, Forgets, Invalidates, UpsertFails, Indexes, Unindexes, Faults
    <3> QED BY <3>2, <3>3
  <2>2. ASSUME NEW s \in Subjects, SearchBegins(s) PROVE MemCounts'
    BY <2>2 DEF SearchBegins
  <2>3. CASE SearchDense
    BY <2>3 DEF SearchDense
  <2>5. CASE SearchFuses
    BY <2>5 DEF SearchFuses
  <2>6. CASE SearchFails
    BY <2>6, <2>a DEF SearchFails, Faults, IdleSearch
  <2>4. CASE UNCHANGED memVars
    BY <2>4 DEF memVars
  <2> QED BY <1>2, <2>1, <2>2, <2>3, <2>4, <2>5, <2>6 DEF MemNext
<1>3. MemInv /\ MemCounts => MemTypeOK
  <2> SUFFICES ASSUME MemInv, MemCounts PROVE MemTypeOK
    OBVIOUS
  <2>1. lex \subseteq Facts \cup Tombs
    BY DEF MemInv, StoreInv, Ids, Rows
  <2>2. ASSUME NEW w \in MemoryWriters PROVE job[w].at \in {"idle", "upsert", "index", "delete"}
    BY DEF MemInv, StoreInv, Jobs, IdleJob
  <2> QED BY <2>1, <2>2 DEF MemInv, StoreInv, MemCounts, MemTypeOK
<1> QED BY <1>1, <1>2, <1>3

\* The types of the deny list, with the revokers that were killed.
LEMMA DenyTypes ==
  /\ DenyInit => kills \in 0..MaxKills
  /\ kills \in 0..MaxKills /\ [DenyNext]_denyVars => kills' \in 0..MaxKills
  /\ DenyInv /\ kills \in 0..MaxKills => DenyTypeOK
<1>1. DenyInit => kills \in 0..MaxKills
  BY DenyListAssumption DEF DenyInit
<1>2. ASSUME kills \in 0..MaxKills, [DenyNext]_denyVars PROVE kills' \in 0..MaxKills
  <2>1. ASSUME NEW r \in Revokers, NEW t \in TokenIds, RevokeBegins(r, t) PROVE kills' = kills
    BY <2>1 DEF RevokeBegins
  <2>2. ASSUME NEW r \in Revokers, WritesHex(r) \/ WritesNewline(r) PROVE kills' = kills
    BY <2>2 DEF WritesHex, WritesNewline
  <2>3. ASSUME NEW r \in Revokers, RevokerDies(r) PROVE kills' \in 0..MaxKills
    BY <1>2, <2>3, DenyListAssumption DEF RevokerDies
  <2>4. ASSUME NEW v \in Verifiers, NEW t \in TokenIds, VerifyReads(v, t) PROVE kills' = kills
    BY <2>4 DEF VerifyReads
  <2>5. ASSUME NEW v \in Verifiers, VerifyStores(v) \/ VerifyLooks(v) PROVE kills' = kills
    BY <2>5 DEF VerifyStores, VerifyLooks
  <2>6. CASE UNCHANGED denyVars
    BY <1>2, <2>6 DEF denyVars
  <2> QED BY <1>2, <2>1, <2>2, <2>3, <2>4, <2>5, <2>6 DEF DenyNext
<1>3. DenyInv /\ kills \in 0..MaxKills => DenyTypeOK
  <2> SUFFICES ASSUME DenyInv, kills \in 0..MaxKills PROVE DenyTypeOK
    OBVIOUS
  <2>1. \A r \in Revokers : revoker[r].at \in {"idle", "hex", "newline", "done", "dead"}
    BY DEF DenyInv, FileInv, RevokerRecords
  <2>2. \A v \in Verifiers : verifier[v].at \in {"idle", "store", "look", "denied", "passed"}
    BY DEF DenyInv, LookInv, VerifierRecords
  <2>3. \A i \in 1..Len(denyFile) : denyFile[i] \in BlockIds \cup {Newline, OddCut, EvenCut}
    BY DEF DenyInv, FileInv, Marks
  <2> QED BY <2>1, <2>2, <2>3 DEF DenyInv, FileInv, DenyTypeOK
<1> QED BY <1>1, <1>2, <1>3

\* The registry's invariant has the types.
LEMMA AgentTypes == AgentInv => AgentTypeOK
<1> SUFFICES ASSUME RegistryInv PROVE AgentTypeOK
  BY DEF AgentInv
<1>1. Spawned \subseteq Instances
  BY AgentAssumption DEF RegistryInv, Instances
<1>2. \A i \in Spawned : idOf[i] \in AgentIds
  BY DEF RegistryInv
<1> QED BY <1>1, <1>2 DEF RegistryInv, AgentTypeOK


\* In the composition the sub-agents' spend and the delegations' permits,
\* ceiling and receipts are kept together, whichever part moves.
THEOREM AgentsChildAgentsSound == AgentsSpec => []ChildAgentsSound
<1>1. AgentsInit => AgentInv /\ DelegInv
  BY AgentInitInv, DelegInitInv DEF AgentsInit
<1>2. AgentInv /\ [AgentsNext]_agentsVars => AgentInv'
  BY AgentsSteps, AgentNextInv
<1>3. DelegInv /\ [AgentsNext]_agentsVars => DelegInv'
  BY AgentsSteps, DelegNextInv
<1>4. AgentInv /\ DelegInv => ChildAgentsSound
  BY DelegInvSound DEF AgentInv, ChildAgentsSound
<1> QED BY <1>1, <1>2, <1>3, <1>4, PTL DEF AgentsSpec

\* In the composition what is recalled, what a token allows and what was revoked
\* stay as they should.
THEOREM AgentsReliedOnSound == AgentsSpec => []ReliedOnSound
<1>1. AgentsInit => MemInv /\ CapInv /\ DenyInv
  BY MemInitInv, CapInitInv, DenyInitInv DEF AgentsInit
<1>2. MemInv /\ [AgentsNext]_agentsVars => MemInv'
  BY AgentsSteps, MemNextInv
<1>3. CapInv /\ [AgentsNext]_agentsVars => CapInv'
  BY AgentsSteps, CapNextInv
<1>4. DenyInv /\ [AgentsNext]_agentsVars => DenyInv'
  BY AgentsSteps, DenyNextInv
<1>5. MemInv /\ CapInv /\ DenyInv => ReliedOnSound
  BY MemInvSound, CapInvSound DEF DenyInv, LookInv, ReliedOnSound
<1> QED BY <1>1, <1>2, <1>3, <1>4, <1>5, PTL DEF AgentsSpec

\* In the composition what comes in from outside is taken in as it was sent: an answer
\* however the network cut it (streaming.rs, stream_inner), and a channel's message
\* once, to its end (slack_events_handler, the forwarders and the turn worker).
THEOREM AgentsIncomingSound == AgentsSpec => []IncomingSound
<1>0. StreamAssumption
  BY StreamAssumption
<1>1. AgentsInit => StreamInv /\ ChanInv
  BY <1>0, StreamInitInv, ChanInitInv DEF AgentsInit
<1>2. StreamInv /\ [AgentsNext]_agentsVars => StreamInv'
  BY <1>0, AgentsSteps, StreamStepInv
<1>3. ChanInv /\ [AgentsNext]_agentsVars => ChanInv'
  BY AgentsSteps, ChanNextInv
<1>4. StreamInv /\ ChanInv => IncomingSound
  BY <1>0, StreamInvSays, ChanInvSound DEF IncomingSound
<1> QED BY <1>1, <1>2, <1>3, <1>4, PTL DEF AgentsSpec

\* In the composition every part keeps its types, which for the stores, the registry
\* and the streams rest on what the parts' invariants say.
THEOREM AgentsTypes == AgentsSpec => []AgentsTypeOK
<1>0. StreamAssumption
  BY StreamAssumption
<1> DEFINE Work == BgInv /\ AgentInv /\ DelegInv /\ TypeOK
           Relied == MemInv /\ MemCounts /\ CapInv /\ DenyInv /\ kills \in 0..MaxKills
           Incoming == StreamInv /\ ChanInv
<1>1. AgentsInit => Work
  BY BgInitInv, AgentInitInv, DelegInitInv, InitType DEF AgentsInit
<1>2. AgentsInit => Relied
  BY MemInitInv, MemTypes, CapInitInv, DenyInitInv, DenyTypes DEF AgentsInit
<1>3. AgentsInit => Incoming
  BY <1>0, StreamInitInv, ChanInitInv DEF AgentsInit
<1>4. Work /\ [AgentsNext]_agentsVars => Work'
  BY AgentsSteps, BgNextInv, AgentNextInv, DelegNextInv, NextType
<1>5. Relied /\ [AgentsNext]_agentsVars => Relied'
  BY AgentsSteps, MemNextInv, MemTypes, CapNextInv, DenyNextInv, DenyTypes
<1>6. Incoming /\ [AgentsNext]_agentsVars => Incoming'
  BY <1>0, AgentsSteps, StreamStepInv, ChanNextInv
<1>7. Work => BgTypeOK /\ AgentTypeOK /\ DelegTypeOK /\ TypeOK
  BY AgentTypes DEF BgInv, DelegInv
<1>8. Relied => MemTypeOK /\ CapTypeOK /\ DenyTypeOK
  BY MemTypes, DenyTypes DEF CapInv
<1>9. Incoming => StreamTypeOK /\ ChannelTypeOK
  BY <1>0, StreamInvSays, ChanInvSound
<1>10. Work /\ Relied /\ Incoming => AgentsTypeOK
  BY <1>7, <1>8, <1>9 DEF AgentsTypeOK
<1> HIDE DEF Work, Relied, Incoming
<1> QED BY <1>1, <1>2, <1>3, <1>4, <1>5, <1>6, <1>10, PTL DEF AgentsSpec
=============================================================================
