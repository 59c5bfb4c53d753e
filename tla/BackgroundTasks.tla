-------------------------- MODULE BackgroundTasks --------------------------
(***************************************************************************)
(* The CLI's background tasks (crates/cli/src/background_task.rs): a task  *)
(* is a spawned future with a shared record; the REPL cancels, interrupts  *)
(* and steers it. Each of those three checks the status, awaits a receipt  *)
(* with no lock held, and only then touches the record. The runtime is     *)
(* multi-threaded: an abort stops the future at its next await, not in the *)
(* synchronous stretch that records the outcome.                           *)
(***************************************************************************)
EXTENDS Naturals, FiniteSets

CONSTANTS
  BgTasks,        \* tasks the user starts
  NoTask,         \* the REPL is not working on a command
  MaxCommands,    \* commands given to the REPL
  MaxMintFailures \* tokens refused and receipts that cannot be minted

ASSUME BgAssumption ==
  /\ NoTask \notin BgTasks
  /\ MaxCommands \in Nat /\ MaxMintFailures \in Nat

VARIABLES
  status,     \* TaskStatus, "absent" before /background
  bgPc,       \* where the spawned future is
  aborted,    \* JoinHandle::abort was called
  receiptId,  \* the record's receipt_id
  directives, \* steering directives on the record
  repl,       \* the command in progress: its target, kind and step
  minted,     \* receipts in the log, by task
  commands, mintFailures

bgVars == <<status, bgPc, aborted, receiptId, directives, repl, minted,
            commands, mintFailures>>

Active == {"Queued", "Running"}
Terminal == {"Completed", "Failed", "Cancelled"}
OutcomeVerb == {"completed", "failed"}
CommandVerb == {"cancelled", "interrupt", "steer"}
IdleRepl == [task |-> NoTask, verb |-> "none", step |-> "idle"]

\* Every task's record, its worker and the command in flight keep their types.
BgTypeOK ==
  /\ status \in [BgTasks -> Active \cup Terminal \cup {"absent"}]
  /\ bgPc \in [BgTasks -> {"none", "spawned", "polled", "provider", "completed",
                           "failed", "record", "refused", "dead", "done"}]
  /\ aborted \subseteq BgTasks
  /\ receiptId \in [BgTasks -> OutcomeVerb \cup CommandVerb \cup {"none"}]
  /\ directives \in [BgTasks -> 0..MaxCommands]
  /\ repl \in [task : BgTasks \cup {NoTask}, verb : CommandVerb \cup {"none"},
               step : {"idle", "mint", "apply"}]
  /\ minted \in [BgTasks -> SUBSET (OutcomeVerb \cup CommandVerb)]
  /\ commands \in 0..MaxCommands /\ mintFailures \in 0..MaxMintFailures

BgInit ==
  /\ status = [t \in BgTasks |-> "absent"]
  /\ bgPc = [t \in BgTasks |-> "none"]
  /\ aborted = {}
  /\ receiptId = [t \in BgTasks |-> "none"]
  /\ directives = [t \in BgTasks |-> 0]
  /\ repl = IdleRepl
  /\ minted = [t \in BgTasks |-> {}]
  /\ commands = 0 /\ mintFailures = 0

-----------------------------------------------------------------------------
(* The spawned future *)

\* TaskRegistry::spawn; the REPL is one loop, so it spawns between commands.
Spawn(t) ==
  /\ repl = IdleRepl /\ status[t] = "absent"
  /\ status' = [status EXCEPT ![t] = "Queued"]
  /\ bgPc' = [bgPc EXCEPT ![t] = "spawned"]
  /\ UNCHANGED <<aborted, receiptId, directives, repl, minted, commands,
                 mintFailures>>

\* A worker thread polls the future for the first time.
FirstPoll(t) ==
  /\ bgPc[t] = "spawned" /\ t \notin aborted
  /\ bgPc' = [bgPc EXCEPT ![t] = "polled"]
  /\ UNCHANGED <<status, aborted, receiptId, directives, repl, minted, commands,
                 mintFailures>>

\* start(), then run_background_task up to the provider's await.
TaskStarts(t) ==
  /\ bgPc[t] = "polled"
  /\ status' = [status EXCEPT ![t] = "Running"]
  /\ bgPc' = [bgPc EXCEPT ![t] = "provider"]
  /\ UNCHANGED <<aborted, receiptId, directives, repl, minted, commands, mintFailures>>

\* The same when verify_cap_token_for_tool refuses the session's token; ...
TaskStartsRefused(t) ==
  /\ bgPc[t] = "polled" /\ mintFailures < MaxMintFailures
  /\ mintFailures' = mintFailures + 1
  /\ status' = [status EXCEPT ![t] = "Running"]
  /\ bgPc' = [bgPc EXCEPT ![t] = "refused"]
  /\ UNCHANGED <<aborted, receiptId, directives, repl, minted, commands>>

\* ... fail(error, None) follows without an await.
RefusalRecorded(t) ==
  /\ bgPc[t] = "refused"
  /\ status' = [status EXCEPT ![t] = "Failed"]
  /\ receiptId' = [receiptId EXCEPT ![t] = "none"]
  /\ bgPc' = [bgPc EXCEPT ![t] = "done"]
  /\ UNCHANGED <<aborted, directives, repl, minted, commands, mintFailures>>

\* run_background_task: the provider answered or failed; the receipt is next.
ProviderAnswers(t, verb) ==
  /\ bgPc[t] = "provider" /\ t \notin aborted
  /\ bgPc' = [bgPc EXCEPT ![t] = verb]
  /\ UNCHANGED <<status, aborted, receiptId, directives, repl, minted,
                 commands, mintFailures>>

\* commit_control_receipt for the outcome. Its await on a free commit lock does
\* not yield, so this and the next step are taken whatever abort() says.
OutcomeMinted(t) ==
  /\ bgPc[t] \in OutcomeVerb
  /\ minted' = [minted EXCEPT ![t] = @ \cup {bgPc[t]}]
  /\ bgPc' = [bgPc EXCEPT ![t] = "record"]
  /\ UNCHANGED <<status, aborted, receiptId, directives, repl, commands,
                 mintFailures>>

\* Mutant: only a success is recorded.
RecordSuccessOnly(t) ==
  /\ bgPc[t] = "record"
  /\ \E verb \in OutcomeVerb \cap minted[t] :
       /\ status' = [status EXCEPT ![t] = IF verb = "completed" THEN "Completed" ELSE @]
       /\ receiptId' = [receiptId EXCEPT ![t] = verb]
  /\ bgPc' = [bgPc EXCEPT ![t] = "done"]
  /\ UNCHANGED <<aborted, directives, repl, minted, commands, mintFailures>>

\* complete(), or fail() with the receipt of the failure.
RecordOutcome(t) ==
  /\ bgPc[t] = "record"
  /\ \E verb \in OutcomeVerb \cap minted[t] :
       /\ status' = [status EXCEPT ![t] = IF verb = "completed" THEN "Completed" ELSE "Failed"]
       /\ receiptId' = [receiptId EXCEPT ![t] = verb]
  /\ bgPc' = [bgPc EXCEPT ![t] = "done"]
  /\ UNCHANGED <<aborted, directives, repl, minted, commands, mintFailures>>

\* The receipt could not be minted: fail(error, None).
OutcomeMintFails(t) ==
  /\ bgPc[t] \in OutcomeVerb
  /\ mintFailures < MaxMintFailures
  /\ mintFailures' = mintFailures + 1
  /\ status' = [status EXCEPT ![t] = "Failed"]
  /\ receiptId' = [receiptId EXCEPT ![t] = "none"]
  /\ bgPc' = [bgPc EXCEPT ![t] = "done"]
  /\ UNCHANGED <<aborted, directives, repl, minted, commands>>

\* tokio drops an aborted future at an await that yields (the commit lock's when
\* it is taken), or before its first poll.
TaskDropped(t) ==
  /\ t \in aborted /\ bgPc[t] \in {"spawned", "provider"} \cup OutcomeVerb
  /\ bgPc' = [bgPc EXCEPT ![t] = "dead"]
  /\ UNCHANGED <<status, aborted, receiptId, directives, repl, minted,
                 commands, mintFailures>>

-----------------------------------------------------------------------------
(* The REPL's commands: TaskRegistry::cancel, interrupt and steer *)

\* The check, under the registry's lock and the record's.
CommandChecks(t, verb) ==
  /\ repl = IdleRepl /\ commands < MaxCommands
  /\ status[t] \in Active
  /\ repl' = [task |-> t, verb |-> verb, step |-> "mint"]
  /\ commands' = commands + 1
  /\ UNCHANGED <<status, bgPc, aborted, receiptId, directives, minted,
                 mintFailures>>

\* The receipt of the command; no lock is held here.
CommandMints ==
  /\ repl.step = "mint"
  /\ minted' = [minted EXCEPT ![repl.task] = @ \cup {repl.verb}]
  /\ repl' = [repl EXCEPT !.step = "apply"]
  /\ UNCHANGED <<status, bgPc, aborted, receiptId, directives, commands,
                 mintFailures>>

CommandMintFails ==
  /\ repl.step = "mint" /\ mintFailures < MaxMintFailures
  /\ mintFailures' = mintFailures + 1
  /\ repl' = IdleRepl
  /\ UNCHANGED <<status, bgPc, aborted, receiptId, directives, minted,
                 commands>>

\* Mutant: the record does not learn the receipt of its cancellation.
CancelAppliesUnnamed ==
  /\ repl.step = "apply" /\ repl.verb \in {"cancelled", "interrupt"}
  /\ aborted' = aborted \cup {repl.task}
  /\ status' = [status EXCEPT ![repl.task] = "Cancelled"]
  /\ repl' = IdleRepl
  /\ UNCHANGED <<bgPc, receiptId, directives, minted, commands, mintFailures>>

\* abort() and cancel(receipt_id), without a second look at the status.
CancelApplies ==
  /\ repl.step = "apply" /\ repl.verb \in {"cancelled", "interrupt"}
  /\ aborted' = aborted \cup {repl.task}
  /\ status' = [status EXCEPT ![repl.task] = "Cancelled"]
  /\ receiptId' = [receiptId EXCEPT ![repl.task] = repl.verb]
  /\ repl' = IdleRepl
  /\ UNCHANGED <<bgPc, directives, minted, commands, mintFailures>>

SteerApplies ==
  /\ repl.step = "apply" /\ repl.verb = "steer"
  /\ directives' = [directives EXCEPT ![repl.task] = @ + 1]
  /\ repl' = IdleRepl
  /\ UNCHANGED <<status, bgPc, aborted, receiptId, minted, commands, mintFailures>>

\* The steps of the future that wait for nobody outside the process.
OwnFutureStep(t) ==
  \/ FirstPoll(t) \/ TaskStarts(t) \/ TaskStartsRefused(t) \/ RefusalRecorded(t)
  \/ OutcomeMinted(t) \/ RecordOutcome(t) \/ OutcomeMintFails(t)
  \/ TaskDropped(t)

FutureStep(t) ==
  OwnFutureStep(t) \/ \E verb \in OutcomeVerb : ProviderAnswers(t, verb)

ReplStep == CommandMints \/ CommandMintFails \/ CancelApplies \/ SteerApplies

BgNext ==
  \/ ReplStep
  \/ \E t \in BgTasks :
       \/ Spawn(t) \/ FutureStep(t)
       \/ \E verb \in CommandVerb : CommandChecks(t, verb)

BgSpec == BgInit /\ [][BgNext]_bgVars

\* A spawned future is polled whenever it can go on, tokio drops an aborted one,
\* and the REPL goes on with a command it has started. The provider need not
\* answer: its request has no timeout and none is wired up around the task.
BgFairness == WF_bgVars(ReplStep) /\ \A t \in BgTasks : WF_bgVars(OwnFutureStep(t))

-----------------------------------------------------------------------------
(* Properties *)

\* The terminal receipt a record names is in the log and says what the record
\* says, however cancel() and the outcome overtook each other; only a refused
\* token or a receipt that could not be minted leaves a failed task without one
\* (background_task.rs:110 and runtime.rs:749).
RecordMatchesReceipt ==
  \A t \in BgTasks : status[t] \in Terminal =>
    \/ receiptId[t] \in minted[t] /\
         \/ status[t] = "Completed" /\ receiptId[t] = "completed"
         \/ status[t] = "Failed" /\ receiptId[t] = "failed"
         \/ status[t] = "Cancelled" /\ receiptId[t] \in {"cancelled", "interrupt"}
    \/ status[t] = "Failed" /\ receiptId[t] = "none" /\ mintFailures > 0

\* What background_task.rs:68 and :275 promise: a terminal status is final. A
\* cancel that checked an active task overwrites the outcome recorded while its
\* receipt was minted, and start() overwrites a cancel that beat it.
TerminalIsFinal ==
  [][\A t \in BgTasks : status[t] \in Terminal => status'[t] = status[t]]_bgVars

\* Every task comes to its outcome or is dropped by an abort, unless its provider
\* never answers and nobody aborts it (background_task.rs:211); and an aborted
\* future is gone in the end, one stuck at the provider too, though a start() that
\* came late can have left its record Running.
TaskEnds ==
  \A t \in BgTasks :
    /\ \/ status[t] \in Active ~> (status[t] \in Terminal \/ bgPc[t] = "dead")
       \/ <>[](bgPc[t] = "provider" /\ t \notin aborted)
    /\ t \in aborted ~> bgPc[t] \in {"dead", "done"}
=============================================================================
