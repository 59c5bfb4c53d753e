# Verification of ardur-agent

TLA+ models of the core of ardur-agent, the TLC runs that check them on small
instances, and TLAPS proofs for every value of the constants. `PROJECT.json`
lists components, runs, findings, hazards, theorems and, for every definition
that models code, the lines it models.

    tlc -workers 2 -config TurnCommit.cfg MCTurnCommit     # a run
    tlapm CostGateProofs.tla                               # a proof

## 1. The system

A chat turn enters through `crates/server` (HTTP `POST /chat`, SSE, Slack and
other channels), the CLI, a schedule or a webhook. In the server it is put on a
bounded queue that one worker thread drains, and runs in `crates/fused-runtime`:
pre-submit hooks, injection and policy checks, recalled memories, cost
admission, a provider round, tool calls, and the commit section. A round that
asked for tools is followed by another, up to `max_tool_iterations`. Every round
is paid for and leaves a signed receipt chained to the one before it. Around the
turn there are processes and tasks with state of their own, most of it files
that are shared without a lock.

| Component | State | Operations | Interacts with | What is hard |
|---|---|---|---|---|
| cost-gate, core-types (cost) | accounts with a version, active and finalized reservations, token bindings | admit, finalize, take_reservation (guard), rollback/commit_finalization, provision_for, refund | the turn pipeline, from several threads | check-then-act over two locks, double settlement, clamps, expiry |
| fused-runtime, turn pipeline | `chain_tail`, `commit_lock`, the per-turn reservation and round | submit, submit_with_cancellation, stream, control receipts | gate, log, journal, server | a stream suspended at a yield, cancellation, partial failure |
| TurnCommitHandshake, server | phase, `caller_gone`, queue, timeouts | request_cancel, begin/finish/abort_persist, submit_chat, stream_chat | worker and HTTP task | timeout against a late commit |
| receipt log, reconciliation | an append-only file of JWS lines | append, repair, verify, reconcile (three strategies) | runtime, CLI, admin readers | torn writes, crashes, a second writer |
| receipt cache | the last verified content | load, with a content hit and a trusted prefix | `/metrics`, chat routes, beside the appender | a reader that repairs what is being written |
| session-journals, CLI sessions | a journal file, the conversation | turns, checkpoint, rollback, compact, resume | runtime, reconciliation | composed rollbacks, failed appends, crashes |
| approvals | one JSON file per card | propose, find_matching, consume, decide | runtime, HTTP, CLI | unlocked read-modify-write |
| cron-ui, webhook (operator side) | JSON stores, receipt sinks | the verbs of `ardur cron` and `ardur webhook`, emit | processes over the same files | lost updates, kills between steps |
| cron, automation, CLI schedules | schedule records | create, delete, fire, run | the turn they start | two processes, expiring tokens, clock minutes |
| webhook (inbound) | one replay cache | receive_webhook | senders that retry | windows per source, eviction |
| loop-detector | windows, trips, halt state | tool calls, turns, grace expiry, override, derived budgets | no crate drives it yet | sequences of trips and progress |
| backup, durability | the state directory | restore, boot, schema stamps | any process that starts | two renames and a boot between them |
| tool-registry (file.write) | blobs named by digest | capture, write, restore, prune | other programs that edit the file | undo after a change, damage |
| memory, retrieval | rows in Qdrant, a lexical index | record, forget, search | recall in a turn | two stores, stale tombstones |
| cap-token | token blocks, a deny list file | issue, attenuate, verify, revoke | every stage | claims as narrow as checks; shared file |
| CLI background tasks | task records, receipts | spawn, cancel, interrupt, steer | the runtime | a receipt awaited between check and write |
| multi-agent, delegate-tool | sub-agent meters, permits | spawn, ask, terminate, invoke | the runtime's tool timeout | reused ids, dropped callers |
| resilience | breaker state, retry loop | call, admit, on_success, on_failure, retry_with_backoff | OpenRouter provider, MCP client | late outcomes, dropped futures |
| OpenRouter's event stream | a line buffer, calls being assembled, a finish reason held back | network chunks, adapting, taking in | the streamed turn and its client | chunks cut anywhere, late ids, usage after the reason |
| channels (Slack, forwarders), shutdown | a replay cache, the worker's queue, copies of its sender | slack_events, forward, handle, shutdown | senders that deliver again | full queue, shutdown beside an acknowledgement, failing edits |
| home-client | a pending record, an event cursor | rooms send, runs events | the home server | lost responses, resumption |
| other providers, channel SDKs, other tools, media, UIs, integrations | connections | I/O | everything | out of reach of a model |

What makes each modelled component correct:

* **Cost gate**: a reservation is settled once; what it has taken is at every
  moment its envelope, nothing, or the actual cost; nothing is created or lost.
* **Turn commit**: the ledger of `TurnLedger`: a round is entered and charged
  together, a caller is never told "nothing happened" about a turn that is
  entered, an acknowledged turn survives a crash; one linear receipt chain; the
  journal accounts for a crashed turn once.
* **Approvals**: a gated call runs at most once per approval.
* **Stores and sessions**: what was reported as done is there; what was switched
  off, deleted, rolled back, forgotten or revoked does not come back; what a
  reader calls verified is; what was replaced can be brought back.
* **Clocks and windows**: a schedule fires once in its minute, a message is
  not admitted again for its window after its admission, a cron expression means
  what its fields say, a run is stopped only after a grace without another trip,
  and a child's detector trips no later than its parent's.
* **Child agents and tasks**: every cent and every receipt accounted for; work
  that was started ends, unless its provider never answers.
* **What comes in**: an answer is taken in as it was sent or not at all; a message
  that was acknowledged is worked on, once, and its reply is shown when the channel
  takes it.
* **Resilience**: the breaker trips at its threshold and heals by itself; the
  retry schedule is the documented one.

## 2. Modules

    CostTuples <- CostGate <- MCCostGate, CostGateProofs
    ReceiptLog, TurnLedger (INSTANCE) <- TurnCommit
    TurnCommit <- MCTurnCommit
    TurnCommit <- TurnCommitProofs
    Resilience <- MCResilience
    ProviderStream, FoldProofs (INSTANCE) <- StreamProofs

    NumberLists <- SessionHistory, ReceiptReaders, ProviderStream
    Approvals, OperatorStores, SessionHistory,
    ReceiptReaders, StateTree, FileUndo            <- MCOperator <- OperatorProofs
    Schedules, CronExpr, WebhookInbound,
    LoopDetector, RoomSend, RunEvents              <- MCWindows <- WindowsProofs
    BackgroundTasks, MultiAgents, Delegation, MCResilience,
    MemoryRecall, CapTokens, DenyList,
    ProviderStream, ChannelIntake                  <- MCAgents
    MCAgents, StreamProofs                         <- AgentsProofs

    SumProofs <- CostGateProofs, FoldProofs, StreamProofs,
                 WindowsProofs, OperatorProofs

The last three check modules put components side by side that share no state.
A variable `moves`, chosen in the initial state, says which of them moves: the
others stay at their initial states, so a run explores the sum of their state
spaces and not the product. Nothing is lost by that, since no action of one
reads a variable of another.

Definitions keep the source's names where there is one function for them
(`finalize`'s steps are `FinalizeClaim`, `FinalizeRefund`, ...). Operators whose
comment starts with *Mutant* are variants with a plausible bug; no specification
uses them. They are there so that each property can be shown to fail.

### CostTuples, CostGate (`crates/cost-gate`, `core-types/src/cost.rs`)

`CostTuples` is the arithmetic of CostTuple, CostEnvelope and CostDelta over a
set of dimensions, with the integer widths as constants (`U32Max < U64Max`,
`I64Max`), so that the clamps happen at small numbers. `CostGate` has one action
per lock acquisition: an `admit` is screened, resolves its holder, takes a
snapshot of the account, and commits it only if the account's version has not
moved (else it retries); a `finalize` claims the record, refunds or debits,
removes the record and files the finalized one; the release-on-drop guard takes
an unclaimed record; a rollback removes the finalized record and credits what
was taken. `net`, `granted` and `clipped` are history: what a reservation has
taken, what a holder was given, and whether a width ever cut a credit short.

### ReceiptLog, TurnCommit, TurnLedger (`crates/fused-runtime`, `crates/server`)

`ReceiptLog` is the file: lines of receipts, each with the quality the parser
and the verifier tell apart (good; odd, a payload that decodes under a signature
that does not verify; junk), the last one with or without its newline, its
repair at boot, and verification. `TurnCommit` is the life of a turn. Its
variables are those of the runtime (`tail`, `lock`, per-turn `pc`, `round`,
`hold`), the handshake (`phase`, `gone`), the caller (`cpc`, `answer`) and the
disk (`file`, `journal`). The three kinds of turn are the three entry points:
`HttpTurns` (a waiting caller with timeout and grace window), `StreamTurns`
(dropped at any yield, and holding the commit lock to the end of the round) and
`PlainTurns` (channels and the CLI). Actions shared by `submit_inner` and
`stream_inner` are one definition; the map names one of the two. `Crash` may
happen at any point, in the middle of a write with each of the partial outcomes
in `Tears`, and in the middle of reconciliation. At boot `mode` is the
reconciliation strategy being applied.

`TurnLedger` is the abstract specification: `entries`, what each turn is
`charged` for, what each caller was `told`, and five kinds of step (a round
entered and charged at once, a caller told, the process ending, a cut of the end
of the log by recovery that spares what callers were told about, and the one
exception, a stream dropped between charge and entry). `TurnCommit` implements
it (`ImplementsLedger`) with the lines of the file a restart would keep
(`LedgerLines`, so that a torn write and its repair are no step of the ledger) as
entries, the charges that can no longer be rolled back as `charged`, and
the callers' answers as `told`. The refinement is checked where a failed write
leaves nothing behind (`Failures = {"nothing"}`); section 4 says what happens
when a sync fails after the write.

Abstractions: the gate is what a round sees of it (a hold, a charge, an
uncharge), and CostGate shows that this is exact; the pre-submit stages and
hooks are one step that may refuse; a session is in `OwnSession` or not; the
journal holds assistant entries only; the CLI's load and append is one step (it
runs in one process, and the race it loses is already there with the server's
cached tail).

### Approvals (`crates/approvals`, `routes.rs`, `runtime.rs`, CLI)

A card is replaced by a rename and so never torn, but the read and the write of
`decide` and `consume` are separate steps with nothing held in between. The
worker (one thread) looks up, proposes, consumes and invokes. Decisions overlap
as two operators, or the HTTP API and the CLI, can make them. `runs`, `approves`,
`rejects` and `contested` (the cards two decisions raced for) are history. The
directory scan of `find_matching` is one step.

### OperatorStores (`crates/cron-ui`, `crates/webhook/src/ops.rs`)

Every invocation of `ardur cron` or `ardur webhook` is a process that goes
through the list of steps of its verb (`StepsOf`): receipts, the read of the
store, the temporary file and its rename; emit resolves a key and dispatches
before it writes back. The in-process mutexes order nothing between processes. A
receipt may be cut short by a failed write or a kill; the command then fails, and
what was written stays in the log. `overlapped` records who ran beside whom; the
properties are about processes that ran alone, and about what an overlap cannot
do. Listing and showing are not among the verbs: they read a store and append one
receipt, in the steps of the other verbs' receipts.

### SessionHistory (`session-journals/src/file.rs`, `cli/src/lib.rs`, runtime)

`lines` is the journal file with whole, torn and merged lines, `live` the
conversation the REPL holds. A turn journals the user's message and one
assistant message per round; `/checkpoint`, `/rollback` and `/compact` append
their marks; an append may fail having written nothing, a part or everything; a
crash may come anywhere; a resumption parses, repairs, reconciles and replays
with the exclusion ranges of all rollbacks. `drift` names the causes after which
the code lets the two differ, so that `HistoryMatchesReplay` is exact elsewhere.
Every acknowledged id is kept with whether it was given astray: by an append that
ran on from a line without its newline, or after one that did or that failed,
until the file is opened again or repaired.
`NumberLists` has the one helper that this module and the next share: a set of
positions in ascending order.

### ReceiptReaders (`receipts.rs`, `receipt_cache.rs`)

The log as pieces of bytes, because what matters is where a truncation falls.
`VerifiedReceiptCache::load` and `load_persisted_chain` run on the server's
threads while the commit section appends: read, decide on the torn tail,
truncate at the remembered offset, verify (or trust the cached prefix). An append
may fail at any of its writes or at its sync, and the server goes on with what
is in the file.

### StateTree (`cli/src/backup.rs`, `durability`, `StateDirs::create`)

A tree stands for its contents. `restore_backup` is staging, setting the live
tree aside, swapping, the rollback of a failed swap, the schema stamp and the
deletion of the displaced tree under `--force`; boots create what is missing at
any moment.

### FileUndo (`tool-registry/src/builtins/files.rs`, `snapshot.rs`)

A content is a sequence of chunks. `file.write` captures (reads, stores the
blob), writes or appends; `restore_expecting` checks the current content, reads
the blob against its digest, and writes; each read and write may fail. Another
editor, a prune and damage to the store come between any two awaits.

### Schedules, CronExpr (`automation`, `cron`, `cli/src/schedule_exec.rs`)

`Schedules` has drivers (`ardur schedule run`), firers (`ardur schedule fire`)
and operators who create and delete records: load, due test, token mint,
delivery, and the read and write that record the fire. `CronExpr` parses a field
into the set of values it matches and compares `matches` and `next_execution`
with a definition by arithmetic on the calendar, which is a parameter: two-day
months have the same short months and leap years.

### WebhookInbound (`webhook/src/inbound.rs`)

Timestamp window, signature, then the one replay cache all sources share: a map
and an insertion order, pruned from the front and bounded. Instants are finer
than the timestamps' seconds.

### LoopDetector (`crates/loop-detector`)

A run and a child whose budget was derived from it see the same calls and turns.
The three signals over their windows, `on_trip`, the grace window, halt, kill and
the override are operators on a detector record. No crate drives the detector
yet: the caller ends turns, may report a call late and checks the grace when it
likes.

### RoomSend, RunEvents (`crates/home-client`)

`RoomSend`: the one pending record by which a send that lost its response is
sent again with the same nonce; the home (external) knows a nonce again.
`RunEvents`: bounded windows of a run's events read frame by frame and resumed
from a cursor after a window's end, a broken connection or Ctrl-C.

### BackgroundTasks, MultiAgents, Delegation (`cli`, `multi-agent`, `delegate-tool`)

`BackgroundTasks`: a spawned future and a shared record; cancel, interrupt and
steer check the status, await a receipt with no lock held, then touch the
record. `MultiAgents`: a spawn takes two locks, one after the other; an ask reserves
under a read lock, runs the child with no lock, and rolls back only if the registry
still holds the same instance (an ask whose own future is dropped is left out: no
caller in the repository drops one). `Delegation`: permits, the blocking thread's
spawn, ask and terminate, its panic, and a caller that is dropped while the thread
goes on.

### Resilience (`crates/resilience`)

One breaker shared by several callers, each running the retry loop inside
`call`, as the OpenRouter provider and the MCP client do. `Instant`s are ticks
left, so time needs no bound. An attempt succeeds or fails with a retryable or
a permanent error (a timeout is a failure). `CallDropped` is the caller's future
going away at the `await` inside `call`.

### MemoryRecall (`memory`, `memory-qdrant`, `bm25-index`, recall in a turn)

Rows are only added; forgetting adds a tombstone that cuts a correction chain
off. A write goes to Qdrant and then to the lexical index, either may fail before
or after it took effect; a search reads the tombstones, the candidates of both
indexes, and the rows, with an await at each. What matches and how fusion ranks
it is any choice.

### CapTokens, DenyList (`crates/cap-token`)

A token is its blocks. `Authorized` is what the Datalog checks decide for a
request, `effective_claims` the projection other crates rely on afterwards;
`TokensNarrow` says the second is exactly as narrow as the first. `AuthzError` is
the order in which `verify` names the reason of a refusal. `DenyList` is
the shared file of hex lines: a revoke is two appends, a lookup is a reload into
the locked set and a later look at it.

### ProviderStream (`provider-openrouter/src/streaming.rs`, `stream_inner`)

The wire is a sequence of lines with their lengths; a step is one network chunk
of any number of bytes, or the end of the connection. A single task pulls decoder,
adapter and turn, and empties the queues before it reads on, so nothing comes
between the parts of a step. Tool-call fragments go two ways, into the calls that
will run (`ingest`, `finalize`) and, by id, to the client (`adapt_tool_call`);
`ShownIsRun` compares the two, for answers in which an id names one call. JSON is a chunk or not; a line that is not UTF-8
counts as a comment, as in the code. The twin decoder of `provider-openai-compat`
is not mapped.

### ChannelIntake (`slack-adapter/src/adapter.rs`, `server/src/state.rs`)

A Slack request is checked against the clock, remembered under a lock by the clock
that was read before it, then the handler copies the sender, then it sends: four
steps, between which other handlers, the clock, the forwarder of the other channels,
the worker and `shutdown` move. `lapsed` are the requests one handler pruned while
another could still accept them. The worker's `handle` is the
placeholder, one edit per delta, and the end; each edit may fail. `recv` ends when
the sender was taken and no copy is left. A request is its timestamp and signature:
an event that Slack signs anew is another request. The clock does not step back.

## 3. Runs

Passing runs. Deadlock is unchecked: finite sets of calls, turns and processes
are simply used up, and a dropped probe really stops the breaker.

| Run | Shows | Bounds, and why they are enough |
|---|---|---|
| cost_gate | TypeOK, SettledByOne, ExactCharge, Conservation | one holder, two admits, three settling calls: finalize against finalize, against the guard, and a rollback of the winner; costs below and above envelopes, balances down to the zero clamp and up to U64Max |
| cost_gate_live | ClaimsComplete, AdmitAnswers | two admits that invalidate each other's snapshot |
| turn_commit | TypeOK, BilledIffReceipted, CancelledTurnMarked, EveryoneAnswered, ImplementsLedger | an HTTP turn and a stream of two rounds, running concurrently (more than the server's worker does: it covers an embedder of the runtime, and makes them compete for the commit lock), one failed write |
| turn_restart | ChainLinear, AcknowledgedDurable, Reconciled, ImplementsLedger | two crashes, so that one can hit the recovery of the other; writes cut to nothing, inside the payload, or complete; either strategy at each boot; a control receipt, and a CLI receipt while the server is down |
| windows | WindowsTypeOK, DeliveriesSound, DeletedIsOver, CronExact, NotAgainWithinWindow, DetectorSound, HaltAfterQuietGrace, HomeClientSound | a driver and a firer over two schedules and two cron minutes of two ticks, a token that expires between them, one failed step; 840 cron expressions over a calendar with a leap year; three messages from sources with two windows through a cache of two; four budgets, eight derivations, five turns; three sends of two messages, one store fault, one new pairing; three events, one broken connection per retry budget |
| operator | OperatorTypeOK, RunsPaidFor, CardsUsedOnce, AloneSound, OffUnlessOverlapped, SessionSound, ExcisedStaysOut, ReadersSound, PriorComesBack | two calls, three cards, three decisions and a crash; two processes, one kill or failed write, over three stores; a turn of two rounds, three marks (so that a rollback follows a rollback, or goes to the older of two checkpoints), one fault, two resumptions; two readers and two appends, one crash or failed append; two restores and a boot, two refused system calls, one kill; two file.write calls, one intervention from outside |
| agents | AgentsTypeOK, RecordMatchesReceipt, ChildAgentsSound, ReliedOnSound, IncomingSound, HalfOpenHasProbe, CallsBounded, WorkEnds | two tasks, two commands, one receipt that cannot be minted; an id spawned twice and two askers; three delegations for two permits; a probe and a stale call under 37 retry policies around a U64Max of 3; three rows of two subjects, two writers, one fault, a pool smaller than what can match; tokens of up to four blocks against 32 requests; two revokers and two lookups; 315 answers of up to seven lines, lines longer than the limit, text past its cap; two handlers, a message and another event delivered three times around their windows and one message forwarded, a queue of one, one delta per turn |

Some properties are conjunctions of the properties of components that are
checked in one run: `AloneSound`, `SessionSound`, `DeliveriesSound`,
`DetectorSound` in their modules, `PriorComesBack` (StateTree, FileUndo),
`HomeClientSound` (RoomSend, RunEvents), `ChildAgentsSound` (MultiAgents,
Delegation), `ReliedOnSound` (MemoryRecall, CapTokens, DenyList), `IncomingSound`
(ProviderStream, ChannelIntake) and `WorkEnds` (BackgroundTasks' `TaskEnds`,
Resilience's `Heals`) in the check modules.

Exceptions are history variables that are set where a cause happens and are named in
the property's comment; a property says nothing of what follows its cause, and
section 4 describes what the code does then. `damaged` (TurnCommit) is a crash that
cut a signature or only a newline, a failed write that left bytes behind, or a CLI
append beside a running server; `contested`
excludes, card by card or schedule by schedule, what two processes raced for;
`overlapped` and `cut` (OperatorStores) are two processes at a time and a receipt cut
short; `drift` (SessionHistory) names why a conversation may differ from its replay,
and `astray` an id given while the count of lines was off; `spoiled` (ReceiptReaders)
is a repair that cut a log that had changed, or an append behind a line without its
newline; `forfeited` (RoomSend) is a message whose recovery was given up;
`harmed` and `raced` (FileUndo), `overdue` (DenyList) and `due` (MemoryRecall) are
counted per call; `lapsed` (ChannelIntake) is a request forgotten too
early and `missed` a message whose placeholder or last edit failed or whose turn
panicked; a `dropped` delegation has given up its permit.
`RunsPaidFor` and `HalfOpenHasProbe` (up to the first dropped
call) hold with no exception.

Fairness. `CostGate`: a thread inside the gate goes on (it takes short locks
and never awaits under one). `TurnCommit`: the worker goes on with a turn, the
caller's timers fire, boot proceeds and tools end (`tool_timeout`), but only in the
steps that wait for nobody outside (`OwnStep`): the default provider's request has no
timeout (`provider-runtime/src/anthropic.rs:68`) and a stream waits for its reader,
so neither is made to move. `EveryoneAnswered` says that a caller who has timed out
is answered within its grace window all the same, unless its turn has begun to
persist; and that then it is answered, and every turn ends, unless some turn waits
for a provider or a reader for ever (`HeldUp`). Nothing forces a crash, a timeout or
a hang-up. `Resilience`: an attempt ends
(every one has a timeout), a backoff's timer fires, somebody goes on calling;
nothing makes the upstream recover. `BackgroundTasks`: the executor polls a
future that is ready and drops an aborted one, and the REPL finishes the command it is
in; the provider need not answer (no timeout is wired up, `background_task.rs:49`),
so `TaskEnds` allows for a task that stays at its provider and that nobody aborts. In `agents`
the fairness of a component that stands still binds nothing, because none of the
steps it names is enabled in an initial state.

## 4. Findings

Each is a `violation` run: what a comment or document of the repository says,
stated as a property, and a behaviour of the code against it. `PROJECT.json`
quotes the lines.

| Run | The code |
|---|---|
| turn_stream_drop | a stream dropped between finalize and persist stays charged without a receipt |
| session_rollback | a rollback to a checkpoint that an earlier rollback took out leaves a conversation that resuming does not show |
| approvals_reuse | two overlapping decisions of a card both succeed, and the later one revives the card after it was consumed |
| bg_terminal | a cancel overwrites an outcome recorded while its receipt was minted; a late start overwrites a cancellation |
| breaker_dropped | a dropped probe leaves the breaker half-open for ever (the runtime's tool timeout, 30 s, is shorter than the MCP client's call timeout, 60 s) |

Other disagreements between code and comments, seen while modelling and not
given a run of their own (paths are below `src/crates`, `docs/` is below `src`):

Turns, receipts and the gate
* A caller told to wait for a durable round gets a 504 when the next round is
  cancelled (`server/src/state.rs:992`, `fused-runtime/src/runtime.rs:1957`).
* A receipt cut inside its signature is not seen as torn, and the next boot
  refuses the log; a whole line without its newline is continued by the next
  append (`fused-runtime/src/receipts.rs:391`), against `receipts.rs:350`,
  "future appends cannot concatenate onto corrupt bytes".
* A receipt the CLI mints beside a running server forks the chain
  (`receipts.rs:110` against `:84`).
* A crash or a failed write that leaves a whole line without its newline, in the
  receipt log or a journal, is not repaired: the next append returns Ok and makes one
  unreadable line of both, with which every later reading of the file fails. For the
  journal that is against `session-journals/src/file.rs:29`, "a returned EntryId always
  names a durably persisted entry" (and `:301`).
* A line whose `sync_all` fails stays in the log while the turn is rolled back,
  and the next receipt names the line before it (`runtime.rs:1651`).
* A reader that truncates an append in progress loses a durable receipt, and two
  stale repairs leave a hole of NULs (`receipts.rs:372`, against
  `receipt_cache.rs:16`).
* Reconciliation looks at the journal's own session only, and the server's
  journal has a fixed one that its turns do not share (`runtime.rs:1793`,
  `server/src/state.rs:535`); it takes completed control receipts for crashed
  turns (`runtime.rs:1805`).
* A consumer that stops reading an SSE stream without leaving holds
  `commit_lock` (`runtime.rs:3230`), and with it every other commit.
* Nothing in the gate acts on a lease that runs out (`cost-gate/src/gate.rs:401`
  is the only look at it), while `runtime.rs:908` expects a hold to lapse on the
  TTL; `finalize` accepts a cost above the envelope (`gate.rs:425`) against
  `core-types/src/cost.rs:217`.

Processes over shared files
* Two processes share one temporary name, so an overlap can rename a half
  written store or lose an update (`cron-ui/src/store.rs:8`); emit returns
  `SigningKeyResolveFailed` after the attempted receipt without a terminal one
  (`webhook/src/ops.rs:240`).
* A receipt of `ardur cron` or `ardur webhook` cut short by a failed write or a kill
  stays in the log; the next process takes its bytes for the parent and continues the
  same line (`webhook/src/gate.rs:153`, `:204`), and the chain ends there with no two
  processes overlapping.
* The CLI's resume refuses a torn journal tail that `recover_existing` would
  repair (`cli/src/lib.rs:345`, against `session-journals/src/file.rs:229`).
* After the swap a newer archive makes a restore report an error although its
  tree is live; a boot between the two renames makes swap and rollback both fail;
  a failed swap leaves its staging directory (`cli/src/backup.rs:162` to `:195`);
  `migrate_to` stamps only at the end (`durability/src/schema.rs:88`).
* A capture reuses an old blob without refreshing its age, so that a prune can
  remove the snapshot just taken (`tool-registry/src/snapshot.rs:366`, `:289`); a
  failed overwrite truncates the file and its error names no snapshot
  (`builtins/files.rs:521`). Nothing calls `restore_expecting`, and only tests prune.
* Two overlapping revokes, or a kill between the hex and the newline, put two ids
  on one line and neither matches any more (`cap-token/src/denylist.rs:104`); an
  odd cut makes every lookup deny; an older read stored between another lookup's
  store and look lets a revoked token pass (`:153`). The runtime uses
  `SharedDenyList`; only tests use the file.

Windows, schedules and clients
* Cron expressions that never fire are accepted (`cron/src/job.rs:62`).
* A webhook's signature is kept for its window from the moment it was admitted
  (`webhook/src/inbound.rs:247`), and its timestamp passes for a window on either side
  of the stamp. A message that arrives before its stamp or in its very second is
  admitted a second time while the stamp still passes, against `inbound.rs:31`
  ("rejects an already-seen signature within that window") and `:63` ("each signature
  is accepted at most once during that window").
* Every trip starts the grace window again (`loop-detector/src/detector.rs:231`), so a
  run whose one signal trips every turn is never halted, against `docs/loop-detector.md:32`
  ("The grace window closed with the signal still active"), `loop-detector/src/lib.rs:23`
  and `budget.rs:28` ("Turns the run may continue after a trip before a halt fires").
* A halted run becomes `Detected` again without an override
  (`loop-detector/src/types.rs:122`); a shorter window, taken for a tighter
  budget, is a looser one (`budget.rs:70`).
* Sending another message clears the record of a lost one, so that sending the
  first again starts it twice, as does a killed process
  (`home-client/src/commands.rs:661`, `docs/home-client.md:121`); a record that
  cannot be cleared makes a later identical message a silent repetition (`:666`).
  Following a run may report "completed" before late events (`events.rs:289`); a
  failing stdout is retried as an unreachable home (`ardur-rs/src/main.rs:423`).

Answers and channels
* An answer that ends without a finish reason, `[DONE]` or usage is taken for a
  complete one that stopped and cost nothing (`runtime.rs:2993`,
  `provider-openrouter/src/streaming.rs:448`); a line that is not UTF-8 is dropped
  without an error (`streaming.rs:392`).
* `Done` is "emitted exactly once, always last" (`streaming.rs:323`) only when
  upstream reports usage once: usage beside the reason and again later puts a
  usage, or a second `Done`, after it. Fragments after the finish reason are shown
  and not run; of two ids the client sees the first and the call carries the last.
* A handler reads the clock before it takes the lock of Slack's replay cache
  (`slack-adapter/src/adapter.rs:278`, `:307`) and prunes by what it read (`:395`). One
  that read the last second of a window and runs after one that read the next second
  finds the request forgotten and accepts it again, against `:317`, "reject duplicates
  inside the window".
* A Slack request is remembered before its message is offered to the queue
  (`slack-adapter/src/adapter.rs:319`), so the redelivery that a 503 asks for
  (`server/src/routes.rs:1392`) is refused with 401 if it carries the same
  timestamp and signature; if it is signed anew, nothing relates it to an event
  that was already accepted. The forwarders drop a message when the queue is full
  (`state.rs:1861`). A reply whose last edit fails stays cut short although the log
  says it was updated (`state.rs:1349`), and a message whose placeholder cannot be
  posted is given up after it was acknowledged (`state.rs:1264`).

Agents, memory, tokens, breaker
* `terminate` ignores the session of the agent it ends
  (`multi-agent/src/runtime.rs:344`); a dropped `delegate_task` frees its permit
  while the thread goes on, so more than the ceiling can run
  (`delegate-tool/src/lib.rs:273`, `fused-runtime/src/runtime.rs:2462`), against `lib.rs:50`
  and `:136`, "at most this many `delegate_task` calls may be in flight (spawned but not
  yet terminated)"; a thread that panics leaves no receipt of its child (`:275`).
* `on_success` and `on_failure` do not ask who reports: a late success of an old
  call closes an open breaker, and a late failure lets a second probe in beside
  the first (`resilience/src/circuit_breaker.rs:139` and `:163`).
* The candidate pool is bounded before tombstones and other subjects are dropped,
  so they can crowd out live memories (`memory-qdrant/src/hybrid.rs:119`); the
  dead chains come from one scroll of at most 16384 rows, beyond which a
  forgotten memory may be recalled (`runtime.rs:72`, against `hybrid.rs:158`,
  "never re-injected").
* A request above `i64::MAX` cents is clamped and passes a budget of at least
  `i64::MAX` (`cap-token/src/verify.rs:68`).

## 5. Proofs

The runs check small instances; the theorems hold for every value of the
constants that satisfies the modules' assumptions: any number of turns, rounds,
callers, crashes, cards, tasks, tokens and rows, any widths and limits. Each
proof module proves that an invariant holds initially, that every action keeps
it (one lemma per action, or one case of a lemma), and that it implies the
property the run checks. `PROJECT.json` lists the theorems; the text below says
what each needs beyond the property itself, which is what makes the property
true.

**CostGateProofs** (`IInv`, theorem `GateInvariant`). Assumptions: the widths
satisfy `WidthAssumption`, envelopes and costs are in range (`GateAssumption`).

* `GateSettledByOne` needs `ControlInv`: which records are in which table while
  a call is between two locks.
* `GateExactCharge` needs `SnapshotInv` (a snapshot whose version is current *is*
  the balance, so the commit is covered), `HoldHasAccount` (the arms of refund
  that would lose a credit are dead) and `CreditInv` (the credit kept for a
  rollback is what the finalize took, also when the debit was clamped at zero).
* `GateConservation` adds up all reservations of a holder, so it takes the set of
  reservation ids to be finite, as the map of a process is. A step changes one
  term of the sum and the balance by the same amount (`Balanced`).

**TurnCommitProofs** (`IInv`, theorem `TurnInvariant`). What is
said of the log is said until `damaged` (section 3).

* `TurnChainLinear` needs the lock (`LockInv`: the parent a turn has read is the
  tail until it lets go) and that the tail in memory is the end of the file
  (`LogInv`).
* `TurnBilledIffReceipted` speaks of finished turns and has to be said of
  running ones round by round: what a turn has counted, charged and holds
  (`CountInv`) against its lines in the log (`TurnInv`).
* `TurnCancelledMarked` and `TurnAcknowledgedDurable` need the handshake: the
  worker is in its write exactly when the phase says persisting, so a caller that
  gives up before that finds no line and one that comes after it finds the
  receipt (`ShakeInv`, `AnswerInv`). Over a restart it also takes that the
  truncation of orphans spares what the journal names (`JournalInv`).
* `TurnReconciled` needs to know, in the middle of a reconciliation, which
  entries are already there (`ReconcileInv`).

**The refinement** (TurnCommitProofs). `TurnImplementsLedger`: under `[]~damaged` the pipeline
implements `TurnLedger`; the proof takes its actions one by one and names the
step of the ledger each one is, or shows that it is a stutter. It needs `IInv`
and `MeterInv`, which says that a charge that can still be rolled back is the
only one without its entry. The hypothesis is not empty: the constants of
`turn_commit` and `turn_restart` leave `damaged` out of reach, with failed writes, torn
lines and crashes in them. It is needed: a line that a failed sync left behind is an
entry nobody was charged for.

**OperatorProofs**. One inductive invariant per component, and their composition.

* Approvals. `ApprovalsRunsPaidFor` from `GrantInv`: approvals cover the runs, the
  grant the worker has read and is spending, and the one on disk. A lookup that
  finds an approved card and a consume that finds it denied is why the grant is
  counted only from `ConsumeRead` on. `ApprovalsCardsUsedOnce` needs what an
  operator has read and not yet written (`DecidedInv`), and that a worker about to
  propose has found no live card of the call (`LiveInv`).
* OperatorStores. `StoresAloneSound` (`StoreInv`): `SoloInv` says of a process that
  nobody overlaps, step by step, that what it read is still the file, what is in
  its temporary file and what it is going to report; `KnownInv` and `CreatorInv`
  who made the records there are. `OffStays` is an action property and follows from
  the same invariant: what a rename or a write puts into the file is what the process
  read there with its own verb applied.
* SessionHistory. `SessionKeepsHistory` (`SessionInv`). The property speaks of a
  session at its prompt; the invariant says what the REPL holds ahead of the journal
  in the middle of a turn (`MatchInv`), that the journal is whole unless an append
  failed or a line was left unterminated (`CleanInv`), that the count is the line
  where the next entry lands unless ids are given astray (`AckInv`), and that what is about to be recorded or
  healed is a receipt of the chain that no line stands for (`ChainInv`, `RecordInv`).
  The replay itself is reasoned about as the list of positions that no rollback
  excludes, so appending a line and composing rollbacks are statements about sets
  of positions. `ExcisedForGood` is the action property over the same steps.
* ReceiptReaders. `ReceiptReadersSound` (`ReadersInv`): the bytes are whole lines
  followed by what the appender has written of its line, or what a failed append left
  of one (`LogInv`); `ReaderInv` what
  each reader has read, cut and verified, and that the cached prefix verifies from
  the first receipt.
* StateTree, FileUndo. `PriorTreeKept` (`TreeInv`) and `UndoBringsBack` (`UndoInv`)
  say where the earlier contents are at every step of a restore or of a call:
  live, set aside, in the snapshot, or deleted by a forced restore whose own tree
  is live.
* `PriorBack` and `OperatorTypes` are about the specification the run checks. The
  components share no variable, so a step of one is a stutter of the others
  (`OperatorSteps`, `OperatorComponents`).

**WindowsProofs**, in the same form (`WindowsSteps`, `WindowsComponents`).

* `ScheduleDeliveries` (`SchedInv`): for a schedule that no two processes had in
  hand at a time, `HandInv` relates what its process loaded, delivered and has still
  to record to the counts of the property. `ScheduleDeleted` is an action property
  from the same invariant.
* `InboundNotAgain` (`InboundInv`): an admitted signature is in the cache, or past
  its window since it was admitted, or evicted by an overflow. That needs the map and the order to hold
  the same entries, each once (`InboundCacheConsistent`), since a prune takes the
  key from one and the deadline from the other. The order need not be sorted by
  deadline; pruning from the front may keep an entry too long but drops none early.
* `LoopDetectorSound` (`LoopInv`, `ChildInv`): a run and a child with the same span
  are twins, with the same window, costs and idle turns, until the child trips; a
  field of a derived budget is never larger than its parent's, so what trips the run
  trips the child first or with it. That the window kept by dropping from the front
  is the recent calls takes the lemmas on prefixes at the head of the module.
  `LoopHaltAfterQuietGrace` is the action property about when the grace window may halt.
* `CronIsExact` and, of the run's specification, `WindowsCronExact` (`CronInv`). The
  parser's walk over a range is a recursive function that saturates at the field's
  width; by induction over the numbers left (`SumProofs`) it collects the arithmetic
  progression below the range's end. The search for the next execution is shown in the
  same way to be the first minute that matches, and the forecast to stay so until it
  has come.
* `RoomSendOnce` (`RoomInv`): at any moment there is at most one nonce by which a
  message can still be started (`OneLive`); the pending record, the request on the
  wire and the home's memory agree on it.
* `EventsPrintedOnce` (`EventsInv`): what is printed is the run's events up to the
  cursor, also when the frame at the cursor is delivered again.
* `HomeClientOnce` and `WindowsTypes` are about the specification the run checks.

**AgentsProofs**. One inductive invariant per component.

* `BackgroundRecordMatchesReceipt`: `BgPending` says what a command relies on when
  it comes back from its receipt without having held a lock.
* `DelegationStaysSound` (`DelegInv`): who holds which of the permits, through a
  caller that is dropped at any of its awaits; a running thread without a permit is
  one whose call was dropped, and a child without a receipt is still in its thread's
  hands or was left by a panic.
* `AgentsSpendAccounted` (`AgentInv`): the meter is the sum of what the asks hold
  and what they spent, for the agent that now has the id. `RegistryInv` ties an
  ask that outlives a terminate to the agent it was made to.
* `CapTokensNarrow` (`CapInv`): a step appends one block, and a further block can
  only add checks; the exactness of the effective claims is an argument about
  minima over the blocks.
* `DenyListRevokedStaysDenied` (`DenyInv`): `FileInv` says which bytes of the file
  are lines, whichever revoker died between its two appends; `LookInv` says that
  a lookup that owes a denial holds a revoked id of its token in what it has read
  or stored, and that every read still to be stored over that has the id too.
* `MemoryRecallSound` (`MemInv`): `StoreInv` relates rows, indexes and tombstones
  after faults on either side of a write, `SearchInv` what a search has gathered to
  what was there when it began.
* `ResilienceHalfOpenHasProbe`: any resolved call ends the half-open state, and only
  `AdmitProbe` begins it. `ResilienceCallsBounded` (`BoundsInv`): the breaker is
  closed only below its threshold, a call never makes more than `max_attempts`
  attempts, a sleep is within its bounds; and the loop of `base_delay_ms`, with its
  saturating multiplication and its early exit, computes `initial * multiplier^i` cut
  at the cap, for every u64 width (`DelayExact`).
* `ChannelsKeepTheirWord` (`ChanInv`). That a signed request runs once has to be said
  of requests in a handler's hand too (`HandsInv`) and survives the pruning of the
  replay cache only while nobody prunes by another clock than the one a request was
  accepted by: what was pruned is past its window for good, or is in `lapsed`. That an acknowledged
  message is not lost needs that the worker stops only when no handler and no
  forwarder holds a sender (`QueueInv`); what is shown of it, that it has no second
  turn (`TakenOnce`, `ShownInv`).
* `AgentsChildAgentsSound`, `AgentsReliedOnSound`, `AgentsIncomingSound` and
  `AgentsTypes` carry these over, with the answers of StreamProofs, to the
  composition the run checks: the components share no variable, so a step of one
  is a stutter of the others (`AgentsSteps`).

**StreamProofs** (`StreamInv`, theorem `StreamIsSound`). For every set of answers, every
cut into network chunks and both limits. The code folds over lines, decoded chunks, events and
fragments; the properties speak of all lines at once. What relates them is proved one element at
a time: what the accumulator has gathered of the fragments so far (`Gathers`), what
the adapter has shown of them and holds back for want of an id (`Tracks`,
`Carried`), and what decoder, adapter and answer are after some good lines
(`LineInv`) and after a line that ends the stream (`EndInv`). A poll hands several
events on at once and may stop at an error among them, so these are first shown of
the whole pipeline taking in one event, then of a line, then of the lines of a
network chunk. `StreamInv` says `LineInv` of the lines that are whole in the
bytes received, and of a round that goes on that it has every line that counts, the
unterminated one at the end of the connection included.

**FoldProofs** is what makes that possible: `FoldLeft` is defined with a `CHOOSE` over
functions on sets of positions, and a theorem with an operator as its parameter
is of no use to the provers. Here the operator is a constant of the module; every fold has an
`INSTANCE` of it, which gives its value on `<<>>` and on one more element.

**SumProofs** has what the others need about recursion: that
`SumFunctionOnSet` changes by what one of its terms changes by, whatever order
its `CHOOSE` takes. The library's induction theorems take an operator, which the
provers cannot instantiate; here the claim is given as the *set* of the subsets,
or numbers, it holds for (`SubsetInduction`, `NaturalInduction`), and the
induction follows from the well-foundedness of strict inclusion.

Where a proof failed, the model or a property was at fault in these places.

* `CapTokens.AuthzError` was a CASE with overlapping arms, whose value TLA+ leaves
  open; the order in which the code looks at them is now explicit. `DenyList` did
  not say that a token has a block, `ChannelIntake` that messages of different
  channels are different messages, `StateTree` that the special trees differ from
  each other, `FileUndo` that there is a call and room for one chunk.
* `ExcisedStaysOut` was stated of every rollback a reader would see. It is false of
  one that a crash left without its newline: a resumption applies it, the next
  append is torn too and makes one torn line of both, the resumption after that cuts
  the line off, and what the rollback had excluded is back. That takes two faults, one
  more than the run has; TLC finds it with `MaxFaults = 2`. The property now speaks of rollbacks whose line is
  terminated, and holds with two faults as well.
* `CallsInOrder`, the hypothesis of `ShownIsRun`, allowed upstream to give the same id to
  two calls. Their deltas then share one id in what the client is shown, and it
  cannot tell whose arguments they are; the answers of the run never did that. The
  hypothesis now asks for distinct ids.
* `HealedOnce` had an exception for journals whose ids had slipped. The proof does
  not need it: the property is now stated, checked and proved without.

Only model-checked:

* liveness (`ClaimsComplete`, `AdmitAnswers`, `EveryoneAnswered`, `WorkEnds`):
  fairness and ENABLED are outside the prover.

## 6. Not modelled

Cryptography (a signature verifies or not), the bytes of files beyond the parts
a reader tells apart, prompt and memory contents, ranking and embeddings,
authentication and rate limits, and the components listed as `not_modelled` in `PROJECT.json` with their
reasons. Most of the repository's lines are there: other adapters for
providers and channels, media and integrations, user interfaces and formatting, whose control
is one request and its answer.

## 7. Plan

1. *Models*: the automation ledgers (tasks, flows, rules), standing goals, the
   lifecycle hooks' ordering and error isolation, the server's rate limits.
2. *Proofs*: what a component of the kind above promises, in the form of section 5.
