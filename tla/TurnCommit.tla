----------------------------- MODULE TurnCommit -----------------------------
(***************************************************************************)
(* The life of a turn in the fused runtime (crates/fused-runtime):         *)
(* admission, provider round, tools, and the commit section that finalizes *)
(* the cost, persists the receipt and appends the journal; the handshake   *)
(* with the HTTP caller that may time out or hang up (crates/server);      *)
(* control receipts; crashes, restart and orphan reconciliation.           *)
(*                                                                         *)
(* The cost gate is CostGate seen from a turn: a round holds a             *)
(* reservation, is charged by finalize, and is uncharged by a rollback.    *)
(***************************************************************************)
EXTENDS ReceiptLog, FiniteSets

CONSTANTS
  HttpTurns,    \* POST /chat: submit_with_cancellation and a waiting caller
  StreamTurns,  \* SSE: stream_inner, dropped when the client disconnects
  PlainTurns,   \* submit, no cancel probe
  OwnSession,   \* authors whose receipts name the session the journal was opened for
  Concurrency,  \* turns one runtime works on at a time (1: the server's worker)
  QueueCap,     \* capacity of the worker's queue
  MaxRounds,    \* max_tool_iterations
  Strategies,   \* the ReconciliationStrategy values a boot may be configured with
  Control,      \* the author of control receipts
  Cli,          \* the author of receipts minted by another process
  CliBesideServer, \* the CLI is used while a runtime is up, not only when it is down
  NoTurn,       \* nobody holds the commit lock
  Failures,     \* ways a write may fail while the process runs
  Tears,        \* ways a write may be cut short by a crash
  MaxFailures, MaxCrashes, MaxControls, MaxCli   \* bounds

Turns == HttpTurns \cup StreamTurns \cup PlainTurns

ASSUME TurnAssumption ==
  /\ Concurrency \in Nat \ {0} /\ QueueCap \in Nat \ {0} /\ MaxRounds \in Nat \ {0}
  /\ HttpTurns \cap StreamTurns = {} /\ HttpTurns \cap PlainTurns = {}
  /\ StreamTurns \cap PlainTurns = {}
  /\ OwnSession \subseteq Turns \cup {Control}
  /\ Strategies \subseteq {"IgnoreOrphans", "AppendSyntheticJournal", "TruncateOrphans"}
  /\ {Control, Cli, NoTurn} \cap Turns = {} /\ Control # Cli
  /\ CliBesideServer \in BOOLEAN
  /\ Failures \subseteq Writes \ {"ok"} /\ Tears \subseteq Writes
  /\ MaxFailures \in Nat /\ MaxCrashes \in Nat /\ MaxControls \in Nat /\ MaxCli \in Nat
  /\ NoReceipt \notin (Turns \cup {Control, Cli}) \X Nat

VARIABLES
  \* durable
  file,       \* the receipt log
  journal,    \* the assistant entries of the session journal, in order
  \* the process
  mode,       \* "up", "down", or at boot the strategy being applied
  tail,       \* chain_tail
  lock,       \* the holder of commit_lock
  \* per turn
  pc, round,
  committed,  \* committed_rounds
  wants,      \* the provider asked for tools this round
  parent,     \* parent_hash of the receipt being minted
  hold,       \* this round's reservation: "none", "held" or "charged"
  result,     \* what the turn returned
  \* TurnCommitHandshake and the caller
  gone,       \* caller_gone
  phase,      \* the handshake's phase
  prev,       \* previously_committed
  cpc,        \* where the caller's submit_chat is
  answer,     \* the HTTP status it produced
  \* history and bounds
  billed,     \* rounds charged and not rolled back
  waited,     \* callers that were told to wait for the outcome
  ioError,    \* turns that met a failed write
  damaged,    \* the log holds bytes the runtime does not know of
  failures, crashes, controls, clis

durableVars == <<file, journal>>
turnVars    == <<round, committed, wants, parent>>
shakeVars   == <<gone, phase, prev>>
callerVars  == <<cpc, answer, waited>>
boundVars   == <<failures, crashes, controls, clis>>
vars == <<file, journal, mode, tail, lock, pc, round, committed, wants, parent, hold,
          result, gone, phase, prev, cpc, answer, billed, waited, ioError,
          damaged, failures, crashes, controls, clis>>

Pc == {"idle", "queued", "admit", "provider", "tools", "lock", "finalize", "begin",
       "persist", "journal", "after", "marker", "done", "past"}
Result == {"none", "ok", "error", "cancelled", "dropped", "full"}
CallerPc == {"idle", "waiting", "cancelling", "grace", "mustwait", "hangup", "answered", "lost"}

Ids == (Turns \cup {Control, Cli}) \X Nat
Receipt == [id : Ids, parent : Ids \cup {NoReceipt},
            kind : {"tool", "final", "cancelled", "control"}]

\* The log, the journal, the turns and their callers keep their types.
TypeOK ==
  /\ file \in [lines : Seq([quality : {"good", "odd", "junk"}, receipt : Receipt]),
               open : BOOLEAN]
  /\ journal \in Seq([id : Ids, synthetic : BOOLEAN])
  /\ mode \in {"up", "down"} \cup Strategies
  /\ tail \in Ids \cup {NoReceipt}
  /\ lock \in Turns \cup {NoTurn}
  /\ pc \in [Turns -> Pc] /\ result \in [Turns -> Result]
  /\ round \in [Turns -> 1..MaxRounds] /\ committed \in [Turns -> 0..MaxRounds]
  /\ wants \in [Turns -> BOOLEAN]
  /\ parent \in [Turns -> Ids \cup {NoReceipt}]
  /\ hold \in [Turns -> {"none", "held", "charged"}]
  /\ gone \in [Turns -> BOOLEAN] /\ prev \in [Turns -> BOOLEAN]
  /\ phase \in [Turns -> {"live", "cancelled", "persisting", "committed"}]
  /\ cpc \in [Turns -> CallerPc]
  /\ answer \in [Turns -> {"none", "200", "502", "503", "504"}]
  /\ billed \in [Turns -> 0..MaxRounds]
  /\ waited \subseteq Turns /\ ioError \subseteq Turns /\ damaged \in BOOLEAN
  /\ failures \in 0..MaxFailures /\ crashes \in 0..MaxCrashes
  /\ controls \in 0..MaxControls /\ clis \in 0..MaxCli

Init ==
  /\ file = EmptyLog /\ journal = <<>>
  /\ mode = "up" /\ tail = NoReceipt /\ lock = NoTurn
  /\ pc = [t \in Turns |-> "idle"]
  /\ round = [t \in Turns |-> 1]
  /\ committed = [t \in Turns |-> 0]
  /\ wants = [t \in Turns |-> FALSE]
  /\ parent = [t \in Turns |-> NoReceipt]
  /\ hold = [t \in Turns |-> "none"]
  /\ result = [t \in Turns |-> "none"]
  /\ gone = [t \in Turns |-> FALSE]
  /\ phase = [t \in Turns |-> "live"]
  /\ prev = [t \in Turns |-> FALSE]
  /\ cpc = [t \in Turns |-> "idle"]
  /\ answer = [t \in Turns |-> "none"]
  /\ billed = [t \in Turns |-> 0]
  /\ waited = {} /\ ioError = {} /\ damaged = FALSE
  /\ failures = 0 /\ crashes = 0 /\ controls = 0 /\ clis = 0

-----------------------------------------------------------------------------
(* The runtime's side of a turn *)

Step(t, from, to) ==
  /\ mode = "up" /\ pc[t] = from
  /\ pc' = [pc EXCEPT ![t] = to]

Return(t, from, res) ==
  /\ Step(t, from, "done")
  /\ result' = [result EXCEPT ![t] = res]

SetHold(t, h) == hold' = [hold EXCEPT ![t] = h]
release(t) == SetHold(t, "none")

Queued  == {t \in Turns : pc[t] = "queued"}
Running == {t \in Turns : pc[t] \notin {"idle", "queued", "done", "past"}}

\* submit_chat / stream_chat: try_send on the bounded queue.
Submit(t) ==
  /\ Cardinality(Queued) < QueueCap
  /\ Step(t, "idle", "queued")
  /\ cpc' = [cpc EXCEPT ![t] = IF t \in HttpTurns THEN "waiting" ELSE @]
  /\ UNCHANGED <<durableVars, mode, tail, lock, turnVars, hold, result, shakeVars,
                 answer, waited, billed, ioError, damaged, boundVars>>

SubmitQueueFull(t) ==
  /\ Cardinality(Queued) >= QueueCap
  /\ Return(t, "idle", "full")
  /\ cpc' = [cpc EXCEPT ![t] = IF t \in HttpTurns THEN "answered" ELSE @]
  /\ answer' = [answer EXCEPT ![t] = IF t \in HttpTurns THEN "503" ELSE @]
  /\ UNCHANGED <<durableVars, mode, tail, lock, turnVars, hold, shakeVars, waited,
                 billed, ioError, damaged, boundVars>>

\* Stages 1 to 4 (cap-token, cedar, budget set-up, pre-submit hooks, recall) ...
StartTurn(t) ==
  /\ Cardinality(Running) < Concurrency
  /\ Step(t, "queued", "admit")
  /\ UNCHANGED <<durableVars, mode, tail, lock, turnVars, hold, result, shakeVars,
                 callerVars, billed, ioError, damaged, boundVars>>

\* ... any of which may refuse the turn.
RefuseTurn(t) ==
  /\ Cardinality(Running) < Concurrency
  /\ Return(t, "queued", "error")
  /\ UNCHANGED <<durableVars, mode, tail, lock, turnVars, hold, shakeVars,
                 callerVars, billed, ioError, damaged, boundVars>>

\* The injection scan and the gate's admit, once per round.
Admit(t) ==
  /\ Step(t, "admit", "provider")
  /\ SetHold(t, "held")
  /\ UNCHANGED <<durableVars, mode, tail, lock, turnVars, result, shakeVars,
                 callerVars, billed, ioError, damaged, boundVars>>

AdmitRefused(t) ==
  /\ Return(t, "admit", "error")
  /\ UNCHANGED <<durableVars, mode, tail, lock, turnVars, hold, shakeVars,
                 callerVars, billed, ioError, damaged, boundVars>>

\* The provider answers, wanting tools or not; abort_if_caller_gone releases the
\* hold when the caller has left.
ProviderReplies(t, w) ==
  /\ Step(t, "provider", IF gone[t] THEN "marker"
                         ELSE IF w /\ round[t] < MaxRounds THEN "tools" ELSE "lock")
  /\ wants' = [wants EXCEPT ![t] = w]
  /\ SetHold(t, IF gone[t] THEN "none" ELSE "held")
  /\ UNCHANGED <<durableVars, mode, tail, lock, round, committed, parent, result,
                 shakeVars, callerVars, billed, ioError, damaged, boundVars>>

\* All requested tools ran; abort_if_caller_gone is asked before each and after.
ToolsDone(t) ==
  /\ Step(t, "tools", IF gone[t] THEN "marker" ELSE "lock")
  /\ SetHold(t, IF gone[t] THEN "none" ELSE "held")
  /\ UNCHANGED <<durableVars, mode, tail, lock, turnVars, result, shakeVars,
                 callerVars, billed, ioError, damaged, boundVars>>

\* The provider or a tool fails, a tool is unknown, refused or awaits approval,
\* its output is rejected, or streamed content exceeds its cap.
RoundFails(t) ==
  /\ \E from \in {"provider", "tools"} : Return(t, from, "error")
  /\ release(t)
  /\ UNCHANGED <<durableVars, mode, tail, lock, turnVars, shakeVars, callerVars,
                 billed, ioError, damaged, boundVars>>

\* Mutant: a turn cancelled at the lock keeps the guard while it goes on to
\* record its cancellation.
EnterCommitKeepsLock(t) ==
  /\ lock = NoTurn
  /\ Step(t, "lock", IF gone[t] THEN "marker" ELSE "finalize")
  /\ SetHold(t, IF gone[t] THEN "none" ELSE "held")
  /\ lock' = t
  /\ parent' = [parent EXCEPT ![t] = tail]
  /\ UNCHANGED <<durableVars, mode, tail, round, committed, wants, result,
                 shakeVars, callerVars, billed, ioError, damaged, boundVars>>

\* Take commit_lock, ask the probe once more inside it, read the chain tail.
EnterCommit(t) ==
  /\ lock = NoTurn
  /\ Step(t, "lock", IF gone[t] THEN "marker" ELSE "finalize")
  /\ SetHold(t, IF gone[t] THEN "none" ELSE "held")
  /\ lock' = IF gone[t] THEN NoTurn ELSE t
  /\ parent' = [parent EXCEPT ![t] = tail]
  /\ UNCHANGED <<durableVars, mode, tail, round, committed, wants, result,
                 shakeVars, callerVars, billed, ioError, damaged, boundVars>>

Bill(t, n) == billed' = [billed EXCEPT ![t] = @ + n]

\* gate.finalize charges the actual cost.
Finalize(t) ==
  /\ Step(t, "finalize", "begin")
  /\ SetHold(t, "charged") /\ Bill(t, 1)
  /\ UNCHANGED <<durableVars, mode, tail, lock, turnVars, result, shakeVars,
                 callerVars, ioError, damaged, boundVars>>

\* Signing fails, or the reservation has expired and the gate refunded it.
FinalizeFails(t) ==
  /\ Return(t, "finalize", "error")
  /\ release(t) /\ lock' = NoTurn
  /\ UNCHANGED <<durableVars, mode, tail, turnVars, shakeVars, callerVars, billed,
                 ioError, damaged, boundVars>>

\* Mutant: persist begins whatever the caller did.
BeginPersistBlind(t) ==
  /\ Step(t, "begin", "persist")
  /\ prev' = [prev EXCEPT ![t] = (phase[t] = "committed")]
  /\ phase' = [phase EXCEPT ![t] = IF t \in HttpTurns THEN "persisting" ELSE @]
  /\ UNCHANGED <<durableVars, mode, tail, lock, turnVars, hold, result, gone,
                 callerVars, billed, ioError, damaged, boundVars>>

\* begin_persist wins from live or committed (turns without a handshake go on).
BeginPersist(t) ==
  /\ phase[t] \in {"live", "committed"}
  /\ Step(t, "begin", "persist")
  /\ prev' = [prev EXCEPT ![t] = (phase[t] = "committed")]
  /\ phase' = [phase EXCEPT ![t] = IF t \in HttpTurns THEN "persisting" ELSE @]
  /\ UNCHANGED <<durableVars, mode, tail, lock, turnVars, hold, result, gone,
                 callerVars, billed, ioError, damaged, boundVars>>

\* begin_persist lost to request_cancel: the charge is rolled back.
BeginRefused(t) ==
  /\ phase[t] = "cancelled"
  /\ Step(t, "begin", "marker")
  /\ SetHold(t, "none") /\ Bill(t, -1) /\ lock' = NoTurn
  /\ UNCHANGED <<durableVars, mode, tail, turnVars, result, shakeVars, callerVars,
                 ioError, damaged, boundVars>>

\* The receipt of t's current round, chained on the tail it read.
Minted(t) == [id |-> <<t, round[t]>>, parent |-> parent[t],
              kind |-> IF wants[t] THEN "tool" ELSE "final"]

\* A write of r that fails as o says: bounded, and damaging once bytes of it
\* have reached the file.
FailedWrite(r, o) ==
  /\ failures < MaxFailures /\ o \in Failures
  /\ failures' = failures + 1
  /\ file' = WriteLine(file, r, o)
  /\ damaged' = (damaged \/ o # "nothing")

\* persist_receipt succeeds: the tail advances and the handshake is committed.
Persist(t) ==
  /\ Step(t, "persist", "journal")
  /\ file' = WriteLine(file, Minted(t), "ok")
  /\ tail' = Minted(t).id
  /\ phase' = [phase EXCEPT ![t] = IF t \in HttpTurns THEN "committed" ELSE @]
  /\ UNCHANGED <<journal, mode, lock, turnVars, hold, result, gone, prev,
                 callerVars, billed, ioError, damaged, boundVars>>

\* Mutant: the charge is not rolled back.
PersistFailsCharged(t, o) ==
  /\ Return(t, "persist", "error")
  /\ FailedWrite(Minted(t), o)
  /\ phase' = [phase EXCEPT ![t] =
       IF t \notin HttpTurns THEN @ ELSE IF prev[t] THEN "committed" ELSE "live"]
  /\ SetHold(t, "none") /\ lock' = NoTurn
  /\ ioError' = ioError \cup {t}
  /\ UNCHANGED <<journal, mode, tail, turnVars, gone, prev, callerVars, billed,
                 crashes, controls, clis>>

\* persist_receipt fails: abort_persist, and the finalization is rolled back.
PersistFails(t, o) ==
  /\ Return(t, "persist", "error")
  /\ FailedWrite(Minted(t), o)
  /\ phase' = [phase EXCEPT ![t] =
       IF t \notin HttpTurns THEN @ ELSE IF prev[t] THEN "committed" ELSE "live"]
  /\ SetHold(t, "none") /\ Bill(t, -1) /\ lock' = NoTurn
  /\ ioError' = ioError \cup {t}
  /\ UNCHANGED <<journal, mode, tail, turnVars, gone, prev, callerVars, crashes,
                 controls, clis>>

\* submit releases the guard at the end of the commit block, stream_inner only
\* at the end of the loop body.
Unlock(t) == lock' = IF t \in StreamTurns THEN lock ELSE NoTurn

\* The journal's user and assistant entries are appended and the finalization
\* is committed.
JournalAppend(t) ==
  /\ Step(t, "journal", "after")
  /\ journal' = Append(journal, [id |-> Minted(t).id, synthetic |-> FALSE])
  /\ SetHold(t, "none") /\ Unlock(t)
  /\ UNCHANGED <<file, mode, tail, turnVars, result, shakeVars, callerVars, billed,
                 ioError, damaged, boundVars>>

\* A journal append fails, before or after its line was written: the receipt
\* stands and so does the charge.
JournalFails(t) ==
  /\ failures < MaxFailures
  /\ failures' = failures + 1
  /\ Return(t, "journal", "error")
  /\ \/ journal' = journal
     \/ journal' = Append(journal, [id |-> Minted(t).id, synthetic |-> FALSE])
  /\ SetHold(t, "none") /\ lock' = NoTurn
  /\ ioError' = ioError \cup {t}
  /\ UNCHANGED <<file, mode, tail, turnVars, shakeVars, callerVars, billed,
                 damaged, crashes, controls, clis>>

\* Mutant: the loop bound is off by one.
EndRoundLate(t) ==
  /\ committed' = [committed EXCEPT ![t] = @ + 1]
  /\ lock' = IF lock = t THEN NoTurn ELSE lock
  /\ IF wants[t] /\ round[t] <= MaxRounds
       THEN /\ Step(t, "after", "admit")
            /\ round' = [round EXCEPT ![t] = @ + 1]
            /\ UNCHANGED result
       ELSE /\ Return(t, "after", IF wants[t] THEN "error" ELSE "ok")
            /\ UNCHANGED round
  /\ UNCHANGED <<durableVars, mode, tail, wants, parent, hold, shakeVars,
                 callerVars, billed, ioError, damaged, boundVars>>

\* Post-receipt hooks and memory, then the next round, the answer, or
\* ToolLoopExhausted.
EndRound(t) ==
  /\ committed' = [committed EXCEPT ![t] = @ + 1]
  /\ lock' = IF lock = t THEN NoTurn ELSE lock
  /\ IF wants[t] /\ round[t] < MaxRounds
       THEN /\ Step(t, "after", "admit")
            /\ round' = [round EXCEPT ![t] = @ + 1]
            /\ UNCHANGED result
       ELSE /\ Return(t, "after", IF wants[t] THEN "error" ELSE "ok")
            /\ UNCHANGED round
  /\ UNCHANGED <<durableVars, mode, tail, wants, parent, hold, shakeVars,
                 callerVars, billed, ioError, damaged, boundVars>>

\* The cancellation marker, chained on the tail.
Marker(t) == [id |-> <<t, 0>>, parent |-> tail, kind |-> "cancelled"]

\* record_turn_cancellation: nothing to mark when no round committed ...
CancelUnmarked(t) ==
  /\ committed[t] = 0
  /\ Return(t, "marker", "cancelled")
  /\ UNCHANGED <<durableVars, mode, tail, lock, turnVars, hold, shakeVars,
                 callerVars, billed, ioError, damaged, boundVars>>

\* Mutant: a turn with a single committed round is left unmarked.
CancelMarkedLate(t) ==
  /\ committed[t] > 0 /\ lock = NoTurn
  /\ Return(t, "marker", "cancelled")
  /\ file' = IF committed[t] > 1 THEN WriteLine(file, Marker(t), "ok") ELSE file
  /\ tail' = IF committed[t] > 1 THEN Marker(t).id ELSE tail
  /\ UNCHANGED <<journal, mode, lock, turnVars, hold, shakeVars, callerVars,
                 billed, ioError, damaged, boundVars>>

\* ... otherwise take the commit lock and append a terminal marker.
CancelMarked(t) ==
  /\ committed[t] > 0 /\ lock = NoTurn
  /\ Return(t, "marker", "cancelled")
  /\ file' = WriteLine(file, Marker(t), "ok")
  /\ tail' = Marker(t).id
  /\ UNCHANGED <<journal, mode, lock, turnVars, hold, shakeVars, callerVars,
                 billed, ioError, damaged, boundVars>>

\* A marker that cannot be written is logged and forgotten.
CancelMarkFails(t, o) ==
  /\ committed[t] > 0 /\ lock = NoTurn
  /\ Return(t, "marker", "cancelled")
  /\ FailedWrite(Marker(t), o)
  /\ ioError' = ioError \cup {t}
  /\ UNCHANGED <<journal, mode, tail, lock, turnVars, hold, shakeVars, callerVars,
                 billed, crashes, controls, clis>>

\* Where the future of a turn can be dropped: at its yields and at the awaits
\* that can be pending.
Droppable(t) ==
  CASE t \in StreamTurns -> {"admit", "provider", "tools", "lock", "finalize", "begin", "after"}
    [] t \in PlainTurns  -> {"provider", "tools", "lock"}
    [] OTHER             -> {"provider", "tools"}

\* The future is dropped (a closed stream, an outer timeout, a panic isolated by
\* the worker): ReservationCancelGuard refunds a hold, but finds nothing once
\* the reservation is finalized; the commit guard is released.
Dropped(t) ==
  /\ \E from \in Droppable(t) : Return(t, from, "dropped")
  /\ release(t)
  /\ lock' = IF lock = t THEN NoTurn ELSE lock
  /\ UNCHANGED <<durableVars, mode, tail, turnVars, shakeVars, callerVars, billed,
                 ioError, damaged, boundVars>>

-----------------------------------------------------------------------------
(* The HTTP caller: submit_chat and CallerGoneOnDrop *)

CallerStep(t, from, to) ==
  /\ mode = "up" /\ cpc[t] = from
  /\ cpc' = [cpc EXCEPT ![t] = to]

Answer(t, from, status) ==
  /\ CallerStep(t, from, "answered")
  /\ answer' = [answer EXCEPT ![t] = status]

\* The status chat_handler derives from what the worker sent back.
Status(t) ==
  CASE result[t] = "ok"        -> "200"
    [] result[t] = "cancelled" -> "504"
    [] result[t] = "dropped"   -> "503"
    [] OTHER                   -> "502"

\* The reply arrives.  In the grace window a TurnCancelled of a turn that has
\* committed something is turned into WorkerGone.
ReplyArrives(t) ==
  /\ pc[t] = "done"
  /\ \/ Answer(t, "waiting", Status(t))
     \/ Answer(t, "grace", IF result[t] = "cancelled" /\ phase[t] = "committed"
                             THEN "503" ELSE Status(t))
     \/ Answer(t, "mustwait", Status(t))
  /\ UNCHANGED <<durableVars, mode, tail, lock, pc, turnVars, hold, result,
                 shakeVars, billed, waited, ioError, damaged, boundVars>>

\* The turn timeout elapses: raise the flag ...
TimeoutFires(t) ==
  /\ pc[t] # "done"
  /\ CallerStep(t, "waiting", "cancelling")
  /\ gone' = [gone EXCEPT ![t] = TRUE]
  /\ UNCHANGED <<durableVars, mode, tail, lock, pc, turnVars, hold, result, phase,
                 prev, answer, billed, waited, ioError, damaged, boundVars>>

\* ... then request_cancel, which only wins against live.
RequestCancel(t) ==
  /\ \/ CallerStep(t, "cancelling", "grace")
     \/ CallerStep(t, "hangup", "lost")
  /\ phase' = [phase EXCEPT ![t] = IF @ = "live" THEN "cancelled" ELSE @]
  /\ UNCHANGED <<durableVars, mode, tail, lock, pc, turnVars, hold, result, gone,
                 prev, answer, billed, waited, ioError, damaged, boundVars>>

\* The grace window elapses: must_wait_for_outcome, or 504 (the drop guard then
\* requests the cancel again).
GraceElapsed(t) ==
  /\ pc[t] # "done"
  /\ IF phase[t] \in {"persisting", "committed"}
       THEN /\ CallerStep(t, "grace", "mustwait")
            /\ waited' = waited \cup {t}
            /\ UNCHANGED <<answer, phase>>
       ELSE /\ Answer(t, "grace", "504")
            /\ phase' = [phase EXCEPT ![t] = IF @ = "live" THEN "cancelled" ELSE @]
            /\ UNCHANGED waited
  /\ UNCHANGED <<durableVars, mode, tail, lock, pc, turnVars, hold, result, gone,
                 prev, billed, ioError, damaged, boundVars>>

\* The client disconnects: the future is dropped, raising the flag.
HangUp(t) ==
  /\ \E from \in {"waiting", "grace", "mustwait"} : CallerStep(t, from, "hangup")
  /\ gone' = [gone EXCEPT ![t] = TRUE]
  /\ UNCHANGED <<durableVars, mode, tail, lock, pc, turnVars, hold, result, phase,
                 prev, answer, billed, waited, ioError, damaged, boundVars>>

-----------------------------------------------------------------------------
(* Control receipts, and receipts minted by another process *)

ControlMinted == [id |-> <<Control, controls + 1>>, parent |-> tail, kind |-> "control"]

\* commit_control_receipt: same lock, tail and log, and no journal entry.
ControlReceipt ==
  /\ mode = "up" /\ lock = NoTurn /\ controls < MaxControls
  /\ controls' = controls + 1
  /\ file' = WriteLine(file, ControlMinted, "ok")
  /\ tail' = ControlMinted.id
  /\ UNCHANGED <<journal, mode, lock, pc, turnVars, hold, result, shakeVars,
                 callerVars, billed, ioError, damaged, failures, crashes, clis>>

ControlFails(o) ==
  /\ mode = "up" /\ lock = NoTurn /\ controls < MaxControls
  /\ controls' = controls + 1
  /\ FailedWrite(ControlMinted, o)
  /\ UNCHANGED <<journal, mode, tail, lock, pc, turnVars, hold, result, shakeVars,
                 callerVars, billed, ioError, crashes, clis>>

\* mint_control_receipt (the CLI's approve and deny): loads the log, repairing a
\* torn tail, and appends onto what it finds there.
mint_control_receipt ==
  LET f == Repaired(file) IN
  /\ clis < MaxCli /\ Parses(file)
  /\ CliBesideServer \/ mode = "down"
  /\ clis' = clis + 1
  /\ file' = WriteLine(f, [id |-> <<Cli, clis + 1>>, parent |-> LastId(f),
                           kind |-> "control"], "ok")
  /\ damaged' = (damaged \/ mode # "down")
  /\ UNCHANGED <<journal, mode, tail, lock, pc, turnVars, hold, result, shakeVars,
                 callerVars, billed, ioError, failures, crashes, controls>>

-----------------------------------------------------------------------------
(* Crash, restart and reconciliation *)

\* The receipts a crash may catch half written.
InFlight ==
  {Minted(t) : t \in {u \in Turns : pc[u] = "persist"}}
  \cup (IF lock # NoTurn THEN {} ELSE
          {Marker(t) : t \in {u \in Turns : pc[u] = "marker" /\ committed[u] > 0}}
          \cup (IF controls < MaxControls THEN {ControlMinted} ELSE {}))

\* Everything that was not idle is gone, budgets and handshakes included.
Forget ==
  LET kept(t) == pc[t] = "idle" IN
  /\ mode' = "down" /\ tail' = NoReceipt /\ lock' = NoTurn
  /\ pc' = [t \in Turns |-> IF kept(t) THEN "idle" ELSE "past"]
  /\ round' = [t \in Turns |-> 1]
  /\ committed' = [t \in Turns |-> 0]
  /\ wants' = [t \in Turns |-> FALSE]
  /\ parent' = [t \in Turns |-> NoReceipt]
  /\ hold' = [t \in Turns |-> "none"]
  /\ result' = [t \in Turns |-> "none"]
  /\ gone' = [t \in Turns |-> FALSE]
  /\ phase' = [t \in Turns |-> "live"]
  /\ prev' = [t \in Turns |-> FALSE]
  /\ cpc' = [t \in Turns |-> IF cpc[t] \in {"idle", "answered"} THEN cpc[t] ELSE "lost"]
  /\ billed' = [t \in Turns |-> 0]
  /\ waited' = {} /\ ioError' = {}
  /\ crashes' = crashes + 1

\* A crash between two steps ...
Crash ==
  /\ mode # "down" /\ crashes < MaxCrashes
  /\ Forget
  /\ UNCHANGED <<durableVars, answer, damaged, failures, controls, clis>>

\* ... or in the middle of a write.
CrashWriting(r, o) ==
  /\ mode = "up" /\ crashes < MaxCrashes /\ o \in Tears
  /\ Forget
  /\ file' = WriteLine(file, r, o)
  /\ controls' = IF r.id[1] = Control THEN controls + 1 ELSE controls
  /\ damaged' = (damaged \/ o \in {"signature", "newline"})
  /\ UNCHANGED <<journal, answer, failures, clis>>

\* Mutant: a restart begins a fresh genesis.
BuildGenesis ==
  /\ mode = "down"
  /\ Parses(file) /\ Verifies(Repaired(file))
  /\ mode' \in Strategies
  /\ file' = Repaired(file)
  /\ tail' = NoReceipt
  /\ UNCHANGED <<journal, lock, pc, turnVars, hold, result, shakeVars, callerVars,
                 billed, ioError, damaged, boundVars>>

\* build: load and verify the log, seed the chain tail.  A log that does not
\* parse or verify refuses the boot.
Build ==
  /\ mode = "down"
  /\ Parses(file) /\ Verifies(Repaired(file))
  /\ mode' \in Strategies
  /\ file' = Repaired(file)
  /\ tail' = LastId(Repaired(file))
  /\ UNCHANGED <<journal, lock, pc, turnVars, hold, result, shakeVars, callerVars,
                 billed, ioError, damaged, boundVars>>

Journaled == {journal[i].id : i \in 1..Len(journal)}

\* Mutant: only entries the pipeline wrote vouch for a receipt.
OrphansForgetful(f) ==
  {i \in 1..Len(f.lines) :
     LET r == f.lines[i].receipt IN
     /\ r.id[1] \in OwnSession
     /\ r.id \notin {journal[j].id : j \in {k \in 1..Len(journal) : ~journal[k].synthetic}}
     /\ r.kind # "cancelled"}

\* The receipts of the journal's session that no assistant entry names; a
\* cancellation marker never has one.
Orphans(f) ==
  {i \in 1..Len(f.lines) :
     LET r == f.lines[i].receipt IN
     /\ r.id[1] \in OwnSession
     /\ r.id \notin Journaled
     /\ r.kind # "cancelled"}

First(S) == CHOOSE i \in S : \A j \in S : i <= j

\* reconcile_receipts finds nothing, or is told to leave orphans alone.
ReconcileNothing ==
  /\ mode \in Strategies
  /\ Orphans(file) = {} \/ mode = "IgnoreOrphans"
  /\ mode' = "up"
  /\ UNCHANGED <<durableVars, tail, lock, pc, turnVars, hold, result, shakeVars,
                 callerVars, billed, ioError, damaged, boundVars>>

\* AppendSyntheticJournal heals one orphan at a time; the runtime is handed out
\* after the last.
ReconcileAppend ==
  /\ mode = "AppendSyntheticJournal"
  /\ Orphans(file) # {}
  /\ journal' = Append(journal,
       [id |-> file.lines[First(Orphans(file))].receipt.id, synthetic |-> TRUE])
  /\ mode' = IF Cardinality(Orphans(file)) = 1 THEN "up" ELSE mode
  /\ UNCHANGED <<file, tail, lock, pc, turnVars, hold, result, shakeVars, callerVars,
                 billed, ioError, damaged, boundVars>>

Prefix(f, n) == [lines |-> SubSeq(f.lines, 1, n), open |-> FALSE]

\* Mutant: truncation does not insist on a contiguous suffix.
ReconcileTruncateAll ==
  LET o == Orphans(file)
      kept == Prefix(file, First(o) - 1)
  IN /\ mode = "TruncateOrphans" /\ o # {}
     /\ file' = kept /\ tail' = LastId(kept) /\ mode' = "up"
     /\ UNCHANGED <<journal, lock, pc, turnVars, hold, result, shakeVars,
                    callerVars, billed, ioError, damaged, boundVars>>

\* TruncateOrphans rewrites the log to the prefix before the orphans when they
\* are exactly its suffix, and otherwise refuses the boot.
ReconcileTruncate ==
  LET o == Orphans(file)
      kept == Prefix(file, First(o) - 1)
  IN /\ mode = "TruncateOrphans" /\ o # {}
     /\ IF o = First(o)..Len(file.lines)
          THEN file' = kept /\ tail' = LastId(kept) /\ mode' = "up"
          ELSE mode' = "down" /\ UNCHANGED <<file, tail>>
     /\ UNCHANGED <<journal, lock, pc, turnVars, hold, result, shakeVars,
                    callerVars, billed, ioError, damaged, boundVars>>

-----------------------------------------------------------------------------
TurnStep(t) ==
  \/ StartTurn(t) \/ RefuseTurn(t) \/ Admit(t) \/ AdmitRefused(t)
  \/ (\E w \in BOOLEAN : ProviderReplies(t, w)) \/ ToolsDone(t) \/ RoundFails(t)
  \/ EnterCommit(t) \/ Finalize(t) \/ FinalizeFails(t)
  \/ BeginPersist(t) \/ BeginRefused(t) \/ Persist(t) \/ JournalAppend(t)
  \/ EndRound(t) \/ CancelUnmarked(t) \/ CancelMarked(t)

TurnFault(t) ==
  \/ JournalFails(t) \/ Dropped(t)
  \/ \E o \in Failures : PersistFails(t, o) \/ CancelMarkFails(t, o)

CallerAction(t) == ReplyArrives(t) \/ RequestCancel(t)

Reconcile == ReconcileNothing \/ ReconcileAppend \/ ReconcileTruncate

Next ==
  \/ \E t \in Turns : Submit(t) \/ SubmitQueueFull(t)
  \/ \E t \in Turns : TurnStep(t)
  \/ \E t \in Turns : TurnFault(t)
  \/ \E t \in HttpTurns :
       CallerAction(t) \/ TimeoutFires(t) \/ GraceElapsed(t) \/ HangUp(t)
  \/ ControlReceipt
  \/ \E o \in Failures : ControlFails(o)
  \/ mint_control_receipt
  \/ Crash
  \/ \E r \in InFlight, o \in Tears : CrashWriting(r, o)
  \/ Build
  \/ Reconcile

Spec == Init /\ [][Next]_vars

\* Where a turn waits for somebody else: for the provider, whose request need not
\* have a timeout, and a stream at its yields for the reader of its events, once
\* their channel is full. Tools are cut off by tool_timeout.
WaitsOutside(t) == pc[t] = "provider" \/ (t \in StreamTurns /\ pc[t] \in Droppable(t))

OwnStep(t) == ~WaitsOutside(t) /\ TurnStep(t)

\* The worker polls a turn that waits for nobody outside, and tokio fires elapsed
\* timers; no provider has to answer and no reader to read. The turns are finitely
\* many, so weak fairness is enough for the commit lock.
Fairness ==
  /\ \A t \in Turns : WF_vars(OwnStep(t))
  /\ \A t \in HttpTurns : WF_vars(CallerAction(t)) /\ WF_vars(GraceElapsed(t))
  /\ WF_vars(Build) /\ WF_vars(Reconcile)

FairSpec == Spec /\ Fairness

-----------------------------------------------------------------------------
(* Correctness *)

ReceiptsOf(t) == {r \in Receipts(file) : r.id[1] = t}
RoundReceipts(t) == {r \in ReceiptsOf(t) : r.kind \in {"tool", "final"}}
FinalReceipt(t) == \E r \in ReceiptsOf(t) : r.kind = "final"

\* The log a running process appends to verifies, and chain_tail is its last
\* receipt whenever nobody is inside the commit section: turns, cancellation
\* markers and control receipts never fork the chain, and a crash between two
\* steps, or one that cut the line being written before or in its payload, leaves a
\* log that boots. Not after `damaged`: a crash that cut a signature (the next boot
\* refuses the log) or only the newline (the next append continues the line), a
\* write that failed after bytes of it reached the file, or a CLI append beside a
\* running server.
ChainLinear ==
  ~damaged =>
    /\ mode # "down" => Verifies(file) /\ ~file.open
    /\ mode # "down" /\ lock = NoTurn => tail = LastId(file)
    /\ Parses(file) /\ Verifies(Repaired(file))

\* When a turn is over, the charges that stand are exactly its durable round
\* receipts, however it ended (a dropped stream excepted): nobody is billed for
\* a round without a receipt, nor gets a receipt for a round that was refunded.
BilledIffReceipted ==
  \A t \in Turns :
    pc[t] = "done" /\ ~damaged /\ ~(t \in StreamTurns /\ result[t] = "dropped")
      => /\ billed[t] = Cardinality(RoundReceipts(t))
         /\ hold[t] = "none"

\* A turn cancelled after a round was committed does not leave the chain looking
\* settled: its last receipt is the cancellation marker (#422), unless the
\* marker could not be written.
CancelledTurnMarked ==
  \A t \in Turns :
    pc[t] = "done" /\ result[t] = "cancelled" /\ t \notin ioError /\ ~damaged
      => \/ ReceiptsOf(t) = {}
         \/ /\ ~FinalReceipt(t)
            /\ \E i \in 1..Len(file.lines) :
                 /\ file.lines[i].receipt.id = <<t, 0>>
                 /\ \A j \in (i + 1)..Len(file.lines) : file.lines[j].receipt.id[1] # t

\* An acknowledged turn is never lost: after a 200 its final receipt and its
\* journal entry survive every crash, restart and reconciliation.
AcknowledgedDurable ==
  \A t \in HttpTurns : answer[t] = "200" /\ ~damaged =>
    FinalReceipt(t) /\ \E r \in ReceiptsOf(t) : r.kind = "final" /\ r.id \in Journaled

\* After boot the journal accounts for every receipt of its session that an
\* earlier process left, exactly once, whatever was interrupted by how many
\* crashes, the reconciliation itself included.
Reconciled ==
  mode = "up" /\ "IgnoreOrphans" \notin Strategies /\ ~damaged =>
    \A t \in OwnSession \cap Turns : pc[t] = "past" =>
      \A r \in RoundReceipts(t) :
        Cardinality({i \in 1..Len(journal) : journal[i].id = r.id}) = 1

\* Somebody waits for ever for a provider or a reader.
HeldUp == \E u \in Turns : <>[]WaitsOutside(u)

\* Every submitted turn ends (or dies with its process), unless somebody is held up
\* from outside: no turns wait for ever for each other, for the commit lock or, with
\* its own cancellation marker, for itself.
TurnEnds == (\A t \in Turns : pc[t] = "queued" ~> pc[t] \in {"done", "past"}) \/ HeldUp

\* An HTTP caller that has timed out is answered within its grace window, whatever
\* the provider, other turns and their readers do, unless its turn has begun to
\* persist (state.rs:971, "A stuck provider cannot hold the client forever"); then it
\* is answered unless somebody is held up.
CallerAnswered ==
  /\ \A t \in HttpTurns : cpc[t] = "cancelling" ~> cpc[t] \in {"answered", "lost", "mustwait"}
  /\ (\A t \in HttpTurns : cpc[t] = "mustwait" ~> cpc[t] \in {"answered", "lost", "hangup"})
     \/ HeldUp

\* Both: the pipeline keeps nobody waiting by itself.
EveryoneAnswered == TurnEnds /\ CallerAnswered

-----------------------------------------------------------------------------
(* Refinement *)

\* The ledger's view: the lines that the next load keeps are its entries, and a
\* charge counts once its round is past begin_persist and the write, from where
\* it is not rolled back any more.
LedgerLines == Repaired(file).lines
Unsettled(t) == hold[t] = "charged" /\ pc[t] \in {"begin", "persist"}

Ledger == INSTANCE TurnLedger WITH
  Streams <- StreamTurns,
  Others  <- {Control, Cli},
  entries <- [i \in DOMAIN LedgerLines |->
                [by |-> LedgerLines[i].receipt.id[1], kind |-> LedgerLines[i].receipt.kind]],
  charged <- [t \in Turns |-> IF Unsettled(t) THEN billed[t] - 1 ELSE billed[t]],
  told    <- answer

\* The pipeline implements TurnLedger: a receipt and its charge appear together
\* whatever fails between them; once a caller was told 504 nothing of the turn
\* is billed or persisted, however late the timeout races begin_persist; a 200
\* has its final receipt, and keeps it through crashes, repairs and truncation.
ImplementsLedger == Ledger!LedgerSpec

-----------------------------------------------------------------------------
(* What comments and documents say that the code does not do *)

\* stream_inner promises the non-streaming atomicity of cost settlement and
\* receipt persistence, for a dropped stream too.
DroppedStreamUncharged ==
  \A t \in StreamTurns : pc[t] = "done" /\ result[t] = "dropped" /\ ~damaged
    => billed[t] = Cardinality(RoundReceipts(t))
=============================================================================
