--------------------------- MODULE SessionHistory ---------------------------
(***************************************************************************)
(* One chat session of the CLI: the conversation the REPL holds, the       *)
(* append-only journal file behind it (crates/session-journals/src/file.rs)*)
(* and the commands that mark it (/checkpoint, /rollback, /compact), with  *)
(* failed appends, crashes and resumptions. A turn commits a receipt, then *)
(* journals the user's message and one assistant message per round.        *)
(***************************************************************************)
EXTENDS Naturals, Sequences, SequencesExt, NumberLists

CONSTANTS MaxTurns, MaxRounds, MaxMarks, MaxFaults, MaxResumes  \* bounds

ASSUME HistoryAssumption ==
  {MaxTurns, MaxRounds, MaxMarks, MaxFaults, MaxResumes} \subseteq Nat

VARIABLES
  lines,     \* the journal's terminated lines
  tail,      \* what follows the last newline: nothing, Torn, or one entry
  count,     \* FileState::count
  chain,     \* this session's receipts, in order
  live,      \* the REPL's history
  phase,     \* where the REPL is
  turn,      \* the turn in progress: its number, its rounds, is it streamed
  mark,      \* the command in progress
  orphans,   \* receipts the reconciliation has still to heal
  marks,     \* commands so far
  acked,     \* id and entry of every append that returned Ok, and was it astray
  drift,     \* why the history may differ from a replay
  slipped,   \* since the file was opened or repaired, an append failed or ran on
             \* from a line without its newline: the count is off from then on
  slips, resumes

histVars == <<lines, tail, count, chain, live, phase, turn, mark, orphans, marks,
              acked, drift, slipped, slips, resumes>>

Entry(kind, ref) == [kind |-> kind, ref |-> ref]
Bad == Entry("malformed", <<"none", 0, 0>>)     \* a line that does not parse
Torn == Entry("torn", <<"none", 0, 0>>)         \* a prefix of a line
Receipt(n, r) == <<"turn", n, r>>
Control(k) == <<"control", k, 0>>
Mark(k) == <<"mark", k, 0>>
NoTurn == [n |-> 0, r |-> 0, streamed |-> FALSE]
NoMark == [verb |-> "none", target |-> 0]
Messages == {"user", "assistant", "recovered"}
Reasons == {"compacted", "revived", "rounds", "failed", "reconciled", "unterminated"}

\* The journal's counter, its tail and the turn in progress stay in range.
HistoryTypeOK ==
  /\ count \in Nat
  /\ tail = <<>> \/ Len(tail) = 1
  /\ phase \in {"chat", "receipt", "user", "assistant", "round", "mark",
                "reconcile", "stopped", "refused"}
  /\ turn.n \in 0..MaxTurns /\ turn.r \in 0..MaxRounds
  /\ marks \in 0..MaxMarks /\ slips \in 0..MaxFaults /\ resumes \in 0..MaxResumes
  /\ drift \subseteq Reasons /\ slipped \in BOOLEAN

HistoryInit ==
  /\ lines = <<>> /\ tail = <<>> /\ count = 0 /\ chain = <<>>
  /\ live = <<>> /\ phase = "chat"
  /\ turn = NoTurn /\ mark = NoMark /\ orphans = <<>> /\ marks = 0
  /\ acked = {} /\ drift = {} /\ slipped = FALSE
  /\ slips = 0 /\ resumes = 0

-----------------------------------------------------------------------------
(* The journal file *)

\* parse_entries: a malformed line is an error, unless it is an unterminated last
\* one; an unterminated last line that parses counts as an entry.
Parses == Bad \notin Range(lines)
Entries == IF tail = <<>> \/ tail = <<Torn>> THEN lines ELSE lines \o tail

\* append: the line lands behind whatever the file ends with.
Appended(e) ==
  /\ lines' = Append(lines, IF tail = <<>> THEN e ELSE Bad)
  /\ tail' = <<>>
  /\ count' = count + 1
  /\ slipped' = (slipped \/ tail # <<>>)
  /\ acked' = acked \cup {[id |-> count, entry |-> e, astray |-> slipped']}

\* What a failed append, or a crash in one, may leave of its line.
LeftBehind(e) ==
  \/ UNCHANGED <<lines, tail>>
  \/ tail = <<>> /\ tail' \in {<<Torn>>, <<e>>} /\ UNCHANGED lines
  \/ lines' = Append(lines, IF tail = <<>> THEN e ELSE Bad) /\ tail' = <<>>
  \/ tail # <<>> /\ tail' = <<Torn>> /\ UNCHANGED lines

AppendFails(e) ==
  /\ slips < MaxFaults /\ slips' = slips + 1
  /\ LeftBehind(e)
  /\ slipped' = TRUE
  /\ UNCHANGED <<count, acked>>

\* read_all: a torn tail is cut off and the count corrected.
ReadAll ==
  IF tail = <<Torn>>
  THEN tail' = <<>> /\ count' = Len(lines) /\ slipped' = FALSE /\ UNCHANGED lines
  ELSE UNCHANGED <<lines, tail, count, slipped>>

-----------------------------------------------------------------------------
(* Replay *)

CheckpointPos(entries, k) ==
  {i \in DOMAIN entries : entries[i] = Entry("checkpoint", Mark(k))}

\* Mutant: a rollback counts only while nothing was recorded after it.
ExcludedWhileLast(entries, i) ==
  LET j == Len(entries) IN
  /\ entries[j].kind = "rollback"
  /\ \E c \in 1..(i - 1) : entries[c] = Entry("checkpoint", entries[j].ref)

\* journal_entries_to_history: every rollback excludes what lies between its
\* checkpoint and itself.
Excluded(entries, i) ==
  \E j \in i..Len(entries) :
    /\ entries[j].kind = "rollback"
    /\ \E c \in 1..(i - 1) : entries[c] = Entry("checkpoint", entries[j].ref)

journal_entries_to_history(entries) ==
  LET positions == Listed({i \in DOMAIN entries :
                             entries[i].kind \in Messages /\ ~Excluded(entries, i)})
  IN [j \in DOMAIN positions |-> entries[positions[j]]]

Replay == journal_entries_to_history(Entries)

-----------------------------------------------------------------------------
(* A turn *)

\* run_chat_message pushes the user's message, then the engine takes the turn.
TurnBegins(streamed) ==
  /\ phase = "chat" /\ turn.n < MaxTurns
  /\ turn' = [n |-> turn.n + 1, r |-> 0, streamed |-> streamed]
  /\ live' = Append(live, Entry("user", Receipt(turn.n + 1, 0)))
  /\ phase' = "receipt"
  /\ UNCHANGED <<lines, tail, count, chain, mark, marks, acked, drift, slipped,
                 slips, resumes, orphans>>

\* commit_receipt_and_journal: the receipt is persisted first.
ReceiptPersisted ==
  /\ phase = "receipt" /\ turn.r < MaxRounds
  /\ chain' = Append(chain, Receipt(turn.n, turn.r + 1))
  /\ phase' = IF turn.r = 0 THEN "user" ELSE "assistant"
  /\ UNCHANGED <<lines, tail, count, live, turn, mark, marks, acked, drift, slipped,
                 slips, resumes, orphans>>

UserJournaled ==
  /\ phase = "user"
  /\ Appended(Entry("user", Receipt(turn.n, 0)))
  /\ phase' = "assistant"
  /\ UNCHANGED <<chain, live, turn, mark, marks, drift, slips, resumes, orphans>>

AssistantJournaled ==
  /\ phase = "assistant"
  /\ Appended(Entry("assistant", Receipt(turn.n, turn.r + 1)))
  /\ turn' = [turn EXCEPT !.r = @ + 1]
  /\ phase' = "round"
  /\ UNCHANGED <<chain, live, mark, marks, drift, slips, resumes, orphans>>

\* The model called tools: another round.
NextRound ==
  /\ phase = "round" /\ turn.r < MaxRounds
  /\ phase' = "receipt"
  /\ UNCHANGED <<lines, tail, count, chain, live, turn, mark, marks, acked, drift,
                 slipped, slips, resumes, orphans>>

\* What the REPL keeps: run_chat_message, apply_streamed_outcome_to_history.
Committed == [r \in 1..turn.r |-> Entry("assistant", Receipt(turn.n, r))]
\* Mutant: the user's message stays when the turn fails.
KeptUnpopped(ok) ==
  CASE turn.streamed /\ turn.r > 0 -> live \o Committed
    [] ~turn.streamed /\ ok -> Append(live, Committed[turn.r])
    [] OTHER -> live

Kept(ok) ==
  CASE turn.streamed /\ turn.r > 0 -> live \o Committed
    [] ~turn.streamed /\ ok -> Append(live, Committed[turn.r])
    [] OTHER -> Front(live)

TurnOver(ok) ==
  /\ live' = Kept(ok)
  /\ phase' = "chat"
  /\ UNCHANGED <<chain, turn, mark, marks, resumes, orphans>>

TurnAnswers ==
  /\ phase = "round"
  /\ TurnOver(TRUE)
  /\ drift' = IF ~turn.streamed /\ turn.r > 1 THEN drift \cup {"rounds"} ELSE drift
  /\ UNCHANGED <<lines, tail, count, acked, slipped, slips>>

\* A stage before the receipt refuses or fails, in this round.
TurnRefused ==
  /\ phase = "receipt"
  /\ TurnOver(FALSE)
  /\ drift' = IF ~turn.streamed /\ turn.r > 0 THEN drift \cup {"rounds"} ELSE drift
  /\ UNCHANGED <<lines, tail, count, acked, slipped, slips>>

PendingEntry ==
  CASE phase = "user" -> Entry("user", Receipt(turn.n, 0))
    [] phase = "assistant" -> Entry("assistant", Receipt(turn.n, turn.r + 1))
    [] phase = "mark" /\ mark.verb = "rollback" -> Entry("rollback", Mark(mark.target))
    [] phase = "mark" /\ mark.verb # "rollback" -> Entry("checkpoint", Mark(mark.target))
    [] phase = "reconcile" -> Entry("recovered", Head(orphans))
Appending == phase \in {"user", "assistant", "mark"} \/ (phase = "reconcile" /\ orphans # <<>>)

\* The journal append fails after the receipt.
TurnAppendFails ==
  /\ phase \in {"user", "assistant"}
  /\ AppendFails(PendingEntry)
  /\ TurnOver(FALSE)
  /\ drift' = drift \cup {"failed"}

\* Writing a streamed answer to the terminal fails: run_streamed_message drops the
\* stream and takes the user's message back, whatever rounds are committed.
StdoutFails ==
  /\ phase \in {"receipt", "round"} /\ turn.streamed
  /\ slips < MaxFaults /\ slips' = slips + 1
  /\ live' = Front(live)
  /\ phase' = "chat"
  /\ drift' = IF turn.r > 0 THEN drift \cup {"failed"} ELSE drift
  /\ UNCHANGED <<lines, tail, count, chain, turn, mark, orphans, marks, acked, slipped, resumes>>

-----------------------------------------------------------------------------
(* Commands *)

\* The part of checkpoint and rollback_to_checkpoint up to the receipt: a replay,
\* which repairs a torn tail; rollback looks its checkpoint up, live or not.
MarkBegins(verb, k) ==
  /\ phase = "chat" /\ marks < MaxMarks
  /\ Parses
  /\ verb = "rollback" => CheckpointPos(Entries, k) # {}
  /\ verb = "checkpoint" => k = marks + 1
  /\ ReadAll
  /\ marks' = marks + 1
  /\ chain' = Append(chain, Control(marks + 1))
  /\ mark' = [verb |-> verb, target |-> k]
  /\ phase' = "mark"
  /\ UNCHANGED <<live, turn, acked, drift, slips, resumes, orphans>>

\* compact asks the provider, and does not replay.
CompactBegins ==
  /\ phase = "chat" /\ marks < MaxMarks
  /\ marks' = marks + 1
  /\ chain' = Append(chain, Control(marks + 1))
  /\ mark' = [verb |-> "compact", target |-> marks + 1]
  /\ phase' = "mark"
  /\ UNCHANGED <<lines, tail, count, live, turn, acked, drift, slipped, slips, resumes, orphans>>

\* The history a command installs. A rollback rebuilds it from the entries up to
\* the checkpoint; a compaction replaces it by the summary.
Retained(k) ==
  LET c == CHOOSE i \in CheckpointPos(Entries, k) :
             \A j \in CheckpointPos(Entries, k) : i <= j
  IN SubSeq(Entries, 1, c)
Installed ==
  CASE mark.verb = "checkpoint" -> live
    [] mark.verb = "rollback" -> journal_entries_to_history(Retained(mark.target))
    [] mark.verb = "compact" -> <<Entry("system", Mark(mark.target))>>

\* Was the checkpoint itself rolled back by a later rollback?
Excised(k) == \E c \in CheckpointPos(Entries, k) : Excluded(Entries, c)

MarkDrift ==
  CASE mark.verb = "compact" -> drift \cup {"compacted"}
    [] mark.verb = "rollback" ->
         (drift \ {"compacted", "rounds"}) \cup
           (IF Excised(mark.target) THEN {"revived"} ELSE {})
    [] OTHER -> drift

MarkJournaled ==
  /\ phase = "mark"
  /\ Appended(PendingEntry)
  /\ live' = Installed
  /\ drift' = MarkDrift
  /\ mark' = NoMark
  /\ phase' = "chat"
  /\ UNCHANGED <<chain, turn, marks, slips, resumes, orphans>>

MarkAppendFails ==
  /\ phase = "mark"
  /\ AppendFails(PendingEntry)
  /\ drift' = drift \cup {"failed"}
  /\ mark' = NoMark
  /\ phase' = "chat"
  /\ UNCHANGED <<chain, live, turn, marks, resumes, orphans>>

-----------------------------------------------------------------------------
(* Stopping and resuming *)

Quits ==
  /\ phase = "chat"
  /\ phase' = "stopped" /\ live' = <<>>
  /\ UNCHANGED <<lines, tail, count, chain, turn, mark, marks, acked, drift,
                 slipped, slips, resumes, orphans>>

\* The process dies; in an append, with a part of the line in the file.
Crashes ==
  /\ phase \notin {"stopped", "refused"}
  /\ slips < MaxFaults /\ slips' = slips + 1
  /\ phase' = "stopped" /\ live' = <<>> /\ mark' = NoMark
  /\ IF Appending THEN LeftBehind(PendingEntry)
     ELSE UNCHANGED <<lines, tail>>
  /\ UNCHANGED <<count, chain, turn, marks, acked, drift, slipped, resumes, orphans>>

\* A message in the journal stands for the receipt.
Vouched(c) == \E e \in Range(Entries) : e.kind \in {"assistant", "recovered"} /\ e.ref = c

\* The receipts no assistant message vouches for, in chain order.
OrphanReceipts ==
  LET order == Listed({i \in DOMAIN chain : ~Vouched(chain[i])})
  IN [n \in DOMAIN order |-> chain[order[n]]]

\* `ardur chat --session-id`: load_history_from_journal refuses any line that does
\* not parse; only then does FileSessionJournal::new open the file, and
\* reconcile_receipts look for orphans.
Resumes ==
  /\ phase = "stopped" /\ resumes < MaxResumes
  /\ resumes' = resumes + 1
  /\ IF Parses /\ tail # <<Torn>>
     THEN /\ live' = Replay
          /\ count' = Len(Entries)
          /\ drift' = IF tail = <<>> THEN {} ELSE {"unterminated"}
          /\ slipped' = FALSE
          /\ orphans' = OrphanReceipts
          /\ phase' = "reconcile"
     ELSE /\ phase' = "refused"
          /\ UNCHANGED <<live, count, drift, slipped, orphans>>
  /\ UNCHANGED <<lines, tail, chain, turn, mark, marks, acked, slips>>

\* The journal is healed with one message per orphan; a marker's receipt is one too.
Reconciles ==
  /\ phase = "reconcile" /\ orphans # <<>>
  /\ Appended(PendingEntry)
  /\ orphans' = Tail(orphans)
  /\ drift' = drift \cup {"reconciled"}
  /\ UNCHANGED <<chain, live, phase, turn, mark, marks, slips, resumes>>

\* build_reconciled fails, and `ardur chat` with it.
ReconcileFails ==
  /\ phase = "reconcile" /\ orphans # <<>>
  /\ AppendFails(PendingEntry)
  /\ phase' = "stopped" /\ live' = <<>>
  /\ UNCHANGED <<chain, turn, mark, orphans, marks, drift, resumes>>

Resumed ==
  /\ phase = "reconcile" /\ orphans = <<>>
  /\ phase' = "chat"
  /\ UNCHANGED <<lines, tail, count, chain, live, turn, mark, orphans, marks, acked, drift,
                 slipped, slips, resumes>>

HistoryNext ==
  \/ \E streamed \in BOOLEAN : TurnBegins(streamed)
  \/ ReceiptPersisted \/ UserJournaled \/ AssistantJournaled \/ NextRound
  \/ TurnAnswers \/ TurnRefused \/ TurnAppendFails \/ StdoutFails
  \/ \E verb \in {"checkpoint", "rollback"} : \E k \in 1..MaxMarks : MarkBegins(verb, k)
  \/ CompactBegins \/ MarkJournaled \/ MarkAppendFails
  \/ Quits \/ Crashes \/ Resumes \/ Reconciles \/ ReconcileFails \/ Resumed

HistorySpec == HistoryInit /\ [][HistoryNext]_histVars

-----------------------------------------------------------------------------
(* Properties *)

\* "live tool-loop history matches a later journal replay" (cli/src/lib.rs:1220):
\* the conversation the user sees is what resuming would show, whatever turns,
\* checkpoints, rollbacks and crashes went before, unless one of the named causes
\* has driven them apart.
HistoryMatchesReplay ==
  phase = "chat" /\ drift = {} => Parses /\ live = Replay

\* The same without the exceptions, for rollbacks alone: several rollbacks compose
\* (cli/src/lib.rs:370), so a rollback leaves the session as resuming it would.
RollbackMatchesReplay ==
  phase = "chat" /\ drift \subseteq {"revived"} => live = Replay

\* A returned EntryId names an entry that is in the file, at that line, from then
\* on (file.rs:29, :301), through crashes, repairs and resumptions. Only an id given
\* astray does not: the append ran on from a line that a crash had left without its
\* newline, or followed one that did, or one that failed, before the file was opened
\* again or repaired.
AckedAtItsLine ==
  \A a \in acked : a.astray \/ (a.id + 1 \in DOMAIN lines /\ lines[a.id + 1] = a.entry)

\* A message that a rollback took out of the conversation never comes back in a
\* replay, whatever is rolled back or recorded later (cli/src/lib.rs:370), once the
\* rollback's line is terminated: one that a crash left without its newline is
\* lost, with what it excluded, when the next append is torn too.
ExcisedStaysOut ==
  [][Entries' # Entries /\ Parses /\ Parses' =>
       LET out == {e \in Range(lines) : e.kind \in Messages}
                    \ Range(journal_entries_to_history(lines))
       IN \A e \in out : e \notin Range(Replay')]_histVars

\* Reconciliation heals an orphan once, however often it is interrupted and run
\* again (runtime.rs:1734).
HealedOnce ==
  \A i, j \in DOMAIN lines :
    /\ i # j /\ lines[i].kind \in {"assistant", "recovered"}
    /\ lines[j].kind \in {"assistant", "recovered"}
    => lines[i].ref # lines[j].ref

\* The conversation and the journal agree but for the named drifts, what was
\* acknowledged stays at its line unless it was given astray, and nothing is healed
\* twice.
SessionSound == HistoryMatchesReplay /\ AckedAtItsLine /\ HealedOnce
=============================================================================
