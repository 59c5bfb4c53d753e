-------------------------- MODULE TurnCommitProofs --------------------------
(***************************************************************************)
(* The commit section of a turn, for any number of turns, rounds, failed   *)
(* writes, crashes, restarts and receipts minted by other processes.       *)
(*                                                                         *)
(* None of the properties is inductive. That the chain is linear after a   *)
(* write needs the parent to be the tail the file ends with, which needs   *)
(* the lock (LockInv) and a log nobody else has written to (LogInv). That  *)
(* a bill is the number of a turn's receipts needs to be said of turns     *)
(* that are still running, round by round (CountInv, TurnInv). What an     *)
(* answer or a cancellation says of the log needs the handshake between    *)
(* worker and caller (ShakeInv, AnswerInv), and what a restart finds needs *)
(* what the journal may name already (JournalInv). IInv is all of it. The  *)
(* first half of this module proves the part the chain needs and that      *)
(* turns stay in step with their lines; the second what the people around  *)
(* a turn may rely on (the bill, the answer, the cancellation marker, the  *)
(* journal after a restart) and the refinement of TurnLedger. What is said *)
(* of the log is said until `damaged`: a failed write, a crash in the      *)
(* middle of one or a second process has left bytes there that this        *)
(* runtime does not know of.                                               *)
(***************************************************************************)
EXTENDS TurnCommit, FiniteSetTheorems, SequenceTheorems, TLAPS

-----------------------------------------------------------------------------
(* The inductive invariant *)

\* The commit lock, the tail read under it, and a runtime that is not up.
Committing(t) == pc[t] \in {"finalize", "begin", "persist", "journal"}
LockInv ==
  /\ mode # "up" => lock = NoTurn /\ \A t \in Turns : pc[t] \in {"idle", "past"}
  /\ \A t \in Turns : Committing(t) => lock = t
  /\ \A t \in Turns : pc[t] \in {"finalize", "begin", "persist"} => parent[t] = tail

\* What a turn has counted, wherever it is: rounds committed, rounds charged and
\* what it holds at the gate.
Charged(t) == IF pc[t] \in {"begin", "persist", "journal", "after"} THEN 1 ELSE 0
Holding(t) == IF pc[t] \in {"provider", "tools", "lock", "finalize"} THEN "held"
              ELSE IF pc[t] \in {"begin", "persist", "journal"} THEN "charged" ELSE "none"
CountInv ==
  \A t \in Turns :
    /\ pc[t] \in {"idle", "queued"} => round[t] = 1
    /\ pc[t] \notin {"done", "past"} =>
         committed[t] = round[t] - 1 /\ billed[t] = committed[t] + Charged(t)
    /\ hold[t] = Holding(t)
    /\ pc[t] = "past" => billed[t] = 0

\* The log: closed and linear, but for one torn line after a crash.
Sound(f) == Verifies(f) /\ ~f.open
LogInv ==
  ~damaged =>
    /\ Sound(file) \/ (mode = "down" /\ file.lines # <<>> /\ TornTail(file) /\ Sound(Repaired(file)))
    /\ mode # "down" => tail = LastId(file)

\* The lines of a turn.
By(i) == LedgerLines[i].receipt.id[1]
Kind(i) == LedgerLines[i].receipt.kind
Lines(t) == {i \in 1..Len(LedgerLines) : By(i) = t}
RoundLines(t) == {i \in Lines(t) : Kind(i) \in {"tool", "final"}}
RoundRecs(t) == {LedgerLines[i].receipt : i \in RoundLines(t)}

\* The rounds of a running turn that the log holds.
Due(t) == IF pc[t] \in {"journal", "after"} THEN round[t] ELSE round[t] - 1

\* A running turn has one line for each round it owes, all of them "tool" but
\* the one it is working on.
RunningOK(t) ==
  pc[t] \notin {"done", "past"} =>
    /\ \A i \in Lines(t) :
         LET r == LedgerLines[i].receipt IN
         /\ r.id[2] \in 1..Due(t)
         /\ r.kind = IF r.id[2] = round[t] THEN Minted(t).kind ELSE "tool"
    /\ Cardinality(RoundLines(t)) = Due(t)
    /\ Cardinality(RoundRecs(t)) = Due(t)
    /\ pc[t] \in {"journal", "after"} =>
         \E i \in Lines(t) : LedgerLines[i].receipt.id = <<t, round[t]>>

Acknowledgeable(t) ==
  /\ \E i \in Lines(t) : Kind(i) = "final"
  /\ \A i \in Lines(t) : Kind(i) = "final" => LedgerLines[i].receipt.id \in Journaled

\* A turn that is over: its bill, its answer, its cancellation.
DoneOK(t) ==
  pc[t] = "done" =>
    /\ \/ t \in StreamTurns /\ result[t] = "dropped"
       \/ billed[t] = Cardinality(RoundLines(t)) /\ billed[t] = Cardinality(RoundRecs(t))
    /\ result[t] = "ok" => Acknowledgeable(t)
    /\ result[t] = "cancelled" =>
         /\ \A i \in Lines(t) : Kind(i) # "final"
         /\ \/ t \in ioError
            \/ Lines(t) = {}
            \/ \E i \in Lines(t) : /\ LedgerLines[i].receipt.id = <<t, 0>>
                                   /\ \A j \in Lines(t) : j <= i

TurnInv == ~damaged => \A t \in Turns : RunningOK(t) /\ DoneOK(t)

\* The handshake knows whether the turn has a line.
Uncommitted(t) == phase[t] \in {"live", "cancelled"} \/ (phase[t] = "persisting" /\ ~prev[t])
ShakeInv ==
  \A t \in HttpTurns :
    /\ pc[t] = "persist" <=> phase[t] = "persisting"
    /\ pc[t] \in {"journal", "after"} => phase[t] = "committed"
    /\ ~damaged /\ pc[t] # "past" /\ Uncommitted(t) => Lines(t) = {}

\* The caller.
AnswerInv ==
  /\ \A t \in Turns \ HttpTurns : answer[t] = "none"
  /\ \A t \in HttpTurns :
       /\ pc[t] = "idle" => cpc[t] = "idle"
       /\ pc[t] = "past" => cpc[t] \in {"answered", "lost", "idle"}
       /\ answer[t] # "none" => cpc[t] = "answered"
       /\ answer[t] # "none" => \/ pc[t] \in {"done", "past"}
                                \/ answer[t] = "504" /\ phase[t] = "cancelled"
       /\ answer[t] = "200" /\ ~damaged => Acknowledgeable(t)

\* The journal names a receipt once, and never one that is still to come.
JournalInv ==
  /\ \A t \in Turns : pc[t] = "after" => <<t, round[t]>> \in Journaled
  /\ ~damaged =>
    /\ \A i, j \in 1..Len(journal) : journal[i].id = journal[j].id => i = j
    /\ \A t \in Turns : pc[t] \notin {"done", "past"} =>
         \A i \in 1..Len(journal) : journal[i].id[1] = t =>
           journal[i].id[2] < round[t] \/ (pc[t] = "after" /\ journal[i].id[2] = round[t])

\* What reconciliation leaves behind.
ReconcileInv ==
  mode = "up" /\ "IgnoreOrphans" \notin Strategies /\ ~damaged =>
    \A t \in OwnSession \cap Turns : pc[t] = "past" =>
      \A i \in Lines(t) : Kind(i) # "cancelled" => LedgerLines[i].receipt.id \in Journaled

IInv == /\ TypeOK /\ LockInv /\ CountInv /\ LogInv /\ TurnInv /\ ShakeInv /\ AnswerInv
        /\ JournalInv /\ ReconcileInv

-----------------------------------------------------------------------------
(* What the operators of the receipt log do *)

Line == [quality : {"good", "odd", "junk"}, receipt : Receipt]
LogFile == [lines : Seq(Line), open : BOOLEAN]
Good(r) == [quality |-> "good", receipt |-> r]

\* A set of naturals has a least element, and First finds it: what reconcile
\* calls the first orphan exists whenever there is an orphan.
LEMMA FirstIsLeast ==
  ASSUME NEW S \in SUBSET Nat, S # {}
  PROVE  First(S) \in S /\ \A j \in S : First(S) <= j
<1> DEFINE R == {p \in Nat \X Nat : p[1] < p[2]}
<1>1. IsWellFoundedOn(R, Nat)
  BY NatLessThanWellFounded DEF OpToRel
<1> HIDE DEF R
<1>2. PICK x \in S : \A y \in S : ~(<<y, x>> \in R)
  BY <1>1, WFMin
<1>3. \A y \in S : x <= y
  <2> TAKE y \in S
  <2>1. y < x => <<y, x>> \in R
    BY DEF R
  <2> QED BY <1>2, <2>1
<1> QED BY <1>3 DEF First

\* Whatever a write's outcome, the file stays a log file.
LEMMA WriteType ==
  ASSUME NEW f \in LogFile, NEW r \in Receipt, NEW o
  PROVE  WriteLine(f, r, o) \in LogFile
<1>1. Quality(f, o) \in {"good", "odd", "junk"}
  BY DEF Quality
<1> DEFINE line(x) == [quality |-> Quality(f, o), receipt |-> x]
           n == Len(f.lines)
<1>2. f.lines \in Seq(Line) /\ n \in Nat
  BY DEF LogFile
<1>3. \A x \in Receipt : line(x) \in Line
  BY <1>1 DEF Line
<1>4. Append(f.lines, line(r)) \in Seq(Line)
  BY <1>2, <1>3
<1>5. [f.lines EXCEPT ![n] = line(@.receipt)] \in Seq(Line)
  <2>1. CASE n \in 1..n
    <3>1. f.lines[n] \in Line
      BY <1>2, <2>1, ElementOfSeq
    <3>2. f.lines[n].receipt \in Receipt
      BY <3>1 DEF Line
    <3> QED BY <1>2, <1>3, <3>2, <2>1, ExceptSeq
  <2>2. CASE n = 0
    <3>1. f.lines \in [1..0 -> Line]
      BY <1>2, <2>2
    <3>2. \A e : [f.lines EXCEPT ![n] = e] \in [1..0 -> Line]
      <4>1. \A i : i \notin 1..0
        OBVIOUS
      <4> HIDE DEF n
      <4> QED BY <3>1, <4>1
    <3>3. [f.lines EXCEPT ![n] = line(@.receipt)] \in [1..0 -> Line]
      BY <3>2, Zenon
    <3> QED BY <3>3, SeqDef
  <2> QED BY <1>2, <2>1, <2>2
<1> QED BY <1>4, <1>5 DEF WriteLine, LogFile

\* The repair of a log file is a log file.
LEMMA RepairType ==
  ASSUME NEW f \in LogFile
  PROVE  Repaired(f) \in LogFile
<1>1. f.lines \in Seq(Line) /\ Len(f.lines) \in Nat
  BY DEF LogFile
<1>2. SubSeq(f.lines, 1, Len(f.lines) - 1) \in Seq(Line)
  BY <1>1
<1> QED BY <1>2 DEF Repaired, LogFile

\* A sound log needs no repair, and any prefix of it is sound.
LEMMA SoundRepair ==
  ASSUME NEW f, Sound(f)
  PROVE  Repaired(f) = f
BY DEF Sound, Repaired, TornTail

\* A prefix of a sound log is a sound log.
LEMMA SoundPrefix ==
  ASSUME NEW f \in LogFile, Sound(f), NEW n \in 0..Len(f.lines)
  PROVE  Prefix(f, n) \in LogFile /\ Sound(Prefix(f, n)) /\ Len(Prefix(f, n).lines) = n
<1> DEFINE g == SubSeq(f.lines, 1, n)
<1>1. f.lines \in Seq(Line) /\ Len(f.lines) \in Nat
  BY DEF LogFile
<1>2. g \in Seq(Line) /\ Len(g) = n /\ \A i \in 1..n : g[i] = f.lines[i]
  BY <1>1, SubSeqProperties
<1> QED BY <1>1, <1>2 DEF Prefix, LogFile, Sound, Verifies

\* A write that reaches the disk adds one good line to a sound log ...
LEMMA WriteGood ==
  ASSUME NEW f, Sound(f), NEW r, NEW o \in {"ok", "sync"}
  PROVE  WriteLine(f, r, o) = [lines |-> Append(f.lines, Good(r)), open |-> FALSE]
BY DEF WriteLine, Quality, Good, Sound

\* ... and keeps it sound when the receipt names the last one as its parent.
LEMMA WriteSound ==
  ASSUME NEW f \in LogFile, Sound(f), NEW r \in Receipt, NEW o \in {"ok", "sync"},
         r.parent = LastId(f)
  PROVE  Sound(WriteLine(f, r, o)) /\ LastId(WriteLine(f, r, o)) = r.id
<1> DEFINE n == Len(f.lines)
           g == Append(f.lines, Good(r))
<1>1. f.lines \in Seq(Line) /\ n \in Nat
  BY DEF LogFile
<1>2. Good(r) \in Line
  BY DEF Good, Line
<1>3. /\ g \in Seq(Line) /\ Len(g) = n + 1 /\ g[n + 1] = Good(r)
      /\ \A i \in 1..n : g[i] = f.lines[i]
  BY <1>1, <1>2
<1>4. f.lines = <<>> <=> n = 0
  BY <1>1
<1>5. WriteLine(f, r, o) = [lines |-> g, open |-> FALSE]
  BY WriteGood
<1>6. r.parent = IF n + 1 = 1 THEN NoReceipt ELSE g[n].receipt.id
  BY <1>1, <1>3, <1>4 DEF LastId
<1> HIDE DEF g
<1>7. ASSUME NEW i \in 1..(n + 1)
      PROVE  /\ g[i].quality = "good"
             /\ g[i].receipt.parent = IF i = 1 THEN NoReceipt ELSE g[i - 1].receipt.id
  <2>1. CASE i = n + 1
    BY <2>1, <1>1, <1>3, <1>6 DEF Good
  <2>2. CASE i \in 1..n
    BY <2>2, <1>1, <1>3 DEF Sound, Verifies
  <2> QED BY <1>1, <2>1, <2>2
<1>8. Sound(WriteLine(f, r, o))
  BY <1>1, <1>3, <1>5, <1>7 DEF Sound, Verifies
<1>9. LastId(WriteLine(f, r, o)) = r.id
  <2>1. g # <<>>
    BY <1>1, <1>3
  <2> QED BY <1>1, <1>3, <1>5, <2>1 DEF LastId, Good
<1> QED BY <1>8, <1>9

\* A payload cut by a crash leaves one torn line, and the repair removes it.
LEMMA WriteTorn ==
  ASSUME NEW f \in LogFile, Sound(f), NEW r \in Receipt
  PROVE  LET g == WriteLine(f, r, "payload")
         IN  g.lines # <<>> /\ TornTail(g) /\ Repaired(g) = f
<1> DEFINE n == Len(f.lines)
           x == [quality |-> "junk", receipt |-> r]
           s == Append(f.lines, x)
<1>1. f.lines \in Seq(Line) /\ n \in Nat /\ x \in Line
  BY DEF LogFile, Line
<1>2. s \in Seq(Line) /\ Len(s) = n + 1 /\ s[n + 1] = x /\ s # <<>>
  BY <1>1
<1>3. SubSeq(s, 1, n) = f.lines
  BY <1>1
<1>4. WriteLine(f, r, "payload") = [lines |-> s, open |-> TRUE]
  BY DEF WriteLine, Quality, Sound
<1> DEFINE g == WriteLine(f, r, "payload")
<1>5. g = [lines |-> s, open |-> TRUE]
  BY <1>4
<1> HIDE DEF s, g
<1>6. g.lines = s /\ g.open = TRUE /\ Len(s) - 1 = n
  BY <1>1, <1>2, <1>5
<1>7. TornTail(g)
  BY <1>1, <1>2, <1>6 DEF TornTail
<1>8. Repaired(g) = [lines |-> f.lines, open |-> FALSE]
  BY <1>3, <1>6, <1>7 DEF Repaired
<1>9. f = [lines |-> f.lines, open |-> FALSE]
  BY DEF LogFile, Sound
<1>10. g.lines # <<>> /\ TornTail(g) /\ Repaired(g) = f
  BY <1>2, <1>6, <1>7, <1>8, <1>9
<1> QED BY <1>10 DEF g

-----------------------------------------------------------------------------
(* Types, the commit lock and the counts *)

\* The types of the log and of the receipts that are written to it.
LEMMA FileType == TypeOK => file \in LogFile
BY DEF TypeOK, LogFile, Line

\* What turns, the control plane and the CLI write are receipts, and so is what a
\* crash may cut short.
LEMMA ReceiptTypes ==
  ASSUME TypeOK
  PROVE  /\ \A t \in Turns : Minted(t) \in Receipt /\ Marker(t) \in Receipt
         /\ ControlMinted \in Receipt
         /\ \A f \in LogFile : LastId(f) \in Ids \cup {NoReceipt}
         /\ InFlight \subseteq Receipt
<1>1. \A t \in Turns : Minted(t) \in Receipt /\ Marker(t) \in Receipt
  BY DEF TypeOK, Minted, Marker, Receipt, Ids
<1>2. ControlMinted \in Receipt
  BY DEF TypeOK, ControlMinted, Receipt, Ids
<1>3. ASSUME NEW f \in LogFile PROVE LastId(f) \in Ids \cup {NoReceipt}
  <2>1. f.lines \in Seq(Line)
    BY DEF LogFile
  <2>2. CASE f.lines = <<>>
    BY <2>2 DEF LastId
  <2>3. CASE f.lines # <<>>
    <3>1. f.lines[Len(f.lines)] \in Line
      BY <2>1, <2>3
    <3> QED BY <3>1, <2>3 DEF LastId, Line, Receipt
  <2> QED BY <2>2, <2>3
<1>4. InFlight \subseteq Receipt
  BY <1>1, <1>2 DEF InFlight
<1> QED BY <1>1, <1>2, <1>3, <1>4

\* Everything but the log and the journal.
ControlOK ==
  /\ mode \in {"up", "down"} \cup Strategies
  /\ tail \in Ids \cup {NoReceipt}
  /\ lock \in Turns \cup {NoTurn}
  /\ pc \in [Turns -> Pc] /\ result \in [Turns -> Result]
  /\ round \in [Turns -> 1..MaxRounds] /\ committed \in [Turns -> 0..MaxRounds]
  /\ wants \in [Turns -> BOOLEAN]
  /\ parent \in [Turns -> Ids \cup {NoReceipt}]
  /\ hold \in [Turns -> {"none", "held", "charged"}]
  /\ gone \in [Turns -> BOOLEAN] /\ prev \in [Turns -> BOOLEAN]
  /\ phase \in [Turns -> {"live", "cancelled", "persisting", "committed"}]
  /\ cpc \in [Turns -> CallerPc]
  /\ answer \in [Turns -> {"none", "200", "502", "503", "504"}]
  /\ billed \in [Turns -> 0..MaxRounds]
  /\ waited \subseteq Turns /\ ioError \subseteq Turns /\ damaged \in BOOLEAN
  /\ failures \in 0..MaxFailures /\ crashes \in 0..MaxCrashes
  /\ controls \in 0..MaxControls /\ clis \in 0..MaxCli
JournalOK == journal \in Seq([id : Ids, synthetic : BOOLEAN])

\* The types of the files and of the rest, apart.
LEMMA TypeSplit == TypeOK <=> file \in LogFile /\ JournalOK /\ ControlOK
BY DEF TypeOK, LogFile, Line, ControlOK, JournalOK

\* The types of the process, the turns and their callers.
LEMMA NextControl ==
  ASSUME TypeOK, LockInv, CountInv, [Next]_vars
  PROVE  ControlOK'
<1>0. ControlOK
  BY TypeSplit
<1> USE <1>0, TurnAssumption DEF ControlOK, Pc, Result, CallerPc, durableVars, turnVars, shakeVars,
        callerVars, boundVars, Step, Return, SetHold, release, Bill
<1>1. ASSUME NEW t \in Turns, Submit(t) \/ SubmitQueueFull(t) PROVE ControlOK'
  BY <1>1 DEF Submit, SubmitQueueFull
<1>2. ASSUME NEW t \in Turns, StartTurn(t) \/ RefuseTurn(t) \/ Admit(t) \/ AdmitRefused(t)
      PROVE ControlOK'
  BY <1>2 DEF StartTurn, RefuseTurn, Admit, AdmitRefused
<1>3. ASSUME NEW t \in Turns, NEW w \in BOOLEAN, ProviderReplies(t, w) PROVE ControlOK'
  BY <1>3 DEF ProviderReplies
<1>4. ASSUME NEW t \in Turns, ToolsDone(t) \/ RoundFails(t) PROVE ControlOK'
  BY <1>4 DEF ToolsDone, RoundFails
<1>5. ASSUME NEW t \in Turns, EnterCommit(t) PROVE ControlOK'
  BY <1>5 DEF EnterCommit
<1>6. ASSUME NEW t \in Turns, Finalize(t) PROVE ControlOK'
  <2>1. billed[t] + 1 \in 0..MaxRounds
    BY <1>6 DEF Finalize, CountInv, Charged
  <2> QED BY <1>6, <2>1 DEF Finalize
<1>7. ASSUME NEW t \in Turns, FinalizeFails(t) \/ BeginPersist(t) PROVE ControlOK'
  <2>1. CASE FinalizeFails(t)
    BY <2>1 DEF FinalizeFails
  <2>2. CASE BeginPersist(t)
    <3>1. (phase[t] = "committed") \in BOOLEAN
      OBVIOUS
    <3>2. prev' \in [Turns -> BOOLEAN]
      BY <2>2, <3>1 DEF BeginPersist
    <3> QED BY <2>2, <3>2 DEF BeginPersist
  <2> QED BY <1>7, <2>1, <2>2
<1>8. ASSUME NEW t \in Turns, BeginRefused(t) PROVE ControlOK'
  <2>1. billed[t] + -1 \in 0..MaxRounds
    BY <1>8 DEF BeginRefused, CountInv, Charged
  <2> QED BY <1>8, <2>1 DEF BeginRefused
<1>9. ASSUME NEW t \in Turns, Persist(t) \/ JournalAppend(t) \/ JournalFails(t) PROVE ControlOK'
  <2>1. Minted(t).id \in Ids
    BY DEF Minted, Ids
  <2>2. CASE Persist(t)
    BY <2>1, <2>2 DEF Persist
  <2>3. CASE JournalAppend(t)
    BY <2>3 DEF JournalAppend, Unlock
  <2>4. CASE JournalFails(t)
    BY <2>4 DEF JournalFails
  <2> QED BY <1>9, <2>2, <2>3, <2>4
<1>10. ASSUME NEW t \in Turns, NEW o \in Failures, PersistFails(t, o) PROVE ControlOK'
  <2>1. billed[t] + -1 \in 0..MaxRounds
    BY <1>10 DEF PersistFails, CountInv, Charged
  <2> QED BY <1>10, <2>1 DEF PersistFails, FailedWrite
<1>11. ASSUME NEW t \in Turns, EndRound(t) PROVE ControlOK'
  <2>1. committed[t] + 1 \in 0..MaxRounds
    BY <1>11 DEF EndRound, CountInv
  <2> QED BY <1>11, <2>1 DEF EndRound
<1>12. ASSUME NEW t \in Turns, CancelUnmarked(t) \/ CancelMarked(t) PROVE ControlOK'
  <2>1. Marker(t).id \in Ids
    BY DEF Marker, Ids
  <2> QED BY <1>12, <2>1 DEF CancelUnmarked, CancelMarked
<1>13. ASSUME NEW t \in Turns, NEW o \in Failures, CancelMarkFails(t, o) PROVE ControlOK'
  BY <1>13 DEF CancelMarkFails, FailedWrite
<1>14. ASSUME NEW t \in Turns, Dropped(t) PROVE ControlOK'
  BY <1>14 DEF Dropped
<1>15. ASSUME NEW t \in HttpTurns, ReplyArrives(t) PROVE ControlOK'
  <2>1. t \in Turns
    BY DEF Turns
  <2>2. Status(t) \in {"200", "502", "503", "504"}
    BY Zenon DEF Status
  <2> QED BY <1>15, <2>1, <2>2 DEF ReplyArrives, Answer, CallerStep
<1>16. ASSUME NEW t \in HttpTurns, RequestCancel(t) \/ TimeoutFires(t) \/ GraceElapsed(t) \/ HangUp(t)
       PROVE ControlOK'
  <2>1. t \in Turns
    BY DEF Turns
  <2>2. CASE RequestCancel(t)
    BY <2>1, <2>2 DEF RequestCancel, CallerStep
  <2>3. CASE TimeoutFires(t)
    BY <2>1, <2>3 DEF TimeoutFires, CallerStep
  <2>4. CASE GraceElapsed(t)
    BY <2>1, <2>4 DEF GraceElapsed, Answer, CallerStep
  <2>5. CASE HangUp(t)
    BY <2>1, <2>5 DEF HangUp, CallerStep
  <2> QED BY <1>16, <2>2, <2>3, <2>4, <2>5
<1>17. ASSUME ControlReceipt \/ mint_control_receipt \/ (\E o \in Failures : ControlFails(o))
       PROVE ControlOK'
  <2>1. ControlMinted.id \in Ids
    BY DEF ControlMinted, Ids
  <2>2. CASE ControlReceipt
    BY <2>1, <2>2 DEF ControlReceipt
  <2>3. CASE mint_control_receipt
    BY <2>3 DEF mint_control_receipt
  <2>4. ASSUME NEW o \in Failures, ControlFails(o) PROVE ControlOK'
    BY <2>4 DEF ControlFails, FailedWrite
  <2> QED BY <1>17, <2>2, <2>3, <2>4
<1>18. ASSUME Crash \/ \E r \in InFlight, o \in Tears : CrashWriting(r, o) PROVE ControlOK'
  <2>1. Forget /\ crashes < MaxCrashes /\ UNCHANGED <<answer, failures, clis>> /\ damaged' \in BOOLEAN
    BY <1>18 DEF Crash, CrashWriting
  <2>2. controls' \in 0..MaxControls
    <3>1. CASE Crash
      BY <3>1 DEF Crash
    <3>2. ASSUME NEW r \in InFlight, NEW o \in Tears, CrashWriting(r, o) PROVE controls' \in 0..MaxControls
      <4>1. r.id[1] = Control => controls < MaxControls
        <5>1. \A t \in Turns : Minted(t).id[1] = t /\ Marker(t).id[1] = t
          BY DEF Minted, Marker
        <5> QED BY <3>2, <5>1 DEF InFlight
      <4> QED BY <3>2, <4>1 DEF CrashWriting
    <3> QED BY <1>18, <3>1, <3>2
  <2> QED BY <2>1, <2>2 DEF Forget
<1>19. ASSUME Build \/ ReconcileNothing \/ ReconcileAppend PROVE ControlOK'
  <2>1. LastId(Repaired(file)) \in Ids \cup {NoReceipt}
    BY FileType, RepairType, ReceiptTypes
  <2> QED BY <1>19, <2>1 DEF Build, ReconcileNothing, ReconcileAppend
<1>20. CASE ReconcileTruncate
  <2>1. tail' \in Ids \cup {NoReceipt}
    <3>1. CASE tail' = tail
      BY <3>1
    <3>2. CASE tail' = LastId(Prefix(file, First(Orphans(file)) - 1))
      <4>1. Prefix(file, First(Orphans(file)) - 1) \in LogFile
        <5>0. Orphans(file) \in SUBSET Nat
          BY DEF Orphans
        <5>1. First(Orphans(file)) \in Orphans(file)
          BY <1>20, <5>0, FirstIsLeast DEF ReconcileTruncate
        <5>2. file.lines \in Seq(Line)
          BY FileType DEF LogFile
        <5>3. First(Orphans(file)) \in 1..Len(file.lines)
          BY <5>1 DEF Orphans
        <5>4. SubSeq(file.lines, 1, First(Orphans(file)) - 1) \in Seq(Line)
          BY <5>2, <5>3
        <5> QED BY <5>4 DEF Prefix, LogFile
      <4> QED BY <3>2, <4>1, ReceiptTypes
    <3> QED BY <1>20, <3>1, <3>2 DEF ReconcileTruncate
  <2>2. mode' \in {"up", "down"}
    BY <1>20 DEF ReconcileTruncate
  <2> QED BY <1>20, <2>1, <2>2 DEF ReconcileTruncate
<1>21. CASE UNCHANGED vars
  BY <1>21 DEF vars
<1> QED
  BY <1>1, <1>2, <1>3, <1>4, <1>5, <1>6, <1>7, <1>8, <1>9, <1>10, <1>11, <1>12, <1>13, <1>14,
     <1>15, <1>16, <1>17, <1>18, <1>19, <1>20, <1>21
  DEF Next, TurnStep, TurnFault, CallerAction, Reconcile

\* The types of the log and of the journal.
LEMMA NextFiles ==
  ASSUME TypeOK, [Next]_vars
  PROVE  file' \in LogFile /\ JournalOK'
<1>0. file \in LogFile /\ JournalOK
  BY TypeSplit
<1>a. \A r \in Receipt : \A o : WriteLine(file, r, o) \in LogFile
  BY <1>0, WriteType
<1>b. CASE UNCHANGED <<file, journal>>
  BY <1>0, <1>b DEF JournalOK
<1>c. \A id \in Ids : \A b \in BOOLEAN : Append(journal, [id |-> id, synthetic |-> b]) \in
         Seq([id : Ids, synthetic : BOOLEAN])
  BY <1>0 DEF JournalOK
<1>1. ASSUME NEW t \in Turns, Persist(t) PROVE file' \in LogFile /\ JournalOK'
  BY <1>0, <1>1, <1>a, ReceiptTypes DEF Persist, JournalOK
<1>2. ASSUME NEW t \in Turns, NEW o \in Failures, PersistFails(t, o) \/ CancelMarkFails(t, o)
      PROVE file' \in LogFile /\ JournalOK'
  BY <1>0, <1>2, <1>a, ReceiptTypes DEF PersistFails, CancelMarkFails, FailedWrite, JournalOK
<1>3. ASSUME NEW t \in Turns, JournalAppend(t) \/ JournalFails(t) PROVE file' \in LogFile /\ JournalOK'
  <2>1. Minted(t).id \in Ids
    BY DEF TypeOK, Minted, Ids
  <2> QED BY <1>0, <1>3, <1>c, <2>1 DEF JournalAppend, JournalFails, JournalOK
<1>4. ASSUME NEW t \in Turns, CancelMarked(t) PROVE file' \in LogFile /\ JournalOK'
  BY <1>0, <1>4, <1>a, ReceiptTypes DEF CancelMarked, JournalOK
<1>5. ASSUME ControlReceipt \/ (\E o \in Failures : ControlFails(o))
      PROVE file' \in LogFile /\ JournalOK'
  BY <1>0, <1>5, <1>a, ReceiptTypes DEF ControlReceipt, ControlFails, FailedWrite, JournalOK
<1>6. CASE mint_control_receipt
  <2> DEFINE f == Repaired(file)
             r == [id |-> <<Cli, clis + 1>>, parent |-> LastId(f), kind |-> "control"]
  <2>1. f \in LogFile
    BY <1>0, RepairType
  <2>2. r \in Receipt
    <3>1. LastId(f) \in Ids \cup {NoReceipt}
      BY <2>1, ReceiptTypes
    <3>2. <<Cli, clis + 1>> \in Ids
      BY DEF TypeOK, Ids
    <3> QED BY <3>1, <3>2 DEF Receipt
  <2>3. WriteLine(f, r, "ok") \in LogFile
    BY <2>1, <2>2, WriteType
  <2> QED BY <1>0, <1>6, <2>3 DEF mint_control_receipt, JournalOK
<1>7. ASSUME NEW r \in InFlight, NEW o \in Tears, CrashWriting(r, o) PROVE file' \in LogFile /\ JournalOK'
  BY <1>0, <1>7, <1>a, ReceiptTypes DEF CrashWriting, JournalOK
<1>8. CASE Build
  BY <1>0, <1>8, RepairType DEF Build, JournalOK
<1> DEFINE first == First(Orphans(file))
<1>d. Orphans(file) # {} => first \in Orphans(file) /\ first \in 1..Len(file.lines)
  <2>1. Orphans(file) \in SUBSET Nat
    BY DEF Orphans
  <2>2. Orphans(file) # {} => first \in Orphans(file)
    BY <2>1, FirstIsLeast
  <2>3. Orphans(file) \subseteq 1..Len(file.lines)
    BY DEF Orphans
  <2> QED BY <2>2, <2>3
<1>9. CASE ReconcileAppend
  <2>1. first \in 1..Len(file.lines)
    BY <1>9, <1>d DEF ReconcileAppend
  <2>2. file.lines[first] \in Line
    BY <1>0, <2>1 DEF LogFile
  <2>3. file.lines[first].receipt.id \in Ids
    BY <2>2 DEF Line, Receipt
  <2> QED BY <1>0, <1>9, <1>c, <2>3 DEF ReconcileAppend, JournalOK
<1>10. CASE ReconcileTruncate
  <2>1. first \in 1..Len(file.lines) /\ file.lines \in Seq(Line)
    BY <1>0, <1>10, <1>d DEF ReconcileTruncate, LogFile
  <2>2. SubSeq(file.lines, 1, first - 1) \in Seq(Line)
    BY <2>1
  <2>3. Prefix(file, first - 1) \in LogFile
    BY <2>2 DEF Prefix, LogFile
  <2> QED BY <1>0, <1>10, <2>3 DEF ReconcileTruncate, JournalOK
<1>11. ASSUME NEW t \in Turns,
              \/ Submit(t) \/ SubmitQueueFull(t) \/ StartTurn(t) \/ RefuseTurn(t) \/ Admit(t)
              \/ AdmitRefused(t) \/ (\E w \in BOOLEAN : ProviderReplies(t, w)) \/ ToolsDone(t)
              \/ RoundFails(t) \/ EnterCommit(t) \/ Finalize(t) \/ FinalizeFails(t)
              \/ BeginPersist(t) \/ BeginRefused(t) \/ EndRound(t) \/ CancelUnmarked(t) \/ Dropped(t)
       PROVE  UNCHANGED <<file, journal>>
  BY <1>11 DEF Submit, SubmitQueueFull, StartTurn, RefuseTurn, Admit, AdmitRefused, ProviderReplies,
     ToolsDone, RoundFails, EnterCommit, Finalize, FinalizeFails, BeginPersist, BeginRefused,
     EndRound, CancelUnmarked, Dropped, durableVars
<1>12. ASSUME NEW t \in Turns,
              ReplyArrives(t) \/ RequestCancel(t) \/ TimeoutFires(t) \/ GraceElapsed(t) \/ HangUp(t)
       PROVE  UNCHANGED <<file, journal>>
  BY <1>12 DEF ReplyArrives, RequestCancel, TimeoutFires, GraceElapsed, HangUp, durableVars
<1>13. ASSUME Crash \/ ReconcileNothing \/ UNCHANGED vars PROVE UNCHANGED <<file, journal>>
  BY <1>13 DEF Crash, ReconcileNothing, vars, durableVars
<1>14. HttpTurns \subseteq Turns
  BY DEF Turns
<1> QED
  BY <1>b, <1>1, <1>2, <1>3, <1>4, <1>5, <1>6, <1>7, <1>8, <1>9, <1>10, <1>11, <1>12, <1>13, <1>14
  DEF Next, TurnStep, TurnFault, CallerAction, Reconcile

\* The lock is held by the turn between EnterCommit and the end of its commit
\* block, and what it read as the chain's tail stays the tail.
LEMMA NextLock ==
  ASSUME TypeOK, LockInv, [Next]_vars
  PROVE  LockInv'
<1>0. ControlOK
  BY TypeSplit
<1>a. /\ pc \in [Turns -> Pc] /\ parent \in [Turns -> Ids \cup {NoReceipt}] /\ NoTurn \notin Turns
      /\ mode # "up" => lock = NoTurn /\ \A t \in Turns : pc[t] \in {"idle", "past"}
      /\ \A t \in Turns : Committing(t) => lock = t
      /\ \A t \in Turns : pc[t] \in {"finalize", "begin", "persist"} => parent[t] = tail
      /\ "up" \notin Strategies
  BY <1>0, TurnAssumption DEF LockInv, ControlOK
<1> USE <1>a DEF LockInv, Committing, durableVars, turnVars, shakeVars, callerVars, boundVars, Step, Return
<1>1. ASSUME NEW t \in Turns,
             \/ Submit(t) \/ SubmitQueueFull(t) \/ StartTurn(t) \/ RefuseTurn(t) \/ Admit(t)
             \/ AdmitRefused(t)
      PROVE  LockInv'
  BY <1>1 DEF Submit, SubmitQueueFull, StartTurn, RefuseTurn, Admit, AdmitRefused
<1>2. ASSUME NEW t \in Turns, NEW w \in BOOLEAN, ProviderReplies(t, w) PROVE LockInv'
  BY <1>2 DEF ProviderReplies
<1>3. ASSUME NEW t \in Turns, ToolsDone(t) \/ RoundFails(t) \/ CancelUnmarked(t) PROVE LockInv'
  BY <1>3 DEF ToolsDone, RoundFails, CancelUnmarked
<1>4. ASSUME NEW t \in Turns, EnterCommit(t) PROVE LockInv'
  BY <1>4 DEF EnterCommit
<1>5. ASSUME NEW t \in Turns, Finalize(t) \/ FinalizeFails(t) \/ BeginPersist(t) \/ BeginRefused(t)
      PROVE LockInv'
  BY <1>5 DEF Finalize, FinalizeFails, BeginPersist, BeginRefused
<1>6. ASSUME NEW t \in Turns, Persist(t) PROVE LockInv'
  BY <1>6 DEF Persist
<1>7. ASSUME NEW t \in Turns, JournalAppend(t) \/ JournalFails(t) PROVE LockInv'
  BY <1>7 DEF JournalAppend, JournalFails, Unlock
<1>8. ASSUME NEW t \in Turns, NEW o \in Failures, PersistFails(t, o) \/ CancelMarkFails(t, o)
      PROVE LockInv'
  BY <1>8 DEF PersistFails, CancelMarkFails
<1>9. ASSUME NEW t \in Turns, EndRound(t) PROVE LockInv'
  BY <1>9 DEF EndRound
<1>10. ASSUME NEW t \in Turns, CancelMarked(t) PROVE LockInv'
  BY <1>10 DEF CancelMarked
<1>11. ASSUME NEW t \in Turns, Dropped(t) PROVE LockInv'
  BY <1>11 DEF Dropped
<1>12. ASSUME NEW t \in HttpTurns,
              ReplyArrives(t) \/ RequestCancel(t) \/ TimeoutFires(t) \/ GraceElapsed(t) \/ HangUp(t)
       PROVE  LockInv'
  <2>1. UNCHANGED <<mode, tail, lock, pc, parent>>
    BY <1>12 DEF ReplyArrives, RequestCancel, TimeoutFires, GraceElapsed, HangUp
  <2> QED BY <2>1
<1>13. ASSUME ControlReceipt \/ mint_control_receipt \/ (\E o \in Failures : ControlFails(o))
       PROVE LockInv'
  BY <1>13 DEF ControlReceipt, mint_control_receipt, ControlFails
<1>14. ASSUME Crash \/ \E r \in InFlight, o \in Tears : CrashWriting(r, o) PROVE LockInv'
  BY <1>14 DEF Crash, CrashWriting, Forget
<1>15. CASE Build
  BY <1>15 DEF Build
<1>16. ASSUME ReconcileNothing \/ ReconcileAppend \/ ReconcileTruncate PROVE LockInv'
  <2>1. mode # "up" /\ UNCHANGED <<lock, pc, parent>>
    BY <1>16, TurnAssumption DEF ReconcileNothing, ReconcileAppend, ReconcileTruncate
  <2> QED BY <2>1
<1>17. CASE UNCHANGED vars
  BY <1>17 DEF vars
<1> QED
  BY <1>1, <1>2, <1>3, <1>4, <1>5, <1>6, <1>7, <1>8, <1>9, <1>10, <1>11, <1>12, <1>13, <1>14,
     <1>15, <1>16, <1>17
  DEF Next, TurnStep, TurnFault, CallerAction, Reconcile

\* Rounds, charges and holds move together.
CountOK(t) ==
  /\ pc[t] \in {"idle", "queued"} => round[t] = 1
  /\ pc[t] \notin {"done", "past"} =>
       committed[t] = round[t] - 1 /\ billed[t] = committed[t] + Charged(t)
  /\ hold[t] = Holding(t)
  /\ pc[t] = "past" => billed[t] = 0

\* Every step keeps what a turn has counted, its bill and its hold in step.
LEMMA NextCount ==
  ASSUME TypeOK, CountInv, [Next]_vars
  PROVE  CountInv'
<1> SUFFICES ASSUME NEW u \in Turns PROVE CountOK(u)'
  BY DEF CountInv, CountOK
<1>0. ControlOK
  BY TypeSplit
<1>a. /\ pc \in [Turns -> Pc] /\ round \in [Turns -> 1..MaxRounds] /\ committed \in [Turns -> 0..MaxRounds]
      /\ billed \in [Turns -> 0..MaxRounds] /\ hold \in [Turns -> {"none", "held", "charged"}]
      /\ MaxRounds \in Nat
      /\ CountOK(u)
  BY <1>0, TurnAssumption DEF CountInv, CountOK, ControlOK
<1> USE <1>a DEF CountOK, Charged, Holding, durableVars, turnVars, shakeVars, callerVars, boundVars,
        Step, Return, SetHold, release, Bill
<1>1. ASSUME NEW t \in Turns,
             \/ Submit(t) \/ SubmitQueueFull(t) \/ StartTurn(t) \/ RefuseTurn(t) \/ Admit(t)
             \/ AdmitRefused(t)
      PROVE  CountOK(u)'
  BY <1>1 DEF Submit, SubmitQueueFull, StartTurn, RefuseTurn, Admit, AdmitRefused
<1>2. ASSUME NEW t \in Turns, NEW w \in BOOLEAN, ProviderReplies(t, w) PROVE CountOK(u)'
  BY <1>2 DEF ProviderReplies
<1>3. ASSUME NEW t \in Turns, ToolsDone(t) \/ RoundFails(t) \/ CancelUnmarked(t) PROVE CountOK(u)'
  BY <1>3 DEF ToolsDone, RoundFails, CancelUnmarked
<1>4. ASSUME NEW t \in Turns, EnterCommit(t) PROVE CountOK(u)'
  BY <1>4 DEF EnterCommit
<1>5. ASSUME NEW t \in Turns, Finalize(t) \/ FinalizeFails(t) PROVE CountOK(u)'
  BY <1>5 DEF Finalize, FinalizeFails
<1>6. ASSUME NEW t \in Turns, BeginPersist(t) \/ BeginRefused(t) PROVE CountOK(u)'
  BY <1>6 DEF BeginPersist, BeginRefused
<1>7. ASSUME NEW t \in Turns, Persist(t) \/ JournalAppend(t) \/ JournalFails(t) PROVE CountOK(u)'
  BY <1>7 DEF Persist, JournalAppend, JournalFails
<1>8. ASSUME NEW t \in Turns, NEW o \in Failures, PersistFails(t, o) \/ CancelMarkFails(t, o)
      PROVE CountOK(u)'
  BY <1>8 DEF PersistFails, CancelMarkFails
<1>9. ASSUME NEW t \in Turns, EndRound(t) PROVE CountOK(u)'
  BY <1>9 DEF EndRound
<1>10. ASSUME NEW t \in Turns, CancelMarked(t) PROVE CountOK(u)'
  BY <1>10 DEF CancelMarked
<1>11. ASSUME NEW t \in Turns, Dropped(t) PROVE CountOK(u)'
  BY <1>11 DEF Dropped
<1>12. ASSUME NEW t \in HttpTurns,
              ReplyArrives(t) \/ RequestCancel(t) \/ TimeoutFires(t) \/ GraceElapsed(t) \/ HangUp(t)
       PROVE  CountOK(u)'
  <2>1. UNCHANGED <<pc, round, committed, billed, hold>>
    BY <1>12 DEF ReplyArrives, RequestCancel, TimeoutFires, GraceElapsed, HangUp
  <2> QED BY <2>1
<1>13. ASSUME ControlReceipt \/ mint_control_receipt \/ (\E o \in Failures : ControlFails(o))
       PROVE CountOK(u)'
  BY <1>13 DEF ControlReceipt, mint_control_receipt, ControlFails
<1>14. ASSUME Crash \/ \E r \in InFlight, o \in Tears : CrashWriting(r, o) PROVE CountOK(u)'
  <2>1. Forget
    BY <1>14 DEF Crash, CrashWriting
  <2> QED BY <2>1 DEF Forget
<1>15. ASSUME Build \/ ReconcileNothing \/ ReconcileAppend \/ ReconcileTruncate PROVE CountOK(u)'
  <2>1. UNCHANGED <<pc, round, committed, billed, hold>>
    BY <1>15 DEF Build, ReconcileNothing, ReconcileAppend, ReconcileTruncate
  <2> QED BY <2>1
<1>16. CASE UNCHANGED vars
  BY <1>16 DEF vars
<1> QED
  BY <1>1, <1>2, <1>3, <1>4, <1>5, <1>6, <1>7, <1>8, <1>9, <1>10, <1>11, <1>12, <1>13, <1>14,
     <1>15, <1>16
  DEF Next, TurnStep, TurnFault, CallerAction, Reconcile

\* The initial state.
LEMMA InitControl == Init => TypeOK /\ LockInv /\ CountInv
<1> SUFFICES ASSUME Init PROVE TypeOK /\ LockInv /\ CountInv
  OBVIOUS
<1>0. [t \in Turns |-> FALSE] \in [Turns -> BOOLEAN]
  BY Zenon
<1>a. wants \in [Turns -> BOOLEAN] /\ gone \in [Turns -> BOOLEAN] /\ prev \in [Turns -> BOOLEAN]
  BY <1>0 DEF Init
<1>b. /\ pc \in [Turns -> Pc] /\ result \in [Turns -> Result] /\ cpc \in [Turns -> CallerPc]
      /\ hold \in [Turns -> {"none", "held", "charged"}]
      /\ phase \in [Turns -> {"live", "cancelled", "persisting", "committed"}]
      /\ answer \in [Turns -> {"none", "200", "502", "503", "504"}]
      /\ parent \in [Turns -> Ids \cup {NoReceipt}]
  BY DEF Init, Pc, Result, CallerPc
<1>c. /\ round \in [Turns -> 1..MaxRounds] /\ committed \in [Turns -> 0..MaxRounds]
      /\ billed \in [Turns -> 0..MaxRounds]
  BY TurnAssumption DEF Init
<1>d. /\ mode \in {"up", "down"} \cup Strategies /\ tail \in Ids \cup {NoReceipt}
      /\ lock \in Turns \cup {NoTurn}
  BY DEF Init
<1>e. waited \subseteq Turns /\ ioError \subseteq Turns /\ damaged \in BOOLEAN
  BY DEF Init
<1>f. /\ failures \in 0..MaxFailures /\ crashes \in 0..MaxCrashes
      /\ controls \in 0..MaxControls /\ clis \in 0..MaxCli
  BY TurnAssumption DEF Init
<1>1. ControlOK
  BY <1>a, <1>b, <1>c, <1>d, <1>e, <1>f DEF ControlOK
<1>2. file \in LogFile /\ JournalOK
  BY DEF Init, EmptyLog, LogFile, JournalOK
<1>3. LockInv
  BY DEF Init, LockInv, Committing
<1>4. CountInv
  BY DEF Init, CountInv, Charged, Holding
<1> QED BY <1>1, <1>2, <1>3, <1>4, TypeSplit

\* The log, the journal, every turn, its hold at the gate and its caller keep
\* their types through every interleaving, failed write, crash and restart; the
\* rounds charged never exceed max_tool_iterations, and a rollback never finds
\* the count at zero.
THEOREM TurnTypeOK == Spec => []TypeOK
<1> DEFINE Control3 == TypeOK /\ LockInv /\ CountInv
<1>1. Init => Control3
  BY InitControl
<1>2. Control3 /\ [Next]_vars => Control3'
  <2> SUFFICES ASSUME Control3, [Next]_vars PROVE Control3'
    OBVIOUS
  <2>1. TypeOK'
    <3>1. ControlOK' /\ file' \in LogFile /\ JournalOK'
      BY NextControl, NextFiles
    <3> QED BY <3>1 DEF TypeOK, LogFile, Line, ControlOK, JournalOK
  <2> QED BY <2>1, NextLock, NextCount
<1>3. Control3 => TypeOK
  OBVIOUS
<1> QED BY <1>1, <1>2, <1>3, PTL DEF Spec

-----------------------------------------------------------------------------
(* The chain *)

\* The runtime's log is sound, and a receipt chained on the tail keeps it so.
LEMMA LogWrite ==
  ASSUME TypeOK, LogInv, ~damaged, mode # "down", NEW r \in Receipt, r.parent = tail,
         NEW o \in {"ok", "sync"}, file' = WriteLine(file, r, o)
  PROVE  Sound(file') /\ LastId(file') = r.id /\ LedgerLines' = Append(LedgerLines, Good(r))
<1>1. file \in LogFile /\ Sound(file) /\ tail = LastId(file)
  BY FileType DEF LogInv
<1>2. Sound(file') /\ LastId(file') = r.id
  BY <1>1, WriteSound
<1>3. Repaired(file) = file /\ Repaired(file') = file'
  BY <1>1, <1>2, SoundRepair
<1>4. file'.lines = Append(file.lines, Good(r))
  BY <1>1, WriteGood
<1> QED BY <1>2, <1>3, <1>4 DEF LedgerLines

\* Another process may repair the log before it appends, and finds no runtime up.
LEMMA LogMint ==
  ASSUME TypeOK, LogInv, mint_control_receipt, ~damaged'
  PROVE  /\ mode = "down" /\ Sound(file')
         /\ LedgerLines' = Append(LedgerLines,
              Good([id |-> <<Cli, clis + 1>>, parent |-> LastId(Repaired(file)), kind |-> "control"]))
<1> DEFINE f == Repaired(file)
           r == [id |-> <<Cli, clis + 1>>, parent |-> LastId(f), kind |-> "control"]
<1>1. ~damaged /\ mode = "down" /\ file' = WriteLine(f, r, "ok")
  BY DEF mint_control_receipt
<1>2. f \in LogFile /\ Sound(f)
  BY <1>1, FileType, RepairType, SoundRepair DEF LogInv
<1>3. r \in Receipt
  <2>1. LastId(f) \in Ids \cup {NoReceipt}
    BY <1>2, ReceiptTypes
  <2>2. <<Cli, clis + 1>> \in Ids
    BY DEF TypeOK, Ids
  <2> QED BY <2>1, <2>2 DEF Receipt
<1>4. Sound(file')
  BY <1>1, <1>2, <1>3, WriteSound
<1>5. file'.lines = Append(f.lines, Good(r))
  BY <1>1, <1>2, WriteGood
<1>6. Repaired(file') = file'
  BY <1>4, SoundRepair
<1> QED BY <1>1, <1>4, <1>5, <1>6 DEF LedgerLines

\* A crash in the middle of a write leaves the log as it was, one receipt
\* longer, or torn; the ledger's view of it is one of the first two.
LEMMA LogCrash ==
  ASSUME TypeOK, LockInv, LogInv, NEW r \in InFlight, NEW o \in Tears, CrashWriting(r, o), ~damaged'
  PROVE  /\ Sound(file') \/ (file'.lines # <<>> /\ TornTail(file') /\ Sound(Repaired(file')))
         /\ LedgerLines' = LedgerLines \/ LedgerLines' = Append(LedgerLines, Good(r))
<1>1. ~damaged /\ mode = "up" /\ file' = WriteLine(file, r, o) /\ o \in {"ok", "sync", "nothing", "payload"}
  BY TurnAssumption DEF CrashWriting, Writes
<1>2. r \in Receipt /\ file \in LogFile /\ Sound(file)
  BY <1>1, ReceiptTypes, FileType DEF LogInv
<1>3. r.parent = tail
  <2>1. \A t \in Turns : pc[t] = "persist" => Minted(t).parent = tail
    BY DEF LockInv, Minted
  <2>2. ControlMinted.parent = tail /\ \A t \in Turns : Marker(t).parent = tail
    BY DEF ControlMinted, Marker
  <2> QED BY <2>1, <2>2 DEF InFlight
<1>4. CASE o \in {"ok", "sync"}
  BY <1>1, <1>2, <1>3, <1>4, LogWrite
<1>5. CASE o = "nothing"
  BY <1>1, <1>2, <1>5 DEF WriteLine, LedgerLines
<1>6. CASE o = "payload"
  <2>1. file'.lines # <<>> /\ TornTail(file') /\ Repaired(file') = file
    BY <1>1, <1>2, <1>6, WriteTorn
  <2>2. Repaired(file) = file
    BY <1>2, SoundRepair
  <2> QED BY <1>2, <2>1, <2>2 DEF LedgerLines
<1> QED BY <1>1, <1>4, <1>5, <1>6

\* A restart repairs the log and sees no other ledger.
LEMMA LogBuild ==
  ASSUME TypeOK, LogInv, Build, ~damaged
  PROVE  Sound(file') /\ tail' = LastId(file') /\ LedgerLines' = LedgerLines
<1>1. Sound(file) \/ Sound(Repaired(file))
  BY DEF LogInv
<1>2. file' = Repaired(file) /\ tail' = LastId(file')
  BY DEF Build
<1>3. Sound(file')
  BY <1>1, <1>2, SoundRepair
<1>4. Repaired(file') = file'
  BY <1>3, SoundRepair
<1> QED BY <1>2, <1>3, <1>4 DEF LedgerLines

\* Truncation leaves a prefix.
LEMMA LogTruncate ==
  ASSUME TypeOK, LogInv, ReconcileTruncate, ~damaged
  PROVE  /\ Sound(file') /\ tail' = LastId(file')
         /\ \/ UNCHANGED file
            \/ /\ Orphans(file) = First(Orphans(file))..Len(file.lines)
               /\ First(Orphans(file)) \in 1..Len(file.lines)
               /\ LedgerLines = file.lines
               /\ LedgerLines' = SubSeq(LedgerLines, 1, First(Orphans(file)) - 1)
<1> DEFINE first == First(Orphans(file))
<1>1. mode # "down" /\ Orphans(file) # {}
  BY TurnAssumption DEF ReconcileTruncate
<1>2. file \in LogFile /\ Sound(file) /\ tail = LastId(file)
  BY <1>1, FileType DEF LogInv
<1>3. CASE UNCHANGED <<file, tail>>
  BY <1>2, <1>3
<1>4. CASE /\ Orphans(file) = first..Len(file.lines) /\ file' = Prefix(file, first - 1)
           /\ tail' = LastId(Prefix(file, first - 1))
  <2>1. Orphans(file) \in SUBSET Nat /\ Orphans(file) \subseteq 1..Len(file.lines)
    BY DEF Orphans
  <2>2. first \in 1..Len(file.lines)
    BY <1>1, <2>1, FirstIsLeast
  <2>3. first - 1 \in 0..Len(file.lines)
    BY <1>2, <2>2 DEF LogFile
  <2>4. Sound(file')
    BY <1>2, <1>4, <2>3, SoundPrefix
  <2>5. Repaired(file) = file /\ Repaired(file') = file'
    BY <1>2, <2>4, SoundRepair
  <2>6. file'.lines = SubSeq(file.lines, 1, first - 1)
    BY <1>4 DEF Prefix
  <2> QED BY <1>4, <2>2, <2>4, <2>5, <2>6 DEF LedgerLines
<1> QED BY <1>3, <1>4 DEF ReconcileTruncate

\* A failed write that the log does not show changes nothing.
LEMMA LogFailed ==
  ASSUME NEW r, NEW o, FailedWrite(r, o), ~damaged'
  PROVE  ~damaged /\ file' = file
BY DEF FailedWrite, WriteLine

\* The actions that leave the log and the journal alone.
QuietTurn(t) ==
  \/ Submit(t) \/ SubmitQueueFull(t) \/ StartTurn(t) \/ RefuseTurn(t) \/ Admit(t) \/ AdmitRefused(t)
  \/ (\E w \in BOOLEAN : ProviderReplies(t, w)) \/ ToolsDone(t) \/ RoundFails(t) \/ EnterCommit(t)
  \/ Finalize(t) \/ FinalizeFails(t) \/ BeginPersist(t) \/ BeginRefused(t) \/ EndRound(t)
  \/ CancelUnmarked(t) \/ Dropped(t)
QuietCaller(t) ==
  ReplyArrives(t) \/ RequestCancel(t) \/ TimeoutFires(t) \/ GraceElapsed(t) \/ HangUp(t)

\* A quiet step leaves the log, the journal and the tail alone.
LEMMA Quiet ==
  ASSUME NEW t, QuietTurn(t) \/ QuietCaller(t)
  PROVE  mode = "up" /\ UNCHANGED <<file, journal, mode, tail, damaged>>
<1> USE DEF durableVars, Step, Return, CallerStep, Answer
<1>1. CASE QuietTurn(t)
  BY <1>1 DEF QuietTurn, Submit, SubmitQueueFull, StartTurn, RefuseTurn, Admit, AdmitRefused,
     ProviderReplies, ToolsDone, RoundFails, EnterCommit, Finalize, FinalizeFails, BeginPersist,
     BeginRefused, EndRound, CancelUnmarked, Dropped
<1>2. CASE QuietCaller(t)
  BY <1>2 DEF QuietCaller, ReplyArrives, RequestCancel, TimeoutFires, GraceElapsed, HangUp
<1> QED BY <1>1, <1>2

\* Next, grouped by what the log sees of it.
LEMMA NextCases ==
  ASSUME [Next]_vars
  PROVE  \/ \E t \in Turns : QuietTurn(t)
         \/ \E t \in HttpTurns : QuietCaller(t)
         \/ \E t \in Turns : Persist(t)
         \/ \E t \in Turns : JournalAppend(t) \/ JournalFails(t)
         \/ \E t \in Turns : CancelMarked(t)
         \/ \E t \in Turns : \E o \in Failures : PersistFails(t, o) \/ CancelMarkFails(t, o)
         \/ ControlReceipt
         \/ \E o \in Failures : ControlFails(o)
         \/ mint_control_receipt
         \/ Crash
         \/ \E r \in InFlight, o \in Tears : CrashWriting(r, o)
         \/ Build \/ ReconcileNothing \/ ReconcileAppend \/ ReconcileTruncate
         \/ UNCHANGED vars
BY DEF Next, TurnStep, TurnFault, CallerAction, Reconcile, QuietTurn, QuietCaller

\* Every step keeps the log closed and linear, but for the line a crash tears.
LEMMA NextLog ==
  ASSUME TypeOK, LockInv, LogInv, [Next]_vars
  PROVE  LogInv'
<1> SUFFICES ASSUME ~damaged'
             PROVE  /\ \/ Sound(file')
                       \/ /\ mode' = "down" /\ file'.lines # <<>>
                          /\ TornTail(file') /\ Sound(Repaired(file'))
                    /\ mode' # "down" => tail' = LastId(file')
  BY DEF LogInv
<1> DEFINE Goal == /\ \/ Sound(file')
                      \/ /\ mode' = "down" /\ file'.lines # <<>>
                         /\ TornTail(file') /\ Sound(Repaired(file'))
                   /\ mode' # "down" => tail' = LastId(file')
<1>a. ASSUME ~damaged, mode # "down" PROVE Sound(file) /\ tail = LastId(file)
  BY <1>a DEF LogInv
<1>b. ASSUME ~damaged, UNCHANGED <<file, tail>>, mode' = mode \/ mode # "down" PROVE Goal
  BY <1>b DEF LogInv
<1>1. ASSUME NEW t \in Turns, Persist(t) PROVE Goal
  <2>1. ~damaged /\ mode = "up" /\ file' = WriteLine(file, Minted(t), "ok") /\ tail' = Minted(t).id
    BY <1>1 DEF Persist, Step
  <2>2. Minted(t) \in Receipt /\ Minted(t).parent = tail
    BY <1>1, ReceiptTypes DEF Persist, Step, LockInv, Minted
  <2> QED BY <2>1, <2>2, LogWrite
<1>2. ASSUME NEW t \in Turns, CancelMarked(t) PROVE Goal
  <2>1. ~damaged /\ mode = "up" /\ file' = WriteLine(file, Marker(t), "ok") /\ tail' = Marker(t).id
    BY <1>2 DEF CancelMarked, Return, Step
  <2>2. Marker(t) \in Receipt /\ Marker(t).parent = tail
    BY ReceiptTypes DEF Marker
  <2> QED BY <2>1, <2>2, LogWrite
<1>3. CASE ControlReceipt
  <2>1. ~damaged /\ mode = "up" /\ file' = WriteLine(file, ControlMinted, "ok") /\ tail' = ControlMinted.id
    BY <1>3 DEF ControlReceipt
  <2>2. ControlMinted \in Receipt /\ ControlMinted.parent = tail
    BY ReceiptTypes DEF ControlMinted
  <2> QED BY <2>1, <2>2, LogWrite
<1>4. ASSUME NEW t \in Turns, JournalAppend(t) \/ JournalFails(t) PROVE Goal
  <2>1. UNCHANGED <<file, tail, mode, damaged>>
    BY <1>4 DEF JournalAppend, JournalFails
  <2> QED BY <2>1, <1>b
<1>5. ASSUME NEW t \in Turns, NEW o \in Failures, PersistFails(t, o) \/ CancelMarkFails(t, o)
      PROVE Goal
  <2>1. UNCHANGED <<tail, mode>> /\ \E r : FailedWrite(r, o)
    BY <1>5 DEF PersistFails, CancelMarkFails
  <2> QED BY <2>1, <1>b, LogFailed
<1>6. ASSUME NEW o \in Failures, ControlFails(o) PROVE Goal
  <2>1. UNCHANGED <<tail, mode>> /\ \E r : FailedWrite(r, o)
    BY <1>6 DEF ControlFails
  <2> QED BY <2>1, <1>b, LogFailed
<1>7. CASE mint_control_receipt
  <2>1. mode' = mode
    BY <1>7 DEF mint_control_receipt
  <2> QED BY <1>7, <2>1, LogMint
<1>8. CASE Crash
  BY <1>8, <1>b DEF Crash, Forget, durableVars, LogInv
<1>9. ASSUME NEW r \in InFlight, NEW o \in Tears, CrashWriting(r, o) PROVE Goal
  <2>1. mode' = "down"
    BY <1>9 DEF CrashWriting, Forget
  <2> QED BY <1>9, <2>1, LogCrash
<1>10. CASE Build
  BY <1>10, LogBuild DEF Build
<1>11. CASE ReconcileTruncate
  BY <1>11, LogTruncate DEF ReconcileTruncate
<1>12. CASE ReconcileNothing \/ ReconcileAppend
  <2>1. mode # "down" /\ UNCHANGED <<file, tail, damaged>>
    BY <1>12, TurnAssumption DEF ReconcileNothing, ReconcileAppend, durableVars
  <2> QED BY <2>1, <1>b
<1>13. ASSUME NEW t \in Turns, QuietTurn(t) \/ QuietCaller(t) PROVE Goal
  BY <1>13, <1>b, Quiet
<1>14. CASE UNCHANGED vars
  BY <1>14, <1>b DEF vars
<1>15. HttpTurns \subseteq Turns
  BY DEF Turns
<1> QED
  BY <1>1, <1>2, <1>3, <1>4, <1>5, <1>6, <1>7, <1>8, <1>9, <1>10, <1>11, <1>12, <1>13, <1>14, <1>15,
     NextCases

\* The part of the invariant that the chain needs.
ChainInv == TypeOK /\ LockInv /\ CountInv /\ LogInv

\* Every step keeps that part ...
LEMMA NextChain ==
  ASSUME ChainInv, [Next]_vars
  PROVE  ChainInv'
<1> USE DEF ChainInv
<1>1. TypeOK'
  <2>1. ControlOK' /\ file' \in LogFile /\ JournalOK'
    BY NextControl, NextFiles
  <2> QED BY <2>1 DEF TypeOK, LogFile, Line, ControlOK, JournalOK
<1> QED BY <1>1, NextLock, NextCount, NextLog

\* ... which holds of an empty log.
LEMMA InitChain == Init => ChainInv
<1> SUFFICES ASSUME Init PROVE ChainInv
  OBVIOUS
<1>1. LogInv
  BY DEF Init, LogInv, EmptyLog, Sound, Verifies, LastId
<1> QED BY <1>1, InitControl DEF ChainInv

\* A torn last line is all that Parses forgives.
LEMMA ChainInvLinear == ChainInv => ChainLinear
<1> SUFFICES ASSUME ChainInv, ~damaged PROVE
      /\ mode # "down" => Verifies(file) /\ ~file.open
      /\ mode # "down" /\ lock = NoTurn => tail = LastId(file)
      /\ Parses(file) /\ Verifies(Repaired(file))
  BY DEF ChainLinear
<1>1. file \in LogFile
  BY FileType DEF ChainInv
<1>2. CASE Sound(file)
  <2>1. Repaired(file) = file
    BY <1>2, SoundRepair
  <2>2. Parses(file)
    BY <1>2 DEF Sound, Verifies, Parses
  <2> QED BY <1>2, <2>1, <2>2 DEF ChainInv, LogInv, Sound
<1>3. CASE mode = "down" /\ file.lines # <<>> /\ TornTail(file) /\ Sound(Repaired(file))
  <2>1. Parses(file)
    <3> DEFINE n == Len(file.lines)
               g == SubSeq(file.lines, 1, n - 1)
    <3>1. file.lines \in Seq(Line) /\ n \in Nat
      BY <1>1 DEF LogFile
    <3>2. Len(g) = n - 1 /\ \A i \in 1..(n - 1) : g[i] = file.lines[i]
      BY <3>1, <1>3
    <3>3. \A i \in 1..(n - 1) : file.lines[i].quality = "good"
      BY <3>2, <1>3 DEF Repaired, Sound, Verifies
    <3> QED BY <3>1, <3>3, <1>3 DEF Parses, TornTail
  <2> QED BY <1>3, <2>1 DEF Sound
<1> QED BY <1>2, <1>3 DEF ChainInv, LogInv

\* The receipt chain stays linear and bootable for every set of turns, however
\* their commits, their cancellation markers and control receipts interleave,
\* through crashes before or inside the payload of a line being written and
\* through every restart, until the log is `damaged`: by a crash that cut a
\* signature or only the newline, by a write that failed after bytes of it had
\* reached the file, or by a CLI append beside a running server.
THEOREM TurnChainLinear == Spec => []ChainLinear
<1>1. Init => ChainInv
  BY InitChain
<1>2. ChainInv /\ [Next]_vars => ChainInv'
  BY NextChain
<1>3. ChainInv => ChainLinear
  BY ChainInvLinear
<1> QED BY <1>1, <1>2, <1>3, PTL DEF Spec

-----------------------------------------------------------------------------
(* The lines of a turn *)

\* A step that neither adds to nor removes from the lines of t.
SameLines(t) ==
  /\ Lines(t)' = Lines(t) /\ \A i \in Lines(t) : LedgerLines'[i] = LedgerLines[i]
  /\ RoundLines(t)' = RoundLines(t) /\ RoundRecs(t)' = RoundRecs(t)

\* The lines of a turn are lines of the log, finitely many.
LEMMA LinesType ==
  ASSUME TypeOK
  PROVE  /\ LedgerLines \in Seq(Line)
         /\ \A t : /\ Lines(t) \subseteq 1..Len(LedgerLines)
                   /\ \A i \in Lines(t) : LedgerLines[i] \in Line /\ LedgerLines[i].receipt \in Receipt
                   /\ IsFiniteSet(RoundLines(t)) /\ IsFiniteSet(RoundRecs(t))
<1>1. LedgerLines \in Seq(Line)
  BY FileType, RepairType DEF LedgerLines, LogFile
<1> SUFFICES ASSUME NEW t
             PROVE  /\ Lines(t) \subseteq 1..Len(LedgerLines)
                    /\ \A i \in Lines(t) : LedgerLines[i] \in Line /\ LedgerLines[i].receipt \in Receipt
                    /\ IsFiniteSet(RoundLines(t)) /\ IsFiniteSet(RoundRecs(t))
  BY <1>1
<1>2. Lines(t) \subseteq 1..Len(LedgerLines) /\ RoundLines(t) \in SUBSET (1..Len(LedgerLines))
  BY DEF Lines, RoundLines
<1>3. \A i \in Lines(t) : LedgerLines[i] \in Line
  BY <1>1, <1>2
<1>4. \A i \in Lines(t) : LedgerLines[i].receipt \in Receipt
  BY <1>3 DEF Line
<1>5. IsFiniteSet(1..Len(LedgerLines))
  BY <1>1, FS_Interval
<1>6. IsFiniteSet(RoundLines(t))
  BY <1>2, <1>5, FS_Subset
<1>7. IsFiniteSet(RoundRecs(t))
  <2> DEFINE f == [i \in RoundLines(t) |-> LedgerLines[i].receipt]
  <2>1. f \in Surjection(RoundLines(t), RoundRecs(t))
    BY DEF Surjection, RoundRecs
  <2> QED BY <1>6, <2>1, FS_Surjection
<1> QED BY <1>2, <1>3, <1>4, <1>6, <1>7

\* A log that is left alone leaves every turn its lines.
LEMMA SameLog ==
  ASSUME LedgerLines' = LedgerLines
  PROVE  \A t : SameLines(t)
BY DEF SameLines, Lines, RoundLines, RoundRecs, By, Kind

\* A receipt appended by somebody else is none of t's lines ...
LEMMA AppendOther ==
  ASSUME TypeOK, NEW r \in Receipt, LedgerLines' = Append(LedgerLines, Good(r)),
         NEW t, r.id[1] # t
  PROVE  SameLines(t)
<1> DEFINE n == Len(LedgerLines)
<1>1. LedgerLines \in Seq(Line) /\ n \in Nat /\ Good(r) \in Line
  BY LinesType DEF Good, Line
<1>2. /\ Len(LedgerLines') = n + 1 /\ LedgerLines'[n + 1] = Good(r)
      /\ \A i \in 1..n : LedgerLines'[i] = LedgerLines[i]
  BY <1>1
<1>3. Good(r).receipt = r
  BY DEF Good
<1>4. Lines(t)' = Lines(t)
  BY <1>1, <1>2, <1>3 DEF Lines, By
<1>5. \A i \in Lines(t) : LedgerLines'[i] = LedgerLines[i]
  BY <1>2 DEF Lines
<1>6. RoundLines(t)' = RoundLines(t)
  BY <1>4, <1>5 DEF RoundLines, Kind
<1>7. RoundRecs(t)' = RoundRecs(t)
  <2>1. \A i \in RoundLines(t) : LedgerLines'[i] = LedgerLines[i]
    BY <1>5 DEF RoundLines
  <2> QED BY <1>6, <2>1 DEF RoundRecs
<1> QED BY <1>4, <1>5, <1>6, <1>7 DEF SameLines

\* ... and one appended by t is its last.
LEMMA AppendOwn ==
  ASSUME TypeOK, NEW r \in Receipt, LedgerLines' = Append(LedgerLines, Good(r)),
         NEW t, r.id[1] = t
  PROVE  LET n == Len(LedgerLines) IN
         /\ Lines(t)' = Lines(t) \cup {n + 1} /\ n + 1 \notin Lines(t)
         /\ LedgerLines'[n + 1].receipt = r
         /\ \A i \in Lines(t) : i <= n /\ LedgerLines'[i] = LedgerLines[i]
         /\ RoundLines(t)' = IF r.kind \in {"tool", "final"}
                             THEN RoundLines(t) \cup {n + 1} ELSE RoundLines(t)
         /\ RoundRecs(t)' = IF r.kind \in {"tool", "final"}
                            THEN RoundRecs(t) \cup {r} ELSE RoundRecs(t)
<1> DEFINE n == Len(LedgerLines)
<1>1. LedgerLines \in Seq(Line) /\ n \in Nat /\ Good(r) \in Line
  BY LinesType DEF Good, Line
<1>2. /\ Len(LedgerLines') = n + 1 /\ LedgerLines'[n + 1] = Good(r)
      /\ \A i \in 1..n : LedgerLines'[i] = LedgerLines[i]
  BY <1>1
<1>3. Good(r).receipt = r
  BY DEF Good
<1>4. Lines(t)' = Lines(t) \cup {n + 1} /\ n + 1 \notin Lines(t)
  BY <1>1, <1>2, <1>3 DEF Lines, By
<1>5. \A i \in Lines(t) : i <= n /\ LedgerLines'[i] = LedgerLines[i]
  BY <1>2 DEF Lines
<1>6. RoundLines(t)' = IF r.kind \in {"tool", "final"}
                       THEN RoundLines(t) \cup {n + 1} ELSE RoundLines(t)
  BY <1>2, <1>3, <1>4, <1>5 DEF RoundLines, Kind
<1>7. RoundRecs(t)' = IF r.kind \in {"tool", "final"}
                      THEN RoundRecs(t) \cup {r} ELSE RoundRecs(t)
  <2>1. \A i \in RoundLines(t) : LedgerLines'[i] = LedgerLines[i]
    BY <1>5 DEF RoundLines
  <2>2. LedgerLines'[n + 1].receipt = r
    BY <1>2, <1>3
  <2>3. CASE r.kind \in {"tool", "final"}
    <3>1. RoundLines(t)' = RoundLines(t) \cup {n + 1}
      BY <1>6, <2>3
    <3>2. RoundRecs(t)' = {LedgerLines'[i].receipt : i \in RoundLines(t)'}
      BY DEF RoundRecs
    <3> HIDE DEF n
    <3>3. RoundRecs(t)' = RoundRecs(t) \cup {r}
      BY <2>1, <2>2, <3>1, <3>2 DEF RoundRecs
    <3> QED BY <2>3, <3>3
  <2>4. CASE r.kind \notin {"tool", "final"}
    BY <1>6, <2>1, <2>4 DEF RoundRecs
  <2> QED BY <2>3, <2>4
<1> QED BY <1>2, <1>3, <1>4, <1>5, <1>6, <1>7

-----------------------------------------------------------------------------
(* What the log says of a turn *)

\* Nothing happens to u.
LEMMA FrameTurn ==
  ASSUME NEW u \in Turns, RunningOK(u), DoneOK(u), SameLines(u), Journaled \subseteq Journaled',
         pc'[u] = pc[u], round'[u] = round[u], wants'[u] = wants[u], billed'[u] = billed[u],
         result'[u] = result[u], u \in ioError => u \in ioError'
  PROVE  RunningOK(u)' /\ DoneOK(u)'
<1> USE DEF SameLines
<1>1. RunningOK(u)'
  <2>1. Due(u)' = Due(u) /\ Minted(u)'.kind = Minted(u).kind
    BY DEF Due, Minted
  <2> QED BY <2>1 DEF RunningOK
<1>2. Acknowledgeable(u) => Acknowledgeable(u)'
  BY DEF Acknowledgeable, Kind
<1>3. DoneOK(u)'
  BY <1>2 DEF DoneOK, Kind
<1> QED BY <1>1, <1>3

\* u goes from one point before its write to another.
LEMMA MoveTurn ==
  ASSUME TypeOK, NEW u \in Turns, RunningOK(u), SameLines(u), round'[u] = round[u],
         pc[u] \notin {"journal", "after", "done", "past"},
         pc'[u] \notin {"journal", "after", "done", "past"}
  PROVE  RunningOK(u)' /\ DoneOK(u)'
<1>1. round[u] \in Nat
  BY DEF TypeOK
<1>2. Due(u)' = Due(u) /\ Due(u) = round[u] - 1
  BY DEF Due
<1>3. \A i \in Lines(u) : /\ LedgerLines[i].receipt.id[2] \in 1..Due(u)
                          /\ LedgerLines[i].receipt.kind = "tool"
  BY <1>1, <1>2 DEF RunningOK
<1> QED BY <1>1, <1>2, <1>3 DEF RunningOK, DoneOK, SameLines

\* u ends without an answer of its own and without a cancellation.
LEMMA FailTurn ==
  ASSUME TypeOK, NEW u \in Turns, RunningOK(u), SameLines(u), pc[u] \notin {"done", "past"},
         pc'[u] = "done", result'[u] \notin {"ok", "cancelled"},
         billed'[u] = Due(u) \/ (u \in StreamTurns /\ result'[u] = "dropped")
  PROVE  RunningOK(u)' /\ DoneOK(u)'
BY DEF RunningOK, DoneOK, SameLines

\* u writes the receipt of its round.
LEMMA PersistTurn ==
  ASSUME ChainInv, NEW u \in Turns, RunningOK(u), pc[u] = "persist", pc'[u] = "journal",
         round'[u] = round[u], wants'[u] = wants[u],
         LedgerLines' = Append(LedgerLines, Good(Minted(u)))
  PROVE  RunningOK(u)' /\ DoneOK(u)'
<1> DEFINE n == Len(LedgerLines)
           r == Minted(u)
<1>1. TypeOK /\ round[u] \in Nat /\ r \in Receipt
  <2>1. TypeOK
    BY DEF ChainInv
  <2>2. round[u] \in Nat
    BY <2>1 DEF TypeOK
  <2> QED BY <2>1, <2>2, ReceiptTypes
<1>2. r.id = <<u, round[u]>> /\ r.id[1] = u /\ r.id[2] = round[u] /\ r.kind \in {"tool", "final"}
  BY DEF Minted
<1>3. Due(u) = round[u] - 1 /\ Due(u)' = round[u] /\ Minted(u)'.kind = r.kind
  BY DEF Due, Minted
<1>4. /\ Lines(u)' = Lines(u) \cup {n + 1} /\ n + 1 \notin Lines(u)
      /\ LedgerLines'[n + 1].receipt = r
      /\ \A i \in Lines(u) : LedgerLines'[i] = LedgerLines[i]
      /\ RoundLines(u)' = RoundLines(u) \cup {n + 1}
      /\ RoundRecs(u)' = RoundRecs(u) \cup {r}
  BY <1>1, <1>2, AppendOwn
<1>5. \A i \in Lines(u) : /\ LedgerLines[i].receipt.id[2] \in 1..(round[u] - 1)
                          /\ LedgerLines[i].receipt.kind = "tool"
  BY <1>1, <1>3 DEF RunningOK
<1> HIDE DEF n, r
<1>6. Cardinality(RoundLines(u)') = round[u]
  <2>1. n + 1 \notin RoundLines(u)
    BY <1>4 DEF RoundLines
  <2>2. IsFiniteSet(RoundLines(u)) /\ Cardinality(RoundLines(u)) = round[u] - 1
    BY <1>1, <1>3, LinesType DEF RunningOK
  <2>3. Cardinality(RoundLines(u) \cup {n + 1}) = Cardinality(RoundLines(u)) + 1
    BY <2>1, <2>2, FS_AddElement
  <2> QED BY <1>1, <1>4, <2>2, <2>3
<1>7. Cardinality(RoundRecs(u)') = round[u]
  <2>1. r \notin RoundRecs(u)
    BY <1>1, <1>2, <1>5 DEF RoundRecs, RoundLines
  <2>2. IsFiniteSet(RoundRecs(u)) /\ Cardinality(RoundRecs(u)) = round[u] - 1
    BY <1>1, <1>3, LinesType DEF RunningOK
  <2>3. Cardinality(RoundRecs(u) \cup {r}) = Cardinality(RoundRecs(u)) + 1
    BY <2>1, <2>2, FS_AddElement
  <2> QED BY <1>1, <1>4, <2>2, <2>3
<1>8. \A i \in Lines(u)' :
         /\ LedgerLines'[i].receipt.id[2] \in 1..round[u]
         /\ LedgerLines'[i].receipt.kind = IF LedgerLines'[i].receipt.id[2] = round[u] THEN r.kind ELSE "tool"
  <2> TAKE i \in Lines(u)'
  <2> DEFINE x == LedgerLines'[i].receipt
  <2>0. round[u] \in 1..round[u]
    BY <1>1 DEF TypeOK
  <2>1. CASE i = n + 1
    <3>1. x = r
      BY <1>4, <2>1
    <3> QED BY <1>2, <2>0, <3>1
  <2>2. CASE i \in Lines(u)
    <3>1. x = LedgerLines[i].receipt
      BY <1>4, <2>2
    <3>2. x.id[2] \in 1..(round[u] - 1) /\ x.kind = "tool"
      BY <1>5, <2>2, <3>1
    <3> HIDE DEF x
    <3>3. x.id[2] \in Nat /\ round[u] \in Nat
      BY <1>1, <3>2
    <3>4. x.id[2] \in 1..round[u] /\ x.id[2] # round[u]
      BY <3>2, <3>3
    <3> QED BY <3>2, <3>4 DEF x
  <2> QED BY <1>4, <2>1, <2>2
<1>9. \E i \in Lines(u)' : LedgerLines'[i].receipt.id = <<u, round[u]>>
  BY <1>2, <1>4
<1> QED BY <1>3, <1>6, <1>7, <1>8, <1>9 DEF RunningOK, DoneOK

\* u, cancelled with a round committed, leaves its marker as the last of its lines.
LEMMA MarkTurn ==
  ASSUME ChainInv, NEW u \in Turns, RunningOK(u), pc[u] = "marker", pc'[u] = "done",
         result'[u] = "cancelled", billed'[u] = billed[u],
         LedgerLines' = Append(LedgerLines, Good(Marker(u)))
  PROVE  RunningOK(u)' /\ DoneOK(u)'
<1> DEFINE n == Len(LedgerLines)
           r == Marker(u)
<1>1. TypeOK /\ round[u] \in Nat /\ r \in Receipt
  <2>1. TypeOK
    BY DEF ChainInv
  <2>2. round[u] \in Nat
    BY <2>1 DEF TypeOK
  <2> QED BY <2>1, <2>2, ReceiptTypes
<1>2. r.id = <<u, 0>> /\ r.id[1] = u /\ r.kind = "cancelled"
  BY DEF Marker
<1>3. Due(u) = round[u] - 1 /\ billed[u] = Due(u)
  <2>1. Due(u) = round[u] - 1 /\ Charged(u) = 0
    BY DEF Due, Charged
  <2>2. committed[u] = round[u] - 1 /\ billed[u] = committed[u] + Charged(u)
    BY DEF ChainInv, CountInv
  <2> QED BY <1>1, <2>1, <2>2
<1>4. /\ Lines(u)' = Lines(u) \cup {n + 1} /\ n + 1 \notin Lines(u)
      /\ LedgerLines'[n + 1].receipt = r
      /\ \A i \in Lines(u) : i <= n /\ LedgerLines'[i] = LedgerLines[i]
      /\ RoundLines(u)' = RoundLines(u) /\ RoundRecs(u)' = RoundRecs(u)
  BY <1>1, <1>2, AppendOwn
<1>5. \A i \in Lines(u) : LedgerLines[i].receipt.kind = "tool"
  BY <1>1, <1>3 DEF RunningOK
<1>6. n \in Nat /\ Lines(u) \subseteq 1..n
  BY <1>1, LinesType
<1> HIDE DEF n, r
<1>7. \A i \in Lines(u)' : LedgerLines'[i].receipt.kind # "final"
  BY <1>2, <1>4, <1>5
<1>8. \E i \in Lines(u)' : LedgerLines'[i].receipt.id = <<u, 0>> /\ \A j \in Lines(u)' : j <= i
  <2>1. n + 1 \in Lines(u)' /\ \A j \in Lines(u)' : j <= n + 1
    BY <1>4, <1>6
  <2> QED BY <1>2, <1>4, <2>1
<1>9. billed[u] = Cardinality(RoundLines(u)') /\ billed[u] = Cardinality(RoundRecs(u)')
  BY <1>3, <1>4 DEF RunningOK
<1> QED BY <1>7, <1>8, <1>9 DEF RunningOK, DoneOK, Kind

\* What a turn's step leaves alone of another turn, and what a caller's step
\* leaves alone of every turn.
SameTurn(u) ==
  /\ pc'[u] = pc[u] /\ round'[u] = round[u] /\ wants'[u] = wants[u] /\ billed'[u] = billed[u]
  /\ result'[u] = result[u] /\ (u \in ioError => u \in ioError')

TurnAction(t) ==
  \/ QuietTurn(t) \/ Persist(t) \/ JournalAppend(t) \/ JournalFails(t) \/ CancelMarked(t)
  \/ \E o \in Failures : PersistFails(t, o) \/ CancelMarkFails(t, o)

\* A step of one turn leaves the others where they are, ...
LEMMA OtherTurns ==
  ASSUME TypeOK, NEW t \in Turns, TurnAction(t), NEW u \in Turns, u # t
  PROVE  SameTurn(u)
<1>0. ControlOK
  BY TypeSplit
<1> USE <1>0 DEF ControlOK, SameTurn, turnVars, Step, Return, Bill
<1>1. CASE \/ Submit(t) \/ SubmitQueueFull(t) \/ StartTurn(t) \/ RefuseTurn(t) \/ Admit(t)
           \/ AdmitRefused(t)
  BY <1>1 DEF Submit, SubmitQueueFull, StartTurn, RefuseTurn, Admit, AdmitRefused
<1>2. CASE (\E w \in BOOLEAN : ProviderReplies(t, w)) \/ ToolsDone(t) \/ RoundFails(t) \/ EnterCommit(t)
  BY <1>2 DEF ProviderReplies, ToolsDone, RoundFails, EnterCommit
<1>3. CASE Finalize(t) \/ FinalizeFails(t) \/ BeginPersist(t) \/ BeginRefused(t)
  BY <1>3 DEF Finalize, FinalizeFails, BeginPersist, BeginRefused
<1>4. CASE EndRound(t) \/ CancelUnmarked(t) \/ Dropped(t)
  BY <1>4 DEF EndRound, CancelUnmarked, Dropped
<1>5. CASE Persist(t) \/ JournalAppend(t) \/ JournalFails(t) \/ CancelMarked(t)
  BY <1>5 DEF Persist, JournalAppend, JournalFails, CancelMarked
<1>6. ASSUME NEW o \in Failures, PersistFails(t, o) \/ CancelMarkFails(t, o) PROVE SameTurn(u)
  BY <1>6 DEF PersistFails, CancelMarkFails
<1> QED BY <1>1, <1>2, <1>3, <1>4, <1>5, <1>6 DEF TurnAction, QuietTurn

\* ... and so does a step of a caller.
LEMMA CallerTurns ==
  ASSUME NEW t, QuietCaller(t), NEW u \in Turns
  PROVE  SameTurn(u)
BY DEF QuietCaller, ReplyArrives, RequestCancel, TimeoutFires, GraceElapsed, HangUp, SameTurn, turnVars

\* A quiet step of u itself.
LEMMA QuietOwn ==
  ASSUME ChainInv, JournalInv, NEW u \in Turns, QuietTurn(u), RunningOK(u), SameLines(u),
         journal' = journal
  PROVE  RunningOK(u)' /\ DoneOK(u)'
<1>0. TypeOK /\ ControlOK /\ CountOK(u) /\ round[u] \in Nat /\ MaxRounds \in Nat
  BY TypeSplit, TurnAssumption DEF ChainInv, CountInv, CountOK, ControlOK
<1>a. pc[u] \notin {"done", "past"} => billed[u] = committed[u] + Charged(u) /\ committed[u] = round[u] - 1
  BY <1>0 DEF CountOK
<1> USE <1>0 DEF Step, Return, turnVars
<1> DEFINE Goal == RunningOK(u)' /\ DoneOK(u)'
           Before == pc[u] \notin {"journal", "after", "done", "past"}
                     /\ pc'[u] \notin {"journal", "after", "done", "past"} /\ round'[u] = round[u]
           Over == pc[u] \notin {"done", "past"} /\ pc'[u] = "done" /\ result'[u] \notin {"ok", "cancelled"}
                   /\ (billed'[u] = Due(u) \/ (u \in StreamTurns /\ result'[u] = "dropped"))
<1>b. ASSUME Before PROVE Goal
  BY <1>b, MoveTurn
<1>c. ASSUME Over PROVE Goal
  BY <1>c, FailTurn
<1>1. CASE Submit(u) \/ StartTurn(u) \/ Admit(u)
  <2>1. Before
    BY <1>1 DEF Submit, StartTurn, Admit, ControlOK
  <2> QED BY <2>1, <1>b
<1>2. CASE (\E w \in BOOLEAN : ProviderReplies(u, w)) \/ ToolsDone(u) \/ EnterCommit(u)
  <2>1. Before
    BY <1>2 DEF ProviderReplies, ToolsDone, EnterCommit, ControlOK
  <2> QED BY <2>1, <1>b
<1>3. CASE Finalize(u) \/ BeginPersist(u) \/ BeginRefused(u)
  <2>1. Before
    BY <1>3 DEF Finalize, BeginPersist, BeginRefused, ControlOK
  <2> QED BY <2>1, <1>b
<1>4. CASE SubmitQueueFull(u) \/ RefuseTurn(u) \/ AdmitRefused(u) \/ RoundFails(u) \/ FinalizeFails(u)
  <2>1. /\ pc[u] \in {"idle", "queued", "admit", "provider", "tools", "finalize"}
        /\ pc'[u] = "done" /\ result'[u] \in {"full", "error"} /\ billed' = billed
    BY <1>4 DEF SubmitQueueFull, RefuseTurn, AdmitRefused, RoundFails, FinalizeFails, ControlOK
  <2>2. Over
    BY <2>1, <1>a DEF Charged, Due
  <2> QED BY <2>2, <1>c
<1>5. CASE Dropped(u)
  <2>1. /\ pc[u] \in Droppable(u) /\ pc'[u] = "done" /\ result'[u] = "dropped" /\ billed' = billed
    BY <1>5 DEF Dropped, ControlOK
  <2>2. /\ Droppable(u) \subseteq {"admit", "provider", "tools", "lock", "finalize", "begin", "after"}
        /\ u \notin StreamTurns => Droppable(u) \subseteq {"provider", "tools", "lock"}
    BY Zenon DEF Droppable
  <2>3. pc[u] \notin {"done", "past"}
    BY <2>1, <2>2
  <2>4. CASE u \in StreamTurns
    <3>1. Over
      BY <2>1, <2>3, <2>4
    <3> QED BY <3>1, <1>c
  <2>5. CASE u \notin StreamTurns
    <3>1. pc[u] \in {"provider", "tools", "lock"}
      BY <2>1, <2>2, <2>5
    <3>2. Over
      BY <2>1, <3>1, <1>a DEF Charged, Due
    <3> QED BY <3>2, <1>c
  <2> QED BY <2>4, <2>5
<1>6. CASE CancelUnmarked(u)
  <2>1. /\ pc[u] = "marker" /\ committed[u] = 0 /\ pc'[u] = "done" /\ result'[u] = "cancelled"
        /\ billed'[u] = billed[u]
    BY <1>6 DEF CancelUnmarked, ControlOK
  <2>2. Due(u) = 0 /\ billed[u] = 0
    BY <2>1, <1>a DEF Due, Charged
  <2>3. Lines(u) = {} /\ Cardinality(RoundLines(u)) = 0 /\ Cardinality(RoundRecs(u)) = 0
    BY <2>1, <2>2 DEF RunningOK
  <2> QED BY <2>1, <2>2, <2>3 DEF RunningOK, DoneOK, SameLines
<1>7. CASE EndRound(u)
  <2>0. pc[u] = "after" /\ Due(u) = round[u] /\ billed' = billed /\ billed[u] = round[u]
    BY <1>7, <1>a DEF EndRound, Due, Charged
  <2>1. CASE wants[u] /\ round[u] < MaxRounds
    <3>1. pc'[u] = "admit" /\ round'[u] = round[u] + 1
      BY <1>7, <2>1 DEF EndRound, ControlOK
    <3>2. Due(u)' = Due(u)
      BY <2>0, <3>1 DEF Due
    <3>3. \A i \in Lines(u) : /\ LedgerLines[i].receipt.id[2] \in 1..round[u]
                              /\ LedgerLines[i].receipt.kind = "tool"
      BY <2>0, <2>1 DEF RunningOK, Minted
    <3>4. \A i \in Lines(u) : LedgerLines[i].receipt.id[2] # round[u] + 1
      BY <3>3
    <3> QED BY <2>0, <3>1, <3>2, <3>3, <3>4 DEF RunningOK, DoneOK, SameLines
  <2>2. CASE ~(wants[u] /\ round[u] < MaxRounds) /\ wants[u]
    <3>1. Over
      BY <1>7, <2>0, <2>2 DEF EndRound, ControlOK
    <3> QED BY <3>1, <1>c
  <2>3. CASE ~wants[u]
    <3>1. pc'[u] = "done" /\ result'[u] = "ok"
      BY <1>7, <2>3 DEF EndRound, ControlOK
    <3>2. Minted(u).kind = "final"
      BY <2>3 DEF Minted
    <3>3. PICK i \in Lines(u) : LedgerLines[i].receipt.id = <<u, round[u]>>
      BY <2>0 DEF RunningOK
    <3>4. LedgerLines[i].receipt.kind = "final"
      BY <2>0, <3>2, <3>3 DEF RunningOK
    <3>5. ASSUME NEW j \in Lines(u), Kind(j) = "final" PROVE LedgerLines[j].receipt.id \in Journaled
      <4>1. LedgerLines[j].receipt.id[2] = round[u]
        BY <2>0, <3>5 DEF RunningOK, Kind
      <4>2. LedgerLines[j].receipt.id \in Ids /\ LedgerLines[j].receipt.id[1] = u
        BY LinesType DEF Receipt, Lines, By
      <4>3. LedgerLines[j].receipt.id = <<u, round[u]>>
        BY <4>1, <4>2 DEF Ids
      <4> QED BY <2>0, <4>3 DEF JournalInv
    <3>6. Acknowledgeable(u)
      BY <3>4, <3>5 DEF Acknowledgeable, Kind
    <3>7. Journaled' = Journaled
      BY DEF Journaled
    <3>8. Acknowledgeable(u)'
      BY <3>6, <3>7 DEF Acknowledgeable, Kind, SameLines
    <3>9. billed'[u] = Cardinality(RoundLines(u)') /\ billed'[u] = Cardinality(RoundRecs(u)')
      BY <2>0 DEF RunningOK, SameLines
    <3> QED BY <3>1, <3>8, <3>9 DEF RunningOK, DoneOK
  <2> QED BY <2>1, <2>2, <2>3
<1> QED BY <1>1, <1>2, <1>3, <1>4, <1>5, <1>6, <1>7 DEF QuietTurn

\* The journal only grows.
LEMMA JournalGrows ==
  ASSUME TypeOK, [Next]_vars
  PROVE  Journaled \subseteq Journaled'
<1>1. journal \in Seq([id : Ids, synthetic : BOOLEAN])
  BY DEF TypeOK
<1>2. \/ journal' = journal
      \/ \E id \in Ids, b \in BOOLEAN : journal' = Append(journal, [id |-> id, synthetic |-> b])
  <2>1. ASSUME NEW t \in Turns, JournalAppend(t) \/ JournalFails(t)
        PROVE  journal' = journal \/ journal' = Append(journal, [id |-> <<t, round[t]>>, synthetic |-> FALSE])
    BY <2>1 DEF JournalAppend, JournalFails, Minted
  <2>2. \A t \in Turns : <<t, round[t]>> \in Ids
    BY DEF TypeOK, Ids
  <2>3. CASE ReconcileAppend
    <3> DEFINE first == First(Orphans(file))
    <3>0. Orphans(file) # {}
      BY <2>3 DEF ReconcileAppend
    <3>1. Orphans(file) \in SUBSET Nat /\ Orphans(file) \subseteq 1..Len(file.lines)
      BY DEF Orphans
    <3>2. first \in 1..Len(file.lines) /\ file.lines \in Seq(Line)
      BY <3>0, <3>1, FirstIsLeast, FileType DEF LogFile
    <3>3. file.lines[first] \in Line
      BY <3>2
    <3>4. file.lines[first].receipt.id \in Ids
      BY <3>3 DEF Line, Receipt
    <3> QED BY <2>3, <3>4 DEF ReconcileAppend
  <2>4. ASSUME NEW t, QuietTurn(t) \/ QuietCaller(t) PROVE journal' = journal
    BY <2>4, Quiet
  <2>5. ASSUME NEW t, Persist(t) \/ CancelMarked(t) PROVE journal' = journal
    BY <2>5 DEF Persist, CancelMarked
  <2>6. ASSUME NEW t, NEW o, PersistFails(t, o) \/ CancelMarkFails(t, o) PROVE journal' = journal
    BY <2>6 DEF PersistFails, CancelMarkFails
  <2>7. ASSUME NEW o, ControlFails(o) PROVE journal' = journal
    BY <2>7 DEF ControlFails
  <2>8. ASSUME \/ ControlReceipt \/ mint_control_receipt \/ Crash \/ Build \/ ReconcileNothing
               \/ ReconcileTruncate \/ UNCHANGED vars
        PROVE  journal' = journal
    BY <2>8 DEF ControlReceipt, mint_control_receipt, Crash, Build, ReconcileNothing,
       ReconcileTruncate, durableVars, vars
  <2>9. ASSUME NEW r, NEW o, CrashWriting(r, o) PROVE journal' = journal
    BY <2>9 DEF CrashWriting
  <2> QED BY <2>1, <2>2, <2>3, <2>4, <2>5, <2>6, <2>7, <2>8, <2>9, NextCases
<1>3. ASSUME NEW x \in Journaled PROVE x \in Journaled'
  <2>1. PICK i \in 1..Len(journal) : x = journal[i].id
    BY DEF Journaled
  <2>2. i \in 1..Len(journal') /\ journal'[i] = journal[i]
    <3>1. CASE journal' = journal
      BY <3>1
    <3>2. ASSUME NEW e, journal' = Append(journal, e) PROVE i \in 1..Len(journal') /\ journal'[i] = journal[i]
      BY <1>1, <3>2
    <3> QED BY <1>2, <3>1, <3>2
  <2> QED BY <2>1, <2>2 DEF Journaled
<1> QED BY <1>3

-----------------------------------------------------------------------------
(* Who writes whose lines *)

\* A turn writes only its own.
LEMMA LinesTurn ==
  ASSUME ChainInv, NEW t \in Turns, TurnAction(t), ~damaged', NEW u \in Turns
  PROVE  ~damaged /\ (u # t => SameLines(u))
<1>0. TypeOK /\ LockInv /\ LogInv
  BY DEF ChainInv
<1>1. CASE QuietTurn(t)
  BY <1>1, Quiet, SameLog DEF LedgerLines
<1>2. CASE Persist(t)
  <2>1. ~damaged /\ mode = "up" /\ file' = WriteLine(file, Minted(t), "ok") /\ pc[t] = "persist"
    BY <1>2 DEF Persist, Step
  <2>2. Minted(t) \in Receipt /\ Minted(t).parent = tail /\ Minted(t).id[1] = t
    BY <1>0, <2>1, ReceiptTypes DEF LockInv, Minted
  <2> QED BY <1>0, <2>1, <2>2, LogWrite, AppendOther
<1>3. CASE CancelMarked(t)
  <2>1. ~damaged /\ mode = "up" /\ file' = WriteLine(file, Marker(t), "ok")
    BY <1>3 DEF CancelMarked, Return, Step
  <2>2. Marker(t) \in Receipt /\ Marker(t).parent = tail /\ Marker(t).id[1] = t
    BY <1>0, ReceiptTypes DEF Marker
  <2> QED BY <1>0, <2>1, <2>2, LogWrite, AppendOther
<1>4. CASE JournalAppend(t) \/ JournalFails(t)
  BY <1>4, SameLog DEF JournalAppend, JournalFails, LedgerLines
<1>5. ASSUME NEW o \in Failures, PersistFails(t, o) \/ CancelMarkFails(t, o)
      PROVE  ~damaged /\ SameLines(u)
  <2>1. \E r : FailedWrite(r, o)
    BY <1>5 DEF PersistFails, CancelMarkFails
  <2> QED BY <2>1, LogFailed, SameLog DEF LedgerLines
<1> QED BY <1>1, <1>2, <1>3, <1>4, <1>5 DEF TurnAction

\* Its write that fails, or that does not touch the log, changes none of them.
LEMMA LinesOwn ==
  ASSUME NEW t \in Turns, ~damaged',
         \/ QuietTurn(t) \/ JournalAppend(t) \/ JournalFails(t)
         \/ \E o \in Failures : PersistFails(t, o) \/ CancelMarkFails(t, o)
  PROVE  ~damaged /\ SameLines(t)
<1>1. CASE QuietTurn(t)
  BY <1>1, Quiet, SameLog DEF LedgerLines
<1>2. CASE JournalAppend(t) \/ JournalFails(t)
  BY <1>2, SameLog DEF JournalAppend, JournalFails, LedgerLines
<1>3. ASSUME NEW o \in Failures, PersistFails(t, o) \/ CancelMarkFails(t, o)
      PROVE  ~damaged /\ SameLines(t)
  <2>1. \E r : FailedWrite(r, o)
    BY <1>3 DEF PersistFails, CancelMarkFails
  <2> QED BY <2>1, LogFailed, SameLog DEF LedgerLines
<1> QED BY <1>1, <1>2, <1>3

\* Callers, control receipts, other processes and a restart write none of them.
Environment ==
  \/ ControlReceipt \/ (\E o \in Failures : ControlFails(o)) \/ mint_control_receipt
  \/ Build \/ ReconcileNothing \/ ReconcileAppend \/ UNCHANGED vars

\* What the control plane, the CLI, a restart and a caller do leaves every turn
\* its lines.
LEMMA LinesEnvironment ==
  ASSUME ChainInv, Environment \/ Crash \/ (\E t : QuietCaller(t)), ~damaged', NEW u \in Turns
  PROVE  ~damaged /\ SameLines(u)
<1>0. TypeOK /\ LogInv /\ {Control, Cli} \cap Turns = {}
  BY TurnAssumption DEF ChainInv
<1>1. CASE ControlReceipt
  <2>1. ~damaged /\ mode = "up" /\ file' = WriteLine(file, ControlMinted, "ok")
    BY <1>1 DEF ControlReceipt
  <2>2. ControlMinted \in Receipt /\ ControlMinted.parent = tail /\ ControlMinted.id[1] = Control
    BY <1>0, ReceiptTypes DEF ControlMinted
  <2> QED BY <1>0, <2>1, <2>2, LogWrite, AppendOther
<1>2. ASSUME NEW o \in Failures, ControlFails(o) PROVE ~damaged /\ SameLines(u)
  BY <1>2, LogFailed, SameLog DEF ControlFails, LedgerLines
<1>3. CASE mint_control_receipt
  <2> DEFINE r == [id |-> <<Cli, clis + 1>>, parent |-> LastId(Repaired(file)), kind |-> "control"]
  <2>1. ~damaged /\ LedgerLines' = Append(LedgerLines, Good(r))
    BY <1>0, <1>3, LogMint DEF mint_control_receipt
  <2>2. r \in Receipt /\ r.id[1] = Cli
    <3>1. LastId(Repaired(file)) \in Ids \cup {NoReceipt}
      BY <1>0, FileType, RepairType, ReceiptTypes
    <3>2. <<Cli, clis + 1>> \in Ids
      BY <1>0 DEF TypeOK, Ids
    <3> QED BY <3>1, <3>2 DEF Receipt
  <2> HIDE DEF r
  <2> QED BY <1>0, <2>1, <2>2, AppendOther
<1>4. CASE Build
  BY <1>0, <1>4, LogBuild, SameLog DEF Build
<1>5. CASE ReconcileNothing \/ ReconcileAppend \/ Crash
  BY <1>5, SameLog DEF ReconcileNothing, ReconcileAppend, Crash, LedgerLines, durableVars
<1>6. CASE UNCHANGED vars
  BY <1>6, SameLog DEF vars, LedgerLines
<1>7. ASSUME NEW t, QuietCaller(t) PROVE ~damaged /\ SameLines(u)
  BY <1>7, Quiet, SameLog DEF LedgerLines
<1> QED BY <1>1, <1>2, <1>3, <1>4, <1>5, <1>6, <1>7 DEF Environment

\* A crash in the middle of a write can add to the lines of the writer only.
LEMMA LinesCrash ==
  ASSUME ChainInv, NEW r \in InFlight, NEW o \in Tears, CrashWriting(r, o), ~damaged', NEW u \in Turns
  PROVE  ~damaged /\ (pc[u] \notin {"persist", "marker"} => SameLines(u))
<1>0. TypeOK /\ LockInv /\ LogInv
  BY DEF ChainInv
<1>1. ~damaged
  BY DEF CrashWriting
<1>2. \A t \in Turns : Minted(t).id[1] = t /\ Marker(t).id[1] = t
  BY DEF Minted, Marker
<1>3. ControlMinted.id[1] # u
  BY TurnAssumption DEF ControlMinted
<1>4. r.id[1] = u => pc[u] \in {"persist", "marker"}
  BY <1>2, <1>3 DEF InFlight
<1>5. r \in Receipt
  BY <1>0, ReceiptTypes
<1> QED BY <1>0, <1>1, <1>4, <1>5, LogCrash, SameLog, AppendOther

\* Truncation removes the lines from some point on.
LEMMA LinesTruncate ==
  ASSUME ChainInv, ReconcileTruncate, ~damaged', NEW u \in Turns
  PROVE  /\ ~damaged /\ mode # "up" /\ pc[u] \in {"idle", "past"}
         /\ Lines(u)' \subseteq Lines(u)
         /\ \A i \in Lines(u)' : LedgerLines'[i] = LedgerLines[i]
<1>0. TypeOK /\ LockInv /\ LogInv
  BY DEF ChainInv
<1>1. ~damaged /\ mode # "up" /\ pc[u] \in {"idle", "past"}
  BY <1>0, TurnAssumption DEF ReconcileTruncate, LockInv
<1>2. \/ LedgerLines' = LedgerLines
      \/ \E k \in 1..Len(LedgerLines) : LedgerLines' = SubSeq(LedgerLines, 1, k - 1)
  BY <1>0, <1>1, LogTruncate DEF LedgerLines
<1>3. CASE LedgerLines' = LedgerLines
  BY <1>1, <1>3 DEF Lines, By
<1>4. ASSUME NEW k \in 1..Len(LedgerLines), LedgerLines' = SubSeq(LedgerLines, 1, k - 1)
      PROVE  Lines(u)' \subseteq Lines(u) /\ \A i \in Lines(u)' : LedgerLines'[i] = LedgerLines[i]
  <2>1. LedgerLines \in Seq(Line)
    BY <1>0, LinesType
  <2>2. Len(LedgerLines') = k - 1 /\ \A i \in 1..(k - 1) : LedgerLines'[i] = LedgerLines[i]
    BY <1>4, <2>1
  <2>3. \A i \in 1..(k - 1) : i \in 1..Len(LedgerLines)
    BY <2>1
  <2> QED BY <2>2, <2>3 DEF Lines, By
<1> QED BY <1>1, <1>2, <1>3, <1>4

\* Next, grouped by who acts.
LEMMA NextGroups ==
  ASSUME [Next]_vars
  PROVE  \/ \E t \in Turns : TurnAction(t)
         \/ \E t \in HttpTurns : QuietCaller(t)
         \/ Environment
         \/ Crash
         \/ \E r \in InFlight, o \in Tears : CrashWriting(r, o)
         \/ ReconcileTruncate
BY NextCases DEF TurnAction, Environment

\* What the environment does leaves every turn where it is.
LEMMA EnvironmentTurns ==
  ASSUME Environment, NEW u \in Turns
  PROVE  SameTurn(u)
BY DEF Environment, ControlReceipt, ControlFails, mint_control_receipt, Build, ReconcileNothing,
   ReconcileAppend, SameTurn, turnVars, vars

-----------------------------------------------------------------------------
(* Every turn stays in step with its lines *)

\* The process is gone: only turns that never started are left.
LEMMA ForgetTurn ==
  ASSUME ChainInv, NEW u \in Turns, RunningOK(u), Forget, pc[u] = "idle" => SameLines(u)
  PROVE  RunningOK(u)' /\ DoneOK(u)'
<1>1. pc[u] # "idle" => pc'[u] = "past"
  BY DEF Forget
<1>2. CASE pc[u] = "idle"
  <2>1. pc'[u] = "idle" /\ round'[u] = round[u]
    BY <1>2 DEF Forget, ChainInv, CountInv
  <2> QED BY <1>2, <2>1, MoveTurn DEF ChainInv
<1> QED BY <1>1, <1>2 DEF RunningOK, DoneOK

\* A turn that has not started has no line.
LEMMA IdleNoLines ==
  ASSUME ChainInv, NEW u \in Turns, RunningOK(u), pc[u] \in {"idle", "queued"}
  PROVE  Lines(u) = {}
<1>1. round[u] = 1 /\ Due(u) = 0
  BY DEF ChainInv, CountInv, Due
<1> QED BY <1>1 DEF RunningOK

\* Every step keeps every turn in step with its lines.
LEMMA NextTurnInv ==
  ASSUME ChainInv, TurnInv, JournalInv, [Next]_vars
  PROVE  TurnInv'
<1> SUFFICES ASSUME ~damaged', NEW u \in Turns PROVE RunningOK(u)' /\ DoneOK(u)'
  BY DEF TurnInv
<1> DEFINE Goal == RunningOK(u)' /\ DoneOK(u)'
<1>0. TypeOK /\ LockInv /\ LogInv /\ ControlOK /\ Journaled \subseteq Journaled'
  BY TypeSplit, JournalGrows DEF ChainInv
<1>a. ~damaged => RunningOK(u) /\ DoneOK(u)
  BY DEF TurnInv
<1>b. ASSUME ~damaged, SameLines(u), SameTurn(u) PROVE Goal
  BY <1>0, <1>a, <1>b, FrameTurn DEF SameTurn
<1>1. ASSUME NEW t \in Turns, TurnAction(t), u # t PROVE Goal
  BY <1>0, <1>1, <1>b, LinesTurn, OtherTurns
<1>2. CASE QuietTurn(u)
  <2>1. ~damaged /\ SameLines(u) /\ journal' = journal
    BY <1>2, LinesOwn, Quiet
  <2> QED BY <1>a, <1>2, <2>1, QuietOwn
<1>3. CASE Persist(u)
  <2>1. ~damaged /\ mode = "up" /\ file' = WriteLine(file, Minted(u), "ok") /\ pc[u] = "persist"
    BY <1>3 DEF Persist, Step
  <2>2. Minted(u) \in Receipt /\ Minted(u).parent = tail
    BY <1>0, <2>1, ReceiptTypes DEF LockInv, Minted
  <2>3. LedgerLines' = Append(LedgerLines, Good(Minted(u)))
    BY <1>0, <2>1, <2>2, LogWrite
  <2>4. pc'[u] = "journal" /\ round'[u] = round[u] /\ wants'[u] = wants[u]
    BY <1>0, <1>3 DEF Persist, Step, turnVars, ControlOK
  <2> QED BY <1>a, <2>1, <2>3, <2>4, PersistTurn
<1>4. CASE JournalAppend(u)
  <2>1. ~damaged /\ SameLines(u)
    BY <1>4, LinesOwn
  <2>2. pc[u] = "journal" /\ pc'[u] = "after" /\ round'[u] = round[u] /\ wants'[u] = wants[u]
    BY <1>0, <1>4 DEF JournalAppend, Step, turnVars, ControlOK
  <2>3. Due(u)' = Due(u) /\ Minted(u)'.kind = Minted(u).kind
    BY <2>2 DEF Due, Minted
  <2> QED BY <1>a, <2>1, <2>2, <2>3 DEF RunningOK, DoneOK, SameLines
<1>5. CASE JournalFails(u)
  <2>1. pc[u] = "journal" /\ pc'[u] = "done" /\ result'[u] = "error" /\ billed' = billed
    BY <1>0, <1>5 DEF JournalFails, Return, Step, ControlOK
  <2>2. billed[u] = Due(u)
    BY <1>0, <2>1 DEF ChainInv, CountInv, Charged, Due, ControlOK
  <2> QED BY <1>0, <1>a, <1>5, <2>1, <2>2, FailTurn, LinesOwn
<1>6. CASE CancelMarked(u)
  <2>1. ~damaged /\ mode = "up" /\ file' = WriteLine(file, Marker(u), "ok") /\ pc[u] = "marker"
    BY <1>6 DEF CancelMarked, Return, Step
  <2>2. Marker(u) \in Receipt /\ Marker(u).parent = tail
    BY <1>0, ReceiptTypes DEF Marker
  <2>3. LedgerLines' = Append(LedgerLines, Good(Marker(u)))
    BY <1>0, <2>1, <2>2, LogWrite
  <2>4. pc'[u] = "done" /\ result'[u] = "cancelled" /\ billed'[u] = billed[u]
    BY <1>0, <1>6 DEF CancelMarked, Return, Step, ControlOK
  <2> QED BY <1>a, <2>1, <2>3, <2>4, MarkTurn
<1>7. ASSUME NEW o \in Failures, PersistFails(u, o) PROVE Goal
  <2>1. /\ pc[u] = "persist" /\ pc'[u] = "done" /\ result'[u] = "error"
        /\ billed'[u] = billed[u] + -1
    BY <1>0, <1>7 DEF PersistFails, Return, Step, Bill, ControlOK
  <2>2. billed'[u] = Due(u)
    BY <1>0, <2>1, TurnAssumption DEF ChainInv, CountInv, Charged, Due, ControlOK
  <2> QED BY <1>0, <1>a, <1>7, <2>1, <2>2, FailTurn, LinesOwn
<1>8. ASSUME NEW o \in Failures, CancelMarkFails(u, o) PROVE Goal
  <2>0. ~damaged /\ SameLines(u)
    BY <1>8, LinesOwn
  <2>1. /\ pc[u] = "marker" /\ pc'[u] = "done" /\ result'[u] = "cancelled" /\ u \in ioError'
        /\ billed' = billed
    BY <1>0, <1>8 DEF CancelMarkFails, Return, Step, ControlOK
  <2>2. billed[u] = Due(u) /\ Due(u) = round[u] - 1 /\ round[u] \in Nat
    BY <1>0, <2>1, TurnAssumption DEF ChainInv, CountInv, Charged, Due, ControlOK
  <2>3. \A i \in Lines(u) : LedgerLines[i].receipt.kind = "tool"
    BY <1>a, <2>0, <2>1, <2>2 DEF RunningOK
  <2>4. billed[u] = Cardinality(RoundLines(u)) /\ billed[u] = Cardinality(RoundRecs(u))
    BY <1>a, <2>0, <2>1, <2>2 DEF RunningOK
  <2> QED BY <2>0, <2>1, <2>3, <2>4 DEF RunningOK, DoneOK, SameLines, Kind
<1>9. ASSUME NEW t \in HttpTurns, QuietCaller(t) PROVE Goal
  BY <1>9, <1>b, CallerTurns, LinesEnvironment
<1>10. CASE Environment
  BY <1>10, <1>b, EnvironmentTurns, LinesEnvironment
<1>11. CASE Crash
  BY <1>11, <1>a, LinesEnvironment, ForgetTurn DEF Crash
<1>12. ASSUME NEW r \in InFlight, NEW o \in Tears, CrashWriting(r, o) PROVE Goal
  BY <1>12, <1>a, LinesCrash, ForgetTurn DEF CrashWriting
<1>13. CASE ReconcileTruncate
  <2>1. ~damaged /\ SameTurn(u) /\ pc[u] \in {"idle", "past"} /\ Lines(u)' \subseteq Lines(u)
    BY <1>13, LinesTruncate DEF ReconcileTruncate, SameTurn, turnVars
  <2>2. CASE pc[u] = "idle"
    <3>1. Lines(u) = {} /\ Lines(u)' = {}
      BY <1>a, <2>1, <2>2, IdleNoLines
    <3>2. SameLines(u)
      BY <3>1 DEF SameLines, RoundLines, RoundRecs
    <3> QED BY <1>b, <2>1, <3>2
  <2>3. CASE pc[u] = "past"
    BY <2>1, <2>3 DEF SameTurn, RunningOK, DoneOK
  <2> QED BY <2>1, <2>2, <2>3
<1> QED
  BY <1>1, <1>2, <1>3, <1>4, <1>5, <1>6, <1>7, <1>8, <1>9, <1>10, <1>11, <1>12, <1>13, NextGroups
  DEF TurnAction

-----------------------------------------------------------------------------
(* The handshake *)

ShakeOK(u) ==
  /\ pc[u] = "persist" <=> phase[u] = "persisting"
  /\ pc[u] \in {"journal", "after"} => phase[u] = "committed"
  /\ ~damaged /\ pc[u] # "past" /\ Uncommitted(u) => Lines(u) = {}

\* What the steps of others leave alone of a caller and its handshake.
SameShake(u) ==
  phase'[u] = phase[u] /\ prev'[u] = prev[u] /\ cpc'[u] = cpc[u] /\ answer'[u] = answer[u]

\* A turn's step leaves the handshakes and callers of other turns alone.
LEMMA OtherShakes ==
  ASSUME TypeOK, NEW t \in Turns, TurnAction(t), NEW u \in Turns, u # t
  PROVE  SameShake(u)
<1>0. ControlOK
  BY TypeSplit
<1> USE <1>0 DEF ControlOK, SameShake, shakeVars, callerVars, Step, Return
<1>1. CASE \/ Submit(t) \/ SubmitQueueFull(t) \/ StartTurn(t) \/ RefuseTurn(t) \/ Admit(t)
           \/ AdmitRefused(t)
  BY <1>1 DEF Submit, SubmitQueueFull, StartTurn, RefuseTurn, Admit, AdmitRefused
<1>2. CASE (\E w \in BOOLEAN : ProviderReplies(t, w)) \/ ToolsDone(t) \/ RoundFails(t) \/ EnterCommit(t)
  BY <1>2 DEF ProviderReplies, ToolsDone, RoundFails, EnterCommit
<1>3. CASE Finalize(t) \/ FinalizeFails(t) \/ BeginPersist(t) \/ BeginRefused(t)
  BY <1>3 DEF Finalize, FinalizeFails, BeginPersist, BeginRefused
<1>4. CASE EndRound(t) \/ CancelUnmarked(t) \/ Dropped(t)
  BY <1>4 DEF EndRound, CancelUnmarked, Dropped
<1>5. CASE Persist(t) \/ JournalAppend(t) \/ JournalFails(t) \/ CancelMarked(t)
  BY <1>5 DEF Persist, JournalAppend, JournalFails, CancelMarked
<1>6. ASSUME NEW o \in Failures, PersistFails(t, o) \/ CancelMarkFails(t, o) PROVE SameShake(u)
  BY <1>6 DEF PersistFails, CancelMarkFails
<1> QED BY <1>1, <1>2, <1>3, <1>4, <1>5, <1>6 DEF TurnAction, QuietTurn

\* A turn's own steps touch the handshake in the commit section only, and the
\* caller only when the turn is submitted.
Plainly(u) ==
  /\ SameShake(u) /\ pc[u] \notin {"idle", "persist", "done", "past"}
  /\ pc'[u] \notin {"idle", "persist", "journal", "past"} /\ (pc'[u] = "after" => pc[u] = "journal")

\* The steps of a turn that touch its handshake or its caller, and the others.
LEMMA OwnShake ==
  ASSUME TypeOK, NEW u \in Turns, TurnAction(u)
  PROVE  \/ Submit(u) \/ SubmitQueueFull(u) \/ BeginPersist(u) \/ Persist(u)
         \/ (\E o \in Failures : PersistFails(u, o)) \/ Plainly(u)
<1>0. ControlOK
  BY TypeSplit
<1> USE <1>0 DEF ControlOK, Plainly, SameShake, shakeVars, callerVars, Step, Return
<1>1. CASE StartTurn(u) \/ RefuseTurn(u) \/ Admit(u) \/ AdmitRefused(u)
  BY <1>1 DEF StartTurn, RefuseTurn, Admit, AdmitRefused
<1>2. CASE (\E w \in BOOLEAN : ProviderReplies(u, w)) \/ ToolsDone(u) \/ RoundFails(u) \/ EnterCommit(u)
  BY <1>2 DEF ProviderReplies, ToolsDone, RoundFails, EnterCommit
<1>3. CASE Finalize(u) \/ FinalizeFails(u) \/ BeginRefused(u)
  BY <1>3 DEF Finalize, FinalizeFails, BeginRefused
<1>4. CASE EndRound(u) \/ CancelUnmarked(u)
  BY <1>4 DEF EndRound, CancelUnmarked
<1>5. CASE JournalAppend(u) \/ JournalFails(u) \/ CancelMarked(u)
  BY <1>5 DEF JournalAppend, JournalFails, CancelMarked
<1>6. ASSUME NEW o \in Failures, CancelMarkFails(u, o) PROVE Plainly(u)
  BY <1>6 DEF CancelMarkFails
<1>7. CASE Dropped(u)
  <2>1. \A from \in Droppable(u) : from \notin {"idle", "persist", "done", "past"}
    BY Zenon DEF Droppable
  <2> QED BY <1>7, <2>1 DEF Dropped
<1> QED BY <1>1, <1>2, <1>3, <1>4, <1>5, <1>6, <1>7 DEF TurnAction, QuietTurn

\* A turn that has a committed round to mark has a line.
LEMMA CommittedLines ==
  ASSUME ChainInv, NEW u \in Turns, RunningOK(u), pc[u] = "marker", committed[u] > 0
  PROVE  Lines(u) # {}
<1>1. committed[u] = round[u] - 1 /\ Due(u) = round[u] - 1
  BY DEF ChainInv, CountInv, Due
<1>2. Cardinality(RoundLines(u)) = committed[u]
  BY <1>1 DEF RunningOK
<1>3. committed[u] \in Nat
  BY TurnAssumption DEF ChainInv, TypeOK
<1>4. RoundLines(u) # {}
  BY <1>2, <1>3, FS_EmptySet
<1> QED BY <1>4 DEF RoundLines

\* A step that keeps the handshake and the lines keeps their agreement.
LEMMA FrameShake ==
  ASSUME NEW u, ShakeOK(u), SameShake(u), pc'[u] = pc[u], ~damaged' => ~damaged /\ SameLines(u)
  PROVE  ShakeOK(u)'
BY DEF ShakeOK, SameShake, Uncommitted, SameLines

\* When the process is gone nothing has a line but what is past.
LEMMA ForgetShake ==
  ASSUME ChainInv, TurnInv, NEW u \in Turns, Forget,
         ~damaged' => ~damaged /\ (pc[u] = "idle" => SameLines(u))
  PROVE  ShakeOK(u)'
<1>1. phase'[u] = "live" /\ pc'[u] = IF pc[u] = "idle" THEN "idle" ELSE "past"
  BY DEF Forget
<1>2. ~damaged' /\ pc[u] = "idle" => Lines(u)' = {}
  BY IdleNoLines DEF TurnInv, SameLines
<1> QED BY <1>1, <1>2 DEF ShakeOK

\* The handshake keeps its agreement with the turn's lines.
LEMMA NextShake ==
  ASSUME ChainInv, TurnInv, ShakeInv, [Next]_vars
  PROVE  ShakeInv'
<1> SUFFICES ASSUME NEW u \in HttpTurns PROVE ShakeOK(u)'
  BY DEF ShakeInv, ShakeOK
<1>0. TypeOK /\ ControlOK /\ u \in Turns /\ ShakeOK(u)
  BY TypeSplit DEF ChainInv, Turns, ShakeInv, ShakeOK
<1>a. ~damaged => RunningOK(u)
  BY <1>0 DEF TurnInv
<1>1. ASSUME NEW t \in Turns, TurnAction(t), u # t PROVE ShakeOK(u)'
  <2>1. SameShake(u) /\ pc'[u] = pc[u]
    BY <1>0, <1>1, OtherShakes, OtherTurns DEF SameTurn
  <2>2. ~damaged' => ~damaged /\ SameLines(u)
    BY <1>0, <1>1, LinesTurn
  <2> QED BY <1>0, <2>1, <2>2, FrameShake
<1>2. CASE TurnAction(u)
  <2>1. CASE Submit(u) \/ SubmitQueueFull(u)
    <3>1. ~damaged' => ~damaged /\ SameLines(u)
      BY <1>0, <2>1, LinesOwn DEF QuietTurn
    <3>2. phase' = phase /\ prev' = prev /\ pc[u] = "idle" /\ pc'[u] \in {"queued", "done"}
      BY <1>0, <2>1 DEF Submit, SubmitQueueFull, Return, Step, shakeVars, ControlOK
    <3> QED BY <1>0, <3>1, <3>2 DEF ShakeOK, Uncommitted, SameLines
  <2>2. CASE BeginPersist(u)
    <3>1. ~damaged' => ~damaged /\ SameLines(u)
      BY <1>0, <2>2, LinesOwn DEF QuietTurn
    <3>2. /\ phase[u] \in {"live", "committed"} /\ phase'[u] = "persisting"
          /\ pc[u] = "begin" /\ pc'[u] = "persist"
      BY <1>0, <2>2 DEF BeginPersist, Step, ControlOK
    <3>3. prev'[u] = (phase[u] = "committed")
      BY <1>0, <2>2 DEF BeginPersist, ControlOK
    <3> QED BY <1>0, <3>1, <3>2, <3>3 DEF ShakeOK, Uncommitted, SameLines
  <2>3. CASE Persist(u)
    <3>1. phase'[u] = "committed" /\ pc'[u] = "journal"
      BY <1>0, <2>3 DEF Persist, Step, ControlOK
    <3> QED BY <3>1 DEF ShakeOK, Uncommitted
  <2>4. ASSUME NEW o \in Failures, PersistFails(u, o) PROVE ShakeOK(u)'
    <3>1. ~damaged' => ~damaged /\ SameLines(u)
      BY <1>0, <2>4, LinesOwn
    <3>2. pc[u] = "persist" /\ pc'[u] = "done" /\ phase'[u] = IF prev[u] THEN "committed" ELSE "live"
      BY <1>0, <2>4 DEF PersistFails, Return, Step, ControlOK
    <3> QED BY <1>0, <3>1, <3>2 DEF ShakeOK, Uncommitted, SameLines
  <2>5. CASE Plainly(u)
    <3>1. CASE CancelMarked(u)
      <4>1. ~damaged' => ~damaged /\ Lines(u) # {}
        BY <1>0, <1>a, <3>1, CommittedLines DEF CancelMarked, Return, Step
      <4>2. pc[u] = "marker" /\ pc'[u] = "done"
        BY <1>0, <3>1 DEF CancelMarked, Return, Step, ControlOK
      <4> QED BY <1>0, <2>5, <4>1, <4>2 DEF Plainly, SameShake, ShakeOK, Uncommitted
    <3>2. CASE ~CancelMarked(u) /\ ~Persist(u)
      <4>1. ~damaged' => ~damaged /\ SameLines(u)
        BY <1>0, <1>2, <3>2, LinesOwn DEF TurnAction
      <4> QED BY <1>0, <2>5, <4>1 DEF Plainly, SameShake, ShakeOK, Uncommitted, SameLines
    <3> QED BY <2>3, <3>1, <3>2
  <2> QED BY <1>0, <1>2, <2>1, <2>2, <2>3, <2>4, <2>5, OwnShake
<1>3. ASSUME NEW t \in HttpTurns, QuietCaller(t) PROVE ShakeOK(u)'
  <2>1. ~damaged' => ~damaged /\ SameLines(u)
    BY <1>0, <1>3, LinesEnvironment
  <2>2. pc' = pc /\ prev' = prev
    BY <1>3 DEF QuietCaller, ReplyArrives, RequestCancel, TimeoutFires, GraceElapsed, HangUp, shakeVars
  <2>3. phase'[u] = phase[u] \/ (phase[u] = "live" /\ phase'[u] = "cancelled")
    BY <1>0, <1>3 DEF QuietCaller, ReplyArrives, RequestCancel, TimeoutFires, GraceElapsed, HangUp,
       shakeVars, ControlOK
  <2> QED BY <1>0, <2>1, <2>2, <2>3 DEF ShakeOK, Uncommitted, SameLines
<1>4. CASE Environment
  <2>1. SameShake(u) /\ pc' = pc
    BY <1>4 DEF Environment, ControlReceipt, ControlFails, mint_control_receipt, Build, ReconcileNothing,
       ReconcileAppend, SameShake, shakeVars, callerVars, vars
  <2> QED BY <1>0, <1>4, <2>1, LinesEnvironment, FrameShake
<1>5. CASE Crash
  BY <1>0, <1>5, LinesEnvironment, ForgetShake DEF Crash
<1>6. ASSUME NEW r \in InFlight, NEW o \in Tears, CrashWriting(r, o) PROVE ShakeOK(u)'
  BY <1>0, <1>6, LinesCrash, ForgetShake DEF CrashWriting
<1>7. CASE ReconcileTruncate
  <2>1. SameShake(u) /\ pc' = pc
    BY <1>7 DEF ReconcileTruncate, SameShake, shakeVars, callerVars
  <2>2. ~damaged' => /\ ~damaged /\ pc[u] \in {"idle", "past"}
                     /\ (pc[u] = "idle" => Lines(u)' = {})
    BY <1>0, <1>7, <1>a, LinesTruncate, IdleNoLines
  <2> QED BY <1>0, <2>1, <2>2 DEF ShakeOK, SameShake
<1> QED BY <1>1, <1>2, <1>3, <1>4, <1>5, <1>6, <1>7, NextGroups

-----------------------------------------------------------------------------
(* The caller's answer *)

\* Truncation removes nothing that the journal names.
LEMMA TruncateKeeps ==
  ASSUME ChainInv, ReconcileTruncate, ~damaged', NEW u \in Turns, NEW i \in Lines(u),
         LedgerLines[i].receipt.id \in Journaled
  PROVE  i \in Lines(u)' /\ LedgerLines'[i] = LedgerLines[i]
<1> DEFINE first == First(Orphans(file))
<1>0. TypeOK /\ LogInv /\ ~damaged /\ LedgerLines \in Seq(Line)
  BY LinesTruncate, LinesType DEF ChainInv
<1>1. CASE file' = file
  BY <1>1 DEF LedgerLines, Lines, By
<1>2. CASE /\ Orphans(file) = first..Len(file.lines) /\ LedgerLines = file.lines
           /\ first \in 1..Len(file.lines) /\ LedgerLines' = SubSeq(LedgerLines, 1, first - 1)
  <2>1. i \in 1..Len(LedgerLines) /\ i \notin Orphans(file)
    BY <1>2 DEF Lines, Orphans
  <2>2. i \notin first..Len(LedgerLines)
    BY <1>2, <2>1
  <2> HIDE DEF first
  <2>3. i \in 1..(first - 1) /\ first - 1 <= Len(LedgerLines)
    BY <1>0, <1>2, <2>1, <2>2
  <2>4. i \in 1..Len(LedgerLines') /\ LedgerLines'[i] = LedgerLines[i]
    BY <1>0, <1>2, <2>3
  <2> QED BY <2>4 DEF Lines, By
<1> QED BY <1>0, <1>1, <1>2, LogTruncate

\* An acknowledgeable turn stays so while its lines stand and the journal grows.
LEMMA FrameAcknowledgeable ==
  ASSUME NEW u, Acknowledgeable(u), SameLines(u), Journaled \subseteq Journaled'
  PROVE  Acknowledgeable(u)'
BY DEF Acknowledgeable, SameLines, Kind

\* ... and the truncation of orphans keeps what is in the journal.
LEMMA TruncateAcknowledgeable ==
  ASSUME ChainInv, ReconcileTruncate, ~damaged', NEW u \in Turns, Acknowledgeable(u),
         Journaled \subseteq Journaled'
  PROVE  Acknowledgeable(u)'
<1>1. PICK i \in Lines(u) : Kind(i) = "final" /\ LedgerLines[i].receipt.id \in Journaled
  BY DEF Acknowledgeable
<1>2. i \in Lines(u)' /\ LedgerLines'[i] = LedgerLines[i]
  BY <1>1, TruncateKeeps
<1>3. Lines(u)' \subseteq Lines(u) /\ \A j \in Lines(u)' : LedgerLines'[j] = LedgerLines[j]
  BY LinesTruncate
<1> QED BY <1>1, <1>2, <1>3 DEF Acknowledgeable, Kind

AnswerOK(u) ==
  /\ pc[u] = "idle" => cpc[u] = "idle"
  /\ pc[u] = "past" => cpc[u] \in {"answered", "lost", "idle"}
  /\ answer[u] # "none" => cpc[u] = "answered"
  /\ answer[u] # "none" => \/ pc[u] \in {"done", "past"}
                           \/ answer[u] = "504" /\ phase[u] = "cancelled"
  /\ answer[u] = "200" /\ ~damaged => Acknowledgeable(u)

\* A caller's step: what it may do to its own answer.
LEMMA CallerAnswer ==
  ASSUME ChainInv, TurnInv, NEW u \in HttpTurns, AnswerOK(u), QuietCaller(u), Journaled \subseteq Journaled'
  PROVE  AnswerOK(u)'
<1>0. TypeOK /\ ControlOK /\ u \in Turns
  BY TypeSplit DEF ChainInv, Turns
<1>1. ~damaged' => ~damaged /\ SameLines(u)
  BY <1>0, LinesEnvironment
<1>2. pc' = pc
  BY DEF QuietCaller, ReplyArrives, RequestCancel, TimeoutFires, GraceElapsed, HangUp
<1>3. cpc[u] \notin {"idle", "answered", "lost"} /\ cpc'[u] # "idle"
  BY <1>0 DEF QuietCaller, ReplyArrives, RequestCancel, TimeoutFires, GraceElapsed, HangUp,
     CallerStep, Answer, ControlOK
<1>4. pc[u] \notin {"idle", "past"} /\ answer[u] = "none"
  BY <1>3 DEF AnswerOK
<1>5. CASE ReplyArrives(u)
  <2>1. pc[u] = "done" /\ cpc'[u] = "answered"
    BY <1>0, <1>5 DEF ReplyArrives, Answer, CallerStep, ControlOK
  <2>2. answer'[u] \in {"503", Status(u)}
    BY <1>0, <1>5 DEF ReplyArrives, Answer, ControlOK
  <2>3. Status(u) = "200" => result[u] = "ok"
    BY Zenon DEF Status
  <2>4. answer'[u] = "200" => result[u] = "ok"
    BY <2>2, <2>3
  <2>5. ~damaged /\ answer'[u] = "200" => Acknowledgeable(u)
    BY <1>0, <2>1, <2>4 DEF TurnInv, DoneOK
  <2>6. ~damaged' /\ answer'[u] = "200" => Acknowledgeable(u)'
    BY <1>1, <2>5, FrameAcknowledgeable
  <2> QED BY <1>2, <2>1, <2>6 DEF AnswerOK
<1>6. CASE GraceElapsed(u)
  <2>1. \/ answer'[u] = "none"
        \/ answer'[u] = "504" /\ cpc'[u] = "answered" /\ phase'[u] = "cancelled"
    BY <1>0, <1>4, <1>6 DEF GraceElapsed, Answer, CallerStep, ControlOK
  <2> QED BY <1>2, <1>4, <2>1 DEF AnswerOK
<1>7. CASE RequestCancel(u) \/ TimeoutFires(u) \/ HangUp(u)
  <2>1. answer' = answer
    BY <1>7 DEF RequestCancel, TimeoutFires, HangUp
  <2> QED BY <1>2, <1>4, <2>1 DEF AnswerOK
<1> QED BY <1>5, <1>6, <1>7 DEF QuietCaller

\* A turn whose caller was told of its end makes no step; one whose caller gave
\* up cannot begin to persist.
LEMMA TurnAnswer ==
  ASSUME ChainInv, ShakeInv, NEW u \in HttpTurns, AnswerOK(u), TurnAction(u)
  PROVE  AnswerOK(u)'
<1>0. TypeOK /\ ControlOK /\ u \in Turns /\ ShakeOK(u)
  BY TypeSplit DEF ChainInv, Turns, ShakeInv, ShakeOK
<1> USE <1>0 DEF ControlOK, AnswerOK, Step, Return
<1>1. CASE Submit(u)
  BY <1>1 DEF Submit
<1>2. CASE SubmitQueueFull(u)
  BY <1>2 DEF SubmitQueueFull
<1>3. CASE BeginPersist(u)
  BY <1>3 DEF BeginPersist, callerVars
<1>4. CASE Persist(u)
  BY <1>4 DEF Persist, callerVars, ShakeOK
<1>5. ASSUME NEW o \in Failures, PersistFails(u, o) PROVE AnswerOK(u)'
  BY <1>5 DEF PersistFails, callerVars, ShakeOK
<1>6. CASE Plainly(u)
  BY <1>6 DEF Plainly, SameShake
<1> QED BY <1>1, <1>2, <1>3, <1>4, <1>5, <1>6, OwnShake

\* A crash ends every turn, but takes back no answer and no line.
LEMMA ForgetAnswer ==
  ASSUME ChainInv, NEW u \in HttpTurns, AnswerOK(u), Forget, answer' = answer, 
         Journaled \subseteq Journaled',
         ~damaged' => ~damaged /\ (pc[u] \notin {"persist", "marker"} => SameLines(u))
  PROVE  AnswerOK(u)'
<1>0. u \in Turns
  BY DEF Turns
<1>1. /\ pc'[u] = IF pc[u] = "idle" THEN "idle" ELSE "past"
      /\ cpc'[u] = IF cpc[u] \in {"idle", "answered"} THEN cpc[u] ELSE "lost"
  BY <1>0 DEF Forget
<1>2. answer[u] = "200" /\ ~damaged' => Acknowledgeable(u)'
  BY FrameAcknowledgeable DEF AnswerOK
<1> QED BY <1>1, <1>2 DEF AnswerOK

\* Only callers have answers.
LEMMA NoCallerNoAnswer ==
  ASSUME ChainInv, AnswerInv, [Next]_vars, NEW u \in Turns \ HttpTurns
  PROVE  answer'[u] = "none"
<1>0. TypeOK /\ ControlOK /\ u \in Turns /\ answer[u] = "none" /\ u \notin HttpTurns
  BY TypeSplit DEF ChainInv, AnswerInv
<1>1. ASSUME NEW t \in Turns, TurnAction(t), u # t PROVE answer'[u] = "none"
  BY <1>0, <1>1, OtherShakes DEF SameShake
<1>2. CASE TurnAction(u)
  <2>1. \/ Submit(u) \/ SubmitQueueFull(u) \/ BeginPersist(u) \/ Persist(u)
        \/ (\E o \in Failures : PersistFails(u, o)) \/ Plainly(u)
    BY <1>0, <1>2, OwnShake
  <2> QED BY <1>0, <2>1 DEF Submit, SubmitQueueFull, BeginPersist, Persist, PersistFails, Plainly,
     SameShake, callerVars, ControlOK
<1>3. ASSUME NEW t \in HttpTurns, QuietCaller(t) PROVE answer'[u] = "none"
  BY <1>0, <1>3 DEF QuietCaller, ReplyArrives, RequestCancel, TimeoutFires, GraceElapsed, HangUp,
     Answer, ControlOK
<1>4. CASE Environment
  BY <1>0, <1>4 DEF Environment, ControlReceipt, ControlFails, mint_control_receipt, Build, ReconcileNothing,
     ReconcileAppend, callerVars, vars
<1>5. CASE Crash \/ ReconcileTruncate
  BY <1>0, <1>5 DEF Crash, ReconcileTruncate, callerVars
<1>6. ASSUME NEW r \in InFlight, NEW o \in Tears, CrashWriting(r, o) PROVE answer'[u] = "none"
  BY <1>0, <1>6 DEF CrashWriting
<1> QED BY <1>1, <1>2, <1>3, <1>4, <1>5, <1>6, NextGroups

\* Answers stay true.
LEMMA NextAnswer ==
  ASSUME ChainInv, TurnInv, ShakeInv, AnswerInv, [Next]_vars
  PROVE  AnswerInv'
<1>0. TypeOK /\ ControlOK /\ Journaled \subseteq Journaled'
  BY TypeSplit, JournalGrows DEF ChainInv
<1>a. \A t \in Turns \ HttpTurns : answer'[t] = "none"
  BY NoCallerNoAnswer
<1> SUFFICES ASSUME NEW u \in HttpTurns PROVE AnswerOK(u)'
  BY <1>a DEF AnswerInv, AnswerOK
<1>b. u \in Turns /\ AnswerOK(u)
  BY DEF Turns, AnswerInv, AnswerOK
<1>c. ASSUME SameShake(u), pc'[u] = pc[u], ~damaged' => ~damaged /\ SameLines(u) PROVE AnswerOK(u)'
  BY <1>0, <1>b, <1>c, FrameAcknowledgeable DEF AnswerOK, SameShake
<1>1. ASSUME NEW t \in Turns, TurnAction(t), u # t PROVE AnswerOK(u)'
  <2>1. SameShake(u) /\ pc'[u] = pc[u]
    BY <1>0, <1>b, <1>1, OtherShakes, OtherTurns DEF SameTurn
  <2> QED BY <1>b, <1>1, <1>c, <2>1, LinesTurn
<1>2. CASE TurnAction(u)
  BY <1>b, <1>2, TurnAnswer
<1>3. ASSUME NEW t \in HttpTurns, QuietCaller(t), t # u PROVE AnswerOK(u)'
  <2>1. SameShake(u) /\ pc'[u] = pc[u]
    BY <1>0, <1>b, <1>3 DEF QuietCaller, ReplyArrives, RequestCancel, TimeoutFires, GraceElapsed, HangUp,
       Answer, CallerStep, SameShake, shakeVars, ControlOK
  <2> QED BY <1>b, <1>3, <1>c, <2>1, LinesEnvironment
<1>4. CASE QuietCaller(u)
  BY <1>0, <1>b, <1>4, CallerAnswer
<1>5. CASE Environment
  <2>1. SameShake(u) /\ pc' = pc
    BY <1>5 DEF Environment, ControlReceipt, ControlFails, mint_control_receipt, Build, ReconcileNothing,
       ReconcileAppend, SameShake, shakeVars, callerVars, vars
  <2> QED BY <1>b, <1>5, <1>c, <2>1, LinesEnvironment
<1>6. CASE Crash
  BY <1>0, <1>b, <1>6, LinesEnvironment, ForgetAnswer DEF Crash
<1>7. ASSUME NEW r \in InFlight, NEW o \in Tears, CrashWriting(r, o) PROVE AnswerOK(u)'
  BY <1>0, <1>b, <1>7, LinesCrash, ForgetAnswer DEF CrashWriting
<1>8. CASE ReconcileTruncate
  <2>1. SameShake(u) /\ pc' = pc
    BY <1>8 DEF ReconcileTruncate, SameShake, shakeVars, callerVars
  <2>2. ~damaged' => ~damaged /\ (Acknowledgeable(u) => Acknowledgeable(u)')
    BY <1>0, <1>b, <1>8, LinesTruncate, TruncateAcknowledgeable
  <2> QED BY <1>b, <2>1, <2>2 DEF AnswerOK, SameShake
<1> QED BY <1>1, <1>2, <1>3, <1>4, <1>5, <1>6, <1>7, <1>8, NextGroups

-----------------------------------------------------------------------------
(* The journal *)

\* What a step does to a turn while nothing is journaled.
Onward(u) ==
  /\ pc'[u] = "after" => pc[u] = "after" /\ round'[u] = round[u]
  /\ pc'[u] \notin {"done", "past"} =>
       /\ pc[u] \notin {"done", "past"}
       /\ \/ round'[u] = round[u] /\ (pc[u] = "after" => pc'[u] = "after")
          \/ round'[u] = round[u] + 1

\* Bytes that the runtime does not know of stay.
LEMMA DamageStays ==
  ASSUME [Next]_vars, ~damaged'
  PROVE  ~damaged
<1>1. ASSUME NEW t, QuietTurn(t) \/ QuietCaller(t) PROVE ~damaged
  BY <1>1, Quiet
<1>2. ASSUME NEW t, Persist(t) \/ JournalAppend(t) \/ JournalFails(t) \/ CancelMarked(t) PROVE ~damaged
  BY <1>2 DEF Persist, JournalAppend, JournalFails, CancelMarked
<1>3. ASSUME NEW t, NEW o, PersistFails(t, o) \/ CancelMarkFails(t, o) \/ ControlFails(o) PROVE ~damaged
  BY <1>3, LogFailed DEF PersistFails, CancelMarkFails, ControlFails
<1>4. ASSUME \/ ControlReceipt \/ mint_control_receipt \/ Crash \/ Build \/ ReconcileNothing \/ ReconcileAppend
             \/ ReconcileTruncate \/ UNCHANGED vars
      PROVE  ~damaged
  BY <1>4 DEF ControlReceipt, mint_control_receipt, Crash, Build, ReconcileNothing, ReconcileAppend,
     ReconcileTruncate, vars
<1>5. ASSUME NEW r, NEW o, CrashWriting(r, o) PROVE ~damaged
  BY <1>5 DEF CrashWriting
<1> QED BY <1>1, <1>2, <1>3, <1>4, <1>5, NextCases

\* The identifiers in the journal.
LEMMA JournalIds ==
  ASSUME TypeOK
  PROVE  /\ Len(journal) \in Nat
         /\ \A i \in 1..Len(journal) : journal[i].id \in Ids /\ journal[i].id[2] \in Nat
<1>1. journal \in Seq([id : Ids, synthetic : BOOLEAN])
  BY DEF TypeOK
<1>2. ASSUME NEW i \in 1..Len(journal) PROVE journal[i].id \in Ids
  <2>1. journal[i] \in [id : Ids, synthetic : BOOLEAN]
    BY <1>1, ElementOfSeq
  <2> QED BY <2>1
<1>3. \A x \in Ids : x[2] \in Nat
  BY DEF Ids
<1> QED BY <1>1, <1>2, <1>3

\* No entry is made and no turn falls behind its entries.
LEMMA FrameJournal ==
  ASSUME TypeOK, JournalInv, ~damaged' => ~damaged, journal' = journal, \A u \in Turns : Onward(u)
  PROVE  JournalInv'
<1>1. ASSUME NEW t \in Turns, pc'[t] = "after" PROVE <<t, round'[t]>> \in Journaled'
  <2>1. Journaled' = Journaled
    BY DEF Journaled
  <2>2. pc[t] = "after" /\ round'[t] = round[t]
    BY <1>1 DEF Onward
  <2> QED BY <2>1, <2>2 DEF JournalInv
<1>2. ASSUME ~damaged', NEW t \in Turns, pc'[t] \notin {"done", "past"}, NEW i \in 1..Len(journal),
             journal[i].id[1] = t
      PROVE  journal[i].id[2] < round'[t] \/ (pc'[t] = "after" /\ journal[i].id[2] = round'[t])
  <2>1. journal[i].id[2] \in Nat /\ round[t] \in Nat
    <3>1. round[t] \in Nat
      BY TurnAssumption DEF TypeOK
    <3> QED BY <3>1, JournalIds
  <2>2. Onward(t) /\ pc[t] \notin {"done", "past"}
    BY <1>2 DEF Onward
  <2>3. journal[i].id[2] < round[t] \/ (pc[t] = "after" /\ journal[i].id[2] = round[t])
    BY <1>2, <2>2 DEF JournalInv
  <2> QED BY <1>2, <2>1, <2>2, <2>3 DEF Onward
<1> QED BY <1>1, <1>2 DEF JournalInv

\* One entry is made, of an identifier that is not there yet and is not ahead of
\* any turn.
LEMMA GrowJournal ==
  ASSUME TypeOK, JournalInv, ~damaged' => ~damaged, NEW id \in Ids, NEW b \in BOOLEAN,
         journal' = Append(journal, [id |-> id, synthetic |-> b]),
         ~damaged => id \notin Journaled,
         \A t \in Turns : /\ pc'[t] = "after" => <<t, round'[t]>> \in Journaled \cup {id}
                          /\ ~damaged /\ pc'[t] \notin {"done", "past"} =>
                               /\ \A i \in 1..Len(journal) : journal[i].id[1] = t =>
                                    \/ journal[i].id[2] < round'[t]
                                    \/ pc'[t] = "after" /\ journal[i].id[2] = round'[t]
                               /\ id[1] = t => pc'[t] = "after" /\ id[2] = round'[t]
  PROVE  JournalInv'
<1> DEFINE n == Len(journal)
<1>0. journal \in Seq([id : Ids, synthetic : BOOLEAN]) /\ n \in Nat
  BY DEF TypeOK
<1>1. /\ Len(journal') = n + 1 /\ journal'[n + 1].id = id
      /\ \A i \in 1..n : journal'[i] = journal[i]
  BY <1>0
<1>2. Journaled' = Journaled \cup {id}
  BY <1>0, <1>1 DEF Journaled
<1>3. ASSUME ~damaged', NEW i \in 1..(n + 1), NEW j \in 1..(n + 1), journal'[i].id = journal'[j].id
      PROVE  i = j
  <2>1. \A k \in 1..n : journal'[k].id = journal[k].id /\ journal[k].id # id
    BY <1>1, <1>3 DEF Journaled
  <2>2. \A k \in 1..(n + 1) : k = n + 1 \/ k \in 1..n
    BY <1>0
  <2>3. i \in 1..n /\ j \in 1..n => journal[i].id = journal[j].id
    BY <1>3, <2>1
  <2> QED BY <1>1, <1>3, <2>1, <2>2, <2>3 DEF JournalInv
<1>4. ASSUME ~damaged', NEW t \in Turns, pc'[t] \notin {"done", "past"}, NEW i \in 1..(n + 1),
             journal'[i].id[1] = t
      PROVE  journal'[i].id[2] < round'[t] \/ (pc'[t] = "after" /\ journal'[i].id[2] = round'[t])
  <2>1. i = n + 1 \/ i \in 1..n
    BY <1>0
  <2>2. CASE i = n + 1
    <3>1. id[1] = t
      BY <1>1, <1>4, <2>2
    <3> QED BY <1>1, <1>4, <2>2, <3>1
  <2>3. CASE i \in 1..n
    <3>1. journal'[i] = journal[i]
      BY <1>1, <2>3
    <3> QED BY <1>4, <2>3, <3>1
  <2> QED BY <2>1, <2>2, <2>3
<1> QED BY <1>1, <1>2, <1>3, <1>4 DEF JournalInv

\* The steps of a turn that journal nothing.
LEMMA OwnOnward ==
  ASSUME ChainInv, NEW u \in Turns, TurnAction(u), ~JournalAppend(u), ~JournalFails(u)
  PROVE  Onward(u)
<1>0. ControlOK
  BY TypeSplit DEF ChainInv
<1> USE <1>0 DEF ControlOK, Onward, turnVars, Step, Return
<1>1. CASE \/ Submit(u) \/ SubmitQueueFull(u) \/ StartTurn(u) \/ RefuseTurn(u) \/ Admit(u)
           \/ AdmitRefused(u)
  BY <1>1 DEF Submit, SubmitQueueFull, StartTurn, RefuseTurn, Admit, AdmitRefused
<1>2. CASE (\E w \in BOOLEAN : ProviderReplies(u, w)) \/ ToolsDone(u) \/ RoundFails(u) \/ EnterCommit(u)
  BY <1>2 DEF ProviderReplies, ToolsDone, RoundFails, EnterCommit
<1>3. CASE Finalize(u) \/ FinalizeFails(u) \/ BeginPersist(u) \/ BeginRefused(u)
  BY <1>3 DEF Finalize, FinalizeFails, BeginPersist, BeginRefused
<1>4. CASE EndRound(u) \/ CancelUnmarked(u) \/ Dropped(u)
  BY <1>4 DEF EndRound, CancelUnmarked, Dropped
<1>5. CASE Persist(u) \/ CancelMarked(u)
  BY <1>5 DEF Persist, CancelMarked
<1>6. ASSUME NEW o \in Failures, PersistFails(u, o) \/ CancelMarkFails(u, o) PROVE Onward(u)
  BY <1>6 DEF PersistFails, CancelMarkFails
<1> QED BY <1>1, <1>2, <1>3, <1>4, <1>5, <1>6 DEF TurnAction, QuietTurn

\* A crash, and a turn that is left alone.
LEMMA ForgetOnward ==
  ASSUME ChainInv, Forget, NEW u \in Turns
  PROVE  Onward(u)
<1>1. pc'[u] = (IF pc[u] = "idle" THEN "idle" ELSE "past") /\ round'[u] = 1
  BY DEF Forget
<1>2. pc[u] = "idle" => round[u] = 1
  BY DEF ChainInv, CountInv
<1> QED BY <1>1, <1>2 DEF Onward

\* A turn that stays where it is moves on in that sense.
LEMMA SameOnward ==
  ASSUME NEW u, SameTurn(u)
  PROVE  Onward(u)
BY DEF SameTurn, Onward

\* The entry of the round that t has just persisted.
LEMMA JournalRound ==
  ASSUME ChainInv, JournalInv, NEW t \in Turns, JournalAppend(t) \/ JournalFails(t)
  PROVE  JournalInv'
<1>0. TypeOK /\ ControlOK /\ <<t, round[t]>> \in Ids
  <2>1. TypeOK /\ ControlOK
    BY TypeSplit DEF ChainInv
  <2> QED BY <2>1, TurnAssumption DEF ControlOK, Ids
<1>1. /\ pc[t] = "journal" /\ pc'[t] \in {"after", "done"} /\ round' = round /\ (~damaged' => ~damaged)
      /\ pc'[t] = "after" => JournalAppend(t)
  BY <1>0 DEF JournalAppend, JournalFails, Return, Step, turnVars, ControlOK
<1>2. \A u \in Turns : u # t => pc'[u] = pc[u]
  BY <1>0 DEF JournalAppend, JournalFails, Return, Step, ControlOK
<1>3. \/ journal' = journal /\ pc'[t] = "done"
      \/ journal' = Append(journal, [id |-> <<t, round[t]>>, synthetic |-> FALSE])
  BY <1>0 DEF JournalAppend, JournalFails, Return, Step, ControlOK, Minted
<1>4. ASSUME ~damaged, NEW u \in Turns, pc[u] \notin {"done", "past", "after"}, NEW i \in 1..Len(journal),
             journal[i].id[1] = u
      PROVE  journal[i].id[2] < round[u]
  BY <1>4 DEF JournalInv
<1>5. CASE journal' = journal /\ pc'[t] = "done"
  <2>1. \A u \in Turns : Onward(u)
    BY <1>1, <1>2, <1>5 DEF Onward
  <2> QED BY <1>0, <1>1, <1>5, <2>1, FrameJournal
<1>6. CASE journal' = Append(journal, [id |-> <<t, round[t]>>, synthetic |-> FALSE])
  <2>1. ~damaged => <<t, round[t]>> \notin Journaled
    <3> SUFFICES ASSUME ~damaged, NEW i \in 1..Len(journal), journal[i].id = <<t, round[t]>> PROVE FALSE
      BY DEF Journaled
    <3>1. journal[i].id[1] = t /\ journal[i].id[2] = round[t]
      OBVIOUS
    <3>2. round[t] < round[t]
      BY <1>1, <1>4, <3>1
    <3>3. round[t] \in Nat
      BY <1>0, TurnAssumption DEF TypeOK
    <3> QED BY <3>2, <3>3
  <2>2. ASSUME NEW u \in Turns, pc'[u] = "after" PROVE <<u, round'[u]>> \in Journaled \cup {<<t, round[t]>>}
    <3>1. CASE u = t
      BY <1>1, <3>1
    <3>2. CASE u # t
      BY <1>1, <1>2, <2>2, <3>2 DEF JournalInv
    <3> QED BY <3>1, <3>2
  <2>3. ASSUME NEW u \in Turns, ~damaged, pc'[u] \notin {"done", "past"}, NEW i \in 1..Len(journal),
               journal[i].id[1] = u
        PROVE  journal[i].id[2] < round'[u] \/ (pc'[u] = "after" /\ journal[i].id[2] = round'[u])
    <3>1. CASE u = t
      BY <1>1, <1>4, <2>3, <3>1
    <3>2. CASE u # t
      BY <1>1, <1>2, <2>3, <3>2 DEF JournalInv
    <3> QED BY <3>1, <3>2
  <2>4. ASSUME NEW u \in Turns, pc'[u] \notin {"done", "past"}, <<t, round[t]>>[1] = u
        PROVE  pc'[u] = "after" /\ <<t, round[t]>>[2] = round'[u]
    BY <1>1, <2>4
  <2> QED BY <1>0, <1>1, <1>6, <2>1, <2>2, <2>3, <2>4, GrowJournal
<1> QED BY <1>3, <1>5, <1>6

\* A running log is what the ledger sees.
LEMMA UpLines ==
  ASSUME LogInv, ~damaged, mode # "down"
  PROVE  LedgerLines = file.lines /\ Sound(file)
BY SoundRepair DEF LogInv, LedgerLines

\* The first orphan is a line of the log, and nothing in the journal names it.
LEMMA FirstOrphan ==
  ASSUME TypeOK, Orphans(file) # {}
  PROVE  LET i == First(Orphans(file)) IN
         /\ i \in 1..Len(file.lines) /\ i \in Orphans(file) /\ \A j \in Orphans(file) : i <= j
         /\ file.lines[i].receipt.id \in Ids /\ file.lines[i].receipt.id \notin Journaled
<1> DEFINE first == First(Orphans(file))
<1>1. Orphans(file) \in SUBSET Nat /\ Orphans(file) \subseteq 1..Len(file.lines)
  BY DEF Orphans
<1>2. first \in Orphans(file) /\ \A j \in Orphans(file) : first <= j
  BY <1>1, FirstIsLeast
<1>3. file.lines \in Seq(Line)
  BY FileType DEF LogFile
<1>4. file.lines[first] \in Line
  BY <1>1, <1>2, <1>3
<1>5. file.lines[first].receipt.id \in Ids
  BY <1>4 DEF Line, Receipt
<1>6. file.lines[first].receipt.id \notin Journaled
  BY <1>2 DEF Orphans
<1> QED BY <1>1, <1>2, <1>5, <1>6

\* A healed orphan is new to the journal, and its turn is past.
LEMMA JournalOrphan ==
  ASSUME ChainInv, TurnInv, JournalInv, ReconcileAppend
  PROVE  JournalInv'
<1> DEFINE first == First(Orphans(file))
           id == file.lines[first].receipt.id
<1>0. TypeOK /\ LockInv /\ LogInv /\ Orphans(file) # {}
  BY DEF ChainInv, ReconcileAppend
<1>1. first \in 1..Len(file.lines) /\ id \in Ids /\ id \notin Journaled
  BY <1>0, FirstOrphan
<1>2. /\ journal' = Append(journal, [id |-> id, synthetic |-> TRUE])
      /\ pc' = pc /\ round' = round /\ damaged' = damaged /\ mode \notin {"up", "down"}
  BY DEF ReconcileAppend, turnVars
<1>3. \A t \in Turns : pc[t] \in {"idle", "past"}
  BY <1>0, <1>2 DEF LockInv
<1>4. ASSUME ~damaged, NEW t \in Turns, id[1] = t PROVE pc[t] = "past"
  <2>1. LedgerLines = file.lines
    BY <1>0, <1>2, <1>4, UpLines
  <2>2. first \in Lines(t)
    BY <1>1, <1>4, <2>1 DEF Lines, By
  <2>3. RunningOK(t)
    BY <1>4 DEF TurnInv
  <2> QED BY <1>3, <2>2, <2>3, IdleNoLines
<1>5. ASSUME NEW t \in Turns, ~damaged, pc[t] \notin {"done", "past"}, NEW i \in 1..Len(journal),
             journal[i].id[1] = t
      PROVE  journal[i].id[2] < round[t] \/ (pc[t] = "after" /\ journal[i].id[2] = round[t])
  BY <1>5 DEF JournalInv
<1> HIDE DEF first, id
<1> QED BY <1>0, <1>1, <1>2, <1>3, <1>4, <1>5, GrowJournal

\* The journal names every receipt once, and none that is still to come.
LEMMA NextJournal ==
  ASSUME ChainInv, TurnInv, JournalInv, [Next]_vars
  PROVE  JournalInv'
<1>0. TypeOK /\ (~damaged' => ~damaged)
  BY DamageStays DEF ChainInv
<1>a. ASSUME journal' = journal, \A u \in Turns : Onward(u) PROVE JournalInv'
  BY <1>0, <1>a, FrameJournal
<1>1. ASSUME NEW t \in Turns, TurnAction(t), ~JournalAppend(t), ~JournalFails(t) PROVE JournalInv'
  <2>1. \A u \in Turns : Onward(u)
    BY <1>0, <1>1, OwnOnward, OtherTurns, SameOnward
  <2>2. journal' = journal
    BY <1>1, Quiet DEF TurnAction, Persist, CancelMarked, PersistFails, CancelMarkFails
  <2> QED BY <1>a, <2>1, <2>2
<1>2. ASSUME NEW t \in Turns, JournalAppend(t) \/ JournalFails(t) PROVE JournalInv'
  BY <1>2, JournalRound
<1>3. ASSUME NEW t \in HttpTurns, QuietCaller(t) PROVE JournalInv'
  BY <1>3, <1>a, CallerTurns, SameOnward, Quiet
<1>4. CASE ReconcileAppend
  BY <1>4, JournalOrphan
<1>5. CASE Environment /\ ~ReconcileAppend
  <2>1. journal' = journal
    BY <1>5 DEF Environment, ControlReceipt, ControlFails, mint_control_receipt, Build, ReconcileNothing,
       durableVars, vars
  <2> QED BY <1>5, <1>a, <2>1, EnvironmentTurns, SameOnward
<1>6. CASE Crash
  BY <1>6, <1>a, ForgetOnward DEF Crash, durableVars
<1>7. ASSUME NEW r \in InFlight, NEW o \in Tears, CrashWriting(r, o) PROVE JournalInv'
  BY <1>7, <1>a, ForgetOnward DEF CrashWriting
<1>8. CASE ReconcileTruncate
  <2>1. journal' = journal /\ \A u \in Turns : SameTurn(u)
    BY <1>8 DEF ReconcileTruncate, SameTurn, turnVars
  <2> QED BY <1>a, <2>1, SameOnward
<1> QED BY <1>1, <1>2, <1>3, <1>4, <1>5, <1>6, <1>7, <1>8, NextGroups

-----------------------------------------------------------------------------
(* Reconciliation *)

ReconciledOK(u) ==
  pc[u] = "past" => \A i \in Lines(u) : Kind(i) # "cancelled" => LedgerLines[i].receipt.id \in Journaled

\* A past turn's lines and the journal's entries stand while a runtime is up.
LEMMA FrameReconciled ==
  ASSUME NEW u, ReconciledOK(u), SameLines(u), Journaled \subseteq Journaled', pc'[u] = "past" => pc[u] = "past"
  PROVE  ReconciledOK(u)'
BY DEF ReconciledOK, SameLines, Kind

\* A log without orphans is reconciled.
LEMMA NoOrphans ==
  ASSUME LedgerLines = file.lines, Orphans(file) = {}, NEW u \in OwnSession
  PROVE  ReconciledOK(u)
BY DEF ReconciledOK, Orphans, Lines, By, Kind

\* The last orphan is healed.
LEMMA HealedLast ==
  ASSUME TypeOK, LogInv, ~damaged, ReconcileAppend, mode' = "up", NEW u \in OwnSession
  PROVE  ReconciledOK(u)'
<1> DEFINE first == First(Orphans(file))
<1>0. LedgerLines = file.lines /\ mode # "down" /\ Orphans(file) # {} /\ LedgerLines' = LedgerLines
  BY UpLines DEF ReconcileAppend, LedgerLines
<1>1. first \in Orphans(file)
  BY <1>0, FirstOrphan
<1>2. Orphans(file) = {first}
  <2>1. Cardinality(Orphans(file)) = 1
    BY <1>0 DEF ReconcileAppend
  <2>2. file.lines \in Seq(Line)
    BY FileType DEF LogFile
  <2>3. Orphans(file) \subseteq 1..Len(file.lines) /\ IsFiniteSet(1..Len(file.lines))
    BY <2>2, FS_Interval DEF Orphans
  <2>4. IsFiniteSet(Orphans(file))
    BY <2>3, FS_Subset
  <2>5. \E x : Orphans(file) = {x}
    BY <2>1, <2>4, FS_Singleton
  <2> QED BY <1>1, <2>5
<1>3. /\ journal \in Seq([id : Ids, synthetic : BOOLEAN])
      /\ journal' = Append(journal, [id |-> file.lines[first].receipt.id, synthetic |-> TRUE])
  BY DEF TypeOK, ReconcileAppend
<1>4. Journaled \subseteq Journaled' /\ file.lines[first].receipt.id \in Journaled'
  <2>1. /\ Len(journal) \in Nat /\ Len(journal') = Len(journal) + 1
        /\ journal'[Len(journal) + 1].id = file.lines[first].receipt.id
        /\ \A i \in 1..Len(journal) : journal'[i] = journal[i]
    BY <1>3
  <2> QED BY <2>1 DEF Journaled
<1>5. ASSUME NEW i \in Lines(u), Kind(i) # "cancelled" PROVE LedgerLines[i].receipt.id \in Journaled'
  <2>1. i \in 1..Len(file.lines) /\ file.lines[i].receipt.id[1] = u /\ file.lines[i].receipt.kind # "cancelled"
    BY <1>0, <1>5 DEF Lines, By, Kind
  <2>2. file.lines[i].receipt.id \in Journaled \/ i \in Orphans(file)
    BY <2>1 DEF Orphans
  <2> QED BY <1>0, <1>2, <1>4, <2>2
<1> QED BY <1>0, <1>5, SameLog DEF ReconciledOK, SameLines, Kind

\* The lines before the first orphan have no orphan among them.
LEMMA TruncatedClean ==
  ASSUME ChainInv, ~damaged', ReconcileTruncate, mode' = "up", NEW u \in OwnSession \cap Turns
  PROVE  ReconciledOK(u)'
<1> DEFINE first == First(Orphans(file))
<1>0. TypeOK /\ LogInv /\ ~damaged /\ LedgerLines \in Seq(Line) /\ journal' = journal
  BY LinesTruncate, LinesType DEF ChainInv, ReconcileTruncate
<1>1. /\ file' = Prefix(file, first - 1) /\ Orphans(file) # {} /\ mode # "down"
      /\ Orphans(file) = first..Len(file.lines)
  BY TurnAssumption DEF ReconcileTruncate
<1>2. LedgerLines = file.lines /\ first \in 1..Len(file.lines)
  BY <1>0, <1>1, UpLines, FirstOrphan
<1>3. Lines(u)' \subseteq Lines(u) /\ \A i \in Lines(u)' : LedgerLines'[i] = LedgerLines[i]
  BY LinesTruncate
<1>4. \A i \in Lines(u)' : i \in 1..(first - 1)
  <2>1. file'.lines = SubSeq(file.lines, 1, first - 1)
    BY <1>1 DEF Prefix
  <2>2. file'.open = FALSE
    BY <1>1 DEF Prefix
  <2>3. LedgerLines' = SubSeq(LedgerLines, 1, first - 1)
    BY <1>2, <2>1, <2>2 DEF LedgerLines, Repaired, TornTail
  <2> HIDE DEF first
  <2>4. Len(LedgerLines') = first - 1
    BY <1>0, <1>2, <2>3
  <2> QED BY <2>4 DEF Lines
<1>5. ASSUME NEW i \in Lines(u)', Kind(i) # "cancelled" PROVE LedgerLines[i].receipt.id \in Journaled
  <2>1. i \in 1..Len(file.lines) /\ file.lines[i].receipt.id[1] = u /\ file.lines[i].receipt.kind # "cancelled"
    BY <1>2, <1>3, <1>5 DEF Lines, By, Kind
  <2>2. i \notin Orphans(file)
    BY <1>1, <1>2, <1>4, <2>1
  <2> QED BY <1>2, <2>1, <2>2 DEF Orphans
<1>6. Journaled' = Journaled
  BY <1>0 DEF Journaled
<1> QED BY <1>3, <1>5, <1>6 DEF ReconciledOK, Kind

\* Reconciliation leaves no orphan, and a runtime that is up adds none to a past turn.
LEMMA NextReconcile ==
  ASSUME ChainInv, TurnInv, ReconcileInv, [Next]_vars
  PROVE  ReconcileInv'
<1> SUFFICES ASSUME mode' = "up", "IgnoreOrphans" \notin Strategies, ~damaged', NEW u \in OwnSession \cap Turns
             PROVE  ReconciledOK(u)'
  BY DEF ReconcileInv, ReconciledOK
<1>0. TypeOK /\ LogInv /\ ControlOK /\ ~damaged /\ Journaled \subseteq Journaled'
  BY TypeSplit, DamageStays, JournalGrows DEF ChainInv
<1>a. ASSUME mode = "up", SameLines(u), pc'[u] = "past" => pc[u] = "past" PROVE ReconciledOK(u)'
  <2>1. ReconciledOK(u)
    BY <1>0, <1>a DEF ReconcileInv, ReconciledOK
  <2> QED BY <1>0, <1>a, <2>1, FrameReconciled
<1>1. ASSUME NEW t \in Turns, TurnAction(t) PROVE ReconciledOK(u)'
  <2>1. mode = "up"
    BY <1>1, Quiet DEF TurnAction, Persist, JournalAppend, JournalFails, CancelMarked, PersistFails,
       CancelMarkFails, Return, Step
  <2>2. CASE u # t
    BY <1>0, <1>1, <1>a, <2>1, <2>2, LinesTurn, OtherTurns DEF SameTurn
  <2>3. CASE u = t
    <3>1. pc'[u] # "past"
      BY <1>0, <1>1, <2>3, OwnShake DEF Submit, SubmitQueueFull, BeginPersist, Persist, PersistFails, Plainly,
         Return, Step, ControlOK
    <3> QED BY <3>1 DEF ReconciledOK
  <2> QED BY <2>2, <2>3
<1>2. ASSUME NEW t \in HttpTurns, QuietCaller(t) PROVE ReconciledOK(u)'
  BY <1>2, <1>a, Quiet, CallerTurns, LinesEnvironment DEF SameTurn
<1>3. CASE ReconcileNothing
  <2>1. SameLines(u) /\ SameTurn(u)
    BY <1>3, LinesEnvironment, EnvironmentTurns DEF Environment
  <2>2. mode # "down" /\ Orphans(file) = {}
    BY <1>3, TurnAssumption DEF ReconcileNothing
  <2>3. ReconciledOK(u)
    BY <1>0, <2>2, UpLines, NoOrphans
  <2> QED BY <1>0, <2>1, <2>3, FrameReconciled DEF SameTurn
<1>4. CASE ReconcileAppend
  BY <1>0, <1>4, HealedLast
<1>5. CASE Build
  BY <1>5, TurnAssumption DEF Build
<1>6. CASE ControlReceipt \/ (\E o \in Failures : ControlFails(o)) \/ mint_control_receipt \/ UNCHANGED vars
  <2>1. mode = "up" /\ Environment
    BY <1>6 DEF Environment, ControlReceipt, ControlFails, mint_control_receipt, vars
  <2> QED BY <1>a, <2>1, EnvironmentTurns, LinesEnvironment DEF SameTurn
<1>7. CASE Crash
  BY <1>7 DEF Crash, Forget
<1>8. ASSUME NEW r \in InFlight, NEW o \in Tears, CrashWriting(r, o) PROVE ReconciledOK(u)'
  BY <1>8 DEF CrashWriting, Forget
<1>9. CASE ReconcileTruncate
  BY <1>9, TruncatedClean
<1> QED BY <1>1, <1>2, <1>3, <1>4, <1>5, <1>6, <1>7, <1>8, <1>9, NextGroups DEF Environment

-----------------------------------------------------------------------------
(* The theorems *)

\* A runtime that has just been started for the first time.
LEMMA InitRest == Init => TurnInv /\ ShakeInv /\ AnswerInv /\ JournalInv /\ ReconcileInv
<1> SUFFICES ASSUME Init PROVE TurnInv /\ ShakeInv /\ AnswerInv /\ JournalInv /\ ReconcileInv
  OBVIOUS
<1>1. LedgerLines = <<>> /\ Len(LedgerLines) = 0
  BY DEF Init, EmptyLog, LedgerLines, Repaired, TornTail
<1>2. \A t : Lines(t) = {} /\ RoundLines(t) = {} /\ RoundRecs(t) = {}
  BY <1>1 DEF Lines, RoundLines, RoundRecs
<1>3. Cardinality({}) = 0
  BY FS_EmptySet
<1>4. \A t \in Turns : pc[t] = "idle" /\ round[t] = 1 /\ phase[t] = "live" /\ cpc[t] = "idle" /\ answer[t] = "none"
  BY DEF Init
<1>5. HttpTurns \subseteq Turns
  BY DEF Turns
<1>6. TurnInv
  <2>1. ASSUME NEW t \in Turns PROVE RunningOK(t) /\ DoneOK(t)
    <3>1. Due(t) = 0
      BY <1>4 DEF Due
    <3>2. Cardinality(RoundLines(t)) = 0 /\ Cardinality(RoundRecs(t)) = 0
      BY <1>2, <1>3
    <3> QED BY <1>2, <1>4, <3>1, <3>2 DEF RunningOK, DoneOK
  <2> QED BY <2>1 DEF TurnInv
<1>7. ShakeInv
  BY <1>2, <1>4, <1>5 DEF ShakeInv
<1>8. AnswerInv
  BY <1>4, <1>5 DEF AnswerInv
<1>9. JournalInv
  <2>1. journal = <<>> /\ Len(journal) = 0
    BY DEF Init
  <2> QED BY <1>4, <2>1 DEF JournalInv
<1>10. ReconcileInv
  BY <1>2 DEF ReconcileInv
<1> QED BY <1>6, <1>7, <1>8, <1>9, <1>10

\* The whole invariant is inductive: no step of a turn, a caller, an operator,
\* another process, a crash or a restart breaks it.
THEOREM TurnInvariant == Spec => []IInv
<1>1. Init => IInv
  BY InitChain, InitRest DEF IInv, ChainInv
<1>2. IInv /\ [Next]_vars => IInv'
  <2> SUFFICES ASSUME IInv, [Next]_vars PROVE IInv'
    OBVIOUS
  <2>1. ChainInv
    BY DEF IInv, ChainInv
  <2>2. ChainInv'
    BY <2>1, NextChain
  <2>3. TurnInv' /\ ShakeInv' /\ AnswerInv' /\ JournalInv' /\ ReconcileInv'
    BY <2>1, NextTurnInv, NextShake, NextAnswer, NextJournal, NextReconcile DEF IInv
  <2> QED BY <2>2, <2>3 DEF IInv, ChainInv
<1> QED BY <1>1, <1>2, PTL DEF Spec

\* What can be read back from the file is what the ledger sees.
LEMMA ReceiptsRead ==
  ASSUME TypeOK, LogInv, ~damaged, NEW t
  PROVE  /\ Receipts(file) = {LedgerLines[i].receipt : i \in 1..Len(LedgerLines)}
         /\ ReceiptsOf(t) = {LedgerLines[i].receipt : i \in Lines(t)}
         /\ RoundReceipts(t) = RoundRecs(t)
<1>1. file.lines \in Seq(Line) /\ Len(file.lines) \in Nat
  BY FileType DEF LogFile
<1>2. Receipts(file) = {LedgerLines[i].receipt : i \in 1..Len(LedgerLines)}
  <2>1. CASE Sound(file)
    <3>1. LedgerLines = file.lines
      BY <2>1, SoundRepair DEF LedgerLines
    <3>2. \A i \in 1..Len(file.lines) : file.lines[i].quality = "good"
      BY <2>1 DEF Sound, Verifies
    <3> QED BY <3>1, <3>2 DEF Receipts
  <2>2. CASE file.lines # <<>> /\ TornTail(file) /\ Sound(Repaired(file))
    <3> DEFINE n == Len(file.lines)
    <3>1. LedgerLines = SubSeq(file.lines, 1, n - 1) /\ file.lines[n].quality = "junk"
      BY <2>2 DEF LedgerLines, Repaired, TornTail
    <3>2. n - 1 \in Nat /\ n \in Nat /\ Len(LedgerLines) = n - 1 /\ \A i \in 1..(n - 1) : LedgerLines[i] = file.lines[i]
      BY <1>1, <2>2, <3>1
    <3>3. \A i \in 1..Len(LedgerLines) : LedgerLines[i].quality = "good"
      BY <2>2 DEF Sound, Verifies, LedgerLines
    <3>4. \A i \in 1..(n - 1) : file.lines[i].quality = "good"
      BY <3>2, <3>3
    <3> HIDE DEF n
    <3>5. {j \in 1..n : file.lines[j].quality = "good"} = 1..(n - 1)
      BY <3>1, <3>2, <3>4
    <3>6. Receipts(file) = {file.lines[i].receipt : i \in 1..(n - 1)}
      BY <3>5 DEF Receipts, n
    <3> QED BY <3>2, <3>6
  <2> QED BY <2>1, <2>2 DEF LogInv
<1>3. ReceiptsOf(t) = {LedgerLines[i].receipt : i \in Lines(t)}
  BY <1>2 DEF ReceiptsOf, Lines, By
<1>4. RoundReceipts(t) = RoundRecs(t)
  BY <1>3 DEF RoundReceipts, RoundRecs, RoundLines, Kind
<1> QED BY <1>2, <1>3, <1>4

\* A turn that is over is billed for exactly the rounds whose receipts are
\* durable: finalize, the write, its rollback, cancellations and dropped futures
\* never separate the charge from the receipt, for any number of turns in flight.
THEOREM TurnBilledIffReceipted == Spec => []BilledIffReceipted
<1>1. IInv => BilledIffReceipted
  <2> SUFFICES ASSUME IInv, NEW t \in Turns, pc[t] = "done", ~damaged,
                      ~(t \in StreamTurns /\ result[t] = "dropped")
               PROVE  billed[t] = Cardinality(RoundReceipts(t)) /\ hold[t] = "none"
    BY DEF BilledIffReceipted
  <2>1. RoundReceipts(t) = RoundRecs(t)
    BY ReceiptsRead DEF IInv
  <2>2. billed[t] = Cardinality(RoundRecs(t))
    BY DEF IInv, TurnInv, DoneOK
  <2>3. hold[t] = "none"
    BY DEF IInv, CountInv, Holding
  <2> QED BY <2>1, <2>2, <2>3
<1> QED BY <1>1, TurnInvariant, PTL

\* A turn cancelled after a committed round leaves its marker as its last
\* receipt, and no final one: record_turn_cancellation is never overtaken.
THEOREM TurnCancelledMarked == Spec => []CancelledTurnMarked
<1>1. IInv => CancelledTurnMarked
  <2> SUFFICES ASSUME IInv, NEW t \in Turns, pc[t] = "done", result[t] = "cancelled", t \notin ioError, ~damaged
               PROVE  \/ ReceiptsOf(t) = {}
                      \/ /\ ~FinalReceipt(t)
                         /\ \E i \in 1..Len(file.lines) :
                              /\ file.lines[i].receipt.id = <<t, 0>>
                              /\ \A j \in (i + 1)..Len(file.lines) : file.lines[j].receipt.id[1] # t
    BY DEF CancelledTurnMarked
  <2>1. mode = "up"
    BY DEF IInv, LockInv
  <2>2. LedgerLines = file.lines /\ LedgerLines \in Seq(Line)
    BY <2>1, UpLines, LinesType DEF IInv
  <2>3. ReceiptsOf(t) = {LedgerLines[i].receipt : i \in Lines(t)}
    BY ReceiptsRead DEF IInv
  <2>4. DoneOK(t)
    BY DEF IInv, TurnInv
  <2>5. ~FinalReceipt(t)
    BY <2>3, <2>4 DEF DoneOK, FinalReceipt, Kind
  <2>6. CASE Lines(t) = {}
    BY <2>3, <2>6
  <2>7. ASSUME NEW i \in Lines(t), LedgerLines[i].receipt.id = <<t, 0>>, \A j \in Lines(t) : j <= i
        PROVE  /\ i \in 1..Len(file.lines) /\ file.lines[i].receipt.id = <<t, 0>>
               /\ \A j \in (i + 1)..Len(file.lines) : file.lines[j].receipt.id[1] # t
    <3>1. i \in 1..Len(file.lines) /\ file.lines[i].receipt.id = <<t, 0>>
      BY <2>2, <2>7 DEF Lines
    <3>2. ASSUME NEW j \in (i + 1)..Len(file.lines) PROVE file.lines[j].receipt.id[1] # t
      <4>1. j \in 1..Len(LedgerLines) /\ ~(j <= i)
        BY <2>2, <3>1
      <4> QED BY <2>2, <2>7, <4>1 DEF Lines, By
    <3> QED BY <3>1, <3>2
  <2> QED BY <2>4, <2>5, <2>6, <2>7 DEF DoneOK
<1> QED BY <1>1, TurnInvariant, PTL

\* What a caller was told with a 200 is on disk and in the journal, and no crash,
\* torn write, repair, truncation or restart takes it away.
THEOREM TurnAcknowledgedDurable == Spec => []AcknowledgedDurable
<1>1. IInv => AcknowledgedDurable
  <2> SUFFICES ASSUME IInv, NEW t \in HttpTurns, answer[t] = "200", ~damaged
               PROVE  FinalReceipt(t) /\ \E r \in ReceiptsOf(t) : r.kind = "final" /\ r.id \in Journaled
    BY DEF AcknowledgedDurable
  <2>1. ReceiptsOf(t) = {LedgerLines[i].receipt : i \in Lines(t)}
    BY ReceiptsRead DEF IInv
  <2>2. Acknowledgeable(t)
    BY DEF IInv, AnswerInv
  <2>3. PICK i \in Lines(t) : Kind(i) = "final" /\ LedgerLines[i].receipt.id \in Journaled
    BY <2>2 DEF Acknowledgeable
  <2> QED BY <2>1, <2>3 DEF FinalReceipt, Kind
<1> QED BY <1>1, TurnInvariant, PTL

\* After a boot the journal names every round receipt of its session that an
\* earlier process left, once: reconciliation interrupted by crashes neither
\* skips an orphan nor heals it twice.
THEOREM TurnReconciled == Spec => []Reconciled
<1>1. IInv => Reconciled
  <2> SUFFICES ASSUME IInv, mode = "up", "IgnoreOrphans" \notin Strategies, ~damaged,
                      NEW t \in OwnSession \cap Turns, pc[t] = "past", NEW r \in RoundReceipts(t)
               PROVE  Cardinality({i \in 1..Len(journal) : journal[i].id = r.id}) = 1
    BY DEF Reconciled
  <2>1. RoundReceipts(t) = RoundRecs(t)
    BY ReceiptsRead DEF IInv
  <2>2. PICK k \in RoundLines(t) : r = LedgerLines[k].receipt
    BY <2>1 DEF RoundRecs
  <2>3. r.id \in Journaled
    BY <2>2 DEF IInv, ReconcileInv, RoundLines, Kind
  <2>4. PICK j \in 1..Len(journal) : journal[j].id = r.id
    BY <2>3 DEF Journaled
  <2>5. {i \in 1..Len(journal) : journal[i].id = r.id} = {j}
    BY <2>4 DEF IInv, JournalInv
  <2> QED BY <2>5, FS_Singleton
<1> QED BY <1>1, TurnInvariant, PTL

-----------------------------------------------------------------------------
\* The turn pipeline implements TurnLedger as long as no write leaves bytes in the
\* log that the runtime does not know of. The refinement mapping is the one of
\* TurnCommit; the proof takes the pipeline's steps one by one and names the step
\* of the ledger each of them is.

(* The mapped variables *)

Entries == [i \in DOMAIN LedgerLines |->
              [by |-> LedgerLines[i].receipt.id[1], kind |-> LedgerLines[i].receipt.kind]]
Meter == [t \in Turns |-> IF Unsettled(t) THEN billed[t] - 1 ELSE billed[t]]

\* A turn the ledger still accepts entries of.
Open(u) ==
  /\ answer[u] = "none" /\ \A i \in Lines(u) : Kind(i) \notin {"final", "cancelled"}
  /\ Meter[u] = Cardinality(RoundLines(u))

\* The ledger's view of a turn's lines.
LEMMA LedgerBy ==
  ASSUME TypeOK, NEW u, NEW K
  PROVE  Ledger!By(u, K) = {i \in Lines(u) : Kind(i) \in K}
<1>1. LedgerLines \in Seq(Line) /\ DOMAIN LedgerLines = 1..Len(LedgerLines)
  BY LinesType
<1> QED BY <1>1 DEF Ledger!By, Lines, By, Kind

\* Cardinality means the same in both modules.
LEMMA LedgerCardinality ==
  ASSUME NEW S
  PROVE  Ledger!Cardinality(S) = Cardinality(S)
BY Zenon DEF Ledger!Cardinality, Cardinality

\* The rounds the ledger counts are the lines of rounds.
LEMMA LedgerRounds ==
  ASSUME TypeOK, NEW u
  PROVE  Ledger!Rounds(u) = Cardinality(RoundLines(u))
<1>1. Ledger!By(u, {"tool", "final"}) = RoundLines(u)
  BY LedgerBy DEF RoundLines
<1> QED BY <1>1, LedgerCardinality DEF Ledger!Rounds

\* A turn that is open here is open to the ledger.
LEMMA LedgerOpen ==
  ASSUME TypeOK, NEW u \in Turns, Open(u)
  PROVE  Ledger!OpenTurn(u)
<1>1. Ledger!By(u, {"final", "cancelled"}) = {}
  BY LedgerBy DEF Open
<1>2. Ledger!Rounds(u) = Cardinality(RoundLines(u))
  BY LedgerRounds
<1> QED BY <1>1, <1>2 DEF Ledger!OpenTurn, Open, Meter

-----------------------------------------------------------------------------
(* The meter: a turn's settled charges *)

MeterOK(u) ==
  /\ Meter[u] = IF pc[u] \in {"begin", "persist"} THEN billed[u] - 1 ELSE billed[u]
  /\ ~(pc[u] = "past") /\ ~(pc[u] = "done" /\ u \in StreamTurns /\ result[u] = "dropped")
       => Meter[u] = Cardinality(RoundLines(u))
  /\ pc[u] \in {"idle", "past"} => Meter[u] = 0
MeterInv == ~damaged => \A u \in Turns : MeterOK(u)

\* A turn's meter shows the rounds that the log holds, unless its process has
\* ended or its stream was dropped after the charge.
LEMMA MeterHolds == IInv => MeterInv
<1> SUFFICES ASSUME IInv, ~damaged, NEW u \in Turns PROVE MeterOK(u)
  BY DEF MeterInv
<1>0. TypeOK /\ CountInv /\ RunningOK(u) /\ DoneOK(u) /\ round[u] \in Nat /\ committed[u] \in Nat /\ billed[u] \in Nat
  <2>1. TypeOK /\ CountInv /\ RunningOK(u) /\ DoneOK(u)
    BY DEF IInv, TurnInv
  <2> QED BY <2>1, TurnAssumption DEF TypeOK
<1>1. hold[u] = "charged" <=> pc[u] \in {"begin", "persist", "journal"}
  BY <1>0 DEF CountInv, Holding
<1>2. Meter[u] = IF pc[u] \in {"begin", "persist"} THEN billed[u] - 1 ELSE billed[u]
  BY <1>1 DEF Meter, Unsettled
<1>3. CASE pc[u] \notin {"done", "past"}
  <2>1. committed[u] = round[u] - 1 /\ billed[u] = committed[u] + Charged(u)
    BY <1>0, <1>3 DEF CountInv
  <2>2. Meter[u] = Due(u)
    BY <1>0, <1>2, <2>1 DEF Charged, Due
  <2>3. Cardinality(RoundLines(u)) = Due(u)
    BY <1>0, <1>3 DEF RunningOK
  <2>4. pc[u] = "idle" => Due(u) = 0
    BY <1>0 DEF CountInv, Due
  <2> QED BY <1>2, <1>3, <2>2, <2>3, <2>4 DEF MeterOK
<1>4. CASE pc[u] = "done"
  BY <1>0, <1>2, <1>4 DEF MeterOK, DoneOK
<1>5. CASE pc[u] = "past"
  BY <1>0, <1>2, <1>5 DEF MeterOK, CountInv
<1> QED BY <1>3, <1>4, <1>5

\* Meters that stand, and one that moves.
LEMMA MeterSame ==
  ASSUME \A u \in Turns : Meter'[u] = Meter[u]
  PROVE  Meter' = Meter
BY DEF Meter

\* One turn is charged one round more.
LEMMA MeterBump ==
  ASSUME NEW t \in Turns, Meter'[t] = Meter[t] + 1, \A u \in Turns : u # t => Meter'[u] = Meter[u]
  PROVE  Meter' = [Meter EXCEPT ![t] = @ + 1]
BY DEF Meter

\* A turn that stays where it is keeps its meter.
LEMMA FrameMeter ==
  ASSUME NEW u, MeterOK(u), MeterOK(u)', SameTurn(u)
  PROVE  Meter'[u] = Meter[u]
BY DEF MeterOK, SameTurn

\* Entries that are added, and entries that are cut.
LEMMA EntriesAppend ==
  ASSUME TypeOK, NEW r \in Receipt, LedgerLines' = Append(LedgerLines, Good(r))
  PROVE  Entries' = Append(Entries, [by |-> r.id[1], kind |-> r.kind])
<1> DEFINE n == Len(LedgerLines)
           e == [by |-> r.id[1], kind |-> r.kind]
           E == [by : Turns \cup {Control, Cli}, kind : {"tool", "final", "cancelled", "control"}]
<1>1. LedgerLines \in Seq(Line) /\ n \in Nat /\ Good(r) \in Line
  BY LinesType DEF Good, Line
<1>2. /\ Len(LedgerLines') = n + 1 /\ LedgerLines'[n + 1].receipt = r /\ DOMAIN LedgerLines' = 1..(n + 1)
      /\ \A i \in 1..n : LedgerLines'[i] = LedgerLines[i]
  BY <1>1 DEF Good
<1>3. Entries \in Seq(E) /\ Len(Entries) = n
  <2>1. \A i \in 1..n : LedgerLines[i] \in Line
    BY <1>1
  <2>2. \A i \in 1..n : [by |-> LedgerLines[i].receipt.id[1], kind |-> LedgerLines[i].receipt.kind] \in E
    BY <2>1 DEF Line, Receipt, Ids
  <2>3. DOMAIN LedgerLines = 1..n
    BY <1>1
  <2>4. Entries \in [1..n -> E]
    BY <2>2, <2>3 DEF Entries
  <2> HIDE DEF E
  <2> QED BY <1>1, <2>4
<1>4. e \in E
  BY DEF Receipt, Ids
<1>5. Entries' = [i \in 1..(n + 1) |-> IF i = n + 1 THEN e ELSE Entries[i]]
  <2>1. \A i \in 1..(n + 1) : i # n + 1 => i \in 1..n
    BY <1>1
  <2>2. DOMAIN LedgerLines = 1..n
    BY <1>1
  <2> HIDE DEF n
  <2> QED BY <1>2, <2>1, <2>2 DEF Entries
<1> HIDE DEF E, e
<1>6. Append(Entries, e) = [i \in 1..(n + 1) |-> IF i = n + 1 THEN e ELSE Entries[i]]
  <2> DEFINE a == Append(Entries, e)
  <2>1. a \in Seq(E) /\ Len(a) = n + 1 /\ a[n + 1] = e /\ \A i \in 1..n : a[i] = Entries[i]
    BY <1>3, <1>4
  <2> HIDE DEF a
  <2>2. a \in [1..(n + 1) -> E]
    BY <2>1
  <2>3. \A i \in 1..(n + 1) : i # n + 1 => i \in 1..n
    BY <1>1
  <2>4. a = [i \in 1..(n + 1) |-> a[i]]
    BY <2>2
  <2>5. \A i \in 1..(n + 1) : a[i] = IF i = n + 1 THEN e ELSE Entries[i]
    BY <2>1, <2>3
  <2> QED BY <2>4, <2>5 DEF a
<1> QED BY <1>5, <1>6 DEF e

\* The entries of a log that is truncated are a prefix.
LEMMA EntriesCut ==
  ASSUME TypeOK, NEW k \in 1..Len(LedgerLines), LedgerLines' = SubSeq(LedgerLines, 1, k - 1)
  PROVE  Entries' = SubSeq(Entries, 1, k - 1) /\ k - 1 \in 0..Len(Entries)
<1> DEFINE n == Len(LedgerLines)
<1>1. LedgerLines \in Seq(Line) /\ n \in Nat /\ DOMAIN LedgerLines = 1..n
  BY LinesType
<1>2. Len(LedgerLines') = k - 1 /\ DOMAIN LedgerLines' = 1..(k - 1) /\ \A i \in 1..(k - 1) : LedgerLines'[i] = LedgerLines[i]
  BY <1>1
<1>3. Len(Entries) = n
  BY <1>1 DEF Entries
<1>4. Entries' = [i \in 1..(k - 1) |-> Entries[i]]
  <2>1. \A i \in 1..(k - 1) : i \in 1..n
    BY <1>1
  <2> HIDE DEF n
  <2> QED BY <1>1, <1>2, <2>1 DEF Entries
<1> HIDE DEF n
<1>5. SubSeq(Entries, 1, k - 1) = [i \in 1..(k - 1) |-> Entries[i]]
  BY <1>1
<1> QED BY <1>1, <1>3, <1>4, <1>5

-----------------------------------------------------------------------------
(* The steps of the ledger *)

Refines == [Ledger!LedgerNext]_(Ledger!ledgerVars)

Allowed(by, kind) ==
  \/ by \in Turns /\ kind \in {"tool", "final"} /\ Open(by)
  \/ by \in Turns /\ kind = "cancelled" /\ Open(by) /\ Cardinality(RoundLines(by)) > 0
  \/ by \in {Control, Cli} /\ kind = "control"

\* A step that changes nothing the ledger sees.
LEMMA LedgerStutter ==
  ASSUME Entries' = Entries, Meter' = Meter, answer' = answer
  PROVE  Refines
BY DEF Refines, Ledger!ledgerVars, Entries, Meter

\* What the pipeline may write the ledger may enter.
LEMMA LedgerMay ==
  ASSUME TypeOK, NEW by, NEW kind, Allowed(by, kind)
  PROVE  /\ Ledger!MayEnter([by |-> by, kind |-> kind])
         /\ by \in Turns \cup {Control, Cli} /\ kind \in Ledger!Kinds
<1>1. CASE by \in Turns /\ kind \in {"tool", "final"} /\ Open(by)
  BY <1>1, LedgerOpen DEF Ledger!MayEnter, Ledger!Kinds
<1>2. CASE by \in Turns /\ kind = "cancelled" /\ Open(by) /\ Cardinality(RoundLines(by)) > 0
  BY <1>2, LedgerOpen, LedgerRounds DEF Ledger!MayEnter, Ledger!Kinds
<1>3. CASE by \in {Control, Cli} /\ kind = "control"
  BY <1>3 DEF Ledger!MayEnter, Ledger!Kinds
<1> QED BY <1>1, <1>2, <1>3 DEF Allowed

\* A line and its charge are the ledger's Enter.
LEMMA LedgerEnter ==
  ASSUME TypeOK, NEW by, NEW kind, Allowed(by, kind), answer' = answer,
         Entries' = Append(Entries, [by |-> by, kind |-> kind]),
         Meter' = IF kind \in {"tool", "final"} THEN [Meter EXCEPT ![by] = @ + 1] ELSE Meter
  PROVE  Refines
<1>1. Ledger!Enter([by |-> by, kind |-> kind])
  BY LedgerMay DEF Ledger!Enter, Entries, Meter
<1> QED BY <1>1, LedgerMay DEF Refines, Ledger!LedgerNext

\* A charge whose line never came, of a stream that was dropped, is the ledger's
\* Overcharge.
LEMMA LedgerOvercharge ==
  ASSUME TypeOK, NEW t \in StreamTurns, Open(t), answer' = answer, Entries' = Entries,
         Meter' = [Meter EXCEPT ![t] = @ + 1]
  PROVE  Refines
<1>0. t \in Turns
  BY DEF Turns
<1>1. Ledger!Overcharge(t)
  BY <1>0, LedgerOpen DEF Ledger!Overcharge, Entries, Meter
<1> QED BY <1>0, <1>1 DEF Refines, Ledger!LedgerNext

\* An answer is the ledger's Tell.
LEMMA LedgerTell ==
  ASSUME TypeOK, NEW t \in Turns, NEW status \in {"200", "502", "503", "504"}, answer[t] = "none",
         status = "200" => \E i \in Lines(t) : Kind(i) = "final",
         status = "504" => \A i \in Lines(t) : Kind(i) # "final",
         answer' = [answer EXCEPT ![t] = status], Entries' = Entries, Meter' = Meter
  PROVE  Refines
<1>1. Ledger!By(t, {"final"}) = {i \in Lines(t) : Kind(i) \in {"final"}}
  BY LedgerBy
<1>2. Ledger!Tell(t, status)
  BY <1>1 DEF Ledger!Tell, Entries, Meter
<1> QED BY <1>2 DEF Refines, Ledger!LedgerNext

\* A crash, with or without a last line, is the ledger's ProcessEnds.
LEMMA LedgerEnds ==
  ASSUME TypeOK, answer' = answer, Meter' = [t \in Turns |-> 0],
         \/ Entries' = Entries
         \/ \E by, kind : Allowed(by, kind) /\ Entries' = Append(Entries, [by |-> by, kind |-> kind])
  PROVE  Refines
<1>1. CASE Entries' = Entries
  <2>1. Ledger!ProcessEnds
    BY <1>1 DEF Ledger!ProcessEnds, Entries, Meter
  <2> QED BY <2>1 DEF Refines, Ledger!LedgerNext
<1>2. ASSUME NEW by, NEW kind, Allowed(by, kind), Entries' = Append(Entries, [by |-> by, kind |-> kind])
      PROVE  Refines
  <2>1. /\ by \in Turns \cup {Control, Cli} /\ kind \in Ledger!Kinds
        /\ Ledger!MayEnter([by |-> by, kind |-> kind])
    BY <1>2, LedgerMay
  <2>2. Ledger!ProcessEnds
    BY <1>2, <2>1 DEF Ledger!ProcessEnds, Entries, Meter
  <2> QED BY <2>2 DEF Refines, Ledger!LedgerNext
<1> QED BY <1>1, <1>2

\* A truncation by reconciliation is the ledger's Cut.
LEMMA LedgerCut ==
  ASSUME TypeOK, answer' = answer, Meter' = Meter, \A t \in Turns : Meter[t] = 0,
         NEW n \in 0..Len(Entries), Entries' = SubSeq(Entries, 1, n),
         \A t \in Turns : answer[t] = "200" => \A i \in Lines(t) : Kind(i) = "final" => i <= n
  PROVE  Refines
<1>1. \A t \in Turns : answer[t] = "200" => \A i \in Ledger!By(t, {"final"}) : i <= n
  BY LedgerBy
<1>2. Ledger!Cut
  BY <1>1 DEF Ledger!Cut, Entries, Meter
<1> QED BY <1>2 DEF Refines, Ledger!LedgerNext

-----------------------------------------------------------------------------
(* The steps of the pipeline *)

\* A turn before its write has only tool rounds behind it, all of them charged.
LEMMA OpenBefore ==
  ASSUME TypeOK, NEW u \in Turns, RunningOK(u), MeterOK(u), answer[u] = "none",
         pc[u] \notin {"journal", "after", "done", "past"}
  PROVE  Open(u)
<1>1. round[u] \in Nat
  BY TurnAssumption DEF TypeOK
<1>2. Due(u) = round[u] - 1
  BY DEF Due
<1>3. \A i \in Lines(u) : LedgerLines[i].receipt.kind = "tool"
  BY <1>1, <1>2 DEF RunningOK
<1> QED BY <1>3 DEF Open, MeterOK, Kind

\* Whoever is about to persist has not been answered: 504 was refused to the
\* caller (must_wait_for_outcome), or begin_persist would have lost.
LEMMA MintedAllowed ==
  ASSUME IInv, MeterInv, ~damaged, NEW u \in Turns, pc[u] = "persist"
  PROVE  Allowed(u, Minted(u).kind)
<1>1. answer[u] = "none"
  BY DEF IInv, ShakeInv, AnswerInv
<1>2. Open(u)
  BY <1>1, OpenBefore DEF IInv, TurnInv, MeterInv
<1> QED BY <1>2 DEF Allowed, Minted

\* A cancelled turn with a committed round has not been answered either.
LEMMA MarkerAllowed ==
  ASSUME IInv, MeterInv, ~damaged, NEW u \in Turns, pc[u] = "marker", committed[u] > 0
  PROVE  Allowed(u, "cancelled")
<1>0. ChainInv /\ RunningOK(u)
  BY DEF IInv, ChainInv, TurnInv
<1>1. Lines(u) # {}
  BY <1>0, CommittedLines
<1>2. u \in HttpTurns => phase[u] # "cancelled"
  BY <1>1 DEF IInv, ShakeInv, Uncommitted
<1>3. answer[u] = "none"
  BY <1>2 DEF IInv, AnswerInv
<1>4. Open(u)
  BY <1>0, <1>3, OpenBefore DEF IInv, MeterInv
<1>5. Cardinality(RoundLines(u)) = committed[u]
  BY <1>0 DEF RunningOK, ChainInv, CountInv, Due
<1> QED BY <1>4, <1>5 DEF Allowed

\* The ledger lets every receipt in that may be in flight.
LEMMA InFlightAllowed ==
  ASSUME IInv, MeterInv, ~damaged, NEW r \in InFlight
  PROVE  r \in Receipt /\ Allowed(r.id[1], r.kind)
<1>1. r \in Receipt
  BY ReceiptTypes DEF IInv
<1>2. ASSUME NEW t \in Turns, pc[t] = "persist", r = Minted(t) PROVE Allowed(r.id[1], r.kind)
  <2>1. r.id[1] = t
    BY <1>2 DEF Minted
  <2> QED BY <1>2, <2>1, MintedAllowed
<1>3. ASSUME NEW t \in Turns, pc[t] = "marker", committed[t] > 0, r = Marker(t) PROVE Allowed(r.id[1], r.kind)
  <2>1. r.id[1] = t /\ r.kind = "cancelled"
    BY <1>3 DEF Marker
  <2> QED BY <1>3, <2>1, MarkerAllowed
<1>4. CASE r = ControlMinted
  <2>1. r.id[1] = Control /\ r.kind = "control"
    BY <1>4 DEF ControlMinted
  <2>2. Allowed(Control, "control")
    BY DEF Allowed
  <2> QED BY <1>1, <2>1, <2>2
<1> QED BY <1>1, <1>2, <1>3, <1>4 DEF InFlight

\* Meters of turns that are left alone.
LEMMA OtherMeters ==
  ASSUME IInv, MeterInv, MeterInv', ~damaged, ~damaged', NEW t \in Turns, TurnAction(t)
  PROVE  \A u \in Turns : u # t => Meter'[u] = Meter[u]
<1> SUFFICES ASSUME NEW u \in Turns, u # t PROVE Meter'[u] = Meter[u]
  OBVIOUS
<1>1. SameTurn(u) /\ MeterOK(u) /\ MeterOK(u)'
  BY OtherTurns DEF IInv, MeterInv
<1> QED BY <1>1, FrameMeter

\* A turn's step that leaves its lines alone leaves its meter alone, unless it
\* drops a stream.
LEMMA OwnMeter ==
  ASSUME MeterInv, MeterInv', ~damaged, ~damaged', NEW t \in Turns, SameLines(t), pc[t] \notin {"done", "past"},
         pc'[t] # "past", ~(pc'[t] = "done" /\ t \in StreamTurns /\ result'[t] = "dropped")
  PROVE  Meter'[t] = Meter[t]
<1>1. MeterOK(t) /\ MeterOK(t)'
  BY DEF MeterInv
<1>2. Meter[t] = Cardinality(RoundLines(t))
  BY <1>1 DEF MeterOK
<1>3. Meter'[t] = Cardinality(RoundLines(t)')
  BY <1>1 DEF MeterOK
<1> QED BY <1>2, <1>3 DEF SameLines

\* Only a dropped future returns that it was dropped.
LEMMA Undropped ==
  ASSUME ControlOK, NEW t \in Turns, TurnAction(t), ~(Dropped(t) /\ t \in StreamTurns)
  PROVE  ~(pc'[t] = "done" /\ t \in StreamTurns /\ result'[t] = "dropped")
<1> USE DEF ControlOK, Step, Return
<1>1. CASE Submit(t) \/ SubmitQueueFull(t) \/ StartTurn(t) \/ RefuseTurn(t) \/ Admit(t) \/ AdmitRefused(t)
  BY <1>1 DEF Submit, SubmitQueueFull, StartTurn, RefuseTurn, Admit, AdmitRefused
<1>2. CASE (\E w \in BOOLEAN : ProviderReplies(t, w)) \/ ToolsDone(t) \/ RoundFails(t) \/ EnterCommit(t)
  BY <1>2 DEF ProviderReplies, ToolsDone, RoundFails, EnterCommit
<1>3. CASE Finalize(t) \/ FinalizeFails(t) \/ BeginPersist(t) \/ BeginRefused(t)
  BY <1>3 DEF Finalize, FinalizeFails, BeginPersist, BeginRefused
<1>4. CASE EndRound(t) \/ CancelUnmarked(t)
  BY <1>4 DEF EndRound, CancelUnmarked
<1>5. CASE Persist(t) \/ JournalAppend(t) \/ JournalFails(t) \/ CancelMarked(t)
  BY <1>5 DEF Persist, JournalAppend, JournalFails, CancelMarked
<1>6. ASSUME NEW o \in Failures, PersistFails(t, o) \/ CancelMarkFails(t, o)
      PROVE  ~(pc'[t] = "done" /\ t \in StreamTurns /\ result'[t] = "dropped")
  BY <1>6 DEF PersistFails, CancelMarkFails
<1> QED BY <1>1, <1>2, <1>3, <1>4, <1>5, <1>6 DEF TurnAction, QuietTurn

\* A turn's step answers nobody, but for a full queue.
LEMMA Untold ==
  ASSUME NEW t \in Turns, TurnAction(t), ~SubmitQueueFull(t)
  PROVE  answer' = answer
<1> USE DEF callerVars
<1>1. CASE QuietTurn(t)
  BY <1>1 DEF QuietTurn, Submit, StartTurn, RefuseTurn, Admit, AdmitRefused, ProviderReplies, ToolsDone,
     RoundFails, EnterCommit, Finalize, FinalizeFails, BeginPersist, BeginRefused, EndRound, CancelUnmarked,
     Dropped
<1>2. CASE Persist(t) \/ JournalAppend(t) \/ JournalFails(t) \/ CancelMarked(t)
  BY <1>2 DEF Persist, JournalAppend, JournalFails, CancelMarked
<1>3. ASSUME NEW o \in Failures, PersistFails(t, o) \/ CancelMarkFails(t, o) PROVE answer' = answer
  BY <1>3 DEF PersistFails, CancelMarkFails
<1> QED BY <1>1, <1>2, <1>3 DEF TurnAction

\* The steps of turns.
LEMMA TurnRefines ==
  ASSUME IInv, MeterInv, MeterInv', ~damaged, ~damaged', NEW t \in Turns, TurnAction(t)
  PROVE  Refines
<1>0. TypeOK /\ ControlOK /\ ChainInv /\ RunningOK(t) /\ LogInv /\ LockInv
  BY TypeSplit DEF IInv, ChainInv, TurnInv
<1>a. \A u \in Turns : u # t => Meter'[u] = Meter[u]
  BY OtherMeters
<1>b. ASSUME LedgerLines' = LedgerLines PROVE Entries' = Entries /\ SameLines(t)
  BY <1>b, SameLog DEF Entries
<1>c. pc[t] \notin {"done", "past"} /\ pc'[t] # "past"
  BY <1>0, OwnShake DEF Plainly, Submit, SubmitQueueFull, BeginPersist, Persist, PersistFails, Return, Step, ControlOK
<1>1. CASE Persist(t)
  <2>1. mode = "up" /\ file' = WriteLine(file, Minted(t), "ok") /\ pc[t] = "persist" /\ answer' = answer
    BY <1>1 DEF Persist, Step, callerVars
  <2>2. Minted(t) \in Receipt /\ Minted(t).parent = tail /\ Minted(t).id[1] = t
    BY <1>0, <2>1, ReceiptTypes DEF LockInv, Minted
  <2>3. LedgerLines' = Append(LedgerLines, Good(Minted(t)))
    BY <1>0, <2>1, <2>2, LogWrite
  <2>4. Entries' = Append(Entries, [by |-> t, kind |-> Minted(t).kind])
    BY <1>0, <2>2, <2>3, EntriesAppend
  <2>5. Minted(t).kind \in {"tool", "final"}
    BY DEF Minted
  <2>6. Meter'[t] = Meter[t] + 1
    <3>1. MeterOK(t) /\ MeterOK(t)' /\ billed' = billed /\ pc'[t] = "journal"
      BY <1>0, <1>1 DEF MeterInv, Persist, Step, ControlOK
    <3>2. billed[t] \in Nat
      BY <1>0, TurnAssumption DEF ControlOK
    <3> QED BY <2>1, <3>1, <3>2 DEF MeterOK
  <2>7. Meter' = [Meter EXCEPT ![t] = @ + 1]
    BY <1>a, <2>6, MeterBump
  <2> QED BY <1>0, <2>1, <2>4, <2>5, <2>7, MintedAllowed, LedgerEnter
<1>2. CASE CancelMarked(t)
  <2>1. /\ mode = "up" /\ file' = WriteLine(file, Marker(t), "ok") /\ pc[t] = "marker" /\ pc'[t] = "done"
        /\ committed[t] > 0 /\ result'[t] = "cancelled" /\ answer' = answer /\ billed' = billed
    BY <1>0, <1>2 DEF CancelMarked, Return, Step, callerVars, ControlOK
  <2>2. Marker(t) \in Receipt /\ Marker(t).parent = tail /\ Marker(t).id[1] = t /\ Marker(t).kind = "cancelled"
    BY <1>0, ReceiptTypes DEF Marker
  <2>3. LedgerLines' = Append(LedgerLines, Good(Marker(t)))
    BY <1>0, <2>1, <2>2, LogWrite
  <2>4. Entries' = Append(Entries, [by |-> t, kind |-> "cancelled"])
    BY <1>0, <2>2, <2>3, EntriesAppend
  <2>5. MeterOK(t) /\ MeterOK(t)'
    BY DEF MeterInv
  <2>6. Meter'[t] = Meter[t]
    BY <2>1, <2>5 DEF MeterOK
  <2>7. Meter' = Meter
    BY <1>a, <2>6, MeterSame
  <2> QED BY <1>0, <2>1, <2>4, <2>7, MarkerAllowed, LedgerEnter
<1>3. CASE Dropped(t) /\ t \in StreamTurns
  <2>1. /\ LedgerLines' = LedgerLines /\ billed' = billed /\ answer' = answer /\ pc'[t] = "done"
        /\ pc[t] \in Droppable(t)
    BY <1>0, <1>3 DEF Dropped, Return, Step, durableVars, callerVars, LedgerLines, ControlOK
  <2>2. Droppable(t) = {"admit", "provider", "tools", "lock", "finalize", "begin", "after"}
    <3>1. t \in StreamTurns /\ t \notin PlainTurns
      BY <1>3, TurnAssumption
    <3> QED BY <3>1, Zenon DEF Droppable
  <2>3. MeterOK(t) /\ MeterOK(t)' /\ billed[t] \in Nat
    BY <1>0, TurnAssumption DEF MeterInv, ControlOK
  <2>4. CASE pc[t] # "begin"
    <3>1. Meter'[t] = Meter[t]
      BY <2>1, <2>2, <2>3, <2>4 DEF MeterOK
    <3> QED BY <1>a, <1>b, <2>1, <3>1, MeterSame, LedgerStutter
  <2>5. CASE pc[t] = "begin"
    <3>1. Meter'[t] = Meter[t] + 1
      BY <2>1, <2>3, <2>5 DEF MeterOK
    <3>2. t \notin HttpTurns
      BY <1>3, TurnAssumption
    <3>3. answer[t] = "none"
      BY <3>2 DEF IInv, AnswerInv
    <3>4. Open(t)
      BY <1>0, <2>3, <2>5, <3>3, OpenBefore
    <3> QED BY <1>0, <1>a, <1>b, <1>3, <2>1, <3>1, <3>4, MeterBump, LedgerOvercharge
  <2> QED BY <2>4, <2>5
<1>4. CASE SubmitQueueFull(t)
  <2>1. /\ LedgerLines' = LedgerLines /\ pc'[t] = "done" /\ result'[t] = "full" /\ pc[t] = "idle"
        /\ answer' = [answer EXCEPT ![t] = IF t \in HttpTurns THEN "503" ELSE @]
    BY <1>0, <1>4 DEF SubmitQueueFull, Return, Step, durableVars, LedgerLines, ControlOK
  <2>2. Meter' = Meter /\ Entries' = Entries
    BY <1>a, <1>b, <1>c, <2>1, OwnMeter, MeterSame
  <2>3. CASE t \in HttpTurns
    <3>1. answer[t] = "none"
      BY <2>1, <2>3 DEF IInv, AnswerInv
    <3> QED BY <1>0, <2>1, <2>2, <2>3, <3>1, LedgerTell
  <2>4. CASE t \notin HttpTurns
    <3>1. answer' = answer
      BY <1>0, <2>1, <2>4 DEF ControlOK
    <3> QED BY <2>2, <3>1, LedgerStutter
  <2> QED BY <2>3, <2>4
<1>5. CASE ~Persist(t) /\ ~CancelMarked(t) /\ ~(Dropped(t) /\ t \in StreamTurns) /\ ~SubmitQueueFull(t)
  <2>1. LedgerLines' = LedgerLines
    <3>1. CASE QuietTurn(t)
      BY <3>1, Quiet DEF LedgerLines
    <3>2. CASE JournalAppend(t) \/ JournalFails(t)
      BY <3>2 DEF JournalAppend, JournalFails, LedgerLines
    <3>3. ASSUME NEW o \in Failures, PersistFails(t, o) \/ CancelMarkFails(t, o) PROVE LedgerLines' = LedgerLines
      <4>1. \E r : FailedWrite(r, o)
        BY <3>3 DEF PersistFails, CancelMarkFails
      <4> QED BY <4>1, LogFailed DEF LedgerLines
    <3> QED BY <1>5, <3>1, <3>2, <3>3 DEF TurnAction
  <2>2. ~(pc'[t] = "done" /\ t \in StreamTurns /\ result'[t] = "dropped")
    BY <1>0, <1>5, Undropped
  <2>3. answer' = answer
    BY <1>5, Untold DEF TurnAction, QuietTurn
  <2>4. Meter' = Meter
    BY <1>a, <1>b, <1>c, <2>1, <2>2, OwnMeter, MeterSame
  <2> QED BY <1>b, <2>1, <2>3, <2>4, LedgerStutter
<1> QED BY <1>1, <1>2, <1>3, <1>4, <1>5

\* The steps of callers: an answer is told once, and it is true.
LEMMA CallerRefines ==
  ASSUME IInv, MeterInv, MeterInv', ~damaged, ~damaged', NEW t \in HttpTurns, QuietCaller(t)
  PROVE  Refines
<1>0. TypeOK /\ ControlOK /\ t \in Turns /\ DoneOK(t) /\ AnswerOK(t) /\ ShakeOK(t)
  BY TypeSplit DEF IInv, Turns, TurnInv, AnswerInv, AnswerOK, ShakeInv, ShakeOK
<1>1. Entries' = Entries
  BY Quiet DEF Entries, LedgerLines
<1>2. Meter' = Meter
  <2>1. \A u \in Turns : SameTurn(u) /\ MeterOK(u) /\ MeterOK(u)'
    BY CallerTurns DEF MeterInv
  <2> QED BY <2>1, FrameMeter, MeterSame
<1>3. cpc[t] \notin {"idle", "answered", "lost"}
  BY <1>0 DEF QuietCaller, ReplyArrives, RequestCancel, TimeoutFires, GraceElapsed, HangUp,
     CallerStep, Answer, ControlOK
<1>4. answer[t] = "none" /\ pc[t] # "past"
  BY <1>0, <1>3 DEF AnswerOK
<1>5. CASE ReplyArrives(t)
  <2>1. /\ pc[t] = "done"
        /\ answer' = [answer EXCEPT ![t] = Status(t)] \/ answer' = [answer EXCEPT ![t] = "503"]
    BY <1>5 DEF ReplyArrives, Answer
  <2>2. /\ Status(t) \in {"200", "502", "503", "504"} /\ (Status(t) = "200" => result[t] = "ok")
        /\ Status(t) = "504" => result[t] = "cancelled"
    BY Zenon DEF Status
  <2>3. result[t] = "ok" => \E i \in Lines(t) : Kind(i) = "final"
    BY <1>0, <2>1 DEF DoneOK, Acknowledgeable
  <2>4. result[t] = "cancelled" => \A i \in Lines(t) : Kind(i) # "final"
    BY <1>0, <2>1 DEF DoneOK
  <2>5. CASE answer' = [answer EXCEPT ![t] = Status(t)]
    BY <1>0, <1>1, <1>2, <1>4, <2>2, <2>3, <2>4, <2>5, LedgerTell
  <2>6. CASE answer' = [answer EXCEPT ![t] = "503"]
    BY <1>0, <1>1, <1>2, <1>4, <2>6, LedgerTell
  <2> QED BY <2>1, <2>5, <2>6
<1>6. CASE GraceElapsed(t)
  <2>1. CASE phase[t] \in {"persisting", "committed"}
    BY <1>1, <1>2, <1>6, <2>1, LedgerStutter DEF GraceElapsed
  <2>2. CASE phase[t] \notin {"persisting", "committed"}
    <3>1. phase[t] \in {"live", "cancelled"}
      BY <1>0, <2>2 DEF ControlOK
    <3>2. Lines(t) = {}
      BY <1>0, <1>4, <3>1 DEF ShakeOK, Uncommitted
    <3>3. answer' = [answer EXCEPT ![t] = "504"]
      BY <1>6, <2>2 DEF GraceElapsed, Answer
    <3> QED BY <1>0, <1>1, <1>2, <1>4, <3>2, <3>3, LedgerTell
  <2> QED BY <2>1, <2>2
<1>7. CASE RequestCancel(t) \/ TimeoutFires(t) \/ HangUp(t)
  <2>1. answer' = answer
    BY <1>7 DEF RequestCancel, TimeoutFires, HangUp
  <2> QED BY <1>1, <1>2, <2>1, LedgerStutter
<1> QED BY <1>5, <1>6, <1>7 DEF QuietCaller

\* Control receipts, receipts of another process, and a restart.
LEMMA EnvironmentRefines ==
  ASSUME IInv, MeterInv, MeterInv', ~damaged, ~damaged', Environment
  PROVE  Refines
<1>0. TypeOK /\ LogInv
  BY DEF IInv
<1>1. Meter' = Meter
  <2>1. \A u \in Turns : SameTurn(u) /\ MeterOK(u) /\ MeterOK(u)'
    BY EnvironmentTurns DEF MeterInv
  <2> QED BY <2>1, FrameMeter, MeterSame
<1>2. answer' = answer
  BY DEF Environment, ControlReceipt, ControlFails, mint_control_receipt, Build, ReconcileNothing,
     ReconcileAppend, callerVars, vars
<1>a. ASSUME LedgerLines' = LedgerLines PROVE Refines
  BY <1>a, <1>1, <1>2, LedgerStutter DEF Entries
<1>b. ASSUME NEW r \in Receipt, LedgerLines' = Append(LedgerLines, Good(r)), r.id[1] \in {Control, Cli},
             r.kind = "control"
      PROVE  Refines
  <2>1. Entries' = Append(Entries, [by |-> r.id[1], kind |-> "control"])
    BY <1>0, <1>b, EntriesAppend
  <2>2. Allowed(r.id[1], "control")
    BY <1>b DEF Allowed
  <2> QED BY <1>0, <1>1, <1>2, <2>1, <2>2, LedgerEnter
<1>3. CASE ControlReceipt
  <2>1. mode = "up" /\ file' = WriteLine(file, ControlMinted, "ok")
    BY <1>3 DEF ControlReceipt
  <2>2. /\ ControlMinted \in Receipt /\ ControlMinted.parent = tail
        /\ ControlMinted.id[1] = Control /\ ControlMinted.kind = "control"
    BY <1>0, ReceiptTypes DEF ControlMinted
  <2> QED BY <1>0, <1>b, <2>1, <2>2, LogWrite
<1>4. ASSUME NEW o \in Failures, ControlFails(o) PROVE Refines
  BY <1>4, <1>a, LogFailed DEF ControlFails, LedgerLines
<1>5. CASE mint_control_receipt
  <2> DEFINE r == [id |-> <<Cli, clis + 1>>, parent |-> LastId(Repaired(file)), kind |-> "control"]
  <2>1. LedgerLines' = Append(LedgerLines, Good(r))
    BY <1>0, <1>5, LogMint
  <2>2. r \in Receipt /\ r.id[1] = Cli /\ r.kind = "control"
    <3>1. LastId(Repaired(file)) \in Ids \cup {NoReceipt}
      BY <1>0, FileType, RepairType, ReceiptTypes
    <3>2. <<Cli, clis + 1>> \in Ids
      BY <1>0 DEF TypeOK, Ids
    <3> QED BY <3>1, <3>2 DEF Receipt
  <2> HIDE DEF r
  <2> QED BY <1>b, <2>1, <2>2
<1>6. CASE Build
  BY <1>0, <1>6, <1>a, LogBuild
<1>7. CASE ReconcileNothing \/ ReconcileAppend \/ UNCHANGED vars
  BY <1>7, <1>a DEF ReconcileNothing, ReconcileAppend, durableVars, vars, LedgerLines
<1> QED BY <1>3, <1>4, <1>5, <1>6, <1>7 DEF Environment

\* The process ends, in the middle of a write or not.
LEMMA CrashRefines ==
  ASSUME IInv, MeterInv, ~damaged, ~damaged',
         Crash \/ \E r \in InFlight, o \in Tears : CrashWriting(r, o)
  PROVE  Refines
<1>0. TypeOK /\ LogInv /\ LockInv
  BY DEF IInv
<1>1. Forget /\ answer' = answer
  BY DEF Crash, CrashWriting
<1>2. Meter' = [t \in Turns |-> 0]
  BY <1>1 DEF Forget, Meter, Unsettled
<1>3. CASE Crash
  <2>1. Entries' = Entries
    BY <1>3 DEF Crash, durableVars, Entries, LedgerLines
  <2> QED BY <1>0, <1>1, <1>2, <2>1, LedgerEnds
<1>4. ASSUME NEW r \in InFlight, NEW o \in Tears, CrashWriting(r, o) PROVE Refines
  <2>1. LedgerLines' = LedgerLines \/ LedgerLines' = Append(LedgerLines, Good(r))
    BY <1>0, <1>4, LogCrash
  <2>2. r \in Receipt /\ Allowed(r.id[1], r.kind)
    BY InFlightAllowed
  <2>3. Entries' = Entries \/ Entries' = Append(Entries, [by |-> r.id[1], kind |-> r.kind])
    BY <1>0, <2>1, <2>2, EntriesAppend DEF Entries
  <2> QED BY <1>0, <1>1, <1>2, <2>2, <2>3, LedgerEnds
<1> QED BY <1>3, <1>4

\* Truncation cuts the ledger, behind everything a caller was told of.
LEMMA TruncateRefines ==
  ASSUME IInv, MeterInv, MeterInv', ~damaged, ~damaged', ReconcileTruncate
  PROVE  Refines
<1> DEFINE first == First(Orphans(file))
<1>0. ChainInv /\ TypeOK /\ LogInv
  BY DEF IInv, ChainInv
<1>1. answer' = answer /\ \A u \in Turns : SameTurn(u) /\ pc[u] \in {"idle", "past"}
  BY <1>0, LinesTruncate DEF ReconcileTruncate, callerVars, turnVars, SameTurn
<1>2. Meter' = Meter /\ \A u \in Turns : Meter[u] = 0
  <2>1. \A u \in Turns : MeterOK(u) /\ MeterOK(u)'
    BY DEF MeterInv
  <2>2. \A u \in Turns : Meter[u] = 0
    BY <1>1, <2>1 DEF MeterOK
  <2> QED BY <1>1, <2>1, <2>2, FrameMeter, MeterSame
<1>3. CASE file' = file
  BY <1>1, <1>2, <1>3, LedgerStutter DEF Entries, LedgerLines
<1>4. CASE /\ Orphans(file) = first..Len(file.lines) /\ LedgerLines = file.lines
           /\ first \in 1..Len(file.lines) /\ LedgerLines' = SubSeq(LedgerLines, 1, first - 1)
  <2>1. Entries' = SubSeq(Entries, 1, first - 1) /\ first - 1 \in 0..Len(Entries)
    BY <1>0, <1>4, EntriesCut
  <2>2. ASSUME NEW t \in Turns, answer[t] = "200", NEW i \in Lines(t), Kind(i) = "final" PROVE i <= first - 1
    <3>1. t \in HttpTurns
      BY <2>2 DEF IInv, AnswerInv
    <3>2. LedgerLines[i].receipt.id \in Journaled
      BY <2>2, <3>1 DEF IInv, AnswerInv, Acknowledgeable
    <3>3. i \in 1..Len(file.lines) /\ i \notin first..Len(file.lines)
      BY <1>4, <2>2, <3>2 DEF Orphans, Lines
    <3>4. Len(file.lines) \in Nat
      BY <1>0, FileType DEF LogFile
    <3> HIDE DEF first
    <3> QED BY <1>4, <3>3, <3>4
  <2> QED BY <1>0, <1>1, <1>2, <2>1, <2>2, LedgerCut
<1> QED BY <1>0, <1>3, <1>4, LogTruncate

-----------------------------------------------------------------------------
(* The theorems *)

\* The ledger starts empty.
LEMMA InitRefines == Init => Ledger!LedgerInit
<1> SUFFICES ASSUME Init PROVE Ledger!LedgerInit
  OBVIOUS
<1>1. LedgerLines = <<>>
  BY DEF Init, EmptyLog, LedgerLines, Repaired, TornTail
<1>2. Entries = <<>>
  BY <1>1 DEF Entries
<1>3. Meter = [t \in Turns |-> 0]
  BY DEF Init, Meter, Unsettled
<1>4. answer = [t \in Turns |-> "none"]
  BY DEF Init
<1> QED BY <1>2, <1>3, <1>4 DEF Ledger!LedgerInit, Entries, Meter

\* Every step of the pipeline is a step of the ledger or none.
LEMMA NextRefines ==
  ASSUME IInv, MeterInv, MeterInv', ~damaged, ~damaged', [Next]_vars
  PROVE  [Ledger!LedgerNext]_(Ledger!ledgerVars)
<1>1. Refines
  BY NextGroups, TurnRefines, CallerRefines, EnvironmentRefines, CrashRefines, TruncateRefines
<1> QED BY <1>1 DEF Refines

\* The pipeline implements the ledger as long as no write that failed or was cut
\* short left bytes behind that the runtime does not know of, and nobody else
\* wrote to the log while a runtime was up: a receipt and its charge appear
\* together, a 504 is never followed by either, a 200 keeps its receipt.
THEOREM TurnImplementsLedger == Spec /\ []~damaged => ImplementsLedger
<1>1. Init => Ledger!LedgerInit
  BY InitRefines
<1>2. IInv /\ MeterInv /\ MeterInv' /\ ~damaged /\ ~damaged' /\ [Next]_vars
        => [Ledger!LedgerNext]_(Ledger!ledgerVars)
  BY NextRefines
<1>3. IInv => MeterInv
  BY MeterHolds
<1>4. Spec => []IInv
  BY TurnInvariant
<1> QED BY <1>1, <1>2, <1>3, <1>4, PTL DEF Spec, ImplementsLedger, Ledger!LedgerSpec
=============================================================================
