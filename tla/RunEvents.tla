------------------------------ MODULE RunEvents ------------------------------
(***************************************************************************)
(* `ardur-rs runs events --follow` (crates/home-client/src/events.rs):     *)
(* bounded windows of a run's events, read frame by frame, resumed from a  *)
(* cursor after a window's end, a broken connection or a Ctrl-C, and       *)
(* without --follow one window. The home and its thread of events are      *)
(* external.                                                               *)
(***************************************************************************)
EXTENDS Integers, Sequences, Functions

CONSTANTS
  MaxSeq,       \* events of the thread
  MaxRetries    \* consecutive broken windows (5 in the code)

ASSUME EventsAssumption == {MaxSeq, MaxRetries} \subseteq Nat

VARIABLES
  top,       \* the thread's last sequence number
  mine,      \* those of the run; the others are hidden or of other runs
  runEnded,
  follow,
  evPc,
  cursor,    \* the loop's cursor
  reader,    \* the cursor of the window's Reader
  sent,      \* how far the home has come in this window
  retries,
  printed,   \* events printed, in order
  saved,     \* the cursor a Ctrl-C would print
  ending     \* how the command ended

homeVars == <<top, mine, runEnded>>
eventVars == <<homeVars, follow, evPc, cursor, reader, sent, retries, printed, saved, ending>>

EventsInit ==
  /\ top = 0 /\ mine = {} /\ runEnded = FALSE /\ follow \in BOOLEAN
  /\ evPc = "start" /\ cursor = 0 /\ reader = 0 /\ sent = 0 /\ retries = 0
  /\ printed = <<>> /\ saved = 0 /\ ending = "none"

RunAppends ==
  /\ top < MaxSeq /\ top' = top + 1
  /\ \/ ~runEnded /\ mine' = mine \cup {top + 1}
     \/ UNCHANGED mine
  /\ UNCHANGED <<runEnded, follow, evPc, cursor, reader, sent, retries, printed, saved, ending>>

RunEnds ==
  /\ ~runEnded /\ runEnded' = TRUE
  /\ UNCHANGED <<top, mine, follow, evPc, cursor, reader, sent, retries, printed, saved, ending>>

EventsLeft == {e \in mine : e > sent}

\* The first runs/get; a failure ends the command.
FirstCheck ==
  /\ evPc = "start"
  /\ \/ evPc' = "open" /\ UNCHANGED ending
     \/ evPc' = "done" /\ ending' = "error"
  /\ UNCHANGED <<homeVars, follow, cursor, reader, sent, retries, printed, saved>>

\* A signed request with the cursor. The home may start with events already read.
OpenWindow ==
  /\ evPc = "open" /\ evPc' = "stream"
  /\ reader' = cursor /\ sent' \in {0, cursor}
  /\ UNCHANGED <<homeVars, follow, cursor, retries, printed, saved, ending>>

NextFrame(e) == evPc = "stream" /\ e \in EventsLeft /\ \A f \in EventsLeft : e <= f

SkipFrame(e) ==
  /\ NextFrame(e) /\ e <= reader /\ sent' = e
  /\ UNCHANGED <<homeVars, follow, evPc, cursor, reader, retries, printed, saved, ending>>

PrintFrame(e) ==
  /\ NextFrame(e) /\ e > reader /\ sent' = e
  /\ printed' = Append(printed, e) /\ reader' = e /\ saved' = e
  /\ UNCHANGED <<homeVars, follow, evPc, cursor, retries, ending>>

\* Ends the command, or pauses before another window.
Retry(from) ==
  /\ cursor' = from
  /\ IF follow /\ retries < MaxRetries
     THEN retries' = retries + 1 /\ evPc' = "pause" /\ UNCHANGED ending
     ELSE evPc' = "done" /\ ending' = "error" /\ UNCHANGED retries

\* stdout refuses the line, which the command reports as Unreachable: the window
\* is given up before the reader's cursor moves.
PrintFails(e) ==
  /\ NextFrame(e) /\ e > reader
  /\ Retry(reader)
  /\ UNCHANGED <<homeVars, follow, reader, sent, printed, saved>>

\* The connection fails, breaks in a frame, or ends without the final frame.
WindowBreaks ==
  /\ evPc \in {"open", "stream"}
  /\ Retry(IF evPc = "open" THEN cursor ELSE reader)
  /\ UNCHANGED <<homeVars, follow, reader, sent, printed, saved>>

\* A request the home refuses, or a frame the reader refuses (too large,
\* malformed, of another run), ends the command.
FrameRefused ==
  /\ evPc \in {"open", "stream"} /\ evPc' = "done" /\ ending' = "error"
  /\ cursor' = IF evPc = "open" THEN cursor ELSE reader
  /\ UNCHANGED <<homeVars, follow, reader, sent, retries, printed, saved>>

\* The cursors a final frame may carry: the home has sent every event of the run
\* up to it. A timeout comes when nothing is left to send.
WindowCursors(reason) ==
  {n \in reader..top : /\ \A e \in EventsLeft : e > n
                       /\ reason = "timeout" => EventsLeft = {}}

StopReasons == {"access_lost", "payload_too_large", "error", "shutdown"}

\* The final frame, printed; bytes after it end the command like reason "error".
\* With --follow "timeout" asks the home for the run, "limit" goes on.
WindowEnds(reason, next) ==
  /\ evPc = "stream" /\ next \in WindowCursors(reason)
  /\ cursor' = next /\ reader' = next /\ saved' = next
  /\ IF reason \in StopReasons \/ ~follow
     THEN evPc' = "done" /\ ending' = reason /\ UNCHANGED retries
     ELSE evPc' = (IF reason = "timeout" THEN "check" ELSE "pause") /\ retries' = 0
          /\ UNCHANGED ending
  /\ UNCHANGED <<homeVars, follow, sent, printed>>

\* The final frame cannot be printed: a broken window whose cursor has moved, and
\* the run is still asked for after a timeout.
WindowUnprinted(reason, next) ==
  /\ evPc = "stream" /\ next \in WindowCursors(reason)
  /\ cursor' = next /\ reader' = next
  /\ IF follow /\ retries < MaxRetries
     THEN retries' = retries + 1 /\ evPc' = (IF reason = "timeout" THEN "check" ELSE "pause")
          /\ UNCHANGED ending
     ELSE evPc' = "done" /\ ending' = "error" /\ UNCHANGED retries
  /\ UNCHANGED <<homeVars, follow, sent, printed, saved>>

\* runs/get after a timeout window; a failure here is not retried.
CheckRun ==
  /\ evPc = "check"
  /\ \/ ~runEnded /\ evPc' = "pause" /\ UNCHANGED <<saved, ending>>
     \/ runEnded /\ evPc' = "done" /\ ending' = "completed" /\ saved' = cursor
     \/ evPc' = "done" /\ ending' = "error" /\ UNCHANGED saved
  /\ UNCHANGED <<homeVars, follow, cursor, reader, sent, retries, printed>>

PauseEnds ==
  /\ evPc = "pause" /\ evPc' = "open"
  /\ UNCHANGED <<homeVars, follow, cursor, reader, sent, retries, printed, saved, ending>>

CtrlC ==
  /\ evPc # "done" /\ evPc' = "done" /\ ending' = "interrupted"
  /\ UNCHANGED <<homeVars, follow, cursor, reader, sent, retries, printed, saved>>

\* The operator starts again from the cursor an interrupted command printed.
Rerun ==
  /\ evPc = "done" /\ ending = "interrupted"
  /\ evPc' = "start" /\ ending' = "none" /\ cursor' = saved /\ retries' = 0
  /\ UNCHANGED <<homeVars, follow, reader, sent, printed, saved>>

EventsNext ==
  \/ RunAppends \/ RunEnds \/ OpenWindow \/ WindowBreaks \/ FrameRefused
  \/ FirstCheck \/ CheckRun \/ PauseEnds \/ CtrlC \/ Rerun
  \/ \E e \in 1..MaxSeq : SkipFrame(e) \/ PrintFrame(e) \/ PrintFails(e)
  \/ \E reason \in StopReasons \cup {"timeout", "limit"}, next \in 0..MaxSeq :
       WindowEnds(reason, next) \/ WindowUnprinted(reason, next)

EventsSpec == EventsInit /\ [][EventsNext]_eventVars

EventsTypeOK ==
  /\ top \in 0..MaxSeq /\ mine \subseteq 1..top /\ runEnded \in BOOLEAN
  /\ follow \in BOOLEAN /\ evPc \in {"start", "open", "stream", "check", "pause", "done"}
  /\ {cursor, reader, sent, saved} \subseteq 0..MaxSeq /\ retries \in 0..MaxRetries
  /\ ending \in StopReasons \cup {"none", "timeout", "limit", "completed", "interrupted"}

\* Up to the cursor the command is at, and up to the one it would print on a
\* Ctrl-C for the next invocation to start from, every event of the run has been
\* printed exactly once and in order: over any number of windows, broken
\* connections, repeated events and lines that could not be written.
Position == IF evPc = "stream" THEN reader ELSE cursor
InOrderOf(events) ==
  /\ Range(printed) = events
  /\ \A i, j \in 1..Len(printed) : i < j => printed[i] < printed[j]
EventsExact ==
  /\ InOrderOf({e \in mine : e <= saved})
  /\ evPc # "done" => InOrderOf({e \in mine : e <= Position})
=============================================================================
