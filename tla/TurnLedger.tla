----------------------------- MODULE TurnLedger -----------------------------
(***************************************************************************)
(* What the turn pipeline promises to the people who pay for turns and to  *)
(* the people who audit them: a ledger in which a round is entered and     *)
(* charged in one step, and callers who are told the truth about it.       *)
(* Locks, handshakes, reservations, files and retries do not exist here;   *)
(* TurnCommit is shown to implement this.                                  *)
(***************************************************************************)
EXTENDS Naturals, Sequences, FiniteSets

CONSTANTS
  Turns,
  Streams,  \* turns whose consumer may leave between the charge and the entry
  Others    \* who else makes entries: operators, the CLI

VARIABLES
  entries,  \* the audit log: who made an entry, and what kind it is
  charged,  \* rounds each turn has been charged for, in this process
  told      \* what each caller was told

ledgerVars == <<entries, charged, told>>

LedgerInit ==
  /\ entries = <<>>
  /\ charged = [t \in Turns |-> 0]
  /\ told = [t \in Turns |-> "none"]

By(t, kinds) == {i \in DOMAIN entries : entries[i].by = t /\ entries[i].kind \in kinds}
Rounds(t) == Cardinality(By(t, {"tool", "final"}))

\* A turn is open until its caller is told, its last round is entered, its
\* cancellation is marked, or it is charged for a round it will not enter (the
\* process that charged it ends, or its stream is dropped).
OpenTurn(t) ==
  told[t] = "none" /\ By(t, {"final", "cancelled"}) = {} /\ charged[t] = Rounds(t)

MayEnter(e) ==
  \/ e.by \in Turns /\ e.kind \in {"tool", "final"} /\ OpenTurn(e.by)
  \/ e.by \in Turns /\ e.kind = "cancelled" /\ OpenTurn(e.by) /\ Rounds(e.by) > 0
  \/ e.by \in Others /\ e.kind = "control"

Kinds == {"tool", "final", "cancelled", "control"}

\* A round is entered and charged at once; a marker or a note costs nothing.
Enter(e) ==
  /\ MayEnter(e)
  /\ entries' = Append(entries, e)
  /\ charged' = IF e.kind \in {"tool", "final"}
                THEN [charged EXCEPT ![e.by] = @ + 1] ELSE charged
  /\ UNCHANGED told

\* The one exception: a stream dropped after its charge and before its entry.
Overcharge(t) ==
  /\ t \in Streams /\ OpenTurn(t)
  /\ charged' = [charged EXCEPT ![t] = @ + 1]
  /\ UNCHANGED <<entries, told>>

\* "200" only for a turn whose last round is entered, "504" only for one whose
\* last round is not, and then never will be.
Tell(t, status) ==
  /\ told[t] = "none"
  /\ status = "200" => By(t, {"final"}) # {}
  /\ status = "504" => By(t, {"final"}) = {}
  /\ told' = [told EXCEPT ![t] = status]
  /\ UNCHANGED <<entries, charged>>

\* The process ends: its meters are gone, the entries are not, and the entry
\* being made may be there or not.
ProcessEnds ==
  /\ \/ UNCHANGED entries
     \/ \E by \in Turns \cup Others : \E kind \in Kinds :
          /\ MayEnter([by |-> by, kind |-> kind])
          /\ entries' = Append(entries, [by |-> by, kind |-> kind])
  /\ charged' = [t \in Turns |-> 0]
  /\ UNCHANGED told

\* Recovery may cut the end of the log, but nothing a caller was told about.
Cut ==
  /\ \A t \in Turns : charged[t] = 0
  /\ \E n \in 0..Len(entries) :
       /\ \A t \in Turns : told[t] = "200" => \A i \in By(t, {"final"}) : i <= n
       /\ entries' = SubSeq(entries, 1, n)
  /\ UNCHANGED <<charged, told>>

\* A step that changes nothing is a stutter, not one of these.
LedgerNext ==
  /\ ledgerVars' # ledgerVars
  /\ \/ \E by \in Turns \cup Others : \E kind \in Kinds : Enter([by |-> by, kind |-> kind])
     \/ \E t \in Turns : Overcharge(t)
     \/ \E t \in Turns : \E status \in {"200", "502", "503", "504"} : Tell(t, status)
     \/ ProcessEnds
     \/ Cut

LedgerSpec == LedgerInit /\ [][LedgerNext]_ledgerVars
=============================================================================
