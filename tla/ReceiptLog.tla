----------------------------- MODULE ReceiptLog -----------------------------
(***************************************************************************)
(* The append-only receipt file (receipts/chain.jsonl) as bytes see it: a  *)
(* sequence of lines, the last of which may lack its newline.  A line is   *)
(* good when it decodes and its signature verifies, odd when its payload   *)
(* segment decodes but the signature does not verify (a cut signature, or  *)
(* two records on one line), and junk when its payload does not decode.    *)
(***************************************************************************)
EXTENDS Integers, Sequences

CONSTANT NoReceipt   \* the parent of the first receipt, the tail of an empty log

EmptyLog == [lines |-> <<>>, open |-> FALSE]

\* persist_receipt opens the file, writes the JWS, writes the newline and syncs.
\* "ok" completes; the others stop at that point: nothing written, the payload
\* cut, the signature cut, no newline, everything written but not synced.
Writes == {"ok", "nothing", "payload", "signature", "newline", "sync"}

\* The quality of the line that a write of outcome o starts or extends.
Quality(f, o) ==
  IF f.open
    THEN IF f.lines[Len(f.lines)].quality = "junk" THEN "junk" ELSE "odd"
    ELSE CASE o = "payload" -> "junk" [] o = "signature" -> "odd" [] OTHER -> "good"

\* The file after an append of receipt r with outcome o: O_APPEND continues the
\* last line when that has no newline (and the line still decodes to the
\* receipt it began with).
WriteLine(f, r, o) ==
  LET n == Len(f.lines)
      line(receipt) == [quality |-> Quality(f, o), receipt |-> receipt]
  IN IF o = "nothing" THEN f
     ELSE [lines |-> IF f.open THEN [f.lines EXCEPT ![n] = line(@.receipt)]
                               ELSE Append(f.lines, line(r)),
           open  |-> o \notin {"ok", "sync"}]

\* parse_receipt_lines: undecodable lines are an error, except a last line
\* without its newline.
TornTail(f) == f.open /\ f.lines[Len(f.lines)].quality = "junk"
Parses(f) ==
  \A i \in 1..Len(f.lines) :
    f.lines[i].quality = "junk" => i = Len(f.lines) /\ f.open

\* Mutant: the repair also drops a complete last line.
RepairedGreedy(f) ==
  IF f.lines # <<>>
    THEN [lines |-> SubSeq(f.lines, 1, Len(f.lines) - 1), open |-> FALSE]
    ELSE f

\* load_persisted_chain truncates a torn tail away, on disk.
Repaired(f) ==
  IF TornTail(f)
    THEN [lines |-> SubSeq(f.lines, 1, Len(f.lines) - 1), open |-> FALSE]
    ELSE f

\* The hash of the last line, as the next receipt's parent.
LastId(f) ==
  IF f.lines = <<>> THEN NoReceipt ELSE f.lines[Len(f.lines)].receipt.id

\* verify_persisted_chain_with_jwks: every line is authentic and names the line
\* before it as its parent.
Verifies(f) ==
  \A i \in 1..Len(f.lines) :
    /\ f.lines[i].quality = "good"
    /\ f.lines[i].receipt.parent =
         IF i = 1 THEN NoReceipt ELSE f.lines[i - 1].receipt.id

\* The receipts that can be read back and authenticated.
Receipts(f) ==
  {f.lines[i].receipt : i \in {j \in 1..Len(f.lines) : f.lines[j].quality = "good"}}
=============================================================================
