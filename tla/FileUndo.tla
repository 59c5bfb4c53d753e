------------------------------ MODULE FileUndo ------------------------------
(***************************************************************************)
(* file.write with snapshots (crates/tool-registry: builtins/files.rs and  *)
(* snapshot.rs): the prior content of a path is kept in a store of blobs,  *)
(* named by their digest, before it is overwritten or appended to, and a   *)
(* checked restore undoes the write. Every step is an await: other calls,  *)
(* another program that edits the file, a prune of old blobs and damage to *)
(* the store come between. A digest is taken to name one content.          *)
(***************************************************************************)
EXTENDS Naturals, Sequences, FiniteSets

CONSTANTS
  FileCalls,          \* invocations of file.write on one path
  ChunkOf,            \* what each call writes
  MaxChunks,          \* bound: length of the file
  MaxCaptureChunks,   \* max_capture_bytes
  MaxOutside          \* bound: edits, damage and failures from outside

ASSUME FileUndoAssumption ==
  /\ {MaxChunks, MaxCaptureChunks, MaxOutside} \subseteq Nat
  /\ FileCalls # {} /\ MaxChunks > 0

NoFile == <<"absent">>
Chunks == {ChunkOf[w] : w \in FileCalls}
Contents == UNION {[1..n -> Chunks] : n \in 0..MaxChunks}

VARIABLES
  content, \* the content of the path, or NoFile
  blobs,   \* the blob named by each content's digest
  call,    \* the progress of every call and of its undo
  outside  \* edits, damage and failures so far

undoVars == <<content, blobs, call, outside>>

NewCall == [at |-> "idle", append |-> FALSE, snap |-> NoFile, before |-> NoFile,
          wrote |-> NoFile, over |-> NoFile, after |-> NoFile, raced |-> FALSE, harmed |-> FALSE]

\* A call that gives up says no more than how.
GaveUp(how) == [NewCall EXCEPT !.at = how]

\* The file, the store and every call keep their types.
UndoTypeOK ==
  /\ content \in Contents \cup {NoFile}
  /\ blobs \in [Contents -> {"none", "new", "old", "corrupt"}]
  /\ \A w \in FileCalls :
       /\ DOMAIN call[w] = DOMAIN NewCall
       /\ call[w].at \in {"idle", "store", "ready", "refused", "written", "failed",
                          "restoring", "rewriting", "undone", "stale", "lost"}
  /\ outside \in 0..MaxOutside

UndoInit ==
  /\ content \in {NoFile, <<CHOOSE c \in Chunks : TRUE>>}
  /\ blobs = [c \in Contents |-> "none"]
  /\ call = [w \in FileCalls |-> NewCall]
  /\ outside = 0

Good(c) == blobs[c] \in {"new", "old"}
Outside == outside < MaxOutside /\ outside' = outside + 1

\* A change of the file meets the calls that have read it and not yet written.
Overtaken(calls, but) ==
  [w \in FileCalls |->
    IF w \notin but /\ calls[w].at \in {"store", "ready", "restoring", "rewriting"}
    THEN [calls[w] EXCEPT !.raced = TRUE] ELSE calls[w]]

\* capture reads the file; an absent file needs no blob, a large one is refused.
CaptureReads(w, append) ==
  /\ call[w].at = "idle"
  /\ call' = [call EXCEPT ![w] =
       IF content # NoFile /\ Len(content) > MaxCaptureChunks THEN GaveUp("refused")
       ELSE [@ EXCEPT !.append = append, !.snap = content,
                      !.at = IF content = NoFile THEN "ready" ELSE "store"]]
  /\ UNCHANGED <<content, blobs, outside>>

\* A blob whose bytes still have the digest is reused as it is; any other is
\* written under a temporary name and renamed into place.
CaptureStores(w) ==
  /\ call[w].at = "store"
  /\ blobs' = [blobs EXCEPT ![call[w].snap] = IF Good(call[w].snap) THEN @ ELSE "new"]
  /\ call' = [call EXCEPT ![w].at = "ready"]
  /\ UNCHANGED <<content, outside>>

\* The read or the store fails: the write is not attempted.
CaptureFails(w) ==
  /\ call[w].at \in {"idle", "store"}
  /\ call' = [call EXCEPT ![w] = GaveUp("refused")]
  /\ Outside
  /\ UNCHANGED <<content, blobs>>

Written(w) ==
  IF ~call[w].append THEN <<ChunkOf[w]>>
  ELSE Append(IF content = NoFile THEN <<>> ELSE content, ChunkOf[w])

Writes(w) ==
  /\ call[w].at = "ready" /\ Len(Written(w)) <= MaxChunks
  /\ content' = Written(w)
  /\ call' = Overtaken([call EXCEPT ![w] =
       [@ EXCEPT !.at = "written", !.before = content, !.wrote = Written(w)]], {w})
  /\ UNCHANGED <<blobs, outside>>

\* The write fails before or after opening the file created or truncated it; the
\* error does not name the snapshot.
WriteFails(w) ==
  /\ call[w].at = "ready"
  /\ content' \in {content, IF call[w].append /\ content # NoFile THEN content ELSE <<>>}
  /\ call' = Overtaken([call EXCEPT ![w] = GaveUp("failed")], {w})
  /\ Outside
  /\ UNCHANGED blobs

\* restore_expecting: the file must still be what the write left, or be gone.
UndoChecks(w) ==
  /\ call[w].at = "written"
  /\ call' = [call EXCEPT ![w] =
       IF content = NoFile /\ @.snap = NoFile
       THEN [@ EXCEPT !.at = "undone", !.over = content, !.after = content]
       ELSE IF content \in {NoFile, @.wrote} THEN [@ EXCEPT !.at = "restoring"]
       ELSE GaveUp("stale")]
  /\ UNCHANGED <<content, blobs, outside>>

\* read: a blob that is gone or does not have the digest is refused.
UndoReads(w) ==
  /\ call[w].at = "restoring" /\ call[w].snap # NoFile
  /\ call' = [call EXCEPT ![w] =
       IF Good(@.snap) THEN [@ EXCEPT !.at = "rewriting"] ELSE GaveUp("lost")]
  /\ UNCHANGED <<content, blobs, outside>>

\* The bytes are written over the path, or the path is removed.
UndoWrites(w) ==
  /\ \/ call[w].at = "rewriting"
     \/ call[w].at = "restoring" /\ call[w].snap = NoFile
  /\ content' = call[w].snap
  /\ call' = Overtaken([call EXCEPT ![w] =
       [@ EXCEPT !.at = "undone", !.over = content, !.after = call[w].snap]], {w})
  /\ UNCHANGED <<blobs, outside>>

\* The file or the blob cannot be read or the file not removed, or the restore's
\* write fails, after it truncated the file or before.
UndoFails(w) ==
  /\ call[w].at \in {"written", "restoring", "rewriting"}
  /\ content' \in {content} \cup {c \in {<<>>} : call[w].at = "rewriting"}
  /\ call' = Overtaken([call EXCEPT ![w] = GaveUp("failed")], {w})
  /\ Outside
  /\ UNCHANGED blobs

\* Another program writes or removes the file (external).
EditorWrites(c) ==
  /\ content' = c /\ content' # content
  /\ call' = Overtaken(call, {})
  /\ Outside
  /\ UNCHANGED blobs

\* Calls whose snapshot was taken and is hit.
Harmed(hit) ==
  [w \in FileCalls |-> IF call[w].snap \in hit /\ call[w].at \notin {"idle", "store"}
                       THEN [call[w] EXCEPT !.harmed = TRUE] ELSE call[w]]

\* Time passes: every blob is now older than the age a prune is asked for.
BlobsAge ==
  /\ \E c \in Contents : blobs[c] = "new"
  /\ blobs' = [c \in Contents |-> IF blobs[c] = "new" THEN "old" ELSE blobs[c]]
  /\ UNCHANGED <<content, call, outside>>

\* prune_older_than removes the blobs last modified before the cutoff.
Prunes ==
  /\ \E c \in Contents : blobs[c] = "old"
  /\ blobs' = [c \in Contents |-> IF blobs[c] = "old" THEN "none" ELSE blobs[c]]
  /\ call' = Harmed({c \in Contents : blobs[c] = "old"})
  /\ UNCHANGED <<content, outside>>

\* A blob is truncated or altered in place (external).
BlobCorrupts(c) ==
  /\ Good(c)
  /\ blobs' = [blobs EXCEPT ![c] = "corrupt"]
  /\ call' = Harmed({c})
  /\ Outside
  /\ UNCHANGED content

FileCallStep(w) ==
  \/ \E append \in BOOLEAN : CaptureReads(w, append)
  \/ CaptureStores(w) \/ CaptureFails(w) \/ Writes(w) \/ WriteFails(w)
  \/ UndoChecks(w) \/ UndoReads(w) \/ UndoWrites(w) \/ UndoFails(w)

UndoNext ==
  \/ \E w \in FileCalls : FileCallStep(w)
  \/ \E c \in Contents \cup {NoFile} : EditorWrites(c)
  \/ BlobsAge \/ Prunes
  \/ \E c \in Contents : BlobCorrupts(c)

UndoSpec == UndoInit /\ [][UndoNext]_undoVars

(***************************************************************************)
(* A call that passed its capture can get its prior content back until a   *)
(* prune or damage hits that blob afterwards. When nobody changes the file *)
(* between a call's read and its write, the snapshot is what the write     *)
(* replaced, an undo brings exactly that back, and it replaces nothing but *)
(* the call's own content (snapshot.rs capture and restore_expecting).     *)
(***************************************************************************)
UndoSound ==
  \A w \in FileCalls : LET c == call[w] IN
    /\ c.at \notin {"idle", "store"} /\ c.snap # NoFile /\ ~c.harmed => Good(c.snap)
    /\ c.at = "written" /\ ~c.raced => c.snap = c.before
    /\ c.at = "undone" /\ ~c.raced => c.after = c.before /\ c.over \in {c.wrote, NoFile}
=============================================================================
