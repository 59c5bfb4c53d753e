--------------------------- MODULE OperatorStores ---------------------------
(***************************************************************************)
(* The operator surfaces `ardur cron` (crates/cron-ui) and `ardur webhook` *)
(* (crates/webhook, ops.rs). Each invocation is a process of its own; the  *)
(* in-process mutexes of the stores and of the receipt sinks order nothing *)
(* between two of them. A store is one JSON file that is read whole,       *)
(* changed, written to a temporary file with a fixed name and renamed.     *)
(***************************************************************************)
EXTENDS Naturals, Sequences, FiniteSets

CONSTANTS
  Invocations, \* processes
  StoreOf,     \* the store a record belongs to, by record id
  Present,     \* records created by earlier invocations
  MaxKills     \* bound: processes killed, or failed by the disk, half way

RecordIds == DOMAIN StoreOf
Stores == {"crons", "endpoints", "triggers"}

ASSUME StoreAssumption ==
  /\ StoreOf \in [RecordIds -> Stores]
  /\ Present \subseteq RecordIds /\ MaxKills \in Nat

VARIABLES
  file,      \* a store's file
  temp,      \* the temporary file of a store
  inode,     \* where a process that opened the temporary file writes to now
  command,   \* what a process does, and to which record
  opPc,      \* how many steps of it are done
  got,       \* the record get() returned
  map,       \* the map read_map() returned, changed by the command
  parent,    \* the last receipt the process saw, or Unread
  opLog,     \* what was appended to the two receipt logs, oldest first
  result,    \* how the process ended
  overlapped,\* processes that ran at the same time as another one
  kills

opVars == <<file, temp, inode, command, opPc, got, map, parent, opLog,
               result, overlapped, kills>>

Unread == 1000
NoCommand == [verb |-> "none", id |-> "none"]
Fresh == [off |-> FALSE, changes |-> {}]
EmptyMap == [i \in {} |-> Fresh]

\* What a file holds: all of a map, nothing yet, or part of one.
Whole(m) == [is |-> "whole", recs |-> m]
Opened == [is |-> "empty", recs |-> EmptyMap]
Part == [is |-> "part", recs |-> EmptyMap]
Missing == [is |-> "missing", recs |-> EmptyMap]

WriteMap == <<"read", "open", "write", "rename">>

\* CronController::mutate and the operations of WebhookOps, step by step. A
\* cron mutation leaves its receipts before and after the change; an operation
\* on an endpoint or a trigger only after it, emit around the dispatch.
StepsOf(verb) ==
  CASE verb = "create" -> <<"receipt">> \o WriteMap \o <<"receipt">>
    [] verb \in {"pause", "resume", "edit", "delete"} ->
         <<"receipt", "get">> \o WriteMap \o <<"receipt">>
    [] verb = "refused" -> <<"receipt", "receipt", "deny">>
    [] verb \in {"register", "register_trigger"} -> WriteMap \o <<"receipt">>
    [] verb \in {"update", "revoke", "remove_trigger"} -> <<"get">> \o WriteMap \o <<"receipt">>
    [] verb = "emit" -> <<"get", "receipt", "key", "dispatch", "receipt">> \o WriteMap
    [] verb = "none" -> <<>>

VerbsOn(id) ==
  CASE StoreOf[id] = "crons" -> {"create", "pause", "resume", "edit", "delete", "refused"}
    [] StoreOf[id] = "endpoints" -> {"register", "update", "revoke", "emit"}
    [] StoreOf[id] = "triggers" -> {"register_trigger", "remove_trigger"}

Creates == {"create", "register", "register_trigger"}
Removes == {"delete", "remove_trigger"}
Logs(verb) == IF verb \in {"create", "pause", "resume", "edit", "delete", "refused"}
                THEN "cron-ui" ELSE "webhook"

Records == [off : BOOLEAN, changes : SUBSET Invocations]
Maps == UNION {[S -> Records] : S \in SUBSET RecordIds}

\* The stores, their temp files and the running commands keep their types.
StoreTypeOK ==
  /\ DOMAIN file = Stores /\ DOMAIN temp = Stores
  /\ \A s \in Stores : \A c \in {file[s], temp[s]} :
       c \in {Opened, Part, Missing} \/ (c.is = "whole" /\ c.recs \in Maps)
  /\ inode \in [Invocations -> {"none", "temp", "file", "unlinked"}]
  /\ opPc \in [Invocations -> 0..9]
  /\ result \in [Invocations -> {"none", "ok", "error", "killed"}]
  /\ overlapped \subseteq Invocations /\ kills \in 0..MaxKills

StoreInit ==
  /\ file = [s \in Stores |-> Whole([i \in {j \in Present : StoreOf[j] = s} |-> Fresh])]
  /\ temp = [s \in Stores |-> Missing]
  /\ inode = [p \in Invocations |-> "none"]
  /\ command = [p \in Invocations |-> NoCommand]
  /\ opPc = [p \in Invocations |-> 0]
  /\ got = [p \in Invocations |-> Fresh]
  /\ map = [p \in Invocations |-> EmptyMap]
  /\ parent = [p \in Invocations |-> Unread]
  /\ opLog = <<>> /\ kills = 0 /\ overlapped = {}
  /\ result = [p \in Invocations |-> "none"]

-----------------------------------------------------------------------------
Steps(p) == StepsOf(command[p].verb)
Store(p) == StoreOf[command[p].id]
RunningOp(p) == command[p] # NoCommand /\ result[p] = "none"
At(p, step) == RunningOp(p) /\ opPc[p] < Len(Steps(p)) /\ Steps(p)[opPc[p] + 1] = step

\* The step is done; the process that did its last one reports success.
Done(p) ==
  /\ opPc' = [opPc EXCEPT ![p] = @ + 1]
  /\ result' = [result EXCEPT ![p] = IF opPc[p] + 1 = Len(Steps(p)) THEN "ok" ELSE @]

Fails(p) ==
  /\ result' = [result EXCEPT ![p] = "error"]
  /\ UNCHANGED opPc

\* upsert or remove fails; emit takes no notice of it.
UpsertFails(p) ==
  /\ result' = [result EXCEPT ![p] = IF command[p].verb = "emit" THEN "ok" ELSE "error"]
  /\ UNCHANGED opPc

\* run_cron, run_webhook: a process starts; create mints a new id.
InvokeOp(p, id, verb) ==
  /\ command[p] = NoCommand
  /\ verb \in Creates => /\ id \notin Present
                         /\ \A q \in Invocations : command[q].id = id => command[q].verb \notin Creates
  /\ command' = [command EXCEPT ![p] = [verb |-> verb, id |-> id]]
  /\ LET others == {q \in Invocations : RunningOp(q)}
     IN overlapped' = IF others = {} THEN overlapped ELSE overlapped \cup others \cup {p}
  /\ UNCHANGED <<file, temp, inode, opPc, got, map, parent, opLog, result, kills>>

\* Es256ReceiptSink::emit reads the last line for its hash ...
SinkReads(p) ==
  /\ At(p, "receipt") /\ parent[p] = Unread
  /\ parent' = [parent EXCEPT ![p] =
       Cardinality({n \in 1..Len(opLog) : opLog[n].log = Logs(command[p].verb)})]
  /\ UNCHANGED <<file, temp, inode, command, opPc, got, map, opLog, result,
                 overlapped, kills>>

\* An append cut before its newline leaves a line that the next one continues.
SinkLine(p, cut) ==
  [log |-> Logs(command[p].verb), by |-> p, parent |-> parent[p], cut |-> cut]

\* ... and appends the signed receipt.
SinkAppends(p) ==
  /\ At(p, "receipt") /\ parent[p] # Unread
  /\ opLog' = Append(opLog, SinkLine(p, FALSE))
  /\ parent' = [parent EXCEPT ![p] = Unread]
  /\ Done(p)
  /\ UNCHANGED <<file, temp, inode, command, got, map, overlapped, kills>>

\* The log cannot be read, opened, written or synced, and the command fails with
\* it: nothing of the line is in the log, or part of it, or (the sync failed) all.
\* A process killed in the middle of write_all leaves the same.
SinkFails(p) ==
  /\ At(p, "receipt") /\ kills < MaxKills /\ kills' = kills + 1
  /\ \/ UNCHANGED opLog
     \/ parent[p] # Unread /\ \E cut \in BOOLEAN : opLog' = Append(opLog, SinkLine(p, cut))
  /\ Fails(p)
  /\ UNCHANGED <<file, temp, inode, command, got, map, parent, overlapped>>

\* get(): the record, or an error; emit refuses a revoked endpoint.
GetRecord(p) ==
  /\ At(p, "get")
  /\ LET now == file[Store(p)].recs
         id == command[p].id
     IN IF \/ file[Store(p)] = Part \/ id \notin DOMAIN now
           \/ command[p].verb = "emit" /\ now[id].off
          THEN Fails(p) /\ UNCHANGED got
          ELSE Done(p) /\ got' = [got EXCEPT ![p] = now[id]]
  /\ UNCHANGED <<file, temp, inode, command, map, parent, opLog, overlapped, kills>>

\* The record belongs to another operator, the cron expression does not parse, or
\* a registration has an empty field.
Rejected(p) ==
  /\ At(p, "get") \/ (At(p, "read") /\ command[p].verb \in Creates \cup {"edit"})
  /\ Fails(p)
  /\ UNCHANGED <<file, temp, inode, command, got, map, parent, opLog, overlapped, kills>>

\* mutate without SCOPE_MUTATE, after its two receipts.
Denied(p) ==
  /\ At(p, "deny") /\ Fails(p)
  /\ UNCHANGED <<file, temp, inode, command, got, map, parent, opLog, overlapped, kills>>

\* emit resolves the HMAC secret from the environment; without it, it returns
\* with the attempted receipt already in the log.
KeyResolved(p) ==
  /\ At(p, "key") /\ (Done(p) \/ Fails(p))
  /\ UNCHANGED <<file, temp, inode, command, got, map, parent, opLog, overlapped, kills>>

\* The dispatcher answered or failed; a terminal receipt follows either way.
Dispatched(p) ==
  /\ At(p, "dispatch") /\ Done(p)
  /\ UNCHANGED <<file, temp, inode, command, got, map, parent, opLog, overlapped, kills>>

\* Mutant: the record is built anew instead of changed.
ChangedAnew(p) ==
  [off |-> command[p].verb \in {"pause", "revoke"}, changes |-> got[p].changes \cup {p}]

\* What the command makes of the record it read.
Changed(p) ==
  [off |-> CASE command[p].verb \in {"pause", "revoke"} -> TRUE
             [] command[p].verb = "resume" -> FALSE
             [] OTHER -> got[p].off,
   changes |-> got[p].changes \cup {p}]

\* upsert and remove: read_map, then insert the record or take it out. An
\* empty file is an empty collection; part of one is a parse error.
ReadsMap(p) ==
  /\ At(p, "read")
  /\ LET now == file[Store(p)].recs
         id == command[p].id
     IN IF file[Store(p)] = Part \/ (command[p].verb \in Removes /\ id \notin DOMAIN now)
          THEN UpsertFails(p) /\ UNCHANGED map
          ELSE /\ Done(p)
               /\ map' = [map EXCEPT ![p] =
                    IF command[p].verb \in Removes
                      THEN [i \in DOMAIN now \ {id} |-> now[i]]
                      ELSE [i \in DOMAIN now \cup {id} |->
                              IF i = id THEN Changed(p) ELSE now[i]]]
  /\ UNCHANGED <<file, temp, inode, command, got, parent, opLog, overlapped, kills>>

\* Mutant: the file itself is opened.
OpensFile(p) ==
  /\ At(p, "open") /\ Done(p)
  /\ file' = [file EXCEPT ![Store(p)] = Opened]
  /\ inode' = [inode EXCEPT ![p] = "file"]
  /\ temp' = [temp EXCEPT ![Store(p)] = Whole(map[p])]
  /\ UNCHANGED <<command, got, map, parent, opLog, overlapped, kills>>

\* fs::write opens the temporary file, which empties it ...
OpensTemp(p) ==
  /\ At(p, "open") /\ Done(p)
  /\ temp' = [temp EXCEPT ![Store(p)] = Opened]
  /\ inode' = [inode EXCEPT ![p] = "temp"]
  /\ UNCHANGED <<file, command, got, map, parent, opLog, overlapped, kills>>

\* ... and writes the map to what it opened, wherever that is linked by now.
Fills(p, content) ==
  /\ temp' = IF inode[p] = "temp" THEN [temp EXCEPT ![Store(p)] = content] ELSE temp
  /\ file' = IF inode[p] = "file" THEN [file EXCEPT ![Store(p)] = content] ELSE file

WritesPart(p) ==
  /\ At(p, "write") /\ Fills(p, Part)
  /\ UNCHANGED <<inode, command, opPc, got, map, parent, opLog, result,
                 overlapped, kills>>

WritesTemp(p) ==
  /\ At(p, "write") /\ Done(p) /\ Fills(p, Whole(map[p]))
  /\ inode' = [inode EXCEPT ![p] = "none"]
  /\ UNCHANGED <<command, got, map, parent, opLog, overlapped, kills>>

\* fs::rename puts whatever the temporary file holds in place; it fails when
\* another process renamed it first.
Renames(p) ==
  /\ At(p, "rename")
  /\ IF temp[Store(p)] = Missing
       THEN UpsertFails(p) /\ UNCHANGED <<file, temp, inode>>
       ELSE /\ Done(p)
            /\ file' = [file EXCEPT ![Store(p)] = temp[Store(p)]]
            /\ temp' = [temp EXCEPT ![Store(p)] = Missing]
            /\ inode' = [q \in Invocations |->
                 IF command[q] # NoCommand /\ inode[q] # "none" /\ Store(q) = Store(p)
                   THEN IF inode[q] = "temp" THEN "file" ELSE "unlinked"
                   ELSE inode[q]]
  /\ UNCHANGED <<command, got, map, parent, opLog, overlapped, kills>>

\* The process is killed.
Killed(p) ==
  /\ RunningOp(p) /\ kills < MaxKills
  /\ kills' = kills + 1
  /\ result' = [result EXCEPT ![p] = "killed"]
  /\ inode' = [inode EXCEPT ![p] = "none"]
  /\ UNCHANGED <<file, temp, command, opPc, got, map, parent, opLog, overlapped>>

OpStep(p) ==
  \/ SinkReads(p) \/ SinkAppends(p) \/ SinkFails(p) \/ GetRecord(p) \/ Rejected(p) \/ Denied(p) \/ KeyResolved(p)
  \/ Dispatched(p) \/ ReadsMap(p) \/ OpensTemp(p) \/ WritesPart(p)
  \/ WritesTemp(p) \/ Renames(p)

StoreNext ==
  \E p \in Invocations :
    \/ OpStep(p) \/ Killed(p)
    \/ \E id \in RecordIds : \E verb \in VerbsOn(id) : InvokeOp(p, id, verb)

StoreSpec == StoreInit /\ [][StoreNext]_opVars

-----------------------------------------------------------------------------
(* Properties *)

Alone == overlapped = {}
Ended(p) == result[p] # "none"

\* Store commands that never overlap lose nothing, killed or not: what each
\* reported as done is in the file, unless a later command removed the record,
\* and the file is never half written (store.rs:8, opstore.rs:5).
AloneNothingLost ==
  Alone => \A s \in Stores :
    /\ file[s].is = "whole"
    /\ \A p \in Invocations : result[p] = "ok" /\ Store(p) = s =>
         \/ command[p].verb \in Removes /\ command[p].id \notin DOMAIN file[s].recs
         \/ command[p].id \in DOMAIN file[s].recs /\ p \in file[s].recs[command[p].id].changes
         \/ \E q \in Invocations : opPc[q] > 1 /\ command[q].verb \in Removes
                                   /\ command[q].id = command[p].id

\* A revoked endpoint stays revoked and a paused cron paused until a command
\* resumes it, but for a command that overlapped another: emit writes back the
\* endpoint it read before it dispatched (ops.rs:317).
OffUnlessOverlapped ==
  [][\A s \in Stores :
       \A i \in DOMAIN file[s].recs \cap DOMAIN file'[s].recs :
           file[s].recs[i].off /\ ~file'[s].recs[i].off =>
             \E p \in Invocations :
               /\ At(p, "rename") \/ At(p, "write")
               /\ p \in overlapped \/ (command[p].verb = "resume" /\ command[p].id = i)]_opVars

\* The receipts of one log form one chain (gate.rs:139), commands that failed or
\* were killed on the way included, as long as no two processes overlap and up to
\* the first receipt cut short: last_line_hash takes the torn line for a receipt,
\* and the next append continues it.
AloneChainLinear ==
  Alone => \A n \in 1..Len(opLog) :
    \/ \E k \in 1..n - 1 : opLog[k].log = opLog[n].log /\ opLog[k].cut
    \/ opLog[n].parent = Cardinality({k \in 1..n - 1 : opLog[k].log = opLog[n].log})

\* One process at a time neither loses a change nor forks a chain of whole receipts.
AloneSound == AloneNothingLost /\ AloneChainLinear
=============================================================================
