--------------------------- MODULE ReceiptReaders ---------------------------
(***************************************************************************)
(* The receipt log as its readers meet it (fused-runtime receipts.rs and   *)
(* receipt_cache.rs). /metrics and the chat routes load the chain on their *)
(* own threads while the commit section appends: nothing orders the two.   *)
(* The log is a sequence of pieces of bytes, so that a reader's truncation *)
(* offset can be stale: "head" is a JWS cut inside its payload, "body" the *)
(* rest of the payload, "sig" the signature, "nl" a newline, "hole" bytes  *)
(* that a set_len past the end of the file adds.                           *)
(***************************************************************************)
EXTENDS Integers, SequencesExt, FiniteSetsExt, NumberLists

CONSTANTS
  LogReaders,
  MaxLogged,    \* receipts the appender signs
  MaxLogCrashes \* crashes within an append, and appends that fail

ASSUME ReadersAssumption == {MaxLogged, MaxLogCrashes} \subseteq Nat

VARIABLES
  bytes,        \* the log
  appender,     \* [pc, id]: what the commit section is doing
  tip,          \* hash of the last receipt, as the runtime keeps it
  durable,      \* receipts whose append returned
  cache,        \* CacheInner
  rdPc, rdChain, rdTorn, rdSeen, rdPrefix,
  answer,       \* the LoadedReceiptChain of each reader
  spoiled,      \* a repair cut a log that had changed since it was read, or an
                \* append ran on from a last line without its newline
  logCrashes

rdVars == <<rdPc, rdChain, rdTorn, rdSeen, rdPrefix, answer>>
readerVars == <<bytes, appender, tip, durable, cache, rdVars, spoiled, logCrashes>>

\* Receipts are numbered in the order they are signed; 0 is no receipt.
Piece(part, id, parent) == [part |-> part, id |-> id, parent |-> parent]
Newline == Piece("nl", 0, 0)
Hole == Piece("hole", 0, 0)

-----------------------------------------------------------------------------
(* Reading the log *)

Newlines(log) == {i \in DOMAIN log : log[i].part = "nl"}
Starts(log) == {i \in DOMAIN log : i = 1 \/ i - 1 \in Newlines(log)}
LineAt(log, i) ==
  LET ends == {j \in Newlines(log) : j >= i}
  IN  SubSeq(log, i, IF ends = {} THEN Len(log) ELSE Min(ends) - 1)

Blank(line) == line = <<>>
\* decode_body looks at the second segment of the line only.
Decodes(line) ==
  Len(line) >= 2 /\ line[1].part = "head" /\ line[2].part = "body" /\ line[1].id = line[2].id
Authentic(line) ==
  Decodes(line) /\ Len(line) = 3 /\ line[3].part = "sig" /\ line[3].id = line[1].id

Terminated(log, i) == \E j \in Newlines(log) : j >= i
Undecodable(log) == {i \in Starts(log) : ~Blank(LineAt(log, i)) /\ ~Decodes(LineAt(log, i))}

\* parse_receipt_lines: a last line that does not decode and has no newline is a
\* torn tail, any other one an error.
TornAt(log) == {i \in Undecodable(log) : ~Terminated(log, i)}
Malformed(log) == Undecodable(log) # TornAt(log)
ChainOf(log) ==
  LET lines == {i \in Starts(log) : Decodes(LineAt(log, i))}
      receipt(i) == [id |-> log[i].id, parent |-> log[i].parent, good |-> Authentic(LineAt(log, i))]
      order == Listed(lines)
  IN  [n \in DOMAIN order |-> receipt(order[n])]

\* verify_persisted_chain_range
VerifiesFrom(chain, from) ==
  \A n \in from + 1..Len(chain) :
    chain[n].good /\ chain[n].parent = IF n = 1 THEN 0 ELSE chain[n - 1].id

\* File::set_len
SetLen(log, length) == [i \in 1..length |-> IF i <= Len(log) THEN log[i] ELSE Hole]

-----------------------------------------------------------------------------
Idle == [pc |-> "idle", id |-> 0]

ReadersInit ==
  /\ bytes = <<>> /\ appender = Idle /\ tip = 0 /\ durable = {}
  /\ cache = [chain |-> <<>>, ok |-> TRUE]
  /\ rdPc = [r \in LogReaders |-> "idle"] /\ rdChain = [r \in LogReaders |-> <<>>]
  /\ rdTorn = [r \in LogReaders |-> 0] /\ rdSeen = [r \in LogReaders |-> <<>>]
  /\ rdPrefix = [r \in LogReaders |-> 0]
  /\ answer = [r \in LogReaders |-> [chain |-> <<>>, ok |-> TRUE]]
  /\ spoiled = FALSE /\ logCrashes = 0

(* persist_receipt, inside the commit section *)

\* writeln! writes the JWS and the newline separately; a reader may see the file
\* grow within the first of the two.
Signed == 1 + Max({0} \cup durable \cup {appender.id} \cup {bytes[i].id : i \in DOMAIN bytes})

AppendBegins(parts) ==
  /\ appender.pc = "idle" /\ Signed <= MaxLogged
  /\ appender' = [pc |-> "writing", id |-> Signed]
  /\ bytes' = bytes \o [i \in 1..Len(parts) |-> Piece(parts[i], Signed, tip)]
  /\ spoiled' = (spoiled \/ (bytes # <<>> /\ bytes[Len(bytes)] # Newline))
  /\ UNCHANGED <<tip, durable, cache, rdVars, logCrashes>>

AppendRest ==
  /\ appender.pc = "writing"
  /\ appender' = [appender EXCEPT !.pc = "written"]
  /\ bytes' = bytes \o (IF bytes[Len(bytes)].part = "head"
                        THEN <<Piece("body", appender.id, tip), Piece("sig", appender.id, tip)>>
                        ELSE <<Piece("sig", appender.id, tip)>>)
  /\ UNCHANGED <<tip, durable, cache, rdVars, spoiled, logCrashes>>

AppendNewline ==
  /\ appender.pc = "written"
  /\ appender' = [appender EXCEPT !.pc = "terminated"]
  /\ bytes' = Append(bytes, Newline)
  /\ UNCHANGED <<tip, durable, cache, rdVars, spoiled, logCrashes>>

\* sync_all returns; the runtime advances its chain tail.
AppendSyncs ==
  /\ appender.pc = "terminated"
  /\ appender' = Idle /\ tip' = appender.id /\ durable' = durable \cup {appender.id}
  /\ UNCHANGED <<bytes, cache, rdVars, spoiled, logCrashes>>

\* A write or the sync returns an error: the turn fails with what the file has
\* got by then, and the tail stays where it was.
LogAppendFails ==
  /\ logCrashes < MaxLogCrashes /\ logCrashes' = logCrashes + 1
  /\ appender.pc # "idle" /\ appender' = Idle
  /\ UNCHANGED <<bytes, tip, durable, cache, rdVars, spoiled>>

\* The process dies in an append and boots again: the readers and the cache are
\* gone, boot repairs and verifies the log and takes its last receipt for tail.
CrashAndBoot ==
  LET torn == TornAt(bytes)
      kept == IF torn = {} THEN bytes ELSE SetLen(bytes, Min(torn) - 1)
      chain == ChainOf(kept)
  IN  /\ logCrashes < MaxLogCrashes /\ logCrashes' = logCrashes + 1
      /\ appender.pc # "idle" /\ ~Malformed(bytes) /\ VerifiesFrom(chain, 0)
      /\ bytes' = kept /\ appender' = Idle
      /\ tip' = IF chain = <<>> THEN 0 ELSE chain[Len(chain)].id
      /\ cache' = [chain |-> <<>>, ok |-> TRUE]
      /\ rdPc' = [r \in LogReaders |-> "idle"] /\ rdSeen' = [r \in LogReaders |-> <<>>]
      /\ rdChain' = [r \in LogReaders |-> <<>>]
      /\ rdTorn' = [r \in LogReaders |-> 0] /\ rdPrefix' = [r \in LogReaders |-> 0]
      /\ answer' = [r \in LogReaders |-> [chain |-> <<>>, ok |-> TRUE]]
      /\ UNCHANGED <<durable, spoiled>>

-----------------------------------------------------------------------------
(* VerifiedReceiptCache::load *)

\* load_persisted_chain reads and parses; a malformed line ends the load.
ReadLog(r) ==
  /\ rdPc[r] = "idle" /\ ~Malformed(bytes)
  /\ rdChain' = [rdChain EXCEPT ![r] = ChainOf(bytes)]
  /\ IF TornAt(bytes) = {}
     THEN rdPc' = [rdPc EXCEPT ![r] = "parsed"] /\ UNCHANGED <<rdTorn, rdSeen>>
     ELSE /\ rdPc' = [rdPc EXCEPT ![r] = "torn"]
          /\ rdTorn' = [rdTorn EXCEPT ![r] = Min(TornAt(bytes)) - 1]
          /\ rdSeen' = [rdSeen EXCEPT ![r] = bytes]
  /\ UNCHANGED <<bytes, appender, tip, durable, cache, rdPrefix, answer, spoiled, logCrashes>>

\* The repair opens the file again and sets its length to the offset found. The
\* file system runs it before or after a write, not within one.
RepairLog(r) ==
  /\ rdPc[r] = "torn" /\ appender.pc # "writing"
  /\ bytes' = SetLen(bytes, rdTorn[r])
  /\ spoiled' = (spoiled \/ bytes # rdSeen[r])
  /\ rdPc' = [rdPc EXCEPT ![r] = "parsed"] /\ rdSeen' = [rdSeen EXCEPT ![r] = <<>>]
  /\ rdTorn' = [rdTorn EXCEPT ![r] = 0]
  /\ UNCHANGED <<appender, tip, durable, cache, rdChain, rdPrefix, answer, logCrashes>>

RepairFails(r) ==
  /\ rdPc[r] = "torn"
  /\ rdPc' = [rdPc EXCEPT ![r] = "idle"] /\ rdSeen' = [rdSeen EXCEPT ![r] = <<>>]
  /\ rdTorn' = [rdTorn EXCEPT ![r] = 0] /\ rdChain' = [rdChain EXCEPT ![r] = <<>>]
  /\ UNCHANGED <<bytes, appender, tip, durable, cache, rdPrefix, answer, spoiled, logCrashes>>

\* Mutant: contents are taken to be the same when there are as many receipts.
StartsWithByLength(chain, cached) == Len(cached) <= Len(chain)

\* The comparison of compact JWS, receipt by receipt.
StartsWith(chain, cached) ==
  Len(cached) <= Len(chain) /\ \A n \in 1..Len(cached) : cached[n] = chain[n]

\* try_content_hit, under the lock.
ContentHit(r) ==
  /\ rdPc[r] = "parsed"
  /\ cache.ok /\ Len(cache.chain) = Len(rdChain[r]) /\ StartsWith(rdChain[r], cache.chain)
  /\ answer' = [answer EXCEPT ![r] = [chain |-> cache.chain, ok |-> TRUE]]
  /\ rdPc' = [rdPc EXCEPT ![r] = "answered"]
  /\ UNCHANGED <<bytes, appender, tip, durable, cache, rdChain, rdTorn, rdSeen, rdPrefix,
                 spoiled, logCrashes>>

\* No hit: the trusted prefix, under the lock again, with what the cache holds
\* by then; the lock is released for the signatures.
TakePrefix(r) ==
  /\ rdPc[r] = "parsed"
  /\ rdPrefix' = [rdPrefix EXCEPT ![r] =
                    IF cache.ok /\ StartsWith(rdChain[r], cache.chain)
                    THEN Len(cache.chain) ELSE 0]
  /\ rdPc' = [rdPc EXCEPT ![r] = "verifying"]
  /\ UNCHANGED <<bytes, appender, tip, durable, cache, rdChain, rdTorn, rdSeen, answer,
                 spoiled, logCrashes>>

\* verify_persisted_chain_range, then the cache is replaced whatever it holds.
VerifyAndStore(r) ==
  LET result == [chain |-> rdChain[r], ok |-> VerifiesFrom(rdChain[r], rdPrefix[r])]
  IN  /\ rdPc[r] = "verifying"
      /\ cache' = result /\ answer' = [answer EXCEPT ![r] = result]
      /\ rdPc' = [rdPc EXCEPT ![r] = "answered"] /\ rdPrefix' = [rdPrefix EXCEPT ![r] = 0]
      /\ UNCHANGED <<bytes, appender, tip, durable, rdChain, rdTorn, rdSeen, spoiled, logCrashes>>

LoadAgain(r) ==
  /\ rdPc[r] = "answered" /\ rdPc' = [rdPc EXCEPT ![r] = "idle"]
  /\ rdChain' = [rdChain EXCEPT ![r] = <<>>]
  /\ answer' = [answer EXCEPT ![r] = [chain |-> <<>>, ok |-> TRUE]]
  /\ UNCHANGED <<bytes, appender, tip, durable, cache, rdTorn, rdSeen, rdPrefix, spoiled,
                 logCrashes>>

ReadersNext ==
  \/ \E parts \in {<<"head">>, <<"head", "body">>} : AppendBegins(parts)
  \/ AppendRest \/ AppendNewline \/ AppendSyncs \/ LogAppendFails \/ CrashAndBoot
  \/ \E r \in LogReaders :
       \/ ReadLog(r) \/ RepairLog(r) \/ RepairFails(r)
       \/ ContentHit(r) \/ TakePrefix(r) \/ VerifyAndStore(r) \/ LoadAgain(r)

ReadersSpec == ReadersInit /\ [][ReadersNext]_readerVars

\* The appender, the readers and the receipts stay in range.
ReadersTypeOK ==
  /\ appender.pc \in {"idle", "writing", "written", "terminated"}
  /\ rdPc \in [LogReaders -> {"idle", "torn", "parsed", "verifying", "answered"}]
  /\ tip \in 0..MaxLogged /\ durable \subseteq 1..MaxLogged /\ logCrashes \in 0..MaxLogCrashes

\* Whatever the readers see of a log that grows and is repaired under them, an
\* answer is about the contents its reader read, and one that counts as verified
\* verifies from the first receipt, the trusted prefix included. The log itself
\* keeps every durable receipt and stays parseable, unless a repair cut a log
\* that an append or another repair had changed since it was read, or an append
\* ran on from a line that a crash or a failed append had left without its
\* newline and that no repair had cut off (README, section 4).
ReadersSound ==
  /\ cache.ok => VerifiesFrom(cache.chain, 0)
  /\ \A r \in LogReaders :
       rdPc[r] = "answered" =>
         /\ answer[r].chain = rdChain[r]
         /\ answer[r].ok <=> VerifiesFrom(rdChain[r], 0)
  /\ ~spoiled =>
       /\ ~Malformed(bytes)
       /\ \A id \in durable : \E n \in DOMAIN ChainOf(bytes) :
            ChainOf(bytes)[n].id = id /\ ChainOf(bytes)[n].good
=============================================================================
