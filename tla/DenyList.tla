------------------------------ MODULE DenyList ------------------------------
(***************************************************************************)
(* FileDenyList (crates/cap-token/src/denylist.rs): revoked block ids as   *)
(* hex lines in a file that processes share. A revoke appends the hex and  *)
(* the newline with two writes; a verifier reloads the file into the set   *)
(* behind its list's lock and then takes the lock again to look.           *)
(***************************************************************************)
EXTENDS Naturals, Sequences, FiniteSets

CONSTANTS
  BlockIds,            \* revocation ids, 1 and up
  TokenIds,            \* tokens: the sequences of their blocks' ids
  Revokers, Verifiers, \* verifiers share one list, every revoker has its own
  MaxKills             \* bound: revokers killed in the middle of a write

ASSUME DenyListAssumption ==
  /\ BlockIds \subseteq Nat \ {0} /\ MaxKills \in Nat
  /\ \A t \in TokenIds : t \in Seq(BlockIds) /\ t # <<>>

VARIABLES
  denyFile,  \* ids and newlines, in the order they were appended
  revoker,   \* what each revoker is writing
  denyCache, \* the set behind the lock of the verifiers' list: lines of the file
  verifier,  \* what each verifier is doing
  settled,   \* ids revoked by a revoke that returned, with its line to itself
  kills

denyVars == <<denyFile, revoker, denyCache, verifier, settled, kills>>

Newline == 0
OddCut == Cardinality(BlockIds) + 1    \* a write cut after an odd number of digits
EvenCut == Cardinality(BlockIds) + 2   \* or an even number

NotRevoking(at) == [at |-> at, ids |-> <<>>, alone |-> TRUE]

\* The file, the revokers and the verifiers keep their types.
DenyTypeOK ==
  /\ \A i \in 1..Len(denyFile) : denyFile[i] \in BlockIds \cup {Newline, OddCut, EvenCut}
  /\ \A r \in Revokers : revoker[r].at \in {"idle", "hex", "newline", "done", "dead"}
  /\ \A v \in Verifiers : verifier[v].at \in {"idle", "store", "look", "denied", "passed"}
  /\ settled \subseteq BlockIds /\ kills \in 0..MaxKills

DenyInit ==
  /\ denyFile = <<>> /\ denyCache = {} /\ settled = {} /\ kills = 0
  /\ revoker = [r \in Revokers |-> NotRevoking("idle")]
  /\ verifier = [v \in Verifiers |-> [at |-> "idle"]]

Members(t) == {t[i] : i \in 1..Len(t)}

\* revoke_token: every block id of the token, one revoke after the other.
RevokeBegins(r, t) ==
  /\ revoker[r].at = "idle"
  /\ revoker' = [revoker EXCEPT ![r] =
       [at |-> "hex", ids |-> t, alone |-> TRUE]]
  /\ UNCHANGED <<denyFile, denyCache, verifier, settled, kills>>

AtLineStart == denyFile = <<>> \/ denyFile[Len(denyFile)] = Newline

\* writeln! makes two writes, the hex and then the newline. `alone` says that
\* nothing else got into the line.
WritesHex(r) ==
  /\ revoker[r].at = "hex"
  /\ denyFile' = Append(denyFile, revoker[r].ids[1])
  /\ revoker' = [x \in Revokers |->
       IF x = r THEN [revoker[r] EXCEPT !.at = "newline", !.alone = AtLineStart]
       ELSE [revoker[x] EXCEPT !.alone = @ /\ revoker[x].at # "newline"]]
  /\ UNCHANGED <<denyCache, verifier, settled, kills>>

\* revoke also puts the id into the set of the list it was called on: that is the
\* revoker's own, which no verifier looks into.
WritesNewline(r) ==
  /\ revoker[r].at = "newline"
  /\ denyFile' = Append(denyFile, Newline)
  /\ settled' = IF revoker[r].alone THEN settled \cup {revoker[r].ids[1]} ELSE settled
  /\ revoker' = [revoker EXCEPT ![r] =
       IF Len(@.ids) = 1 THEN NotRevoking("done")
       ELSE [at |-> "hex", ids |-> Tail(@.ids), alone |-> @.alone]]
  /\ UNCHANGED <<denyCache, verifier, kills>>

\* The process is killed, or the disk is full, before, inside or after the hex.
RevokerDies(r) ==
  /\ kills < MaxKills /\ revoker[r].at \in {"hex", "newline"}
  /\ kills' = kills + 1
  /\ denyFile' \in {denyFile} \cup {Append(denyFile, cut) :
                     cut \in IF revoker[r].at = "hex" THEN {OddCut, EvenCut} ELSE {}}
  /\ revoker' = [x \in Revokers |->
       IF x = r THEN NotRevoking("dead")
       ELSE [revoker[x] EXCEPT !.alone = @ /\ revoker[x].at # "newline"]]
  /\ UNCHANGED <<denyCache, verifier, settled>>

\* The lines of the file that are not empty.
FileLines ==
  {SubSeq(denyFile, ij[1], ij[2]) : ij \in
    {ends \in (1..Len(denyFile)) \X (1..Len(denyFile)) :
      /\ ends[1] <= ends[2] /\ \A k \in ends[1]..ends[2] : denyFile[k] # Newline
      /\ ends[1] = 1 \/ denyFile[ends[1] - 1] = Newline
      /\ ends[2] = Len(denyFile) \/ denyFile[ends[2] + 1] = Newline}}

\* A line with an odd number of digits is no hex.
Decodes(line) == Cardinality({i \in 1..Len(line) : line[i] = OddCut}) % 2 = 0

\* is_revoked reloads the file; what it cannot read or decode counts as revoked.
\* `due` says that a block had been revoked for good, `raced` that another
\* verifier of the list holds an older read that it has not stored yet.
VerifyReads(v, t) ==
  /\ verifier[v].at = "idle"
  /\ verifier' = [verifier EXCEPT ![v] =
       IF \A line \in FileLines : Decodes(line)
       THEN [at |-> "store", token |-> t, read |-> FileLines,
             due |-> Members(t) \cap settled # {},
             raced |-> \E u \in Verifiers \ {v} : verifier[u].at = "store"]
       ELSE [at |-> "denied"]]
  /\ UNCHANGED <<denyFile, revoker, denyCache, settled, kills>>

VerifyStores(v) ==
  /\ verifier[v].at = "store"
  /\ denyCache' = verifier[v].read
  /\ verifier' = [verifier EXCEPT ![v].at = "look"]
  /\ UNCHANGED <<denyFile, revoker, settled, kills>>

\* The lock is taken again to look the ids up.
VerifyLooks(v) ==
  /\ verifier[v].at = "look"
  /\ verifier' = [verifier EXCEPT ![v] =
       IF \E id \in Members(@.token) : <<id>> \in denyCache THEN [at |-> "denied"]
       ELSE [at |-> "passed", overdue |-> @.due /\ ~@.raced]]
  /\ UNCHANGED <<denyFile, revoker, denyCache, settled, kills>>

DenyNext ==
  \/ \E r \in Revokers :
       \/ \E t \in TokenIds : RevokeBegins(r, t)
       \/ WritesHex(r) \/ WritesNewline(r) \/ RevokerDies(r)
  \/ \E v \in Verifiers :
       \/ \E t \in TokenIds : VerifyReads(v, t)
       \/ VerifyStores(v) \/ VerifyLooks(v)

DenySpec == DenyInit /\ [][DenyNext]_denyVars

(***************************************************************************)
(* A token does not pass the list when one of its blocks was revoked       *)
(* before the lookup began, by a revoke that had its line to itself, and   *)
(* no lookup of the same list still held an older read. Revokes cut short, *)
(* by a kill or a full disk, never let an id out of the list that was in   *)
(* it (denylist.rs:99-108, 122-126 and 149-158).                           *)
(***************************************************************************)
RevokedStaysDenied ==
  \A v \in Verifiers : verifier[v].at = "passed" => ~verifier[v].overdue
=============================================================================
