------------------------------ MODULE RoomSend ------------------------------
(***************************************************************************)
(* `ardur-rs rooms send` with its lost-response recovery                   *)
(* (crates/home-client): the one pending record beside the pairing, and    *)
(* the nonce by which the home knows a message again. A message stands for *)
(* a room, a thread and an exact text. A nonce is named after the          *)
(* invocation that made it.                                                *)
(***************************************************************************)
EXTENDS Naturals, FiniteSets

CONSTANTS
  Sends,           \* invocations of the command
  RoomMessages, NoMessage,
  Unsaved,         \* no record
  MaxStoreFaults,  \* reads, writes and removals of the record that fail
  MaxPairings

ASSUME RoomSendAssumption ==
  /\ NoMessage \notin RoomMessages
  /\ Unsaved \notin [msg : RoomMessages, nonce : Sends]
  /\ {MaxStoreFaults, MaxPairings} \subseteq Nat

VARIABLES
  pending,     \* pending-room-send.json
  sendPc, sendMsg, sendNonce,
  sendHome,    \* the pairing an invocation loaded
  wire,        \* requests on their way: [send, home, nonce, msg]
  reply,       \* what the home answered a sender that still waits
  paired,      \* how often the device was paired
  admitted,    \* what the homes started: [home, nonce, msg]
  completed,   \* completed responses at the current home, by message
  forfeited,   \* messages whose recovery something gave up
  storeFaults

sendVars == <<sendPc, sendMsg, sendNonce, sendHome>>
roomVars == <<pending, sendVars, wire, reply, paired, admitted, completed, forfeited, storeFaults>>

Started(m) == {a \in admitted : a.home = paired /\ a.msg = m}
Waiting(s) == sendPc[s] = "waiting"

RoomInit ==
  /\ pending = Unsaved
  /\ sendPc = [s \in Sends |-> "idle"]
  /\ sendMsg = [s \in Sends |-> NoMessage]
  /\ sendNonce = [s \in Sends |-> s]
  /\ sendHome = [s \in Sends |-> 0]
  /\ wire = {} /\ reply = [s \in Sends |-> "none"]
  /\ paired = 0 /\ admitted = {} /\ completed = [m \in RoomMessages |-> 0]
  /\ forfeited = {} /\ storeFaults = 0

\* An invocation is over; what it knew goes with it.
Ends(s) ==
  /\ sendPc' = [sendPc EXCEPT ![s] = "done"]
  /\ sendMsg' = [sendMsg EXCEPT ![s] = NoMessage]
  /\ sendNonce' = [sendNonce EXCEPT ![s] = s]
  /\ sendHome' = [sendHome EXCEPT ![s] = 0]
  /\ reply' = [reply EXCEPT ![s] = "none"]

\* A file operation that fails: the caller ignores it and goes on.
StoreFault == storeFaults < MaxStoreFaults /\ storeFaults' = storeFaults + 1
StoreWorks == UNCHANGED storeFaults

\* Mutant: every invocation makes a fresh nonce.
FreshNonce(s, m) == s

\* The nonce of the record if it is for this very message, a fresh one else.
NonceFor(s, m) ==
  IF pending # Unsaved /\ pending.msg = m THEN pending.nonce ELSE s

\* The start of execute_room_send, up to the signed request: from here on that
\* may arrive at any time, or never. A record that cannot be read counts as none.
\* Two invocations of one message at a time are two messages to the home.
LoadAndSend(s, m) ==
  /\ sendPc[s] = "idle"
  /\ sendPc' = [sendPc EXCEPT ![s] = "waiting"]
  /\ sendMsg' = [sendMsg EXCEPT ![s] = m]
  /\ sendHome' = [sendHome EXCEPT ![s] = paired]
  /\ \/ StoreWorks /\ sendNonce' = [sendNonce EXCEPT ![s] = NonceFor(s, m)]
     \/ StoreFault /\ sendNonce' = sendNonce
  /\ wire' = wire \cup {[send |-> s, home |-> paired, nonce |-> sendNonce'[s], msg |-> m]}
  /\ forfeited' = IF storeFaults' # storeFaults \/ \E t \in Sends : Waiting(t) /\ sendMsg[t] = m
                  THEN forfeited \cup {m} ELSE forfeited
  /\ UNCHANGED <<pending, reply, paired, admitted, completed>>

\* The home starts a message it does not know the nonce of, and returns the
\* original admission for one it knows. It may refuse the room.
HomeAnswers(req) ==
  LET same == {a \in admitted : a.home = req.home /\ a.nonce = req.nonce}
      replied(what) == [reply EXCEPT ![req.send] = IF Waiting(req.send) THEN what ELSE "none"]
  IN  /\ wire' = wire \ {req}
      /\ \/ /\ admitted' = IF same # {} THEN admitted ELSE admitted \cup
                 {[home |-> req.home, nonce |-> req.nonce, msg |-> req.msg]}
            /\ reply' = replied("admitted")
         \/ same = {} /\ reply' = replied("refused") /\ UNCHANGED admitted
      /\ UNCHANGED <<pending, sendVars, paired, completed, forfeited, storeFaults>>

\* Messages other than m whose record goes when the file is cleared or replaced.
Displaced(m) == IF pending # Unsaved /\ pending.msg # m THEN {pending.msg} ELSE {}

\* Exit 0: the record is removed, whichever message it is for. If that fails, a
\* later send of the same message would be taken for this one.
SendCompletes(s) ==
  /\ Waiting(s) /\ reply[s] = "admitted" /\ Ends(s)
  /\ completed' = IF sendHome[s] = paired
                  THEN [completed EXCEPT ![sendMsg[s]] = @ + 1] ELSE completed
  /\ \/ /\ StoreWorks /\ pending' = Unsaved
        /\ forfeited' = forfeited \cup Displaced(sendMsg[s])
     \/ /\ StoreFault /\ UNCHANGED pending
        /\ forfeited' = IF pending # Unsaved /\ pending.msg = sendMsg[s]
                        THEN forfeited \cup {sendMsg[s]} ELSE forfeited
  /\ UNCHANGED <<wire, paired, admitted>>

\* Any other exit (no proof from the home, a refusal, no answer in time): the
\* record is written. A write that fails may still have replaced the file.
SendFails(s) ==
  LET record == [msg |-> sendMsg[s], nonce |-> sendNonce[s]]
  IN  /\ Waiting(s) /\ Ends(s)
      /\ \/ /\ StoreWorks /\ pending' = record
            /\ forfeited' = forfeited \cup Displaced(sendMsg[s])
         \/ /\ StoreFault /\ pending' \in {pending, record}
            /\ forfeited' = forfeited \cup Displaced(sendMsg[s]) \cup {sendMsg[s]}
      /\ UNCHANGED <<wire, paired, admitted, completed>>

\* The process is killed before it wrote or removed the record.
SendKilled(s) ==
  /\ Waiting(s) /\ Ends(s)
  /\ forfeited' = forfeited \cup {sendMsg[s]}
  /\ UNCHANGED <<pending, wire, paired, admitted, completed, storeFaults>>

\* FileStore::save of a new pairing, which removes the record; a removal that
\* fails is ignored. Invocations still under way belong to the old home.
PairAgain ==
  /\ paired < MaxPairings /\ paired' = paired + 1
  /\ \/ StoreWorks /\ pending' = Unsaved
     \/ StoreFault /\ UNCHANGED pending
  /\ completed' = [m \in RoomMessages |-> 0]
  /\ forfeited' = forfeited \cup {sendMsg[s] : s \in {t \in Sends : Waiting(t)}}
  /\ UNCHANGED <<sendVars, wire, reply, admitted>>

RoomNext ==
  \/ \E s \in Sends :
       \/ \E m \in RoomMessages : LoadAndSend(s, m)
       \/ SendCompletes(s) \/ SendFails(s) \/ SendKilled(s)
  \/ \E req \in wire : HomeAnswers(req)
  \/ PairAgain

RoomSpec == RoomInit /\ [][RoomNext]_roomVars

RoomTypeOK ==
  /\ pending \in [msg : RoomMessages, nonce : Sends] \cup {Unsaved}
  /\ sendPc \in [Sends -> {"idle", "waiting", "done"}]
  /\ sendMsg \in [Sends -> RoomMessages \cup {NoMessage}] /\ sendNonce \in [Sends -> Sends]
  /\ wire \subseteq [send : Sends, home : 0..MaxPairings, nonce : Sends, msg : RoomMessages]
  /\ reply \in [Sends -> {"none", "admitted", "refused"}]
  /\ admitted \subseteq [home : 0..MaxPairings, nonce : Sends, msg : RoomMessages]
  /\ forfeited \subseteq RoomMessages /\ storeFaults \in 0..MaxStoreFaults

\* A message is started once for every response the operator saw complete, plus
\* at most once for attempts whose answer was lost, and no response completes
\* without a start of its own: also when a request arrives after its sender gave
\* up, and across a new pairing that left the old record behind. It fails only
\* where recovery was given up: a store that failed, a killed process, two
\* invocations of one message at a time, or another message sent in between.
RoomSendSound ==
  \A m \in RoomMessages \ forfeited :
    Cardinality(Started(m)) \in {completed[m], completed[m] + 1}
=============================================================================
