---------------------------- MODULE ChannelIntake ---------------------------
(***************************************************************************)
(* Messages from chat channels (crates/server, slack-adapter): a signed    *)
(* Slack request is checked against the clock, then, under a lock, against *)
(* the requests seen before, and offered to the turn worker's bounded      *)
(* queue; forwarders offer what the other channels receive; the worker     *)
(* runs one message at a time and edits its reply into the channel;        *)
(* shutdown takes the sender and joins the worker. A handler's copy of the *)
(* sender outlives the shutdown that takes the original.                   *)
(***************************************************************************)
EXTENDS Naturals, Sequences, SequencesExt

CONSTANTS
  SlackRequests,  \* signed requests as Slack may deliver them, again and again
  SignedAt,       \* request -> its timestamp
  IsMessage,      \* request -> it carries a message of an allowed sender
  Handlers,       \* HTTP handlers of /slack/events that may overlap
  Inbound,        \* messages of the forwarded channels
  ReplayWindow,   \* REPLAY_WINDOW_SECONDS
  QueueCapacity,  \* WORKER_QUEUE_CAPACITY
  LastSecond,     \* bound: the clock stops
  MaxDeliveries,  \* bound: Slack requests delivered
  MaxDeltas       \* bound: content deltas of a turn

ASSUME ChannelAssumption ==
  /\ SignedAt \in [SlackRequests -> Nat] /\ IsMessage \in [SlackRequests -> BOOLEAN]
  /\ {ReplayWindow, QueueCapacity, LastSecond, MaxDeliveries, MaxDeltas} \subseteq Nat
  /\ SlackRequests \cap Inbound = {} /\ "none" \notin SlackRequests \cup Inbound

VARIABLES
  second,     \* the wall clock
  seen,       \* replay_cache: requests, by timestamp and signature
  lapsed,     \* requests forgotten while a handler could still accept them
  handler,    \* handler -> [at, req, now]
  delivered,  \* how many requests Slack has sent
  answers,    \* request -> the statuses its deliveries got
  forwarder,  \* "waits", "holds" a received message, "sends", "stopped"
  arriving,   \* messages the adapters have not passed on yet
  carried,    \* the message the forwarder holds
  workQueue,
  sender,     \* work_tx still holds the sender
  turn,       \* the worker: [at, msg, reply, last_sent]
  display,    \* message -> what the channel shows of its latest reply
  handled,    \* messages whose turn is over, in order
  taken,      \* messages the queue accepted, in order
  missed      \* messages whose placeholder or last edit failed, or whose turn panicked

channelVars == <<second, seen, lapsed, handler, delivered, answers, forwarder, arriving, carried,
                 workQueue, sender, turn, display, handled, taken, missed>>

NoRequest == [at |-> "idle", req |-> "none", now |-> 0]
NoTurn == [at |-> "idle", msg |-> "none", reply |-> 0, last_sent |-> 0]
ChannelMessages == SlackRequests \cup Inbound

ChannelInit ==
  /\ second = 0 /\ seen = {} /\ lapsed = {}
  /\ handler = [h \in Handlers |-> NoRequest]
  /\ delivered = 0 /\ answers = [r \in SlackRequests |-> {}]
  /\ forwarder = "waits" /\ arriving = Inbound /\ carried = "none"
  /\ workQueue = <<>> /\ sender = TRUE /\ turn = NoTurn
  /\ display = [m \in ChannelMessages |-> <<"nothing">>]
  /\ handled = <<>> /\ taken = <<>> /\ missed = {}

-----------------------------------------------------------------------------
\* Slack.

AbsDiff(a, b) == IF a >= b THEN a - b ELSE b - a
Fresh(now, r) == AbsDiff(now, SignedAt[r]) <= ReplayWindow

Answer(h, r, status) ==
  /\ answers' = [answers EXCEPT ![r] = @ \cup {status}]
  /\ handler' = [handler EXCEPT ![h] = NoRequest]

\* parse_event reads the clock, parse_event_at checks the timestamp against it.
SlackDelivers(h, r) ==
  /\ handler[h].at = "idle"
  /\ delivered < MaxDeliveries /\ delivered' = delivered + 1
  /\ \/ ~Fresh(second, r) /\ Answer(h, r, 401)
     \/ /\ Fresh(second, r)
        /\ handler' = [handler EXCEPT ![h] = [at |-> "stamped", req |-> r, now |-> second]]
        /\ UNCHANGED answers
  /\ UNCHANGED <<second, seen, lapsed, forwarder, arriving, carried, workQueue, sender,
                 turn, display, handled, taken, missed>>

\* What reject_duplicate_replay keeps before it looks, by the clock its handler
\* read, and what it drops too early: a request that is in its window still, or
\* that another handler has found to be.
Retained(h) == {q \in seen : Fresh(handler[h].now, q)}
DroppedEarly(h) ==
  {q \in seen \ Retained(h) :
     Fresh(second, q) \/ \E g \in Handlers : handler[g].at = "stamped" /\ handler[g].req = q}

\* reject_duplicate_replay, then the event. The request is remembered whatever
\* becomes of its message.
SlackRemembers(h) ==
  LET r == handler[h].req IN
  /\ handler[h].at = "stamped"
  /\ lapsed' = lapsed \cup DroppedEarly(h)
  /\ seen' = Retained(h) \cup {r}
  /\ \/ r \in Retained(h) /\ Answer(h, r, 401)
     \/ /\ r \notin Retained(h) /\ IsMessage[r]
        /\ handler' = [handler EXCEPT ![h] = [at |-> "parsed", req |-> r, now |-> 0]]
        /\ UNCHANGED answers
     \/ r \notin Retained(h) /\ ~IsMessage[r] /\ Answer(h, r, 200)
  /\ UNCHANGED <<second, delivered, forwarder, arriving, carried, workQueue, sender, turn,
                 display, handled, taken, missed>>

\* work_sender: a copy of the sender, or WorkerGone.
SlackCopiesSender(h) ==
  /\ handler[h].at = "parsed"
  /\ \/ sender /\ handler' = [handler EXCEPT ![h].at = "copied"] /\ UNCHANGED answers
     \/ ~sender /\ Answer(h, handler[h].req, 503)
  /\ UNCHANGED <<second, seen, lapsed, delivered, forwarder, arriving, carried, workQueue, sender,
                 turn, display, handled, taken, missed>>

\* try_send: accepted, or the queue is full.
Offer(m) ==
  \/ /\ Len(workQueue) < QueueCapacity
     /\ workQueue' = Append(workQueue, m) /\ taken' = Append(taken, m)
  \/ /\ Len(workQueue) = QueueCapacity
     /\ UNCHANGED <<workQueue, taken>>

SlackEnqueues(h) ==
  /\ handler[h].at = "copied"
  /\ Offer(handler[h].req)
  /\ Answer(h, handler[h].req, IF taken' # taken THEN 200 ELSE 503)
  /\ UNCHANGED <<second, seen, lapsed, delivered, forwarder, arriving, carried, sender, turn,
                 display, handled, missed>>

-----------------------------------------------------------------------------
\* The forwarder of another channel.

ForwarderReceives(m) ==
  /\ forwarder = "waits" /\ m \in arriving
  /\ forwarder' = "holds" /\ carried' = m /\ arriving' = arriving \ {m}
  /\ UNCHANGED <<second, seen, lapsed, delivered, handler, answers, workQueue, sender, turn,
                 display, handled, taken, missed>>

\* A receive error ends the forwarder, and what was still to come is never taken.
ForwarderFails ==
  /\ forwarder = "waits" /\ forwarder' = "stopped"
  /\ UNCHANGED <<second, seen, lapsed, delivered, handler, answers, arriving, carried, workQueue,
                 sender, turn, display, handled, taken, missed>>

\* The sender is gone: the forwarder stops, with the message.
ForwarderCopiesSender ==
  /\ forwarder = "holds"
  /\ forwarder' = IF sender THEN "sends" ELSE "stopped"
  /\ UNCHANGED <<second, seen, lapsed, delivered, handler, answers, arriving, carried, workQueue,
                 sender, turn, display, handled, taken, missed>>

\* A full queue drops the message.
ForwarderSends ==
  /\ forwarder = "sends"
  /\ Offer(carried) /\ forwarder' = "waits" /\ carried' = "none"
  /\ UNCHANGED <<second, seen, lapsed, delivered, handler, answers, arriving, sender, turn,
                 display, handled, missed>>

-----------------------------------------------------------------------------
\* The worker.

WorkerTakes ==
  /\ turn.at = "idle" /\ workQueue # <<>>
  /\ turn' = [NoTurn EXCEPT !.at = "placeholder", !.msg = Head(workQueue)]
  /\ workQueue' = Tail(workQueue)
  /\ UNCHANGED <<second, seen, lapsed, delivered, handler, answers, forwarder, arriving, carried,
                 sender, display, handled, taken, missed>>

\* The turn is over and the worker looks for the next message.
TurnOver == turn' = NoTurn /\ handled' = Append(handled, turn.msg)
Reply(deltas) == <<"reply", deltas>>
Shows(text) == display' = [display EXCEPT ![turn.msg] = text]
EditFails == missed' = missed \cup {turn.msg} /\ UNCHANGED display

\* No text, no token or no placeholder: the message is given up.
PostsPlaceholder ==
  /\ turn.at = "placeholder"
  /\ \/ /\ Shows(<<"placeholder">>) /\ turn' = [turn EXCEPT !.at = "streams"]
        /\ UNCHANGED <<handled, missed>>
     \/ TurnOver /\ EditFails
  /\ UNCHANGED <<second, seen, lapsed, delivered, handler, answers, forwarder, arriving, carried,
                 workQueue, sender, taken>>

\* A content delta: the reply so far is edited in; a failed edit is not retried,
\* and the next one carries all of the text.
StreamsDelta ==
  /\ turn.at = "streams" /\ turn.reply < MaxDeltas
  /\ \/ /\ Shows(Reply(turn.reply + 1)) /\ missed' = missed \ {turn.msg}
        /\ turn' = [turn EXCEPT !.reply = @ + 1, !.last_sent = turn.reply + 1]
     \/ EditFails /\ turn' = [turn EXCEPT !.reply = @ + 1]
  /\ UNCHANGED <<second, seen, lapsed, delivered, handler, answers, forwarder, arriving, carried,
                 workQueue, sender, handled, taken>>

\* Finish with a reply, or without one: the notice is edited in.
TurnFinishes ==
  /\ turn.at = "streams" /\ TurnOver
  /\ \/ turn.reply # 0 /\ UNCHANGED <<display, missed>>
     \/ turn.reply = 0 /\ Shows(<<"No response generated.">>) /\ UNCHANGED missed
     \/ turn.reply = 0 /\ EditFails
  /\ UNCHANGED <<second, seen, lapsed, delivered, handler, answers, forwarder, arriving, carried,
                 workQueue, sender, taken>>

\* The turn fails: the apology replaces what was shown.
TurnErrs ==
  /\ turn.at = "streams" /\ TurnOver
  /\ \/ Shows(<<"Sorry">>) /\ missed' = missed \ {turn.msg}
     \/ EditFails
  /\ UNCHANGED <<second, seen, lapsed, delivered, handler, answers, forwarder, arriving, carried,
                 workQueue, sender, taken>>

\* A panic inside the turn is caught around it.
TurnPanics ==
  /\ turn.at \in {"placeholder", "streams"} /\ TurnOver
  /\ missed' = missed \cup {turn.msg}
  /\ UNCHANGED <<second, seen, lapsed, delivered, handler, answers, forwarder, arriving, carried,
                 workQueue, sender, display, taken>>

Copies == {h \in Handlers : handler[h].at = "copied"}

\* recv returns None: no sender is left and nothing is queued.
WorkerExits ==
  /\ turn.at = "idle" /\ ~sender /\ Copies = {} /\ forwarder # "sends"
  /\ workQueue = <<>>
  /\ turn' = [NoTurn EXCEPT !.at = "gone"]
  /\ UNCHANGED <<second, seen, lapsed, delivered, handler, answers, forwarder, arriving, carried,
                 workQueue, sender, display, handled, taken, missed>>

\* shutdown takes the sender; the join ends with WorkerExits.
Shutdown ==
  /\ sender /\ sender' = FALSE
  /\ UNCHANGED <<second, seen, lapsed, delivered, handler, answers, forwarder, arriving, carried,
                 workQueue, turn, display, handled, taken, missed>>

SecondPasses ==
  /\ second < LastSecond /\ second' = second + 1
  /\ UNCHANGED <<seen, lapsed, delivered, handler, answers, forwarder, arriving, carried, workQueue,
                 sender, turn, display, handled, taken, missed>>

ChannelNext ==
  \/ \E h \in Handlers, r \in SlackRequests : SlackDelivers(h, r)
  \/ \E h \in Handlers : SlackRemembers(h) \/ SlackCopiesSender(h) \/ SlackEnqueues(h)
  \/ \E m \in Inbound : ForwarderReceives(m)
  \/ ForwarderFails \/ ForwarderCopiesSender \/ ForwarderSends
  \/ WorkerTakes \/ PostsPlaceholder \/ StreamsDelta \/ TurnFinishes \/ TurnErrs
  \/ TurnPanics \/ WorkerExits \/ Shutdown \/ SecondPasses

-----------------------------------------------------------------------------
\* The queue keeps its capacity and only known requests are remembered.
ChannelTypeOK ==
  /\ Len(workQueue) <= QueueCapacity /\ seen \subseteq SlackRequests
  /\ turn.at \in {"idle", "placeholder", "streams", "gone"}
  /\ turn.last_sent <= turn.reply /\ turn.reply <= MaxDeltas

\* However often a signed request is delivered, by overlapping handlers and around
\* the ends of its window, its message runs once at most, unless it was forgotten
\* too early: each handler prunes by the clock it read before it took the lock, so
\* one that is ahead of another or behind it drops what the other still accepts.
RunsOnce ==
  \A i, j \in 1..Len(taken) :
    taken[i] = taken[j] /\ taken[i] \in SlackRequests => i = j \/ taken[i] \in lapsed

\* What was acknowledged is not lost, and is worked on in the order the queue took
\* it: also when the process is shutting down, and a handler that copied the sender
\* before sends after. The worker leaves nothing behind.
AcknowledgedIsHandled ==
  /\ taken = handled \o (IF turn.msg = "none" THEN <<>> ELSE <<turn.msg>>) \o workQueue
  /\ \A r \in SlackRequests :
       IsMessage[r] /\ 200 \in answers[r] => r \in Range(taken)
  /\ turn.at = "gone" => Range(taken) \subseteq Range(handled)

\* Between two deltas a channel shows all of the reply so far, and a turn that is
\* over does not leave it with the placeholder or nothing, unless the placeholder
\* could not be posted, the last edit failed or the turn panicked.
ReplyShown ==
  /\ (turn.at = "streams" /\ turn.msg \notin missed) =>
       display[turn.msg] = IF turn.reply = 0 THEN <<"placeholder">> ELSE Reply(turn.reply)
  /\ \A m \in (Range(handled) \ missed) \ {turn.msg} :
       display[m] \notin {<<"nothing">>, <<"placeholder">>}

\* What comes in through the channels.
ChannelsSound == RunsOnce /\ AcknowledgedIsHandled /\ ReplyShown
=============================================================================
