--------------------------- MODULE ProviderStream ---------------------------
(***************************************************************************)
(* A provider's answer as it arrives (crates/provider-openrouter,          *)
(* streaming.rs) and as a streamed turn takes it in (fused-runtime,        *)
(* stream_inner): an event stream cut into network chunks anywhere, lines  *)
(* decoded into chunks, index-keyed tool-call fragments mapped to id-keyed *)
(* events while they are also assembled into the calls to run, and a       *)
(* finish reason held back until usage. One task pulls all of it: what a   *)
(* network chunk completes is consumed before the next one is read, so a   *)
(* step is one network chunk.                                              *)
(***************************************************************************)
EXTENDS Naturals, Sequences, SequencesExt, TLC, NumberLists

CONSTANTS
  Wires,        \* what upstream may send: sequences of lines, see WireLines
  MaxLineBytes, \* MAX_SSE_LINE_BYTES
  ContentMax    \* stream_content_max_bytes

\* An id or a name that is not there or empty, which ingest takes for the same, and
\* a finish reason that is not there: an empty one is as unknown as any other text.
Absent == ""
Texts == STRING \cup {Absent}

\* A fragment of a tool call. Texts are sequences of pieces.
CallFragments == [index : Nat, id : STRING, name : STRING, arguments : Seq(STRING)]

\* A line of `bytes` bytes, its newline included. "skip": blank, a comment,
\* another field, or not UTF-8; "bad": data that is no chunk; "done": [DONE]. Usage
\* numbers the usage objects, one that reports nothing but zeros among them; 0 is
\* none.
WireLines ==
  [kind : {"skip", "bad", "done", "chunk"}, bytes : Nat, content : Seq(STRING),
   calls : Seq(CallFragments), finish : Texts, usage : Nat]

\* Only a chunk carries anything, and a line that is only a newline is blank.
ASSUME StreamAssumption ==
  /\ MaxLineBytes \in Nat /\ ContentMax \in Nat
  /\ \A w \in Wires :
       /\ w \in Seq(WireLines)
       /\ \A k \in 1..Len(w) :
            /\ w[k].bytes > 0 /\ (w[k].bytes = 1 => w[k].kind = "skip")
            /\ w[k].kind # "chunk" => /\ w[k].content = <<>> /\ w[k].calls = <<>>
                                     /\ w[k].finish = Absent /\ w[k].usage = 0

WireLine(kind, bytes, content, calls, finish, usage) ==
  [kind |-> kind, bytes |-> bytes, content |-> content, calls |-> calls,
   finish |-> finish, usage |-> usage]

VARIABLES
  wire,     \* the lines upstream sends in this behaviour
  got,      \* bytes of them received
  decoder,  \* StreamState: [pending, acc, finish, finished]
  adapter,  \* EventAdapter: [ids, held]
  events,   \* what Provider::stream has yielded
  answer    \* the turn's side: [content, usage, finish, outcome]

streamVars == <<wire, got, decoder, adapter, events, answer>>

Event(kind, id, data) == [kind |-> kind, id |-> id, data |-> data]
Finish(reason, calls) == [reason |-> reason, calls |-> calls]

\* No stream yet: nothing decoded, and a turn that would end in Stop.
StreamInit ==
  /\ wire \in Wires /\ got = 0 /\ events = <<>>
  /\ decoder = [pending |-> <<>>, acc |-> <<>>, finish |-> <<>>, finished |-> FALSE]
  /\ adapter = [ids |-> <<>>, held |-> <<>>]
  /\ answer = [content |-> <<>>, usage |-> 0, finish |-> Finish("Stop", <<>>),
               outcome |-> "open"]

-----------------------------------------------------------------------------
\* Decoding.

\* A map with one entry written.
Put(map, i, x) == [k \in DOMAIN map \cup {i} |-> IF k = i THEN x ELSE map[k]]

\* ToolCallAccumulator::ingest: the last id and name, all argument fragments.
ingest(acc, d) ==
  LET old == IF d.index \in DOMAIN acc THEN acc[d.index]
             ELSE [id |-> Absent, name |-> Absent, arguments |-> <<>>]
  IN Put(acc, d.index, [id |-> IF d.id # Absent THEN d.id ELSE old.id,
                        name |-> IF d.name # Absent THEN d.name ELSE old.name,
                        arguments |-> old.arguments \o d.arguments])

\* serde_json::from_str(..).unwrap_or(Null): "{" and "}" stand for the text that
\* opens and closes a JSON object.
ParsedArguments(text) ==
  IF text # <<>> /\ Head(text) = "{" /\ Last(text) = "}" THEN text ELSE <<"null">>

\* ToolCallAccumulator::finalize: the calls in the order of their index.
finalize(acc) ==
  LET order == Listed(DOMAIN acc)
  IN [k \in 1..Len(order) |->
        [acc[order[k]] EXCEPT !.arguments = ParsedArguments(@)]]

map_stream_finish_reason(reason, acc) ==
  CASE reason = "stop" -> Finish("Stop", <<>>)
    [] reason = "length" -> Finish("MaxTokens", <<>>)
    [] reason = "tool_calls" -> Finish("ToolUse", finalize(acc))
    [] OTHER -> Finish("Error", <<>>)

flush_pending_finish(st) ==
  [st EXCEPT !.pending = @ \o [k \in 1..Len(st.finish) |-> Event("done", Absent, st.finish[k])],
             !.finish = <<>>]

\* The finish reason replaced by a chunk: it sees the chunk's own fragments.
PendingFinish(st, acc, chunk) ==
  IF chunk.finish = Absent THEN st.finish
  ELSE <<map_stream_finish_reason(chunk.finish, acc)>>

\* Mutant: the finish reason is passed on as soon as it is known.
process_chunk_eager(st, chunk) ==
  LET acc == FoldLeft(ingest, st.acc, chunk.calls)
      read == flush_pending_finish([st EXCEPT
        !.pending = @ \o (IF chunk.content = <<>> THEN <<>>
                          ELSE <<Event("content", Absent, chunk.content)>>)
                      \o [k \in 1..Len(chunk.calls) |-> Event("call", Absent, chunk.calls[k])],
        !.acc = acc,
        !.finish = PendingFinish(st, acc, chunk)])
  IN IF chunk.usage = 0 THEN read
     ELSE [read EXCEPT !.pending = Append(@, Event("usage", Absent, chunk.usage))]

\* process_chunk: content, tool calls, usage, and only then the finish reason.
process_chunk(st, chunk) ==
  LET acc == FoldLeft(ingest, st.acc, chunk.calls)
      read == [st EXCEPT
        !.pending = @ \o (IF chunk.content = <<>> THEN <<>>
                          ELSE <<Event("content", Absent, chunk.content)>>)
                      \o [k \in 1..Len(chunk.calls) |-> Event("call", Absent, chunk.calls[k])],
        !.acc = acc,
        !.finish = PendingFinish(st, acc, chunk)]
  IN IF chunk.usage = 0 THEN read
     ELSE flush_pending_finish(
            [read EXCEPT !.pending = Append(@, Event("usage", Absent, chunk.usage))])

Failed(st) == [st EXCEPT !.pending = Append(@, Event("error", Absent, <<>>))]
Ended(st) == [st EXCEPT !.finished = TRUE]

\* handle_sse_line; what follows [DONE] is not read any more.
handle_sse_line(st, line) ==
  CASE st.finished \/ line.kind = "skip" -> st
    [] ~st.finished /\ line.kind = "done" -> Ended(flush_pending_finish(st))
    [] ~st.finished /\ line.kind = "bad" -> Failed(st)
    [] ~st.finished /\ line.kind = "chunk" -> process_chunk(st, line)

\* Lines that end within the first n bytes, and the bytes they take.
BytesOf(lines) == FoldLeft(LAMBDA sum, line : sum + line.bytes, 0, lines)
EndOf(k) == BytesOf(SubSeq(wire, 1, k))
LinesIn(n) == CHOOSE k \in 0..Len(wire) :
                EndOf(k) <= n /\ (k = Len(wire) \/ n < EndOf(k + 1))

\* drain_lines: every whole line, then the limit on what is left of the buffer.
drain_lines(st, n) ==
  LET read == FoldLeft(handle_sse_line, st, SubSeq(wire, LinesIn(got) + 1, LinesIn(n)))
  IN IF ~read.finished /\ n - EndOf(LinesIn(n)) > MaxLineBytes
       THEN Ended(Failed(read)) ELSE read

-----------------------------------------------------------------------------
\* Adapting to the shared protocol.

\* EventAdapter::adapt_tool_call, as [adapter, out]. The first id of an index
\* starts its call and lets the fragments go that came before it.
adapt_tool_call(ad, d) ==
  LET starts == d.id # Absent /\ d.index \notin DOMAIN ad.ids
      ids == IF starts THEN Put(ad.ids, d.index, d.id) ELSE ad.ids
      before == IF d.index \in DOMAIN ad.held THEN ad.held[d.index] ELSE <<>>
      known == d.index \in DOMAIN ids
      frags == (IF starts THEN before ELSE <<>>) \o d.arguments
  IN [adapter |->
        [ids |-> ids,
         held |-> Put(ad.held, d.index, IF known THEN <<>> ELSE before \o d.arguments)],
      out |-> (IF starts THEN <<Event("start", d.id, d.name)>> ELSE <<>>)
              \o (IF ~known THEN <<>>
                  ELSE [k \in 1..Len(frags) |-> Event("delta", ids[d.index], frags[k])])]

\* into_provider_events: an error is the last thing it yields.
adapt(as, chunk) ==
  CASE as.over -> as
    [] ~as.over /\ chunk.kind = "call" ->
         LET a == adapt_tool_call(as.adapter, chunk.data)
         IN [as EXCEPT !.adapter = a.adapter, !.out = @ \o a.out]
    [] ~as.over /\ chunk.kind # "call" ->
         [as EXCEPT !.out = Append(@, chunk), !.over = chunk.kind = "error"]

-----------------------------------------------------------------------------
\* Taking it in: the loop of stream_inner. An error or content past its limit
\* ends the round: the reservation is released and nothing is committed.

TakesContent(an, text) ==
  LET content == an.content \o text IN
  [an EXCEPT !.content = content,
             !.outcome = IF Len(content) > ContentMax THEN "over_cap" ELSE @]

Takes(an, ev) ==
  IF an.outcome # "open" THEN an
  ELSE CASE ev.kind = "content" -> TakesContent(an, ev.data)
         [] ev.kind = "usage" -> [an EXCEPT !.usage = ev.data]
         [] ev.kind = "done" -> [an EXCEPT !.finish = ev.data]
         [] ev.kind = "error" -> [an EXCEPT !.outcome = "error"]
         [] OTHER -> an

\* The stream ended: the round goes on with what it has.
Assembled(an, st) ==
  IF st.finished /\ an.outcome = "open" THEN [an EXCEPT !.outcome = "ok"] ELSE an

\* The task polls until nothing is pending: decoder, adapter, turn.
Polls(st) ==
  LET as == FoldLeft(adapt, [adapter |-> adapter, out |-> <<>>, over |-> FALSE], st.pending)
  IN /\ decoder' = [st EXCEPT !.pending = <<>>]
     /\ adapter' = as.adapter
     /\ events' = events \o as.out
     /\ answer' = Assembled(FoldLeft(Takes, answer, as.out), st)

Reading == answer.outcome = "open" /\ ~decoder.finished

\* A network chunk of n bytes.
Receives(n) ==
  /\ Reading /\ n > 0 /\ got + n <= EndOf(Len(wire))
  /\ got' = got + n
  /\ Polls(drain_lines(decoder, got + n))
  /\ UNCHANGED wire

\* The connection breaks: NetworkFailure.
ConnectionBreaks ==
  /\ Reading
  /\ Polls(Ended(Failed(decoder)))
  /\ UNCHANGED <<wire, got>>

\* A line without its newline when upstream closes. All but the newline is the
\* line; less of it is no field, no UTF-8 or no chunk.
Trailing ==
  LET k == LinesIn(got)
      rest == got - EndOf(k)
  IN IF rest = 0 THEN {WireLine("skip", 0, <<>>, <<>>, Absent, 0)}
     ELSE IF rest = wire[k + 1].bytes - 1 THEN {wire[k + 1]}
     ELSE {WireLine(kind, rest, <<>>, <<>>, Absent, 0) :
             kind \in IF wire[k + 1].kind = "skip" THEN {"skip"} ELSE {"skip", "bad"}}

\* Upstream closes, at any byte.
UpstreamCloses ==
  /\ Reading
  /\ \E line \in Trailing :
       Polls(Ended(flush_pending_finish(handle_sse_line(decoder, line))))
  /\ UNCHANGED <<wire, got>>

StreamNext ==
  \/ \E n \in 1..EndOf(Len(wire)) : Receives(n)
  \/ ConnectionBreaks
  \/ UpstreamCloses

StreamSpec == StreamInit /\ [][StreamNext]_streamVars

-----------------------------------------------------------------------------
\* The decoder's queue is empty between polls and the adapter holds fragments
\* only of calls it cannot name yet.
StreamTypeOK ==
  /\ wire \in Wires /\ got \in 0..EndOf(Len(wire))
  /\ decoder.pending = <<>>
  /\ answer.outcome \in {"open", "ok", "error", "over_cap"}
  /\ \A i \in DOMAIN adapter.held : adapter.held[i] # <<>> => i \notin DOMAIN adapter.ids

\* The lines that count: whole ones (or all but the newline, once upstream has
\* closed), up to [DONE].
WholeLines ==
  LET k == LinesIn(got) IN
  IF k < Len(wire) /\ decoder.finished /\ got = EndOf(k + 1) - 1
    THEN SubSeq(wire, 1, k + 1) ELSE SubSeq(wire, 1, k)
Counted ==
  LET w == WholeLines
      dones == {k \in 1..Len(w) : w[k].kind = "done"}
      upto == IF dones = {} THEN Len(w) ELSE (CHOOSE k \in dones : \A j \in dones : k <= j) - 1
  IN SubSeq(w, 1, upto)

\* The fragments of tool calls in some lines, in order, and the arguments they
\* have for one index.
Concat(seqs) == FoldLeft(LAMBDA a, b : a \o b, <<>>, seqs)
FragmentsIn(lines) == Concat([k \in 1..Len(lines) |-> lines[k].calls])
ArgumentsOf(frags, i) ==
  Concat([j \in 1..Len(frags) |-> IF frags[j].index = i THEN frags[j].arguments ELSE <<>>])
Indices(frags) == {frags[j].index : j \in 1..Len(frags)}
LastWhere(lines, P(_)) ==
  LET ks == {k \in 1..Len(lines) : P(lines[k])} IN
  IF ks = {} THEN 0 ELSE CHOOSE k \in ks : \A j \in ks : j <= k

\* What a finish reason stands for.
ReasonFor(text) ==
  IF text = "stop" THEN "Stop" ELSE IF text = "length" THEN "MaxTokens"
  ELSE IF text = "tool_calls" THEN "ToolUse" ELSE "Error"

\* However the bytes were cut into chunks, a round that goes on has the text, the
\* last usage and the last finish reason of the lines that count (Stop when there
\* is none), with the calls made of all fragments up to that reason, and no line
\* was refused: a damaged answer, or one past the limit, never goes on
\* (streaming.rs:268, runtime.rs stream_inner).
AnswerIsWire ==
  answer.outcome = "ok" =>
    LET lines == Counted
        u == LastWhere(lines, LAMBDA l : l.usage # 0)
        f == LastWhere(lines, LAMBDA l : l.finish # Absent)
    IN /\ \A k \in 1..Len(lines) : lines[k].kind # "bad"
       /\ answer.content = Concat([k \in 1..Len(lines) |-> lines[k].content])
       /\ Len(answer.content) <= ContentMax
       /\ answer.usage = IF u = 0 THEN 0 ELSE lines[u].usage
       /\ f = 0 => answer.finish.reason = "Stop"
       /\ f # 0 => answer.finish.reason = ReasonFor(lines[f].finish)
       /\ (f # 0 /\ lines[f].finish = "tool_calls") =>
            LET sent == FragmentsIn(SubSeq(lines, 1, f))
                order == Listed(Indices(sent))
            IN /\ Len(answer.finish.calls) = Len(order)
               /\ \A k \in 1..Len(order) :
                    answer.finish.calls[k].arguments
                      = ParsedArguments(ArgumentsOf(sent, order[k]))

\* A client never sees a fragment of a call it was not told of, and a call is
\* announced once. What it saw of a call, in order, is what is run: unless upstream
\* sent fragments after a finish reason, never sent an id, changed one or gave it to
\* two calls.
StartsOf(id) == {k \in 1..Len(events) : events[k].kind = "start" /\ events[k].id = id}
DeltasOf(id) ==
  Concat([k \in 1..Len(events) |->
            IF events[k].kind = "delta" /\ events[k].id = id THEN <<events[k].data>> ELSE <<>>])
OneIdEach(frags) ==
  \A j, k \in 1..Len(frags) :
    /\ frags[j].id # Absent /\ frags[k].id # Absent
    /\ frags[j].index = frags[k].index \/ frags[j].id = frags[k].id
    => j = k
CallsInOrder ==
  LET sent == FragmentsIn(wire) IN
  /\ \A j, k \in 1..Len(wire) : (j < k /\ wire[j].finish # Absent) => wire[k].calls = <<>>
  /\ \A i \in Indices(sent) :
       \E j \in 1..Len(sent) : sent[j].index = i /\ sent[j].id # Absent
  /\ OneIdEach(sent)
ShownIsRun ==
  /\ \A k \in 1..Len(events) : events[k].kind = "delta" =>
       \E j \in 1..(k - 1) : events[j].kind = "start" /\ events[j].id = events[k].id
  /\ (answer.outcome = "ok" /\ answer.finish.reason = "ToolUse" /\ CallsInOrder) =>
       \A k \in 1..Len(answer.finish.calls) :
         LET call == answer.finish.calls[k]
         IN /\ \E j \in 1..Len(events) : StartsOf(call.id) = {j}
            /\ call.arguments = ParsedArguments(DeltasOf(call.id))

\* Usage never follows the finish reason when upstream reports it once, before,
\* with or after that reason: a consumer that stops at Finish is not billed zero.
UsageBeforeFinish ==
  (\A j, k \in 1..Len(wire) : wire[j].usage # 0 /\ wire[k].usage # 0 => j = k) =>
    \A k \in 1..Len(events) : events[k].kind = "usage" =>
      \A j \in 1..(k - 1) : events[j].kind # "done"

\* What is answered, shown and run is what upstream sent.
StreamSound == AnswerIsWire /\ ShownIsRun /\ UsageBeforeFinish
=============================================================================
