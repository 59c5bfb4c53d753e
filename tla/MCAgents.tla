------------------------------ MODULE MCAgents ------------------------------
(***************************************************************************)
(* Work beside the turn, what keeps it in bounds and what it relies on:    *)
(* BackgroundTasks, MultiAgents, Delegation, Resilience, MemoryRecall,     *)
(* CapTokens and DenyList, and what comes in from outside: ProviderStream  *)
(* and ChannelIntake, on small instances. They share no state, so a        *)
(* behaviour moves one of them and leaves the others at their initial      *)
(* states.                                                                 *)
(***************************************************************************)
EXTENDS BackgroundTasks, MultiAgents, Delegation, MCResilience,
        MemoryRecall, CapTokens, DenyList, ProviderStream, ChannelIntake

CONSTANTS f1, f2, f3

VARIABLE moves   \* the component that moves

\* Two facts of one subject and one of another, which is over at time 2.
MCFactOf ==
  f1 :> [subject |-> "a", root |-> "r", from |-> 1, to |-> 9]
  @@ f2 :> [subject |-> "a", root |-> "q", from |-> 2, to |-> 9]
  @@ f3 :> [subject |-> "b", root |-> "s", from |-> 1, to |-> 2]

CapBlock(kind, expires, budget, tools, audience) ==
  [kind |-> kind, expires |-> expires, budget |-> budget, tools |-> tools,
   audience |-> audience]

\* A budget above I64Max, and rules below, above and beside what they narrow.
MCScopes == {CapBlock("scope", 1, 3, {"x", "y"}, "a")}
MCNarrowings ==
  {CapBlock("expiry", 0, 0, {}, "a"), CapBlock("budget", 0, 1, {}, "a"),
   CapBlock("budget", 0, 3, {}, "a"), CapBlock("tools", 0, 0, {"y", "z"}, "a"),
   CapBlock("audience", 0, 0, {}, "b"), CapBlock("other", 0, 0, {}, "a")}
MCCapRequests == [now : 0..1, audience : {"a", "b"}, tool : {"x", "y"}, cost : 0..3]
MCTokenIds == {<<1>>, <<2>>}

\* Lines of an answer: text, fragments of two calls (one whose id comes late), a
\* finish reason before, with and without usage, and lines that are none of it.
TextLine(text) == WireLine("chunk", 2, text, <<>>, "", 0)
CallLine(i, id, name, arguments) ==
  WireLine("chunk", 4, <<>>,
           <<[index |-> i, id |-> id, name |-> name, arguments |-> arguments]>>, "", 0)
EndLine(reason, usage) == WireLine("chunk", 2, <<>>, <<>>, reason, usage)
OtherLine(kind) == WireLine(kind, 2, <<>>, <<>>, "", 0)

Open1 == CallLine(1, "p", "read", <<"{">>)
Close1 == CallLine(1, "", "", <<"}">>)
Early0 == CallLine(0, "", "write", <<"{">>)
Open0 == CallLine(0, "q", "write", <<"}">>)

\* Every answer of up to two lines, two lines with each way to end, and two calls
\* that interleave.
MCLines ==
  {TextLine(<<"a">>), TextLine(<<"b", "c">>), Open1, Close1, Early0, Open0,
   EndLine("tool_calls", 0), EndLine("stop", 0), EndLine("", 5), EndLine("length", 6),
   EndLine("content_filter", 0), OtherLine("bad"), OtherLine("skip"), OtherLine("done")}
MCEndings ==
  {<<EndLine("tool_calls", 0), EndLine("", 5), OtherLine("done")>>,
   <<EndLine("", 5), EndLine("tool_calls", 0)>>,
   <<EndLine("tool_calls", 0), Close1, EndLine("stop", 5)>>,
   <<EndLine("stop", 5), TextLine(<<"a">>), EndLine("", 6)>>}
MCWires ==
  UNION {[1..n -> MCLines] : n \in 0..2}
  \cup {calls \o end : calls \in [1..2 -> {TextLine(<<"b", "c">>), Open1, Close1,
                                          Early0, Open0}],
                      end \in MCEndings}
  \cup {<<Open1, Early0, Close1, Open0>> \o end : end \in MCEndings}

\* A message and another event, whose windows begin and end at different times.
MCSignedAt == "message" :> 0 @@ "reaction" :> 2
MCIsMessage == "message" :> TRUE @@ "reaction" :> FALSE

reliedVars == <<memVars, token, denyVars>>
incomingVars == <<streamVars, channelVars>>

AgentsInit ==
  /\ moves \in {"background", "registry", "delegation", "breaker",
                "memory", "tokens", "denylist", "answers", "channels"}
  /\ BgInit /\ AgentInit /\ DelegInit /\ Init /\ MemInit /\ CapInit /\ DenyInit
  /\ StreamInit /\ ChannelInit
  /\ moves # "breaker" => policy = CHOOSE p \in Policies : TRUE
  /\ moves # "answers" => wire = <<>>

\* The parts whose fairness is stated, and the others.
WorkNext ==
  \/ moves = "background" /\ BgNext /\ UNCHANGED <<agentVars, delegVars, vars>>
  \/ moves = "registry" /\ AgentNext /\ UNCHANGED <<bgVars, delegVars, vars>>
  \/ moves = "delegation" /\ DelegNext /\ UNCHANGED <<bgVars, agentVars, vars>>
  \/ moves = "breaker" /\ Next /\ UNCHANGED <<bgVars, agentVars, delegVars>>
ReliedNext ==
  \/ moves = "memory" /\ MemNext /\ UNCHANGED <<token, denyVars, incomingVars>>
  \/ moves = "tokens" /\ CapNext /\ UNCHANGED <<memVars, denyVars, incomingVars>>
  \/ moves = "denylist" /\ DenyNext /\ UNCHANGED <<memVars, token, incomingVars>>
  \/ moves = "answers" /\ StreamNext /\ UNCHANGED <<reliedVars, channelVars>>
  \/ moves = "channels" /\ ChannelNext /\ UNCHANGED <<reliedVars, streamVars>>

AgentsNext ==
  /\ \/ WorkNext /\ UNCHANGED <<reliedVars, incomingVars>>
     \/ ReliedNext /\ UNCHANGED <<bgVars, agentVars, delegVars, vars>>
  /\ UNCHANGED moves

agentsVars == <<moves, bgVars, agentVars, delegVars, vars, reliedVars, incomingVars>>

\* Nothing that fairness speaks of is enabled in a component's initial state, so
\* it only binds the component that moves.
AgentsSpec ==
  AgentsInit /\ [][AgentsNext]_agentsVars /\ BgFairness /\ Fairness

\* Every part keeps its types.
AgentsTypeOK ==
  /\ BgTypeOK /\ AgentTypeOK /\ DelegTypeOK /\ TypeOK
  /\ MemTypeOK /\ CapTypeOK /\ DenyTypeOK /\ StreamTypeOK /\ ChannelTypeOK

\* Child agents: every cent of a sub-agent's ceiling is accounted for while its
\* id is asked, terminated and spawned again (MultiAgents); delegations exceed their
\* ceiling only by threads whose call was dropped, and terminate and receipt every
\* child whose thread does not panic, for a dropped call too (Delegation).
ChildAgentsSound == SpendAccounted /\ DelegationSound

\* What the agent relies on later: what it recalls (MemoryRecall), the scope of a
\* token and its revocation (CapTokens, DenyList).
ReliedOnSound == RecallSound /\ TokensNarrow /\ RevokedStaysDenied

\* What comes in from outside: an answer is taken in as it was sent however the
\* network cut it (ProviderStream); a channel's message that was acknowledged is
\* worked on, once unless its request was forgotten too early, and its reply is
\* shown unless it could not be posted (ChannelIntake).
IncomingSound == StreamSound /\ ChannelsSound

\* What is started ends: a background task reaches its outcome or is cancelled
\* (BackgroundTasks), and a breaker whose upstream is well again closes (Resilience).
WorkEnds == TaskEnds /\ Heals
=============================================================================
