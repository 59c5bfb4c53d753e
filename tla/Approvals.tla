----------------------------- MODULE Approvals -----------------------------
(***************************************************************************)
(* The approval gate: cards under <data_dir>/approvals (crates/approvals), *)
(* the runtime's authorize_or_propose_approval, and the operators who      *)
(* decide cards over HTTP or with the CLI.  A card is replaced by a rename *)
(* and never torn, but nothing locks it between the read and the write of  *)
(* a decision or of a consume.                                             *)
(*                                                                         *)
(* Tool calls run on the server's one worker.  A key stands for (tool,     *)
(* arguments digest, session), what find_matching compares.                *)
(***************************************************************************)
EXTENDS Naturals, FiniteSets

CONSTANTS
  Keys,         \* gated calls a model may make, and repeat
  Cards,        \* card ids
  Decisions,    \* decide calls
  HttpDecisions,\* those handled by the server's process
  MaxCrashes,   \* bound on server crashes
  NoKey, NoCard

ASSUME ApprovalsAssumption ==
  /\ NoKey \notin Keys /\ NoCard \notin Cards
  /\ HttpDecisions \subseteq Decisions
  /\ MaxCrashes \in Nat

VARIABLES
  status,    \* the status of each card on disk, "none" before it is proposed
  key,       \* what it is for
  \* the worker
  wpc, wkey, wcard,
  \* the decide calls
  dpc, dcard, verdict,
  \* history and bounds
  runs,      \* gated calls that went on to invoke the tool, per card
  approves,  \* decisions answered "approved", per card
  rejects,   \* decisions answered "rejected", per card
  contested, \* cards that two decisions had read as pending at the same time
  crashes

storeVars  == <<status, key>>
workerVars == <<wpc, wkey, wcard>>
decideVars == <<dpc, dcard, verdict>>
vars == <<status, key, wpc, wkey, wcard, dpc, dcard, verdict, runs, approves, rejects,
          contested, crashes>>

Status == {"none", "pending", "approved", "denied", "consumed"}
Verdicts == {"approved", "denied"}

\* The cards, the worker and the decisions keep their types; a worker past its
\* lookup and a decision about to write name a card.
TypeOK ==
  /\ status \in [Cards -> Status]
  /\ key \in [Cards -> Keys \cup {NoKey}]
  /\ wpc \in {"idle", "propose", "receipt", "consume", "spend", "invoke"}
  /\ wkey \in Keys \cup {NoKey} /\ wcard \in Cards \cup {NoCard}
  /\ wpc \in {"consume", "spend", "invoke"} => wcard \in Cards
  /\ dpc \in [Decisions -> {"idle", "write", "decided", "conflict", "failed", "lost"}]
  /\ dcard \in [Decisions -> Cards \cup {NoCard}]
  /\ \A d \in Decisions : dpc[d] = "write" => dcard[d] \in Cards
  /\ verdict \in [Decisions -> Verdicts]
  /\ runs \in [Cards -> Nat] /\ approves \in [Cards -> Nat] /\ rejects \in [Cards -> Nat]
  /\ contested \subseteq Cards /\ crashes \in Nat

Init ==
  /\ status = [c \in Cards |-> "none"]
  /\ key = [c \in Cards |-> NoKey]
  /\ wpc = "idle" /\ wkey = NoKey /\ wcard = NoCard
  /\ dpc = [d \in Decisions |-> "idle"]
  /\ dcard = [d \in Decisions |-> NoCard]
  /\ verdict = [d \in Decisions |-> "approved"]
  /\ runs = [c \in Cards |-> 0]
  /\ approves = [c \in Cards |-> 0]
  /\ rejects = [c \in Cards |-> 0]
  /\ contested = {} /\ crashes = 0

-----------------------------------------------------------------------------
(* authorize_or_propose_approval, on the worker *)

\* find_matching: a card of the call that is not consumed (the first the
\* directory lists).
find_matching(k) ==
  {c \in Cards : key[c] = k /\ status[c] \notin {"none", "consumed"}}

WorkerAt(pc, k, c) == wpc' = pc /\ wkey' = k /\ wcard' = c

\* A pending card refuses the call with ApprovalRequired, a denied one with
\* ApprovalRejected; an approved one is consumed first; without a card one is
\* proposed.
Lookup(k) ==
  /\ wpc = "idle"
  /\ \/ /\ find_matching(k) = {}
        /\ WorkerAt("propose", k, NoCard)
     \/ \E c \in find_matching(k) :
          IF status[c] \in {"pending", "denied"}
            THEN UNCHANGED workerVars
            ELSE WorkerAt("consume", k, c)
  /\ UNCHANGED <<storeVars, decideVars, runs, approves, rejects, contested, crashes>>

\* propose: a fresh pending card ...
propose(c) ==
  /\ wpc = "propose" /\ status[c] = "none"
  /\ status' = [status EXCEPT ![c] = "pending"]
  /\ key' = [key EXCEPT ![c] = wkey]
  /\ WorkerAt("receipt", wkey, c)
  /\ UNCHANGED <<decideVars, runs, approves, rejects, contested, crashes>>

\* ... then its receipt (TurnCommit's ControlReceipt); minted or failed, the
\* call is refused.
ProposeReceipt ==
  /\ wpc = "receipt"
  /\ WorkerAt("idle", NoKey, NoCard)
  /\ UNCHANGED <<storeVars, decideVars, runs, approves, rejects, contested, crashes>>

\* Mutant: consume does not look at the status again, and runs the tool first.
ConsumeReadLate ==
  /\ wpc = "consume"
  /\ WorkerAt("spend", wkey, wcard)
  /\ runs' = [runs EXCEPT ![wcard] = @ + 1]
  /\ UNCHANGED <<storeVars, decideVars, approves, rejects, contested, crashes>>

\* consume reads the card again: an approved card is spent, a consumed one is
\* accepted as it is, any other is an error that ends the call ...
ConsumeRead ==
  /\ wpc = "consume"
  /\ CASE status[wcard] = "approved" -> WorkerAt("spend", wkey, wcard)
       [] status[wcard] = "consumed" -> WorkerAt("invoke", wkey, wcard)
       [] OTHER                      -> WorkerAt("idle", NoKey, NoCard)
  /\ UNCHANGED <<storeVars, decideVars, runs, approves, rejects, contested, crashes>>

\* ... and writes it back as consumed, whatever it has become since.
ConsumeWrite ==
  /\ wpc = "spend"
  /\ status' = [status EXCEPT ![wcard] = "consumed"]
  /\ WorkerAt("invoke", wkey, wcard)
  /\ UNCHANGED <<key, decideVars, runs, approves, rejects, contested, crashes>>

\* A card that cannot be written leaves the store as it was and ends the call.
StoreFails ==
  /\ wpc \in {"propose", "spend"}
  /\ WorkerAt("idle", NoKey, NoCard)
  /\ UNCHANGED <<storeVars, decideVars, runs, approves, rejects, contested, crashes>>

\* The tool is invoked.
Invoke ==
  /\ wpc = "invoke"
  /\ runs' = [runs EXCEPT ![wcard] = @ + 1]
  /\ WorkerAt("idle", NoKey, NoCard)
  /\ UNCHANGED <<storeVars, decideVars, approves, rejects, contested, crashes>>

-----------------------------------------------------------------------------
(* apply_approval_decision and ApprovalStore::decide *)

\* The decisions between their read and their write of a card.
Deciding(c) == {d \in Decisions : dpc[d] = "write" /\ dcard[d] = c}

\* Mutant: a decided card is decided again.
DecideReadDecided(d, c, v) ==
  /\ dpc[d] = "idle" /\ status[c] # "none"
  /\ dpc' = [dpc EXCEPT ![d] = "write"]
  /\ dcard' = [dcard EXCEPT ![d] = c]
  /\ verdict' = [verdict EXCEPT ![d] = v]
  /\ contested' = IF Deciding(c) = {} THEN contested ELSE contested \cup {c}
  /\ UNCHANGED <<storeVars, workerVars, runs, approves, rejects, crashes>>

\* Read the card; one that is decided is a conflict (409).
DecideRead(d, c, v) ==
  /\ dpc[d] = "idle" /\ status[c] # "none"
  /\ dpc' = [dpc EXCEPT ![d] = IF status[c] = "pending" THEN "write" ELSE "conflict"]
  /\ dcard' = [dcard EXCEPT ![d] = c]
  /\ verdict' = [verdict EXCEPT ![d] = v]
  /\ contested' = IF Deciding(c) = {} \/ status[c] # "pending"
                    THEN contested ELSE contested \cup {c}
  /\ UNCHANGED <<storeVars, workerVars, runs, approves, rejects, crashes>>

\* Write the card with the verdict and answer 200.  The journal entry and the
\* receipt that follow are best effort and do not touch the card.
DecideWrite(d) ==
  /\ dpc[d] = "write"
  /\ status' = [status EXCEPT ![dcard[d]] = verdict[d]]
  /\ dpc' = [dpc EXCEPT ![d] = "decided"]
  /\ IF verdict[d] = "approved"
       THEN approves' = [approves EXCEPT ![dcard[d]] = @ + 1] /\ UNCHANGED rejects
       ELSE rejects' = [rejects EXCEPT ![dcard[d]] = @ + 1] /\ UNCHANGED approves
  /\ UNCHANGED <<key, workerVars, dcard, verdict, runs, contested, crashes>>

\* The write fails: 500, and the card is as it was.
DecideFails(d) ==
  /\ dpc[d] = "write"
  /\ dpc' = [dpc EXCEPT ![d] = "failed"]
  /\ UNCHANGED <<storeVars, workerVars, dcard, verdict, runs, approves, rejects, contested, crashes>>

\* Mutant: the worker resumes where it was, without its card.
CrashResumes ==
  /\ crashes < MaxCrashes
  /\ crashes' = crashes + 1
  /\ WorkerAt(wpc, wkey, NoCard)
  /\ dpc' = [d \in Decisions |->
       IF d \in HttpDecisions /\ dpc[d] = "write" THEN "lost" ELSE dpc[d]]
  /\ UNCHANGED <<storeVars, dcard, verdict, runs, approves, rejects, contested>>

\* The server dies: the call and the HTTP decisions in progress are lost.
Crash ==
  /\ crashes < MaxCrashes
  /\ crashes' = crashes + 1
  /\ WorkerAt("idle", NoKey, NoCard)
  /\ dpc' = [d \in Decisions |->
       IF d \in HttpDecisions /\ dpc[d] = "write" THEN "lost" ELSE dpc[d]]
  /\ UNCHANGED <<storeVars, dcard, verdict, runs, approves, rejects, contested>>

Next ==
  \/ \E k \in Keys : Lookup(k)
  \/ \E c \in Cards : propose(c)
  \/ ProposeReceipt \/ ConsumeRead \/ ConsumeWrite \/ StoreFails \/ Invoke
  \/ \E d \in Decisions, c \in Cards, v \in Verdicts : DecideRead(d, c, v)
  \/ \E d \in Decisions : DecideWrite(d) \/ DecideFails(d)
  \/ Crash

Spec == Init /\ [][Next]_vars

-----------------------------------------------------------------------------
(* Correctness *)

\* Every invocation of a gated tool is paid for by an approval of its own: the
\* worker never runs a call on a card more often than operators approved that
\* card, however decisions overlap each other and the consume, and wherever the
\* server crashes (consumed before the tool runs, not after).
RunsPaidFor == \A c \in Cards : runs[c] <= approves[c]

\* A card that no two decisions raced for is decided once (409 for every later
\* call) and authorises one invocation, whatever fails or crashes in between.
UncontestedOnce ==
  \A c \in Cards \ contested : approves[c] + rejects[c] <= 1 /\ runs[c] <= 1

\* A repeated call finds the card of the first instead of proposing another, so
\* an operator never sees two live cards for one call (unless a race revived one).
OneLiveCard ==
  \A k \in Keys :
    LET cards == {c \in Cards : key[c] = k} IN
    cards \cap contested = {} =>
      Cardinality({c \in cards : status[c] \in {"pending"} \cup Verdicts}) <= 1

\* Decided once, spent once, and no second card beside a live one.
CardsUsedOnce == UncontestedOnce /\ OneLiveCard

\* The inductive strengthening of RunsPaidFor: what was approved covers the calls
\* that ran, the call that has read its approval, and an approval on disk.
Spending(c) == wcard = c /\ wpc \in {"spend", "invoke"}
Available(c) == status[c] = "approved" /\ ~(wcard = c /\ wpc = "spend")
Count(b) == IF b THEN 1 ELSE 0

GrantInv ==
  /\ \A c \in Cards :
       runs[c] + Count(Spending(c)) + Count(Available(c)) <= approves[c]
  /\ wpc = "consume" => status[wcard] # "consumed"

\* find_matching's documentation: "An approval authorises one invocation".
ApprovalSpentOnce == \A c \in Cards : runs[c] <= 1
=============================================================================
