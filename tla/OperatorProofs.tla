--------------------------- MODULE OperatorProofs ---------------------------
(***************************************************************************)
(* The components of the Operator run, for any number of calls, cards,     *)
(* processes, turns, readers, restores, file calls, faults and crashes.    *)
(* Each part has an inductive invariant of its own, and what a run checks  *)
(* of it follows from that invariant; the last part puts them together for *)
(* the specification of the run.                                           *)
(*                                                                         *)
(* Approvals: RunsPaidFor alone is not inductive, as it does not say that  *)
(* the approval the worker has read is still unspent. GrantInv counts it,  *)
(* with the approval on disk, against the decisions that granted them.     *)
(* CardsUsedOnce needs more: what an operator has read and not yet written *)
(* (DecidedInv), and that a worker about to propose has found no live card *)
(* (LiveInv).                                                              *)
(*                                                                         *)
(* The operator's stores: StoreInv says of every process what it has read, *)
(* what it will write and what is in the temporary file at each step of    *)
(* its command, as long as nobody overlaps it.                             *)
(*                                                                         *)
(* A chat session: SessionInv follows the conversation through a turn (what*)
(* the REPL holds ahead of the journal, MatchInv), says when the journal is*)
(* whole (CleanInv) and where the next line lands (AckInv), and that the   *)
(* receipt about to be recorded is in the chain and not in the journal     *)
(* (ChainInv, RecordInv).                                                  *)
(*                                                                         *)
(* The receipt log: ReadersInv says that the bytes are whole lines followed*)
(* by the part of a line its appender is writing, and what of a chain each *)
(* reader has verified. The state tree and file.write: TreeInv and UndoInv *)
(* say where the earlier contents are at every step of a restore or of a   *)
(* call.                                                                   *)
(***************************************************************************)
EXTENDS MCOperator, SumProofs, SequenceTheorems, FiniteSetTheorems, TLAPS

-----------------------------------------------------------------------------
(* Numbers in ascending order *)

\* Two members of the same rank are the same.
LEMMA RankInjective ==
  ASSUME NEW S, S \subseteq Nat, IsFiniteSet(S), NEW i \in S, NEW j \in S, Rank(S, i) = Rank(S, j)
  PROVE  i = j
<1>1. i < j \/ j < i \/ i = j
  OBVIOUS
<1>2. /\ Cardinality(S) \in Nat /\ Rank(S, i) \in 1..Cardinality(S)
      /\ i < j => Rank(S, i) < Rank(S, j)
      /\ j < i => Rank(S, j) < Rank(S, i)
  BY RankFacts
<1>3. Rank(S, i) \in Nat
  BY <1>2
<1>4. QED BY <1>1, <1>2, <1>3

\* Listed lists every member once, in ascending order.
LEMMA ListedFacts ==
  ASSUME NEW S, S \subseteq Nat, IsFiniteSet(S)
  PROVE  /\ Cardinality(S) \in Nat /\ Listed(S) \in Seq(S) /\ Len(Listed(S)) = Cardinality(S)
         /\ DOMAIN Listed(S) = 1..Cardinality(S)
         /\ \A n \in 1..Cardinality(S) : Listed(S)[n] \in S /\ Rank(S, Listed(S)[n]) = n
         /\ \A i \in S : Rank(S, i) \in 1..Cardinality(S) /\ Listed(S)[Rank(S, i)] = i
<1>1. Cardinality(S) \in Nat
  BY RankFacts
<1>2. ASSUME NEW n \in 1..Cardinality(S) PROVE Listed(S)[n] \in S /\ Rank(S, Listed(S)[n]) = n
  <2>1. \E i \in S : Rank(S, i) = n
    BY RankFacts
  <2>2. Listed(S)[n] = CHOOSE i \in S : Rank(S, i) = n
    BY DEF Listed
  <2>3. QED BY <2>1, <2>2
<1>3. DOMAIN Listed(S) = 1..Cardinality(S) /\ Listed(S) = [n \in 1..Cardinality(S) |-> Listed(S)[n]]
  BY DEF Listed
<1>4. Listed(S) \in [1..Cardinality(S) -> S]
  BY <1>2, <1>3
<1>5. Listed(S) \in Seq(S) /\ Len(Listed(S)) = Cardinality(S)
  BY <1>1, <1>3, <1>4
<1>6. ASSUME NEW i \in S PROVE Rank(S, i) \in 1..Cardinality(S) /\ Listed(S)[Rank(S, i)] = i
  <2>1. Rank(S, i) \in 1..Cardinality(S)
    BY RankFacts
  <2>2. QED BY <1>2, <2>1, RankInjective
<1>7. QED BY <1>1, <1>2, <1>3, <1>5, <1>6

\* A new largest member comes last.
LEMMA ListedLast ==
  ASSUME NEW S, S \subseteq Nat, IsFiniteSet(S), NEW m \in Nat, \A i \in S : i < m
  PROVE  Listed(S \cup {m}) = Append(Listed(S), m)
<1> DEFINE T == S \cup {m}
<1>1. T \subseteq Nat /\ IsFiniteSet(T) /\ m \notin S /\ Cardinality(T) = Cardinality(S) + 1
  BY FS_AddElement
<1>2. \A i \in S : Rank(T, i) = Rank(S, i)
  <2>1. ASSUME NEW i \in S PROVE {j \in T : j <= i} = {j \in S : j <= i}
    OBVIOUS
  <2>2. QED BY <2>1 DEF Rank
<1>3. {j \in T : j <= m} = T
  <2>1. \A j \in T : j <= m
    OBVIOUS
  <2>2. QED BY <2>1
<1>4. Rank(T, m) = Cardinality(S) + 1
  BY <1>1, <1>3 DEF Rank
<1> HIDE DEF T
<1>5. /\ Cardinality(S) \in Nat /\ Listed(S) \in Seq(S) /\ Len(Listed(S)) = Cardinality(S)
      /\ Listed(T) \in Seq(T) /\ Len(Listed(T)) = Cardinality(S) + 1
      /\ \A n \in 1..Cardinality(S) : Listed(S)[n] \in S /\ Rank(S, Listed(S)[n]) = n
      /\ \A i \in T : Listed(T)[Rank(T, i)] = i
  BY <1>1, ListedFacts
<1>6. ASSUME NEW n \in 1..Cardinality(S) PROVE Listed(T)[n] = Listed(S)[n]
  <2>1. Listed(S)[n] \in S /\ Rank(T, Listed(S)[n]) = n
    BY <1>2, <1>5
  <2>2. Listed(S)[n] \in T
    BY <2>1 DEF T
  <2>3. QED BY <1>5, <2>1, <2>2
<1>7. Listed(T)[Cardinality(S) + 1] = m
  BY <1>4, <1>5 DEF T
<1>8. Append(Listed(S), m) \in Seq(T) /\ Len(Append(Listed(S), m)) = Cardinality(S) + 1
  <2>1. Listed(S) \in Seq(T)
    <3>1. \A n \in 1..Len(Listed(S)) : Listed(S)[n] \in T
      BY <1>5 DEF T
    <3>2. QED BY <1>5, <3>1
  <2>2. m \in T
    BY DEF T
  <2>3. QED BY <1>5, <2>1, <2>2
<1>9. ASSUME NEW n \in 1..(Cardinality(S) + 1) PROVE Listed(T)[n] = Append(Listed(S), m)[n]
  BY <1>5, <1>6, <1>7
<1>10. Listed(T) = Append(Listed(S), m)
  BY <1>5, <1>8, <1>9, SeqEqual
<1>11. QED BY <1>10 DEF T

-----------------------------------------------------------------------------
(* Approvals *)

\* An empty store and idle actors are well typed.
LEMMA InitType == Init => TypeOK
BY ApprovalsAssumption DEF Init, TypeOK, Status, Verdicts

\* Every action keeps the types, one case each.
LEMMA NextType == TypeOK /\ [Next]_vars => TypeOK'
<1> SUFFICES ASSUME TypeOK, [Next]_vars PROVE TypeOK'
  OBVIOUS
<1> USE ApprovalsAssumption DEF TypeOK, Status, Verdicts, storeVars, workerVars, decideVars, WorkerAt
<1>1. ASSUME NEW k \in Keys, Lookup(k) PROVE TypeOK'
  BY <1>1 DEF Lookup, find_matching
<1>2. ASSUME NEW c \in Cards, propose(c) PROVE TypeOK'
  BY <1>2 DEF propose
<1>3. CASE ProposeReceipt
  BY <1>3 DEF ProposeReceipt
<1>4. CASE ConsumeRead
  <2>1. /\ wcard \in Cards
        /\ \/ wpc' = "spend" /\ wcard' = wcard
           \/ wpc' = "invoke" /\ wcard' = wcard
           \/ wpc' = "idle" /\ wcard' = NoCard
        /\ wkey' \in {wkey, NoKey}
    BY <1>4 DEF ConsumeRead
  <2>2. UNCHANGED <<storeVars, decideVars, runs, approves, rejects, contested, crashes>>
    BY <1>4 DEF ConsumeRead
  <2> QED BY <2>1, <2>2
<1>5. CASE ConsumeWrite
  BY <1>5 DEF ConsumeWrite
<1>6. CASE StoreFails
  BY <1>6 DEF StoreFails
<1>7. CASE Invoke
  BY <1>7 DEF Invoke
<1>8. ASSUME NEW d \in Decisions, NEW c \in Cards, NEW v \in Verdicts, DecideRead(d, c, v)
      PROVE TypeOK'
  BY <1>8 DEF DecideRead
<1>9. ASSUME NEW d \in Decisions, DecideWrite(d) PROVE TypeOK'
  BY <1>9 DEF DecideWrite
<1>10. ASSUME NEW d \in Decisions, DecideFails(d) PROVE TypeOK'
  BY <1>10 DEF DecideFails
<1>11. CASE Crash
  BY <1>11 DEF Crash
<1>12. CASE UNCHANGED vars
  BY <1>12 DEF vars
<1> QED BY <1>1, <1>2, <1>3, <1>4, <1>5, <1>6, <1>7, <1>8, <1>9, <1>10, <1>11, <1>12 DEF Next

\* The store's statuses and the histories are well typed, and the worker that
\* has a card to consume, spend or invoke has one: propose, consume and
\* apply_approval_decision keep every field in range.
THEOREM ApprovalsTypeOK == Spec => []TypeOK
<1>1. Init => TypeOK
  BY InitType
<1>2. TypeOK /\ [Next]_vars => TypeOK'
  BY NextType
<1> QED BY <1>1, <1>2, PTL DEF Spec

-----------------------------------------------------------------------------
(* The grants of one card *)

Granted(c) == runs[c] + Count(Spending(c)) + Count(Available(c)) <= approves[c]
ReadNotConsumed == wpc = "consume" => status[wcard] # "consumed"

\* GrantInv, card by card.
LEMMA GrantSplit == GrantInv <=> (\A c \in Cards : Granted(c)) /\ ReadNotConsumed
BY DEF GrantInv, Granted, ReadNotConsumed

\* Nothing is granted and nothing has run.
LEMMA InitGrant == Init => GrantInv
BY DEF Init, GrantInv, Spending, Available, Count

\* Every action keeps each card's grants covered.
LEMMA NextGrant == TypeOK /\ GrantInv /\ [Next]_vars => GrantInv'
<1> SUFFICES ASSUME TypeOK, GrantInv, [Next]_vars PROVE GrantInv'
  OBVIOUS
<1>a. SUFFICES (\A c \in Cards : Granted(c)') /\ ReadNotConsumed'
  BY DEF GrantInv, Granted, ReadNotConsumed
<1>b. (\A c \in Cards : Granted(c)) /\ ReadNotConsumed
  BY GrantSplit
<1>c. /\ \A c \in Cards : runs[c] \in Nat /\ approves[c] \in Nat
      /\ status \in [Cards -> Status] /\ runs \in [Cards -> Nat] /\ approves \in [Cards -> Nat]
      /\ wpc \in {"consume", "spend", "invoke"} => wcard \in Cards
      /\ NoCard \notin Cards
  BY ApprovalsAssumption DEF TypeOK
<1> USE <1>b, <1>c DEF Granted, ReadNotConsumed, Spending, Available, Count, storeVars, workerVars, decideVars, WorkerAt
<1>1. ASSUME NEW k \in Keys, Lookup(k) PROVE (\A c \in Cards : Granted(c)') /\ ReadNotConsumed'
  <2>1. \/ wpc' = wpc /\ wcard' = wcard
        \/ wpc' = "propose" /\ wcard' = NoCard /\ wpc = "idle"
        \/ wpc' = "consume" /\ wpc = "idle" /\ wcard' \in Cards /\ status[wcard'] # "consumed"
    BY <1>1 DEF Lookup, find_matching
  <2>2. UNCHANGED <<status, runs, approves>>
    BY <1>1 DEF Lookup
  <2> QED BY <2>1, <2>2
<1>2. ASSUME NEW k \in Cards, propose(k) PROVE (\A c \in Cards : Granted(c)') /\ ReadNotConsumed'
  BY <1>2 DEF propose
<1>3. CASE ProposeReceipt
  BY <1>3 DEF ProposeReceipt
<1>4. CASE ConsumeRead
  <2>1. /\ wpc = "consume" /\ wcard \in Cards /\ UNCHANGED <<status, runs, approves>>
        /\ \/ status[wcard] = "approved" /\ wpc' = "spend" /\ wcard' = wcard
           \/ wpc' = "idle"
    BY <1>4 DEF ConsumeRead
  <2> QED BY <2>1
<1>5. CASE ConsumeWrite
  BY <1>5 DEF ConsumeWrite
<1>6. CASE StoreFails
  BY <1>6 DEF StoreFails
<1>7. CASE Invoke
  BY <1>7 DEF Invoke
<1>8. ASSUME NEW d \in Decisions, NEW k \in Cards, NEW v \in Verdicts, DecideRead(d, k, v)
      PROVE (\A c \in Cards : Granted(c)') /\ ReadNotConsumed'
  BY <1>8 DEF DecideRead
<1>9. ASSUME NEW d \in Decisions, DecideWrite(d)
      PROVE (\A c \in Cards : Granted(c)') /\ ReadNotConsumed'
  <2>1. dcard[d] \in Cards /\ verdict[d] \in {"approved", "denied"}
    BY <1>9 DEF DecideWrite, TypeOK, Verdicts
  <2>2. /\ status' = [status EXCEPT ![dcard[d]] = verdict[d]]
        /\ UNCHANGED <<wpc, wcard, runs>>
        /\ \/ verdict[d] = "approved" /\ approves' = [approves EXCEPT ![dcard[d]] = @ + 1]
           \/ verdict[d] # "approved" /\ approves' = approves
    BY <1>9 DEF DecideWrite
  <2> QED BY <2>1, <2>2
<1>10. ASSUME NEW d \in Decisions, DecideFails(d)
       PROVE (\A c \in Cards : Granted(c)') /\ ReadNotConsumed'
  BY <1>10 DEF DecideFails
<1>11. CASE Crash
  BY <1>11 DEF Crash
<1>12. CASE UNCHANGED vars
  BY <1>12 DEF vars
<1> QED BY <1>1, <1>2, <1>3, <1>4, <1>5, <1>6, <1>7, <1>8, <1>9, <1>10, <1>11, <1>12 DEF Next

\* The inductive invariant holds: what operators approved covers the runs, the
\* approval the worker is spending, and the one on disk, whatever overlaps.
THEOREM ApprovalsGrantInv == Spec => []GrantInv
<1>1. Init => TypeOK /\ GrantInv
  BY InitType, InitGrant
<1>2. TypeOK /\ GrantInv /\ [Next]_vars => (TypeOK /\ GrantInv)'
  BY NextType, NextGrant
<1> QED BY <1>1, <1>2, PTL DEF Spec

\* authorize_or_propose_approval never lets a gated call run more often than
\* operators approved its card, although nothing locks a card between the read
\* and the write of consume and of apply_approval_decision.
THEOREM ApprovalsRunsPaidFor == Spec => []RunsPaidFor
<1>1. TypeOK /\ GrantInv => RunsPaidFor
  BY DEF GrantInv, RunsPaidFor, TypeOK, Count
<1> QED BY <1>1, ApprovalsTypeOK, ApprovalsGrantInv, PTL

-----------------------------------------------------------------------------
(* A card is decided once, spent once, and has no live twin *)

Live(c) == status[c] \in {"pending"} \cup Verdicts

\* A card no two decisions raced for: a decision about to write it is the only
\* one and has read it pending, nothing was answered before, and the worker that
\* spends it has read an approval that is still there.
Decided(c) ==
  /\ \A d, e \in Decisions :
       dpc[d] = "write" /\ dcard[d] = c /\ dpc[e] = "write" /\ dcard[e] = c => d = e
  /\ \A d \in Decisions : dpc[d] = "write" /\ dcard[d] = c => status[c] = "pending"
  /\ status[c] \in {"none", "pending"} => approves[c] + rejects[c] = 0
  /\ approves[c] + rejects[c] <= 1
  /\ wpc = "spend" /\ wcard = c => status[c] = "approved"
DecidedInv == \A c \in Cards \ contested : Decided(c)

\* No card of the key k has been raced for.
Calm(k) == \A c \in Cards : key[c] = k => c \notin contested

\* The live cards of a calm key are one card, and a worker about to propose for
\* it still finds none; only a proposed card has a key.
LiveInv ==
  /\ \A c \in Cards : status[c] = "none" => key[c] = NoKey
  /\ wpc = "propose" => wkey \in Keys
  /\ \A k \in Keys : Calm(k) =>
       /\ \A b, c \in Cards : key[b] = k /\ key[c] = k /\ Live(b) /\ Live(c) => b = c
       /\ wpc = "propose" /\ wkey = k => \A c \in Cards : key[c] = k => ~Live(c)

\* No card, no decision, no proposal.
LEMMA InitOnce == Init => DecidedInv /\ LiveInv
BY ApprovalsAssumption DEF Init, DecidedInv, Decided, LiveInv, Live, Calm, Verdicts

\* Every action keeps the decisions of an uncontested card apart.
LEMMA NextDecided == TypeOK /\ DecidedInv /\ [Next]_vars => DecidedInv'
<1> SUFFICES ASSUME TypeOK, DecidedInv, [Next]_vars, NEW c \in Cards, c \notin contested'
             PROVE Decided(c)'
  BY DEF DecidedInv
<1>a. /\ status \in [Cards -> Status]
      /\ approves \in [Cards -> Nat] /\ rejects \in [Cards -> Nat]
      /\ approves[c] \in Nat /\ rejects[c] \in Nat
      /\ wpc \in {"consume", "spend", "invoke"} => wcard \in Cards
      /\ dpc \in [Decisions -> {"idle", "write", "decided", "conflict", "failed", "lost"}]
      /\ dcard \in [Decisions -> Cards \cup {NoCard}]
      /\ \A d \in Decisions : dpc[d] = "write" => dcard[d] \in Cards
      /\ verdict \in [Decisions -> {"approved", "denied"}]
      /\ NoCard \notin Cards
  BY ApprovalsAssumption DEF TypeOK, Verdicts
<1>b. contested \subseteq contested' => Decided(c)
  BY DEF DecidedInv
<1> USE DEF storeVars, workerVars, decideVars, WorkerAt
<1>1. ASSUME NEW k \in Keys, Lookup(k) PROVE Decided(c)'
  <2>1. UNCHANGED <<status, dpc, dcard, approves, rejects, contested>> /\ (wpc' = "spend" => wpc = "spend" /\ wcard' = wcard)
    BY <1>1 DEF Lookup
  <2> QED BY <2>1, <1>b DEF Decided
<1>2. ASSUME NEW b \in Cards, propose(b) PROVE Decided(c)'
  BY <1>2, <1>a, <1>b DEF propose, Decided
<1>3. CASE ProposeReceipt
  BY <1>3, <1>b DEF ProposeReceipt, Decided
<1>4. CASE ConsumeRead
  <2>1. /\ UNCHANGED <<status, dpc, dcard, approves, rejects, contested>>
        /\ wpc' = "spend" => status[wcard] = "approved" /\ wcard' = wcard
    BY <1>4 DEF ConsumeRead
  <2> QED BY <2>1, <1>b DEF Decided
<1>5. CASE ConsumeWrite
  <2>1. wcard \in Cards /\ status' = [status EXCEPT ![wcard] = "consumed"] /\ wpc' = "invoke" /\ wpc = "spend"
        /\ UNCHANGED <<dpc, dcard, approves, rejects, contested>>
    BY <1>5, <1>a DEF ConsumeWrite
  <2> QED BY <2>1, <1>a, <1>b DEF Decided
<1>6. CASE StoreFails
  BY <1>6, <1>b DEF StoreFails, Decided
<1>7. CASE Invoke
  BY <1>7, <1>b DEF Invoke, Decided
<1>8. ASSUME NEW d \in Decisions, NEW b \in Cards, NEW v \in Verdicts, DecideRead(d, b, v)
      PROVE Decided(c)'
  <2>1. /\ UNCHANGED <<status, approves, rejects, wpc, wcard>>
        /\ dcard' = [dcard EXCEPT ![d] = b]
        /\ dpc' = [dpc EXCEPT ![d] = IF status[b] = "pending" THEN "write" ELSE "conflict"]
        /\ contested \subseteq contested'
        /\ b = c /\ status[b] = "pending" => Deciding(c) = {}
    BY <1>8 DEF DecideRead
  <2>2. Decided(c)
    BY <2>1, <1>b
  <2>3. b = c /\ status[b] = "pending" => \A e \in Decisions : ~(dpc[e] = "write" /\ dcard[e] = c)
    BY <2>1 DEF Deciding
  <2> QED BY <2>1, <2>2, <2>3, <1>a DEF Decided
<1>9. ASSUME NEW d \in Decisions, DecideWrite(d) PROVE Decided(c)'
  <2>1. /\ dcard[d] \in Cards /\ verdict[d] \in {"approved", "denied"}
        /\ dpc[d] = "write"
        /\ status' = [status EXCEPT ![dcard[d]] = verdict[d]]
        /\ dpc' = [dpc EXCEPT ![d] = "decided"]
        /\ UNCHANGED <<wpc, wcard, dcard, contested>>
    BY <1>9, <1>a DEF DecideWrite
  <2>2. IF dcard[d] = c THEN approves'[c] + rejects'[c] = approves[c] + rejects[c] + 1
                        ELSE approves'[c] + rejects'[c] = approves[c] + rejects[c]
    BY <1>9, <1>a, <2>1 DEF DecideWrite
  <2>3. Decided(c)
    BY <2>1, <1>b
  <2>4. CASE dcard[d] = c
    <3>1. status[c] = "pending" /\ approves'[c] + rejects'[c] = 1
      BY <2>1, <2>2, <2>3, <2>4, <1>a DEF Decided
    <3>2. \A e \in Decisions : ~(dpc'[e] = "write" /\ dcard'[e] = c)
      BY <2>1, <2>3, <2>4, <1>a DEF Decided
    <3>3. status'[c] \notin {"none", "pending"} /\ ~(wpc' = "spend" /\ wcard' = c)
      BY <2>1, <2>3, <2>4, <3>1, <1>a DEF Decided
    <3> QED BY <3>1, <3>2, <3>3 DEF Decided
  <2>5. CASE dcard[d] # c
    BY <2>1, <2>2, <2>3, <2>5, <1>a DEF Decided
  <2> QED BY <2>4, <2>5
<1>10. ASSUME NEW d \in Decisions, DecideFails(d) PROVE Decided(c)'
  BY <1>10, <1>a, <1>b DEF DecideFails, Decided
<1>11. CASE Crash
  <2>1. \A e \in Decisions : dpc'[e] = "write" => dpc[e] = "write"
    BY <1>11, <1>a DEF Crash
  <2> QED BY <1>11, <1>b, <2>1 DEF Crash, Decided
<1>12. CASE UNCHANGED vars
  BY <1>12, <1>b DEF vars, Decided
<1> QED BY <1>1, <1>2, <1>3, <1>4, <1>5, <1>6, <1>7, <1>8, <1>9, <1>10, <1>11, <1>12 DEF Next

\* An action that keeps the keys, revives no card and starts no proposal keeps
\* LiveInv.
LEMMA StillLive ==
  ASSUME LiveInv, key' = key, contested \subseteq contested',
         \A c \in Cards : status'[c] = "none" => status[c] = "none",
         \A c \in Cards : c \notin contested /\ Live(c)' => Live(c),
         wpc' = "propose" => wpc = "propose" /\ wkey' = wkey
  PROVE  LiveInv'
<1>1. \A k \in Keys : Calm(k)' => Calm(k)
  BY DEF Calm
<1>2. (\A c \in Cards : status[c] = "none" => key[c] = NoKey)'
  BY DEF LiveInv
<1>3. (wpc = "propose" => wkey \in Keys)'
  BY DEF LiveInv
<1>4. ASSUME NEW k \in Keys, Calm(k)'
      PROVE  (/\ \A b, c \in Cards : key[b] = k /\ key[c] = k /\ Live(b) /\ Live(c) => b = c
              /\ wpc = "propose" /\ wkey = k => \A c \in Cards : key[c] = k => ~Live(c))'
  <2>1. Calm(k)
    BY <1>1, <1>4
  <2>2. \A c \in Cards : key[c] = k /\ Live(c)' => Live(c)
    BY <2>1 DEF Calm
  <2> QED BY <2>1, <2>2 DEF LiveInv
<1> QED BY <1>2, <1>3, <1>4 DEF LiveInv

\* Only propose makes a card live, and only for a key without a live card.
LEMMA NextLive == TypeOK /\ DecidedInv /\ LiveInv /\ [Next]_vars => LiveInv'
<1> SUFFICES ASSUME TypeOK, DecidedInv, LiveInv, [Next]_vars PROVE LiveInv'
  OBVIOUS
<1>a. /\ status \in [Cards -> Status]
      /\ key \in [Cards -> Keys \cup {NoKey}]
      /\ wpc \in {"consume", "spend", "invoke"} => wcard \in Cards
      /\ \A d \in Decisions : dpc[d] = "write" => dcard[d] \in Cards
      /\ verdict \in [Decisions -> {"approved", "denied"}]
      /\ NoKey \notin Keys
  BY ApprovalsAssumption DEF TypeOK, Verdicts
<1> USE DEF storeVars, workerVars, decideVars, WorkerAt
<1>1. ASSUME NEW k \in Keys, Lookup(k) PROVE LiveInv'
  <2>1. UNCHANGED <<status, key, contested>>
    BY <1>1 DEF Lookup
  <2>2. CASE find_matching(k) = {} /\ wpc' = "propose" /\ wkey' = k
    <3>1. \A c \in Cards : key[c] = k => ~Live(c)
      BY <2>2 DEF find_matching, Live, Verdicts
    <3>2. \A j \in Keys : Calm(j)' <=> Calm(j)
      BY <2>1 DEF Calm
    <3>3. \A c \in Cards : Live(c)' <=> Live(c)
      BY <2>1 DEF Live
    <3> QED BY <2>1, <2>2, <3>1, <3>2, <3>3 DEF LiveInv
  <2>3. CASE wpc' # "propose"
    BY <2>1, <2>3, StillLive DEF Live
  <2> QED BY <1>1, <2>2, <2>3 DEF Lookup
<1>2. ASSUME NEW p \in Cards, propose(p) PROVE LiveInv'
  <2>1. /\ status[p] = "none" /\ wpc = "propose" /\ wkey \in Keys /\ wpc' = "receipt"
        /\ status' = [status EXCEPT ![p] = "pending"]
        /\ key' = [key EXCEPT ![p] = wkey]
        /\ key[p] = NoKey /\ contested' = contested
    BY <1>2 DEF propose, LiveInv
  <2>2. \A c \in Cards : c # p => (Live(c)' <=> Live(c)) /\ key'[c] = key[c]
    BY <2>1, <1>a DEF Live
  <2>3. \A k \in Keys : Calm(k)' => Calm(k)
    BY <2>1, <1>a DEF Calm
  <2>4. \A c \in Cards : status'[c] = "none" => key'[c] = NoKey
    BY <2>1, <1>a DEF LiveInv
  <2>5. ASSUME NEW k \in Keys, Calm(k)', NEW b \in Cards, NEW c \in Cards,
               key'[b] = k, key'[c] = k, Live(b)', Live(c)'
        PROVE  b = c
    <3>1. Calm(k)
      BY <2>3, <2>5
    <3>2. key'[p] = wkey
      BY <2>1, <1>a
    <3>3. k = wkey => \A e \in Cards : key[e] = k => ~Live(e)
      BY <2>1, <3>1 DEF LiveInv
    <3>4. CASE b # p /\ c # p
      BY <2>2, <2>5, <3>1, <3>4 DEF LiveInv
    <3>5. CASE b = p /\ c # p
      BY <2>2, <2>5, <3>2, <3>3, <3>5
    <3>6. CASE b # p /\ c = p
      BY <2>2, <2>5, <3>2, <3>3, <3>6
    <3> QED BY <3>4, <3>5, <3>6
  <2> QED BY <2>1, <2>4, <2>5 DEF LiveInv
<1>3. CASE ProposeReceipt
  BY <1>3, StillLive DEF ProposeReceipt, Live
<1>4. CASE ConsumeRead
  <2>1. UNCHANGED <<status, key, contested>> /\ wpc' # "propose"
    BY <1>4 DEF ConsumeRead
  <2> QED BY <2>1, StillLive DEF Live
<1>5. CASE ConsumeWrite
  <2>1. /\ status' = [status EXCEPT ![wcard] = "consumed"]
        /\ UNCHANGED <<key, contested>> /\ wpc' # "propose"
    BY <1>5 DEF ConsumeWrite
  <2>2. \A c \in Cards : status'[c] \in {status[c], "consumed"}
    BY <2>1, <1>a
  <2> QED BY <2>1, <2>2, StillLive DEF Live, Verdicts
<1>6. CASE StoreFails
  BY <1>6, StillLive DEF StoreFails, Live
<1>7. CASE Invoke
  BY <1>7, StillLive DEF Invoke, Live
<1>8. ASSUME NEW d \in Decisions, NEW b \in Cards, NEW v \in Verdicts, DecideRead(d, b, v)
      PROVE LiveInv'
  <2>1. UNCHANGED <<status, key, wpc, wkey>> /\ contested \subseteq contested'
    BY <1>8 DEF DecideRead
  <2> QED BY <2>1, StillLive DEF Live
<1>9. ASSUME NEW d \in Decisions, DecideWrite(d) PROVE LiveInv'
  <2>1. /\ dcard[d] \in Cards /\ verdict[d] \in {"approved", "denied"}
        /\ dpc[d] = "write"
        /\ status' = [status EXCEPT ![dcard[d]] = verdict[d]]
        /\ UNCHANGED <<key, wpc, wkey, contested>>
    BY <1>9, <1>a DEF DecideWrite
  <2>2. dcard[d] \notin contested => Live(dcard[d])
    BY <2>1 DEF DecidedInv, Decided, Live
  <2>3. \A c \in Cards : c \notin contested /\ Live(c)' => Live(c)
    BY <2>1, <2>2, <1>a DEF Live
  <2>4. \A c \in Cards : status'[c] = "none" => status[c] = "none"
    BY <2>1, <1>a
  <2> QED BY <2>1, <2>3, <2>4, StillLive
<1>10. ASSUME NEW d \in Decisions, DecideFails(d) PROVE LiveInv'
  BY <1>10, StillLive DEF DecideFails, Live
<1>11. CASE Crash
  BY <1>11, StillLive DEF Crash, Live
<1>12. CASE UNCHANGED vars
  BY <1>12, StillLive DEF vars, Live
<1> QED BY <1>1, <1>2, <1>3, <1>4, <1>5, <1>6, <1>7, <1>8, <1>9, <1>10, <1>11, <1>12 DEF Next

\* A set whose members are all the same has at most one.
LEMMA AtMostOne ==
  ASSUME NEW S, \A x, y \in S : x = y
  PROVE  Cardinality(S) <= 1
<1>1. CASE S = {}
  BY <1>1, FS_EmptySet
<1>2. ASSUME NEW x \in S PROVE Cardinality(S) <= 1
  <2>1. S = {x}
    BY <1>2
  <2> QED BY <2>1, FS_Singleton
<1> QED BY <1>1, <1>2

\* apply_approval_decision answers a card that no two decisions raced for once,
\* consume lets it authorise one invocation, and find_matching keeps a repeated
\* call from proposing a second live card, for any number of cards, decisions and
\* crashes and with no lock on the store.
THEOREM ApprovalsCardsUsedOnce == Spec => []CardsUsedOnce
<1>1. Init => TypeOK /\ DecidedInv /\ LiveInv
  BY InitType, InitOnce
<1>2. TypeOK /\ DecidedInv /\ LiveInv /\ [Next]_vars => (TypeOK /\ DecidedInv /\ LiveInv)'
  BY NextType, NextDecided, NextLive
<1>3. TypeOK /\ RunsPaidFor /\ DecidedInv => UncontestedOnce
  BY DEF TypeOK, RunsPaidFor, DecidedInv, Decided, UncontestedOnce
<1>4. LiveInv => OneLiveCard
  <2> SUFFICES ASSUME LiveInv, NEW k \in Keys,
                      {c \in Cards : key[c] = k} \cap contested = {}
               PROVE  Cardinality({c \in {b \in Cards : key[b] = k} :
                                     status[c] \in {"pending"} \cup Verdicts}) <= 1
    BY DEF OneLiveCard
  <2>1. Calm(k)
    BY DEF Calm
  <2> QED BY <2>1, AtMostOne DEF LiveInv, Live
<1>5. TypeOK /\ RunsPaidFor /\ DecidedInv /\ LiveInv => CardsUsedOnce
  BY <1>3, <1>4 DEF CardsUsedOnce
<1> QED BY <1>1, <1>2, <1>5, ApprovalsRunsPaidFor, PTL DEF Spec

-----------------------------------------------------------------------------
(* The operator's stores *)

Verbs == {"create", "pause", "resume", "edit", "delete", "refused", "register", "update",
          "revoke", "emit", "register_trigger", "remove_trigger"}
Gets == Verbs \ (Creates \cup {"refused"})

\* The steps done before the record is read, and before the map is.
GetAt(verb) == IF verb \in {"pause", "resume", "edit", "delete"} THEN 1 ELSE 0
ReadAt(verb) ==
  CASE verb \in {"create", "update", "revoke", "remove_trigger"} -> 1
    [] verb \in {"pause", "resume", "edit", "delete"} -> 2
    [] verb \in {"register", "register_trigger"} -> 0
    [] verb = "emit" -> 5
    [] verb = "refused" -> 9

\* Where each step of a command comes.
LEMMA StepPlaces ==
  ASSUME NEW v \in Verbs, NEW n \in Nat
  PROVE  /\ Len(StepsOf(v)) = CASE v = "refused" -> 3 [] v = "emit" -> 9 [] OTHER -> ReadAt(v) + 5
         /\ n < Len(StepsOf(v)) =>
              /\ StepsOf(v)[n + 1] = "get" <=> v \in Gets /\ n = GetAt(v)
              /\ StepsOf(v)[n + 1] = "read" <=> n = ReadAt(v)
              /\ StepsOf(v)[n + 1] = "open" <=> n = ReadAt(v) + 1
              /\ StepsOf(v)[n + 1] = "write" <=> n = ReadAt(v) + 2
              /\ StepsOf(v)[n + 1] = "rename" <=> n = ReadAt(v) + 3
              /\ v = "refused" /\ n = 2 => StepsOf(v)[n + 1] = "deny"
<1>1. CASE v = "create"
  <2>1. StepsOf(v) = <<"receipt">> \o WriteMap \o <<"receipt">>
    BY <1>1 DEF StepsOf
  <2>2. /\ Len(StepsOf(v)) = 6
        /\ StepsOf(v)[1] = "receipt" /\ StepsOf(v)[2] = "read" /\ StepsOf(v)[3] = "open"
        /\ StepsOf(v)[4] = "write" /\ StepsOf(v)[5] = "rename" /\ StepsOf(v)[6] = "receipt"
    BY <2>1 DEF WriteMap
  <2>3. QED BY <1>1, <2>2 DEF ReadAt, Gets, Creates, GetAt
<1>2. CASE v \in {"pause", "resume", "edit", "delete"}
  <2>1. StepsOf(v) = <<"receipt", "get">> \o WriteMap \o <<"receipt">>
    BY <1>2 DEF StepsOf
  <2>2. /\ Len(StepsOf(v)) = 7
        /\ StepsOf(v)[1] = "receipt" /\ StepsOf(v)[2] = "get" /\ StepsOf(v)[3] = "read"
        /\ StepsOf(v)[4] = "open" /\ StepsOf(v)[5] = "write" /\ StepsOf(v)[6] = "rename"
        /\ StepsOf(v)[7] = "receipt"
    BY <2>1 DEF WriteMap
  <2>3. QED BY <1>2, <2>2 DEF ReadAt, Gets, Creates, GetAt, Verbs
<1>3. CASE v = "refused"
  <2>1. StepsOf(v) = <<"receipt", "receipt", "deny">>
    BY <1>3 DEF StepsOf
  <2>2. QED BY <1>3, <2>1 DEF ReadAt, Gets, GetAt
<1>4. CASE v \in {"register", "register_trigger"}
  <2>1. StepsOf(v) = WriteMap \o <<"receipt">>
    BY <1>4 DEF StepsOf
  <2>2. /\ Len(StepsOf(v)) = 5
        /\ StepsOf(v)[1] = "read" /\ StepsOf(v)[2] = "open" /\ StepsOf(v)[3] = "write"
        /\ StepsOf(v)[4] = "rename" /\ StepsOf(v)[5] = "receipt"
    BY <2>1 DEF WriteMap
  <2>3. QED BY <1>4, <2>2 DEF ReadAt, Gets, Creates, GetAt
<1>5. CASE v \in {"update", "revoke", "remove_trigger"}
  <2>1. StepsOf(v) = <<"get">> \o WriteMap \o <<"receipt">>
    BY <1>5 DEF StepsOf
  <2>2. /\ Len(StepsOf(v)) = 6
        /\ StepsOf(v)[1] = "get" /\ StepsOf(v)[2] = "read" /\ StepsOf(v)[3] = "open"
        /\ StepsOf(v)[4] = "write" /\ StepsOf(v)[5] = "rename" /\ StepsOf(v)[6] = "receipt"
    BY <2>1 DEF WriteMap
  <2>3. QED BY <1>5, <2>2 DEF ReadAt, Gets, Creates, GetAt, Verbs
<1>6. CASE v = "emit"
  <2>1. StepsOf(v) = <<"get", "receipt", "key", "dispatch", "receipt">> \o WriteMap
    BY <1>6 DEF StepsOf
  <2>2. /\ Len(StepsOf(v)) = 9
        /\ StepsOf(v)[1] = "get" /\ StepsOf(v)[2] = "receipt" /\ StepsOf(v)[3] = "key"
        /\ StepsOf(v)[4] = "dispatch" /\ StepsOf(v)[5] = "receipt" /\ StepsOf(v)[6] = "read"
        /\ StepsOf(v)[7] = "open" /\ StepsOf(v)[8] = "write" /\ StepsOf(v)[9] = "rename"
    BY <2>1 DEF WriteMap
  <2>3. ReadAt(v) = 5 /\ GetAt(v) = 0 /\ v \in Gets
    BY <1>6 DEF ReadAt, Gets, Creates, GetAt, Verbs
  <2>4. n < 9 => n = 0 \/ n = 1 \/ n = 2 \/ n = 3 \/ n = 4 \/ n = 5 \/ n = 6 \/ n = 7 \/ n = 8
    OBVIOUS
  <2>5. Len(StepsOf(v)) = CASE v = "refused" -> 3 [] v = "emit" -> 9 [] OTHER -> ReadAt(v) + 5
    BY <1>6, <2>2
  <2>6. ASSUME n < Len(StepsOf(v))
        PROVE  /\ StepsOf(v)[n + 1] = "get" <=> n = 0
               /\ StepsOf(v)[n + 1] = "read" <=> n = 5
               /\ StepsOf(v)[n + 1] = "open" <=> n = 6
               /\ StepsOf(v)[n + 1] = "write" <=> n = 7
               /\ StepsOf(v)[n + 1] = "rename" <=> n = 8
    BY <2>2, <2>4, <2>6
  <2>7. QED BY <1>6, <2>3, <2>5, <2>6
<1>7. QED BY <1>1, <1>2, <1>3, <1>4, <1>5, <1>6 DEF Verbs

Forms == {Opened, Part, Missing} \cup {Whole(m) : m \in Maps}
LogEntries == [log : {"cron-ui", "webhook"}, by : Invocations, parent : Nat, cut : BOOLEAN]
SinkCount(log) == Cardinality({n \in 1..Len(opLog) : opLog[n].log = log})

Created(i) == \E q \in Invocations : command[q].id = i /\ command[q].verb \in Creates
KnownId(i) == i \in Present \/ Created(i)

StoreTyped ==
  /\ file \in [Stores -> Forms] /\ temp \in [Stores -> Forms]
  /\ inode \in [Invocations -> {"none", "temp", "file", "unlinked"}]
  /\ command \in [Invocations -> [verb : Verbs \cup {"none"}, id : RecordIds \cup {"none"}]]
  /\ opPc \in [Invocations -> 0..9]
  /\ got \in [Invocations -> Records] /\ map \in [Invocations -> Maps]
  /\ parent \in [Invocations -> Nat] /\ opLog \in Seq(LogEntries)
  /\ result \in [Invocations -> {"none", "ok", "error", "killed"}]
  /\ overlapped \subseteq Invocations /\ kills \in 0..MaxKills

\* A process before it starts, and what its progress says of it.
ProcInv(p) ==
  /\ command[p] = NoCommand =>
       opPc[p] = 0 /\ result[p] = "none" /\ parent[p] = Unread /\ got[p] = Fresh
  /\ command[p] # NoCommand => command[p].verb \in Verbs /\ command[p].id \in RecordIds
  /\ inode[p] # "none" => RunningOp(p) /\ opPc[p] = ReadAt(command[p].verb) + 2
  /\ command[p].verb \in Gets /\ opPc[p] > GetAt(command[p].verb) => KnownId(command[p].id)
  /\ command[p].verb \in Creates => got[p] = Fresh
  /\ command[p].verb = "refused" => opPc[p] <= 2

\* No record without somebody who created it, and one creator for each id.
KnownInv ==
  /\ \A s \in Stores : \A i \in DOMAIN file[s].recs \cup DOMAIN temp[s].recs : KnownId(i)
  /\ \A p \in Invocations : \A i \in DOMAIN map[p] : KnownId(i)
CreatorInv ==
  \A p \in Invocations : command[p].verb \in Creates =>
    /\ command[p].id \notin Present
    /\ \A q \in Invocations :
         command[q].verb \in Creates /\ command[q].id = command[p].id => q = p

\* The map a command makes of the records that are in the file.
Outcome(p) ==
  LET now == file[Store(p)].recs
      id == command[p].id
  IN IF command[p].verb \in Removes
     THEN [i \in DOMAIN now \ {id} |-> now[i]]
     ELSE [i \in DOMAIN now \cup {id} |-> IF i = id THEN Changed(p) ELSE now[i]]

\* What a process that nobody overlapped finds as it left it. ...
SoloRecord(p) ==
  LET recs == file[Store(p)].recs
      id == command[p].id
      verb == command[p].verb
  IN opPc[p] <= ReadAt(verb) + 3 =>
       /\ verb \in Creates =>
            /\ id \notin DOMAIN recs
            /\ \A q \in Invocations : command[q].id = id /\ command[q].verb \in Gets =>
                 opPc[q] <= GetAt(command[q].verb)
       /\ verb \in Gets /\ opPc[p] > GetAt(verb) => id \in DOMAIN recs /\ got[p] = recs[id]

\* ... on the way from the file through its own map and the temporary file.
SoloMap(p) ==
  LET at == opPc[p] - ReadAt(command[p].verb)
  IN /\ at \in 1..3 => map[p] = Outcome(p)
     /\ at = 2 => inode[p] = "temp"
     /\ at = 3 => temp[Store(p)] = Whole(map[p])

SoloInv(p) ==
  RunningOp(p) /\ p \notin overlapped =>
    /\ \A q \in Invocations : RunningOp(q) => q = p
    /\ inode[p] \in {"none", "temp"}
    /\ parent[p] # Unread => parent[p] = SinkCount(Logs(command[p].verb))
    /\ command[p].verb # "refused" => SoloRecord(p) /\ SoloMap(p)

\* What a command that renamed its map into place has left in the file.
Effect(p) ==
  LET recs == file[Store(p)].recs
      id == command[p].id
  IN \/ command[p].verb \in Removes /\ id \notin DOMAIN recs
     \/ id \in DOMAIN recs /\ p \in recs[id].changes
     \/ \E q \in Invocations : opPc[q] > 1 /\ command[q].verb \in Removes /\ command[q].id = id

Placed(p) ==
  command[p].verb \in Verbs \ {"refused"} /\ opPc[p] > ReadAt(command[p].verb) + 3
AloneFiles == \A s \in Stores : file[s].is = "whole"
AloneEffects ==
  \A p \in Invocations : (Placed(p) => Effect(p)) /\ (result[p] = "ok" => Placed(p))
AloneChain ==
  \A n \in 1..Len(opLog) :
    \/ \E k \in 1..n - 1 : opLog[k].log = opLog[n].log /\ opLog[k].cut
    \/ opLog[n].parent = Cardinality({k \in 1..n - 1 : opLog[k].log = opLog[n].log})

StoreInv ==
  /\ StoreTyped /\ KnownInv /\ CreatorInv
  /\ \A p \in Invocations : ProcInv(p) /\ SoloInv(p)
  /\ Alone => AloneFiles /\ AloneEffects /\ AloneChain

\* The records of what a file may hold, and the maps a command can make.
LEMMA FormRecs ==
  /\ \A c \in Forms : c.recs \in Maps
  /\ \A m \in Maps : Whole(m) \in Forms /\ Whole(m).recs = m /\ Whole(m).is = "whole"
  /\ Opened \in Forms /\ Part \in Forms /\ Missing \in Forms /\ EmptyMap \in Maps
  /\ Missing.is # "whole" /\ Part.is # "whole" /\ DOMAIN Part.recs = {} /\ DOMAIN Opened.recs = {}
  /\ DOMAIN Missing.recs = {}
<1>1. EmptyMap \in Maps /\ DOMAIN EmptyMap = {}
  BY DEF EmptyMap, Maps
<1>2. /\ Opened.recs = EmptyMap /\ Part.recs = EmptyMap /\ Missing.recs = EmptyMap
      /\ Opened \in Forms /\ Part \in Forms /\ Missing \in Forms
      /\ Missing.is # "whole" /\ Part.is # "whole"
  BY DEF Opened, Part, Missing, Forms
<1>3. \A m \in Maps : Whole(m) \in Forms /\ Whole(m).recs = m /\ Whole(m).is = "whole"
  BY DEF Whole, Forms
<1>4. ASSUME NEW c \in Forms PROVE c.recs \in Maps
  <2>1. CASE c \in {Opened, Part, Missing}
    BY <1>1, <1>2, <2>1
  <2>2. CASE \E m \in Maps : c = Whole(m)
    BY <1>3, <2>2
  <2>3. QED BY <2>1, <2>2 DEF Forms
<1>5. QED BY <1>1, <1>2, <1>3, <1>4

\* A map without a record and a map with one more are maps.
LEMMA MapsClosed ==
  ASSUME NEW m \in Maps
  PROVE  /\ DOMAIN m \subseteq RecordIds /\ \A i \in DOMAIN m : m[i] \in Records
         /\ \A id : [i \in DOMAIN m \ {id} |-> m[i]] \in Maps
         /\ \A id \in RecordIds, r \in Records :
              [i \in DOMAIN m \cup {id} |-> IF i = id THEN r ELSE m[i]] \in Maps
<1>1. PICK S \in SUBSET RecordIds : m \in [S -> Records]
  BY DEF Maps
<1>2. ASSUME NEW id PROVE [i \in DOMAIN m \ {id} |-> m[i]] \in Maps
  <2>1. [i \in DOMAIN m \ {id} |-> m[i]] \in [S \ {id} -> Records]
    BY <1>1
  <2>2. S \ {id} \in SUBSET RecordIds
    BY <1>1
  <2>3. QED BY <2>1, <2>2 DEF Maps
<1>3. ASSUME NEW id \in RecordIds, NEW r \in Records
      PROVE  [i \in DOMAIN m \cup {id} |-> IF i = id THEN r ELSE m[i]] \in Maps
  <2>1. [i \in DOMAIN m \cup {id} |-> IF i = id THEN r ELSE m[i]] \in [S \cup {id} -> Records]
    BY <1>1
  <2>2. S \cup {id} \in SUBSET RecordIds
    BY <1>1
  <2>3. QED BY <2>1, <2>2 DEF Maps
<1>4. QED BY <1>1, <1>2, <1>3

\* A count of receipts is a number.
LEMMA SinkCountNat ==
  ASSUME NEW log, opLog \in Seq(LogEntries)
  PROVE  SinkCount(log) \in Nat
<1>1. Len(opLog) \in Nat
  BY LenProperties
<1>2. IsFiniteSet(1..Len(opLog))
  BY <1>1, FS_Interval
<1>3. IsFiniteSet({n \in 1..Len(opLog) : opLog[n].log = log})
  BY <1>2, FS_Subset
<1>4. QED BY <1>3, FS_CardinalityType DEF SinkCount

\* What the place of a running process says.
LEMMA Places ==
  ASSUME StoreInv, NEW p \in Invocations, RunningOp(p)
  PROVE  /\ command[p].verb \in Verbs /\ command[p].id \in RecordIds /\ Store(p) \in Stores
         /\ opPc[p] \in Nat /\ GetAt(command[p].verb) \in Nat /\ ReadAt(command[p].verb) \in Nat
         /\ command[p].verb \in Gets => GetAt(command[p].verb) < ReadAt(command[p].verb)
         /\ command[p].verb = "emit" => ReadAt(command[p].verb) = 5
         /\ Len(Steps(p)) = CASE command[p].verb = "refused" -> 3
                              [] command[p].verb = "emit" -> 9
                              [] OTHER -> ReadAt(command[p].verb) + 5
         /\ \A x : At(p, x) =>
              /\ opPc[p] + 1 <= Len(Steps(p))
              /\ x = "get" <=> command[p].verb \in Gets /\ opPc[p] = GetAt(command[p].verb)
              /\ x = "read" <=> opPc[p] = ReadAt(command[p].verb)
              /\ x = "open" <=> opPc[p] = ReadAt(command[p].verb) + 1
              /\ x = "write" <=> opPc[p] = ReadAt(command[p].verb) + 2
              /\ x = "rename" <=> opPc[p] = ReadAt(command[p].verb) + 3
              /\ command[p].verb = "refused" /\ opPc[p] = 2 => x = "deny"
<1>1. command[p].verb \in Verbs /\ command[p].id \in RecordIds /\ opPc[p] \in Nat
  <2>1. ProcInv(p) /\ command[p] # NoCommand /\ opPc[p] \in 0..9
    BY DEF StoreInv, StoreTyped, RunningOp
  <2>2. QED BY <2>1 DEF ProcInv
<1>2. Store(p) \in Stores
  BY <1>1, StoreAssumption DEF Store
<1>3. /\ GetAt(command[p].verb) \in Nat /\ ReadAt(command[p].verb) \in Nat
      /\ command[p].verb = "emit" => ReadAt(command[p].verb) = 5
      /\ command[p].verb \in Gets => GetAt(command[p].verb) < ReadAt(command[p].verb)
  BY <1>1 DEF GetAt, ReadAt, Verbs, Gets, Creates
<1>4. Len(Steps(p)) = CASE command[p].verb = "refused" -> 3
                              [] command[p].verb = "emit" -> 9
                              [] OTHER -> ReadAt(command[p].verb) + 5
  BY <1>1, StepPlaces DEF Steps
<1>5. ASSUME NEW x, At(p, x)
      PROVE  /\ opPc[p] + 1 <= Len(Steps(p))
             /\ x = "get" <=> command[p].verb \in Gets /\ opPc[p] = GetAt(command[p].verb)
             /\ x = "read" <=> opPc[p] = ReadAt(command[p].verb)
             /\ x = "open" <=> opPc[p] = ReadAt(command[p].verb) + 1
             /\ x = "write" <=> opPc[p] = ReadAt(command[p].verb) + 2
             /\ x = "rename" <=> opPc[p] = ReadAt(command[p].verb) + 3
             /\ command[p].verb = "refused" /\ opPc[p] = 2 => x = "deny"
  <2>1. opPc[p] < Len(Steps(p)) /\ Steps(p)[opPc[p] + 1] = x
    BY <1>5 DEF At
  <2>2. Len(Steps(p)) \in Nat
    BY <1>1, <1>3, <1>4
  <2>3. opPc[p] + 1 <= Len(Steps(p))
    BY <1>1, <2>1, <2>2
  <2>4. QED BY <1>1, <2>1, <2>3, StepPlaces DEF Steps
<1>6. QED BY <1>1, <1>2, <1>3, <1>4, <1>5

\* The first state.
LEMMA StoreStarts == StoreInit => StoreInv
<1> SUFFICES ASSUME StoreInit PROVE StoreInv
  OBVIOUS
<1>1. MaxKills \in Nat /\ Unread \in Nat /\ Fresh \in Records
  BY StoreAssumption DEF Unread, Fresh, Records
<1>2. ASSUME NEW s \in Stores
      PROVE  file[s] \in Forms /\ file[s].is = "whole" /\ DOMAIN file[s].recs \subseteq Present
             /\ temp[s] \in Forms /\ DOMAIN temp[s].recs = {}
  <2> DEFINE m == [i \in {j \in Present : StoreOf[j] = s} |-> Fresh]
  <2>1. m \in Maps
    <3>1. {j \in Present : StoreOf[j] = s} \in SUBSET RecordIds
      BY StoreAssumption
    <3>2. m \in [{j \in Present : StoreOf[j] = s} -> Records]
      BY <1>1
    <3>3. QED BY <3>1, <3>2 DEF Maps
  <2>2. DOMAIN m \subseteq Present
    OBVIOUS
  <2>3. file[s] = Whole(m) /\ temp[s] = Missing
    BY DEF StoreInit
  <2> HIDE DEF m
  <2>4. QED BY <2>1, <2>2, <2>3, FormRecs
<1>3. StoreTyped
  <2>1. file \in [Stores -> Forms] /\ temp \in [Stores -> Forms]
    BY <1>2 DEF StoreInit
  <2>2. command \in [Invocations -> [verb : Verbs \cup {"none"}, id : RecordIds \cup {"none"}]]
    BY DEF StoreInit, NoCommand
  <2>3. /\ got \in [Invocations -> Records] /\ map \in [Invocations -> Maps]
        /\ parent \in [Invocations -> Nat]
    BY <1>1, FormRecs DEF StoreInit
  <2>4. opLog \in Seq(LogEntries)
    BY EmptySeq DEF StoreInit
  <2>5. QED BY <1>1, <2>1, <2>2, <2>3, <2>4 DEF StoreTyped, StoreInit
<1>4. \A p \in Invocations : command[p] = NoCommand /\ command[p].verb = "none" /\ ~RunningOp(p)
  BY DEF StoreInit, NoCommand, RunningOp
<1>5. KnownInv
  <2>1. \A p \in Invocations : DOMAIN map[p] = {}
    BY DEF StoreInit, EmptyMap
  <2>2. QED BY <1>2, <2>1 DEF KnownInv, KnownId
<1>6. CreatorInv
  BY <1>4 DEF CreatorInv, Creates
<1>7. ASSUME NEW p \in Invocations PROVE ProcInv(p) /\ SoloInv(p)
  BY <1>4 DEF ProcInv, SoloInv, StoreInit, Gets, Verbs, Creates
<1>8. AloneFiles
  BY <1>2 DEF AloneFiles
<1>9. AloneEffects
  BY <1>4 DEF AloneEffects, Placed, StoreInit, Verbs
<1>10. AloneChain
  BY DEF AloneChain, StoreInit
<1>11. QED BY <1>3, <1>5, <1>6, <1>7, <1>8, <1>9, <1>10 DEF StoreInv

\* A step of one process, once what it does to that process is known.
LEMMA OpStepKept ==
  ASSUME StoreInv, NEW p \in Invocations, RunningOp(p), UNCHANGED <<command, overlapped>>,
         StoreTyped', KnownInv', ProcInv(p)', SoloInv(p)',
         \A q \in Invocations \ {p} :
           /\ opPc'[q] = opPc[q] /\ result'[q] = result[q] /\ parent'[q] = parent[q]
           /\ got'[q] = got[q]
           /\ inode'[q] # "none" => inode[q] # "none",
         Alone => AloneFiles' /\ AloneEffects' /\ AloneChain'
  PROVE  StoreInv'
<1>1. ASSUME NEW q \in Invocations, q # p PROVE ProcInv(q)' /\ SoloInv(q)'
  <2>1. /\ opPc'[q] = opPc[q] /\ result'[q] = result[q] /\ parent'[q] = parent[q]
        /\ got'[q] = got[q] /\ (inode'[q] # "none" => inode[q] # "none")
        /\ command' = command /\ overlapped' = overlapped
    BY <1>1
  <2>2. ProcInv(q) /\ SoloInv(q)
    BY DEF StoreInv
  <2>3. ProcInv(q)'
    BY <2>1, <2>2 DEF ProcInv, RunningOp, KnownId, Created
  <2>4. ~(RunningOp(q)' /\ q \notin overlapped')
    BY <1>1, <2>1, <2>2 DEF SoloInv, RunningOp
  <2>5. SoloInv(q)'
    BY <2>4 DEF SoloInv
  <2>6. QED BY <2>3, <2>5
<1>2. CreatorInv'
  BY DEF StoreInv, CreatorInv
<1>3. Alone' => Alone
  BY DEF Alone
<1>4. QED BY <1>1, <1>2, <1>3 DEF StoreInv

\* Commands that nobody overlapped keep what they left in the file, as long as the
\* file stays.
LEMMA EffectsKept ==
  ASSUME StoreInv, Alone, NEW p \in Invocations, UNCHANGED <<command, file>>,
         \A q \in Invocations \ {p} : opPc'[q] = opPc[q] /\ result'[q] = result[q],
         opPc[p] \in Nat, opPc'[p] \in Nat, opPc'[p] >= opPc[p], Placed(p)' => Placed(p),
         result'[p] = "ok" => Placed(p)'
  PROVE  AloneFiles' /\ AloneEffects'
<1>1. ASSUME NEW q \in Invocations, Placed(q)' PROVE Effect(q)'
  <2>1. Placed(q)
    BY <1>1 DEF Placed
  <2>2. Effect(q)
    BY <2>1 DEF StoreInv, AloneEffects
  <2>3. \A v \in Invocations : opPc[v] > 1 => opPc'[v] > 1
    OBVIOUS
  <2>4. QED BY <2>2, <2>3 DEF Effect, Store
<1>2. ASSUME NEW q \in Invocations, result'[q] = "ok" PROVE Placed(q)'
  BY <1>2 DEF StoreInv, AloneEffects, Placed
<1>3. AloneFiles'
  BY DEF StoreInv, AloneFiles
<1>4. QED BY <1>1, <1>2, <1>3 DEF AloneEffects

\* The step is done.
LEMMA DoneFacts ==
  ASSUME StoreInv, NEW p \in Invocations, NEW x, At(p, x), x # "deny", Done(p), UNCHANGED command
  PROVE  /\ opPc' \in [Invocations -> 0..9] /\ opPc'[p] = opPc[p] + 1 /\ opPc[p] \in Nat
         /\ result' \in [Invocations -> {"none", "ok", "error", "killed"}]
         /\ \A q \in Invocations \ {p} : opPc'[q] = opPc[q] /\ result'[q] = result[q]
         /\ result'[p] = "ok" => Placed(p)'
         /\ x # "rename" => (Placed(p)' => Placed(p))
         /\ command[p].verb = "refused" => opPc'[p] <= 2
         /\ RunningOp(p) /\ (~Placed(p)' => RunningOp(p)')
<1>1. RunningOp(p) /\ ProcInv(p) /\ result[p] = "none" /\ command[p] # NoCommand
  BY DEF At, StoreInv, RunningOp
<1>2. /\ opPc' = [opPc EXCEPT ![p] = @ + 1]
      /\ result' = [result EXCEPT ![p] = IF opPc[p] + 1 = Len(Steps(p)) THEN "ok" ELSE @]
  BY DEF Done
<1>3. /\ opPc \in [Invocations -> 0..9]
      /\ result \in [Invocations -> {"none", "ok", "error", "killed"}]
  BY DEF StoreInv, StoreTyped
<1>4. /\ command[p].verb \in Verbs /\ opPc[p] \in Nat /\ ReadAt(command[p].verb) \in Nat
      /\ command[p].verb = "emit" => ReadAt(command[p].verb) = 5
      /\ Len(Steps(p)) = CASE command[p].verb = "refused" -> 3
                              [] command[p].verb = "emit" -> 9
                              [] OTHER -> ReadAt(command[p].verb) + 5
      /\ opPc[p] + 1 <= Len(Steps(p))
      /\ x = "rename" <=> opPc[p] = ReadAt(command[p].verb) + 3
      /\ command[p].verb = "refused" /\ opPc[p] = 2 => x = "deny"
  BY <1>1, Places
<1>5. ReadAt(command[p].verb) \in {0, 1, 2, 5, 9}
      /\ (ReadAt(command[p].verb) \in {5, 9} => command[p].verb \in {"emit", "refused"})
  BY <1>4 DEF ReadAt, Verbs
<1>6. Len(Steps(p)) <= 9 /\ Len(Steps(p)) \in Nat
  BY <1>4, <1>5
<1>7. /\ opPc' \in [Invocations -> 0..9] /\ opPc'[p] = opPc[p] + 1
      /\ \A q \in Invocations \ {p} : opPc'[q] = opPc[q] /\ result'[q] = result[q]
      /\ result' \in [Invocations -> {"none", "ok", "error", "killed"}]
  BY <1>2, <1>3, <1>4, <1>6
<1>8. result'[p] = "ok" => opPc[p] + 1 = Len(Steps(p))
  BY <1>1, <1>2, <1>3
<1>9. command[p].verb = "refused" => opPc'[p] <= 2
  <2>1. command[p].verb = "refused" => opPc[p] <= 2 /\ opPc[p] # 2
    BY <1>1, <1>4 DEF ProcInv
  <2>2. QED BY <1>4, <1>7, <2>1
<1>10. result'[p] = "ok" => Placed(p)'
  <2>1. ASSUME result'[p] = "ok" PROVE command[p].verb # "refused" /\ opPc'[p] > ReadAt(command[p].verb) + 3
    <3>1. opPc'[p] = Len(Steps(p))
      BY <1>7, <1>8, <2>1
    <3>2. command[p].verb # "refused"
      BY <1>4, <1>7, <1>9, <3>1
    <3>3. QED BY <1>4, <3>1, <3>2
  <2>2. QED BY <1>4, <2>1 DEF Placed
<1>11. x # "rename" => (Placed(p)' => Placed(p))
  BY <1>4, <1>7 DEF Placed
<1>12. ~Placed(p)' => RunningOp(p)'
  <2>1. result'[p] # "ok" => result'[p] = "none"
    BY <1>1, <1>2, <1>3
  <2>2. QED BY <1>1, <1>10, <2>1 DEF RunningOp
<1>13. QED BY <1>1, <1>4, <1>7, <1>9, <1>10, <1>11, <1>12

\* A process ends, and what it appended keeps the chain.
LEMMA EndAppendedKept ==
  ASSUME StoreInv, NEW p \in Invocations, RunningOp(p), NEW r \in {"ok", "error", "killed"},
         result' = [result EXCEPT ![p] = r], Alone => r # "ok",
         inode' \in {inode, [inode EXCEPT ![p] = "none"]}, inode'[p] = "none",
         kills' \in 0..MaxKills, opLog' \in Seq(LogEntries), Alone => AloneChain',
         UNCHANGED <<file, temp, command, opPc, got, map, parent, overlapped>>
  PROVE  StoreInv'
<1>1. StoreTyped /\ ProcInv(p) /\ KnownInv /\ command[p] # NoCommand
  BY DEF StoreInv, RunningOp
<1>2. /\ result'[p] = r /\ \A q \in Invocations \ {p} : result'[q] = result[q] /\ inode'[q] = inode[q]
      /\ result' \in [Invocations -> {"none", "ok", "error", "killed"}]
      /\ inode' \in [Invocations -> {"none", "temp", "file", "unlinked"}]
  BY <1>1 DEF StoreTyped
<1>3. StoreTyped'
  BY <1>1, <1>2 DEF StoreTyped
<1>4. KnownInv'
  BY <1>1 DEF KnownInv, KnownId, Created
<1>5. ~RunningOp(p)'
  BY <1>2 DEF RunningOp
<1>6. ProcInv(p)'
  BY <1>1, <1>5 DEF ProcInv, KnownId, Created
<1>7. SoloInv(p)'
  BY <1>5 DEF SoloInv
<1>8. opPc[p] \in Nat
  BY Places
<1>9. ASSUME Alone PROVE AloneFiles' /\ AloneEffects' /\ AloneChain'
  <2>1. AloneFiles' /\ AloneEffects'
    BY <1>2, <1>8, <1>9, EffectsKept DEF Placed
  <2>2. QED BY <1>9, <2>1
<1>10. QED BY <1>2, <1>3, <1>4, <1>6, <1>7, <1>9, OpStepKept

\* A process ends without the step having been done.
LEMMA EndKept ==
  ASSUME StoreInv, NEW p \in Invocations, RunningOp(p), NEW r \in {"ok", "error", "killed"},
         result' = [result EXCEPT ![p] = r], Alone => r # "ok",
         inode' \in {inode, [inode EXCEPT ![p] = "none"]}, inode'[p] = "none",
         kills' \in 0..MaxKills,
         UNCHANGED <<file, temp, command, opPc, got, map, parent, opLog, overlapped>>
  PROVE  StoreInv'
<1>1. opLog' \in Seq(LogEntries)
  BY DEF StoreInv, StoreTyped
<1>2. Alone => AloneChain'
  BY DEF StoreInv, AloneChain
<1>3. QED BY <1>1, <1>2, EndAppendedKept

\* A step that touches no store: a receipt, the key, the dispatch.
LEMMA PlainStepKept ==
  ASSUME StoreInv, NEW p \in Invocations, NEW x \in {"receipt", "key", "dispatch"}, At(p, x), Done(p),
         UNCHANGED <<file, temp, inode, command, got, map, overlapped, kills>>,
         parent' \in [Invocations -> Nat], opLog' \in Seq(LogEntries),
         \A q \in Invocations \ {p} : parent'[q] = parent[q],
         p \notin overlapped /\ parent'[p] # Unread =>
           parent'[p] = SinkCount(Logs(command[p].verb))',
         Alone => AloneChain'
  PROVE  StoreInv'
<1>1. StoreTyped /\ ProcInv(p) /\ KnownInv /\ SoloInv(p) /\ RunningOp(p) /\ command[p] # NoCommand
  BY DEF StoreInv, At, RunningOp
<1>2. /\ opPc' \in [Invocations -> 0..9] /\ opPc'[p] = opPc[p] + 1 /\ opPc[p] \in Nat
      /\ result' \in [Invocations -> {"none", "ok", "error", "killed"}]
      /\ \A q \in Invocations \ {p} : opPc'[q] = opPc[q] /\ result'[q] = result[q]
      /\ result'[p] = "ok" => Placed(p)'
      /\ Placed(p)' => Placed(p)
      /\ command[p].verb = "refused" => opPc'[p] <= 2
  BY DoneFacts
<1>3. /\ command[p].verb \in Verbs /\ ReadAt(command[p].verb) \in Nat /\ GetAt(command[p].verb) \in Nat
      /\ command[p].verb \in Gets => opPc[p] # GetAt(command[p].verb)
      /\ opPc[p] # ReadAt(command[p].verb) /\ opPc[p] # ReadAt(command[p].verb) + 1
      /\ opPc[p] # ReadAt(command[p].verb) + 2 /\ opPc[p] # ReadAt(command[p].verb) + 3
  BY <1>1, Places
<1>4. StoreTyped'
  BY <1>1, <1>2 DEF StoreTyped
<1>5. KnownInv'
  BY <1>1 DEF KnownInv, KnownId, Created
<1>6. inode[p] = "none"
  BY <1>1, <1>3 DEF ProcInv
<1>7. ProcInv(p)'
  <2>1. command[p].verb \in Gets /\ opPc'[p] > GetAt(command[p].verb) => KnownId(command[p].id)
    BY <1>1, <1>2, <1>3 DEF ProcInv
  <2>2. QED BY <1>1, <1>2, <1>6, <2>1 DEF ProcInv, KnownId, Created
<1>8. SoloInv(p)'
  <2>1. ASSUME RunningOp(p)', p \notin overlapped'
        PROVE  /\ \A q \in Invocations : RunningOp(q)' => q = p
               /\ command[p].verb # "refused" => SoloRecord(p)' /\ SoloMap(p)'
    <3>1. /\ \A q \in Invocations : RunningOp(q) => q = p
          /\ command[p].verb # "refused" => SoloRecord(p) /\ SoloMap(p)
      BY <1>1, <2>1 DEF SoloInv
    <3>2. \A q \in Invocations : RunningOp(q)' => q = p
      BY <1>2, <3>1 DEF RunningOp
    <3>3. ASSUME command[p].verb # "refused" PROVE SoloRecord(p)'
      <4>1. SoloRecord(p)
        BY <3>1, <3>3
      <4>2. command[p].verb \in Creates => command[p].verb \notin Gets
        BY DEF Gets
      <4>3. ASSUME opPc'[p] <= ReadAt(command[p].verb) + 3
            PROVE  opPc[p] <= ReadAt(command[p].verb) + 3
        BY <1>2, <1>3, <4>3
      <4>4. ASSUME command[p].verb \in Gets, opPc'[p] > GetAt(command[p].verb)
            PROVE  opPc[p] > GetAt(command[p].verb)
        BY <1>2, <1>3, <4>4
      <4>5. \A q \in Invocations : command[p].verb \in Creates /\ command[q].verb \in Gets =>
              opPc'[q] = opPc[q]
        BY <1>2, <4>2
      <4>6. QED BY <4>1, <4>3, <4>4, <4>5 DEF SoloRecord, Store
    <3>4. SoloMap(p)'
      BY <1>2, <1>3 DEF SoloMap
    <3>5. QED BY <3>2, <3>3, <3>4
  <2>2. QED BY <1>6, <2>1 DEF SoloInv
<1>9. ASSUME Alone PROVE AloneFiles' /\ AloneEffects' /\ AloneChain'
  BY <1>2, <1>9, EffectsKept
<1>10. QED BY <1>1, <1>2, <1>4, <1>5, <1>7, <1>8, <1>9, OpStepKept

\* A receipt appended by a process that nobody overlapped, whole or cut short,
\* names the one before it.
LEMMA ChainAppended ==
  ASSUME StoreInv, NEW p \in Invocations, RunningOp(p), parent[p] # Unread, NEW cut \in BOOLEAN,
         opLog' = Append(opLog, SinkLine(p, cut))
  PROVE  opLog' \in Seq(LogEntries) /\ (Alone => AloneChain')
<1>0. SoloInv(p) /\ parent \in [Invocations -> Nat] /\ opLog \in Seq(LogEntries)
  BY DEF StoreInv, StoreTyped
<1> DEFINE e == SinkLine(p, cut)
<1>1. e \in LogEntries /\ e.log = Logs(command[p].verb) /\ e.parent = parent[p]
  BY <1>0 DEF LogEntries, Logs, SinkLine
<1> HIDE DEF e
<1>2. /\ opLog' \in Seq(LogEntries) /\ Len(opLog') = Len(opLog) + 1
      /\ Len(opLog) \in Nat /\ opLog'[Len(opLog) + 1] = e
      /\ \A n \in 1..Len(opLog) : opLog'[n] = opLog[n]
  <2>1. opLog' = Append(opLog, e)
    BY DEF e
  <2>2. QED BY <1>0, <1>1, <2>1, AppendProperties, LenProperties
<1>3. ASSUME Alone PROVE AloneChain'
  <2>1. AloneChain /\ p \notin overlapped
    BY <1>3 DEF StoreInv, Alone
  <2>2. parent[p] = SinkCount(e.log)
    BY <1>0, <1>1, <2>1 DEF SoloInv
  <2>3. ASSUME NEW n \in 1..Len(opLog')
        PROVE  \/ \E k \in 1..n - 1 : opLog'[k].log = opLog'[n].log /\ opLog'[k].cut
               \/ opLog'[n].parent = Cardinality({k \in 1..n - 1 : opLog'[k].log = opLog'[n].log})
    <3>1. CASE n \in 1..Len(opLog)
      <4>1. {k \in 1..n - 1 : opLog'[k].log = opLog'[n].log} =
            {k \in 1..n - 1 : opLog[k].log = opLog[n].log}
        BY <1>2, <3>1
      <4>2. \A k \in 1..n - 1 : opLog'[k] = opLog[k] /\ k \in 1..Len(opLog)
        BY <1>2, <3>1
      <4>3. QED BY <1>2, <2>1, <3>1, <4>1, <4>2 DEF AloneChain
    <3>2. CASE n = Len(opLog) + 1
      <4>1. {k \in 1..n - 1 : opLog'[k].log = opLog'[n].log} =
            {k \in 1..Len(opLog) : opLog[k].log = e.log}
        BY <1>2, <3>2
      <4>2. QED BY <1>1, <1>2, <2>2, <3>2, <4>1 DEF SinkCount
    <3>3. n \in 1..Len(opLog) \/ n = Len(opLog) + 1
      BY <1>2
    <3>4. QED BY <3>1, <3>2, <3>3
  <2>4. QED BY <2>3 DEF AloneChain
<1>4. QED BY <1>2, <1>3

\* The log fails the command, whatever it keeps of the line.
LEMMA SinkFailsKept ==
  ASSUME StoreInv, NEW p \in Invocations, SinkFails(p)
  PROVE  StoreInv'
<1>1. /\ At(p, "receipt") /\ RunningOp(p) /\ ProcInv(p) /\ kills' = kills + 1 /\ kills < MaxKills
      /\ result' = [result EXCEPT ![p] = "error"]
      /\ UNCHANGED <<file, temp, inode, command, opPc, got, map, parent, overlapped>>
  BY DEF SinkFails, Fails, At, StoreInv
<1>2. /\ kills \in 0..MaxKills /\ MaxKills \in Nat
      /\ inode \in [Invocations -> {"none", "temp", "file", "unlinked"}]
      /\ opLog \in Seq(LogEntries)
  BY StoreAssumption DEF StoreInv, StoreTyped
<1>3. kills' \in 0..MaxKills
  BY <1>1, <1>2
<1>4. inode'[p] = "none"
  <2>1. opPc[p] # ReadAt(command[p].verb) + 2
    BY <1>1, Places
  <2>2. QED BY <1>1, <2>1 DEF ProcInv
<1>5. opLog' \in Seq(LogEntries) /\ (Alone => AloneChain')
  <2>1. CASE UNCHANGED opLog
    BY <1>2, <2>1 DEF StoreInv, AloneChain
  <2>2. CASE parent[p] # Unread /\ \E cut \in BOOLEAN : opLog' = Append(opLog, SinkLine(p, cut))
    BY <1>1, <2>2, ChainAppended
  <2>3. QED BY <2>1, <2>2 DEF SinkFails
<1>6. QED BY <1>1, <1>3, <1>4, <1>5, EndAppendedKept

\* The sink reads the last line and appends its receipt.
LEMMA SinkKept ==
  ASSUME StoreInv, NEW p \in Invocations, SinkReads(p) \/ SinkAppends(p)
  PROVE  StoreInv'
<1>0. /\ At(p, "receipt") /\ RunningOp(p) /\ StoreTyped /\ KnownInv /\ ProcInv(p) /\ SoloInv(p)
      /\ command[p].verb \in Verbs /\ opPc[p] \in Nat /\ command[p] # NoCommand
  BY Places DEF SinkReads, SinkAppends, At, StoreInv, RunningOp
<1>1. parent \in [Invocations -> Nat] /\ opLog \in Seq(LogEntries)
  BY <1>0 DEF StoreTyped
<1>2. CASE SinkReads(p)
  <2>1. /\ UNCHANGED <<file, temp, inode, command, opPc, got, map, opLog, result, overlapped, kills>>
        /\ parent' = [parent EXCEPT ![p] = SinkCount(Logs(command[p].verb))]
    BY <1>2 DEF SinkReads, SinkCount
  <2>2. SinkCount(Logs(command[p].verb)) \in Nat
    BY <1>1, SinkCountNat
  <2>3. /\ parent' \in [Invocations -> Nat] /\ parent'[p] = SinkCount(Logs(command[p].verb))
        /\ \A q \in Invocations \ {p} : parent'[q] = parent[q]
    BY <1>1, <2>1, <2>2
  <2>4. StoreTyped'
    BY <1>0, <2>1, <2>3 DEF StoreTyped
  <2>5. KnownInv'
    BY <1>0, <2>1 DEF KnownInv, KnownId, Created
  <2>6. ProcInv(p)'
    BY <1>0, <2>1 DEF ProcInv, KnownId, Created, RunningOp
  <2>7. SinkCount(Logs(command[p].verb))' = SinkCount(Logs(command[p].verb))
    BY <2>1 DEF SinkCount, Logs
  <2>8. SoloInv(p)'
    <3>1. SoloRecord(p)' = SoloRecord(p) /\ SoloMap(p)' = SoloMap(p)
      BY <2>1 DEF SoloRecord, SoloMap, Outcome, Changed, Store
    <3>2. \A q \in Invocations : RunningOp(q)' = RunningOp(q)
      BY <2>1 DEF RunningOp
    <3>3. QED BY <1>0, <2>1, <2>3, <2>7, <3>1, <3>2 DEF SoloInv
  <2>9. ASSUME Alone PROVE AloneFiles' /\ AloneEffects' /\ AloneChain'
    <3>1. AloneFiles /\ AloneEffects /\ AloneChain
      BY <2>9 DEF StoreInv
    <3>2. QED
      BY <2>1, <3>1 DEF AloneFiles, AloneEffects, AloneChain, Placed, Effect, Store
  <2>10. QED BY <1>0, <2>1, <2>3, <2>4, <2>5, <2>6, <2>8, <2>9, OpStepKept
<1>3. CASE SinkAppends(p)
  <2>1. /\ UNCHANGED <<file, temp, inode, command, got, map, overlapped, kills>>
        /\ opLog' = Append(opLog, SinkLine(p, FALSE)) /\ parent[p] # Unread
        /\ parent' = [parent EXCEPT ![p] = Unread] /\ Done(p)
    BY <1>3 DEF SinkAppends
  <2>2. opLog' \in Seq(LogEntries) /\ (Alone => AloneChain')
    BY <1>0, <2>1, ChainAppended
  <2>3. parent' \in [Invocations -> Nat] /\ parent'[p] = Unread
        /\ \A q \in Invocations \ {p} : parent'[q] = parent[q]
    BY <1>1, <2>1 DEF Unread
  <2>4. QED BY <1>0, <2>1, <2>2, <2>3, PlainStepKept
<1>4. QED BY <1>2, <1>3

\* The file of a process's store, and the record it is about.
LEMMA StoreFile ==
  ASSUME StoreInv, NEW p \in Invocations, RunningOp(p)
  PROVE  /\ file[Store(p)] \in Forms /\ file[Store(p)].recs \in Maps
         /\ temp[Store(p)] \in Forms /\ temp[Store(p)].recs \in Maps
         /\ map[p] \in Maps /\ got[p] \in Records
<1>1. Store(p) \in Stores
  BY Places
<1>2. QED BY <1>1, FormRecs DEF StoreInv, StoreTyped

\* A process that reads, is refused, denied, or finds no key or record.
LEMMA GetKept ==
  ASSUME StoreInv, NEW p \in Invocations,
         GetRecord(p) \/ Rejected(p) \/ Denied(p) \/ KeyResolved(p) \/ Dispatched(p)
  PROVE  StoreInv'
<1>0. RunningOp(p) /\ StoreTyped /\ KnownInv /\ ProcInv(p) /\ SoloInv(p) /\ command[p] # NoCommand
  BY DEF GetRecord, Rejected, Denied, KeyResolved, Dispatched, At, StoreInv, RunningOp
<1>1. /\ parent \in [Invocations -> Nat] /\ opLog \in Seq(LogEntries) /\ kills \in 0..MaxKills
      /\ got \in [Invocations -> Records]
  BY <1>0 DEF StoreTyped
<1>2. ASSUME NEW x, At(p, x), x # "write", Fails(p),
             UNCHANGED <<file, temp, inode, command, got, map, parent, opLog, overlapped, kills>>
      PROVE  StoreInv'
  <2>1. opPc[p] # ReadAt(command[p].verb) + 2
    BY <1>0, <1>2, Places
  <2>2. inode[p] = "none"
    BY <1>0, <2>1 DEF ProcInv
  <2>3. QED BY <1>0, <1>1, <1>2, <2>2, EndKept DEF Fails
<1>3. ASSUME NEW x \in {"key", "dispatch"}, At(p, x), Done(p),
             UNCHANGED <<file, temp, inode, command, got, map, parent, opLog, overlapped, kills>>
      PROVE  StoreInv'
  <2>1. Alone => AloneChain'
    BY <1>3 DEF StoreInv, AloneChain
  <2>2. p \notin overlapped /\ parent'[p] # Unread => parent'[p] = SinkCount(Logs(command[p].verb))'
    BY <1>0, <1>3 DEF SoloInv, SinkCount, Logs
  <2>3. QED BY <1>1, <1>3, <2>1, <2>2, PlainStepKept
<1>4. CASE GetRecord(p)
  <2>0. /\ At(p, "get")
        /\ UNCHANGED <<file, temp, inode, command, map, parent, opLog, overlapped, kills>>
    BY <1>4 DEF GetRecord
  <2>1. CASE Fails(p) /\ UNCHANGED got
    BY <1>2, <2>0, <2>1
  <2>2. CASE /\ Done(p) /\ got' = [got EXCEPT ![p] = file[Store(p)].recs[command[p].id]]
             /\ command[p].id \in DOMAIN file[Store(p)].recs
    <3> DEFINE v == command[p].verb
    <3>1. /\ opPc' \in [Invocations -> 0..9] /\ opPc'[p] = opPc[p] + 1 /\ opPc[p] \in Nat
          /\ result' \in [Invocations -> {"none", "ok", "error", "killed"}]
          /\ \A q \in Invocations \ {p} : opPc'[q] = opPc[q] /\ result'[q] = result[q]
          /\ result'[p] = "ok" => Placed(p)'
          /\ Placed(p)' => Placed(p)
      BY <2>0, <2>2, DoneFacts
    <3>2. /\ v \in Gets /\ opPc[p] = GetAt(v) /\ GetAt(v) < ReadAt(v) /\ ReadAt(v) \in Nat
          /\ GetAt(v) \in Nat /\ Store(p) \in Stores /\ command[p].id \in RecordIds
      BY <1>0, <2>0, Places
    <3>3. file[Store(p)].recs \in Maps
      BY <1>0, StoreFile
    <3>4. /\ got' \in [Invocations -> Records] /\ got'[p] = file[Store(p)].recs[command[p].id]
          /\ \A q \in Invocations \ {p} : got'[q] = got[q]
      <4>1. file[Store(p)].recs[command[p].id] \in Records
        BY <2>2, <3>3, MapsClosed
      <4>2. QED BY <1>1, <2>2, <4>1
    <3>5. StoreTyped'
      BY <1>0, <2>0, <3>1, <3>4 DEF StoreTyped
    <3>6. KnownInv'
      BY <1>0, <2>0 DEF KnownInv, KnownId, Created
    <3>7. inode[p] = "none"
      BY <1>0, <3>2 DEF ProcInv
    <3>8. KnownId(command[p].id)
      BY <1>0, <2>2, <3>2 DEF KnownInv
    <3>9. v \notin Creates /\ v # "refused"
      BY <3>2 DEF Gets
    <3>10. ProcInv(p)'
      BY <1>0, <2>0, <3>7, <3>8, <3>9 DEF ProcInv, KnownId, Created
    <3>11. SoloInv(p)'
      <4>1. ASSUME RunningOp(p)', p \notin overlapped'
            PROVE  /\ \A q \in Invocations : RunningOp(q)' => q = p
                   /\ parent'[p] # Unread => parent'[p] = SinkCount(Logs(command[p].verb))'
        <5>1. /\ \A q \in Invocations : RunningOp(q) => q = p
              /\ parent[p] # Unread => parent[p] = SinkCount(Logs(command[p].verb))
          BY <1>0, <2>0, <4>1 DEF SoloInv
        <5>2. QED BY <2>0, <3>1, <5>1 DEF RunningOp, SinkCount, Logs
      <4>2. SoloRecord(p)'
        BY <2>0, <2>2, <3>4, <3>9 DEF SoloRecord, Store
      <4>3. SoloMap(p)'
        BY <2>0, <3>1, <3>2 DEF SoloMap
      <4>4. QED BY <2>0, <3>7, <4>1, <4>2, <4>3 DEF SoloInv
    <3>12. ASSUME Alone PROVE AloneFiles' /\ AloneEffects' /\ AloneChain'
      <4>1. AloneChain'
        BY <2>0, <3>12 DEF StoreInv, AloneChain
      <4>2. QED BY <2>0, <3>1, <3>12, <4>1, EffectsKept
    <3>13. QED
      BY <1>0, <2>0, <3>1, <3>4, <3>5, <3>6, <3>10, <3>11, <3>12, OpStepKept
  <2>3. QED BY <1>4, <2>1, <2>2 DEF GetRecord
<1>5. CASE Rejected(p)
  BY <1>2, <1>5 DEF Rejected
<1>6. CASE Denied(p)
  BY <1>2, <1>6 DEF Denied
<1>7. CASE KeyResolved(p)
  BY <1>2, <1>3, <1>7 DEF KeyResolved
<1>8. CASE Dispatched(p)
  BY <1>3, <1>8 DEF Dispatched
<1>9. QED BY <1>4, <1>5, <1>6, <1>7, <1>8

\* What a command makes of the records is a map of known ids.
LEMMA OutcomeTyped ==
  ASSUME StoreInv, NEW p \in Invocations, RunningOp(p), command[p].verb # "refused",
         command[p].verb \in Gets => opPc[p] > GetAt(command[p].verb)
  PROVE  /\ Outcome(p) \in Maps
         /\ \A i \in DOMAIN Outcome(p) : KnownId(i)
<1>1. /\ command[p].id \in RecordIds /\ command[p].verb \in Verbs /\ Store(p) \in Stores
      /\ file[Store(p)].recs \in Maps /\ got[p] \in Records
  BY Places, StoreFile
<1>2. Changed(p) \in Records
  BY <1>1 DEF Changed, Records
<1>3. Outcome(p) \in Maps
  BY <1>1, <1>2, MapsClosed DEF Outcome
<1>4. KnownId(command[p].id)
  <2>1. CASE command[p].verb \in Gets
    BY <2>1 DEF StoreInv, ProcInv
  <2>2. CASE command[p].verb \in Creates
    BY <2>2 DEF KnownId, Created
  <2>3. QED BY <1>1, <2>1, <2>2 DEF Gets
<1>5. \A i \in DOMAIN file[Store(p)].recs : KnownId(i)
  BY <1>1 DEF StoreInv, KnownInv
<1>6. DOMAIN Outcome(p) \subseteq DOMAIN file[Store(p)].recs \cup {command[p].id}
  BY DEF Outcome
<1>7. QED BY <1>3, <1>4, <1>5, <1>6

\* read_map, and the change made to what it returned.
LEMMA ReadsMapKept ==
  ASSUME StoreInv, NEW p \in Invocations, ReadsMap(p)
  PROVE  StoreInv'
<1> DEFINE v == command[p].verb
<1>0. /\ RunningOp(p) /\ StoreTyped /\ KnownInv /\ ProcInv(p) /\ SoloInv(p) /\ command[p] # NoCommand
      /\ At(p, "read")
      /\ UNCHANGED <<file, temp, inode, command, got, parent, opLog, overlapped, kills>>
  BY DEF ReadsMap, At, StoreInv, RunningOp
<1>1. /\ v \in Verbs /\ opPc[p] = ReadAt(v) /\ ReadAt(v) \in Nat /\ GetAt(v) \in Nat
      /\ v \in Gets => GetAt(v) < ReadAt(v)
      /\ Store(p) \in Stores
  BY <1>0, Places
<1>2. inode[p] = "none" /\ v # "refused"
  <2>1. inode[p] = "none"
    BY <1>0, <1>1 DEF ProcInv
  <2>2. v = "refused" => ReadAt(v) = 9 /\ opPc[p] <= 2
    BY <1>0 DEF ProcInv, ReadAt
  <2>3. QED BY <1>1, <2>1, <2>2
<1>3. CASE /\ file[Store(p)] = Part \/ (v \in Removes /\ command[p].id \notin DOMAIN file[Store(p)].recs)
           /\ UpsertFails(p) /\ UNCHANGED map
  <2>1. PICK r \in {"ok", "error"} :
          result' = [result EXCEPT ![p] = r] /\ opPc' = opPc /\ (r = "ok" => v = "emit")
    BY <1>3 DEF UpsertFails
  <2>2. Alone => r # "ok"
    <3>1. Alone => file[Store(p)].is = "whole"
      BY <1>1 DEF StoreInv, AloneFiles
    <3>2. QED BY <1>3, <2>1, <3>1, FormRecs DEF Removes
  <2>3. kills \in 0..MaxKills
    BY <1>0 DEF StoreTyped
  <2>4. QED BY <1>0, <1>2, <1>3, <2>1, <2>2, <2>3, EndKept
<1>4. CASE Done(p) /\ map' = [map EXCEPT ![p] = Outcome(p)]
  <2>1. /\ opPc' \in [Invocations -> 0..9] /\ opPc'[p] = opPc[p] + 1 /\ opPc[p] \in Nat
        /\ result' \in [Invocations -> {"none", "ok", "error", "killed"}]
        /\ \A q \in Invocations \ {p} : opPc'[q] = opPc[q] /\ result'[q] = result[q]
        /\ result'[p] = "ok" => Placed(p)'
        /\ Placed(p)' => Placed(p)
    BY <1>0, <1>4, DoneFacts
  <2>2. Outcome(p) \in Maps /\ \A i \in DOMAIN Outcome(p) : KnownId(i)
    BY <1>0, <1>1, <1>2, OutcomeTyped
  <2>3. map \in [Invocations -> Maps]
    BY <1>0 DEF StoreTyped
  <2>4. /\ map' \in [Invocations -> Maps] /\ map'[p] = Outcome(p)
        /\ \A q \in Invocations \ {p} : map'[q] = map[q]
    BY <1>4, <2>2, <2>3
  <2>5. StoreTyped'
    BY <1>0, <2>1, <2>4 DEF StoreTyped
  <2>6. KnownInv'
    <3>1. \A i : KnownId(i)' = KnownId(i)
      BY <1>0 DEF KnownId, Created
    <3>2. QED BY <1>0, <2>2, <2>4, <3>1 DEF KnownInv
  <2>7. ProcInv(p)'
    BY <1>0, <1>1, <1>2, <2>1 DEF ProcInv, KnownId, Created
  <2>8. SoloInv(p)'
    <3>1. ASSUME RunningOp(p)', p \notin overlapped'
          PROVE  /\ \A q \in Invocations : RunningOp(q)' => q = p
                 /\ parent'[p] # Unread => parent'[p] = SinkCount(Logs(v))'
                 /\ SoloRecord(p)'
      <4>1. /\ \A q \in Invocations : RunningOp(q) => q = p
            /\ parent[p] # Unread => parent[p] = SinkCount(Logs(v))
            /\ SoloRecord(p)
        BY <1>0, <1>2, <3>1 DEF SoloInv
      <4>2. \A q \in Invocations : command[q].verb \in Gets /\ v \in Creates => opPc'[q] = opPc[q]
        BY <2>1 DEF Gets
      <4>3. SoloRecord(p)'
        BY <1>0, <1>1, <4>1, <4>2 DEF SoloRecord, Store
      <4>4. QED BY <1>0, <2>1, <4>1, <4>3 DEF RunningOp, SinkCount, Logs
    <3>2. Outcome(p)' = Outcome(p)
      BY <1>0 DEF Outcome, Changed, Store
    <3>3. SoloMap(p)'
      BY <1>0, <1>1, <2>1, <2>4, <3>2 DEF SoloMap
    <3>4. QED BY <1>0, <1>2, <3>1, <3>3 DEF SoloInv
  <2>9. ASSUME Alone PROVE AloneFiles' /\ AloneEffects' /\ AloneChain'
    <3>1. AloneChain'
      BY <1>0, <2>9 DEF StoreInv, AloneChain
    <3>2. QED BY <1>0, <2>1, <2>9, <3>1, EffectsKept
  <2>10. QED BY <1>0, <2>1, <2>5, <2>6, <2>7, <2>8, <2>9, OpStepKept
<1>5. QED BY <1>3, <1>4 DEF ReadsMap, Outcome

\* What a step on the temporary file or its rename leaves of a solo process.
LEMMA SoloKept ==
  ASSUME StoreInv, NEW p \in Invocations, RunningOp(p), p \notin overlapped,
         UNCHANGED <<command, got, map, parent, opLog, overlapped>>,
         \A q \in Invocations \ {p} : opPc'[q] = opPc[q] /\ result'[q] = result[q]
  PROVE  /\ \A q \in Invocations : RunningOp(q)' => q = p
         /\ parent'[p] # Unread => parent'[p] = SinkCount(Logs(command[p].verb))'
<1>1. /\ \A q \in Invocations : RunningOp(q) => q = p
      /\ parent[p] # Unread => parent[p] = SinkCount(Logs(command[p].verb))
  BY DEF StoreInv, SoloInv
<1>2. QED BY <1>1 DEF RunningOp, SinkCount, Logs

\* fs::write of the temporary file, in its steps.
LEMMA TempKept ==
  ASSUME StoreInv, NEW p \in Invocations, OpensTemp(p) \/ WritesPart(p) \/ WritesTemp(p)
  PROVE  StoreInv'
<1> DEFINE v == command[p].verb
           at == opPc[p] - ReadAt(v)
<1>0. /\ RunningOp(p) /\ StoreTyped /\ KnownInv /\ ProcInv(p) /\ SoloInv(p) /\ command[p] # NoCommand
      /\ At(p, "open") \/ At(p, "write")
      /\ UNCHANGED <<command, got, map, parent, opLog, overlapped, kills>>
  BY DEF OpensTemp, WritesPart, WritesTemp, At, StoreInv, RunningOp
<1>1. /\ v \in Verbs /\ ReadAt(v) \in Nat /\ GetAt(v) \in Nat /\ opPc[p] \in Nat
      /\ v \in Gets => GetAt(v) < ReadAt(v)
      /\ Store(p) \in Stores /\ map[p] \in Maps
      /\ At(p, "open") => opPc[p] = ReadAt(v) + 1
      /\ At(p, "write") => opPc[p] = ReadAt(v) + 2
  BY <1>0, Places, StoreFile
<1>2. v # "refused" /\ KnownInv
  BY <1>0, <1>1 DEF ProcInv, ReadAt
<1>3. PICK c \in {Opened, Part, Whole(map[p])} :
        /\ \/ OpensTemp(p) /\ c = Opened
           \/ WritesPart(p) /\ c = Part
           \/ WritesTemp(p) /\ c = Whole(map[p])
        /\ file' \in {file, [file EXCEPT ![Store(p)] = c]}
        /\ temp' \in {temp, [temp EXCEPT ![Store(p)] = c]}
        /\ p \notin overlapped => file' = file /\ temp' = [temp EXCEPT ![Store(p)] = c]
  <2>1. p \notin overlapped /\ At(p, "write") => inode[p] = "temp"
    <3>1. ASSUME p \notin overlapped, At(p, "write") PROVE inode[p] = "temp"
      <4>1. SoloMap(p) /\ opPc[p] - ReadAt(v) = 2
        BY <1>0, <1>1, <1>2, <3>1 DEF SoloInv
      <4>2. QED BY <4>1 DEF SoloMap
    <3>2. QED BY <3>1
  <2>2. CASE OpensTemp(p)
    BY <2>2 DEF OpensTemp
  <2>3. CASE WritesPart(p)
    BY <2>1, <2>3 DEF WritesPart, Fills
  <2>4. CASE WritesTemp(p)
    BY <2>1, <2>4 DEF WritesTemp, Fills
  <2>5. QED BY <2>2, <2>3, <2>4
<1>4. c \in Forms /\ \A i \in DOMAIN c.recs : KnownId(i)
  <2>1. CASE c \in {Opened, Part}
    BY <2>1, FormRecs
  <2>2. CASE c = Whole(map[p])
    BY <1>1, <1>2, <2>2, FormRecs DEF KnownInv
  <2>3. QED BY <1>3, <2>1, <2>2
<1>5. /\ file \in [Stores -> Forms] /\ temp \in [Stores -> Forms]
      /\ inode \in [Invocations -> {"none", "temp", "file", "unlinked"}]
      /\ result \in [Invocations -> {"none", "ok", "error", "killed"}]
      /\ opPc \in [Invocations -> 0..9]
  BY <1>0 DEF StoreTyped
<1>6. /\ file' \in [Stores -> Forms] /\ temp' \in [Stores -> Forms]
      /\ \A s \in Stores : file'[s] \in {file[s], c} /\ temp'[s] \in {temp[s], c}
  BY <1>1, <1>3, <1>4, <1>5
<1>7. /\ opPc' \in [Invocations -> 0..9] /\ opPc'[p] \in Nat
      /\ result' \in [Invocations -> {"none", "ok", "error", "killed"}]
      /\ inode' \in [Invocations -> {"none", "temp", "file", "unlinked"}]
      /\ \A q \in Invocations \ {p} :
           opPc'[q] = opPc[q] /\ result'[q] = result[q] /\ inode'[q] = inode[q]
      /\ result'[p] = "none" /\ ~Placed(p)'
      /\ \/ c = Opened /\ inode'[p] = "temp" /\ at = 1 /\ opPc'[p] = opPc[p] + 1
         \/ c = Part /\ inode'[p] = inode[p] /\ at = 2 /\ opPc'[p] = opPc[p]
         \/ c = Whole(map[p]) /\ inode'[p] = "none" /\ at = 2 /\ opPc'[p] = opPc[p] + 1
  <2>1. CASE WritesPart(p) /\ c = Part
    <3>1. UNCHANGED <<inode, opPc, result>> /\ At(p, "write")
      BY <2>1 DEF WritesPart
    <3>2. result[p] = "none" /\ ~Placed(p)'
      BY <1>0, <1>1, <3>1 DEF RunningOp, Placed
    <3>3. QED BY <1>1, <1>5, <2>1, <3>1, <3>2
  <2>2. CASE (OpensTemp(p) /\ c = Opened) \/ (WritesTemp(p) /\ c = Whole(map[p]))
    <3>0. PICK x \in {"open", "write"} :
            At(p, x) /\ Done(p) /\ (x = "open" <=> (OpensTemp(p) /\ c = Opened))
                     /\ (x = "write" <=> (WritesTemp(p) /\ c = Whole(map[p])))
      <4>1. Opened # Whole(map[p])
        BY DEF Opened, Whole
      <4>2. QED BY <2>2, <4>1 DEF OpensTemp, WritesTemp
    <3>1. /\ opPc' \in [Invocations -> 0..9] /\ opPc'[p] = opPc[p] + 1
          /\ result' \in [Invocations -> {"none", "ok", "error", "killed"}]
          /\ \A q \in Invocations \ {p} : opPc'[q] = opPc[q] /\ result'[q] = result[q]
          /\ ~Placed(p)' => RunningOp(p)'
      BY <1>0, <3>0, DoneFacts
    <3>2. ~Placed(p)'
      BY <1>0, <1>1, <3>0, <3>1 DEF Placed
    <3>3. result'[p] = "none"
      BY <3>1, <3>2 DEF RunningOp
    <3>4. CASE x = "open"
      <4>1. inode' = [inode EXCEPT ![p] = "temp"] /\ c = Opened /\ at = 1
        BY <1>1, <3>0, <3>4 DEF OpensTemp
      <4>2. QED BY <1>1, <1>5, <3>1, <3>2, <3>3, <4>1
    <3>5. CASE x = "write"
      <4>1. inode' = [inode EXCEPT ![p] = "none"] /\ c = Whole(map[p]) /\ at = 2
        BY <1>1, <3>0, <3>5 DEF WritesTemp
      <4>2. QED BY <1>1, <1>5, <3>1, <3>2, <3>3, <4>1
    <3>6. QED BY <3>0, <3>4, <3>5
  <2>3. QED BY <1>3, <2>1, <2>2
<1>8. StoreTyped'
  BY <1>0, <1>6, <1>7 DEF StoreTyped
<1>9. KnownInv'
  <2>1. \A i : KnownId(i)' = KnownId(i)
    BY <1>0 DEF KnownId, Created
  <2>2. QED BY <1>0, <1>2, <1>4, <1>6, <2>1 DEF KnownInv
<1>10. RunningOp(p)' /\ (opPc'[p] = ReadAt(v) + 2 \/ opPc'[p] = ReadAt(v) + 3)
       /\ (inode'[p] # "none" => opPc'[p] = ReadAt(v) + 2)
  BY <1>0, <1>1, <1>7 DEF RunningOp
<1>11. ProcInv(p)'
  <2>1. v \in Gets => KnownId(command[p].id)
    BY <1>0, <1>1 DEF ProcInv
  <2>2. QED BY <1>0, <1>2, <1>10, <2>1 DEF ProcInv, KnownId, Created
<1>12. SoloInv(p)'
  <2>1. ASSUME p \notin overlapped'
        PROVE  /\ \A q \in Invocations : RunningOp(q)' => q = p
               /\ parent'[p] # Unread => parent'[p] = SinkCount(Logs(v))'
               /\ inode'[p] \in {"none", "temp"}
               /\ SoloRecord(p)' /\ SoloMap(p)'
    <3>0. p \notin overlapped /\ file' = file /\ temp' = [temp EXCEPT ![Store(p)] = c]
      BY <1>0, <1>3, <2>1
    <3>1. SoloRecord(p) /\ SoloMap(p) /\ inode[p] \in {"none", "temp"}
      BY <1>0, <1>2, <3>0 DEF SoloInv
    <3>2. /\ \A q \in Invocations : RunningOp(q)' => q = p
          /\ parent'[p] # Unread => parent'[p] = SinkCount(Logs(v))'
      BY <1>0, <1>7, <3>0, SoloKept
    <3>3. \A q \in Invocations : command[q].verb \in Gets /\ v \in Creates => opPc'[q] = opPc[q]
      BY <1>7 DEF Gets
    <3>4. SoloRecord(p)'
      BY <1>0, <1>1, <1>7, <3>0, <3>1, <3>3 DEF SoloRecord, Store
    <3>5. Outcome(p)' = Outcome(p)
      BY <1>0, <3>0 DEF Outcome, Changed, Store
    <3>6. map[p] = Outcome(p) /\ (at = 2 => inode[p] = "temp")
      BY <1>1, <1>7, <3>1 DEF SoloMap
    <3>7. temp'[Store(p)] = c
      BY <1>1, <1>5, <3>0
    <3>8. SoloMap(p)'
      <4>1. map'[p] = Outcome(p)'
        BY <1>0, <3>5, <3>6
      <4>2. opPc'[p] - ReadAt(v) = 2 => inode'[p] = "temp"
        BY <1>1, <1>7, <3>6
      <4>3. opPc'[p] - ReadAt(v) = 3 => temp'[Store(p)] = Whole(map[p])
        BY <1>1, <1>7, <3>7
      <4>4. QED BY <1>0, <4>1, <4>2, <4>3 DEF SoloMap, Store
    <3>9. QED BY <1>7, <3>1, <3>2, <3>4, <3>8
  <2>2. QED BY <2>1 DEF SoloInv
<1>13. ASSUME Alone PROVE AloneFiles' /\ AloneEffects' /\ AloneChain'
  <2>1. file' = file
    BY <1>3, <1>13 DEF Alone
  <2>2. AloneChain'
    BY <1>0, <1>13 DEF StoreInv, AloneChain
  <2>3. opPc'[p] >= opPc[p]
    BY <1>1, <1>7
  <2>4. QED BY <1>0, <1>1, <1>7, <1>13, <2>1, <2>2, <2>3, EffectsKept
<1>14. QED BY <1>0, <1>7, <1>8, <1>9, <1>11, <1>12, <1>13, OpStepKept

\* A rename puts the outcome of a solo command in the file, and what the commands
\* before it left there stays, or somebody asked for its removal.
LEMMA RenameEffects ==
  ASSUME StoreInv, Alone, NEW p \in Invocations, RunningOp(p), command[p].verb # "refused",
         opPc[p] = ReadAt(command[p].verb) + 3, opPc'[p] = opPc[p] + 1, UNCHANGED command,
         \A q \in Invocations \ {p} : opPc'[q] = opPc[q] /\ result'[q] = result[q],
         result'[p] = "ok" => Placed(p)',
         file' = [file EXCEPT ![Store(p)] = temp[Store(p)]]
  PROVE  AloneFiles' /\ AloneEffects'
<1> DEFINE v == command[p].verb
           id == command[p].id
           recs == file[Store(p)].recs
<1>1. /\ v \in Verbs /\ ReadAt(v) \in Nat /\ GetAt(v) \in Nat /\ opPc[p] \in Nat
      /\ v \in Gets => GetAt(v) < ReadAt(v)
      /\ Store(p) \in Stores /\ map[p] \in Maps /\ recs \in Maps
  BY Places, StoreFile
<1>2. SoloRecord(p) /\ SoloMap(p) /\ AloneFiles /\ AloneEffects /\ file \in [Stores -> Forms]
  BY DEF StoreInv, SoloInv, Alone, StoreTyped
<1>3. map[p] = Outcome(p) /\ temp[Store(p)] = Whole(map[p])
  BY <1>1, <1>2 DEF SoloMap
<1>4. /\ file'[Store(p)].is = "whole" /\ file'[Store(p)].recs = Outcome(p)
      /\ \A s \in Stores \ {Store(p)} : file'[s] = file[s]
  BY <1>1, <1>2, <1>3, FormRecs
<1>5. AloneFiles'
  BY <1>2, <1>4 DEF AloneFiles
<1>6. /\ v \in Creates => id \notin DOMAIN recs
      /\ v \in Creates => \A q \in Invocations : command[q].id = id /\ command[q].verb \in Gets =>
                            opPc[q] <= GetAt(command[q].verb)
      /\ v \in Gets => id \in DOMAIN recs /\ got[p] = recs[id]
      /\ v \in Creates \/ v \in Gets
  BY <1>1, <1>2 DEF SoloRecord, Gets
<1>7. /\ v \in Removes => DOMAIN Outcome(p) = DOMAIN recs \ {id}
      /\ v \notin Removes => /\ DOMAIN Outcome(p) = DOMAIN recs \cup {id}
                             /\ Outcome(p)[id] = Changed(p)
      /\ \A i \in DOMAIN recs \ {id} : Outcome(p)[i] = recs[i]
  BY DEF Outcome
<1>8. Changed(p).changes = got[p].changes \cup {p}
  BY DEF Changed
<1>9. opPc'[p] > 1 /\ \A q \in Invocations : opPc[q] > 1 => opPc'[q] > 1
  <2>1. opPc \in [Invocations -> 0..9]
    BY DEF StoreInv, StoreTyped
  <2>2. QED BY <1>1, <2>1
<1>10. Effect(p)'
  BY <1>4, <1>7, <1>8 DEF Effect, Store
<1>11. ASSUME NEW q \in Invocations, q # p, Placed(q)' PROVE Effect(q)'
  <2>1. Placed(q) /\ Effect(q)
    BY <1>2, <1>11 DEF Placed, AloneEffects
  <2>2. CASE \E w \in Invocations : opPc[w] > 1 /\ command[w].verb \in Removes
                                    /\ command[w].id = command[q].id
    BY <1>9, <2>2 DEF Effect
  <2>3. CASE command[q].id = id /\ v \in Removes
    BY <1>9, <2>3 DEF Effect
  <2>4. CASE command[q].id = id /\ v \notin Removes /\ command[q].verb \in Removes
                                /\ id \notin DOMAIN recs
    <3>1. command[q].verb \in Gets /\ GetAt(command[q].verb) < opPc[q]
      <4>1. command[q].verb \in Gets
        BY <2>4 DEF Removes, Gets, Verbs, Creates
      <4>2. opPc[q] \in 0..9 /\ opPc[q] > ReadAt(command[q].verb) + 3
        BY <2>1 DEF Placed, StoreInv, StoreTyped
      <4>3. GetAt(command[q].verb) <= ReadAt(command[q].verb) /\ ReadAt(command[q].verb) \in Nat
            /\ GetAt(command[q].verb) \in Nat
        BY <2>4 DEF Removes, GetAt, ReadAt
      <4>4. QED BY <4>1, <4>2, <4>3
    <3>2. GetAt(command[q].verb) \in Nat /\ opPc[q] \in Nat
      <4>1. opPc[q] \in 0..9
        BY DEF StoreInv, StoreTyped
      <4>2. GetAt(command[q].verb) \in Nat
        BY DEF GetAt
      <4>3. QED BY <4>1, <4>2
    <3>3. v \notin Creates
      BY <1>6, <2>4, <3>1, <3>2
    <3>4. QED BY <1>6, <2>4, <3>3
  <2>5. CASE command[q].id = id /\ v \notin Removes /\ id \in DOMAIN recs /\ q \in recs[id].changes
    <3>1. v \in Gets /\ got[p] = recs[id]
      BY <1>6, <2>5
    <3>2. id \in DOMAIN Outcome(p) /\ q \in Outcome(p)[id].changes
      BY <1>7, <1>8, <2>5, <3>1
    <3>3. QED BY <1>4, <2>5, <3>2 DEF Effect, Store
  <2>6. CASE command[q].id # id
    <3>1. CASE Store(q) = Store(p)
      <4>1. /\ command[q].id \in DOMAIN Outcome(p) <=> command[q].id \in DOMAIN recs
            /\ command[q].id \in DOMAIN recs => Outcome(p)[command[q].id] = recs[command[q].id]
        BY <1>7, <2>6
      <4>2. QED BY <1>4, <1>9, <2>1, <3>1, <4>1 DEF Effect, Store
    <3>2. CASE Store(q) # Store(p)
      <4>1. Store(q) \in Stores
        <5>1. command[q] # NoCommand
          BY <2>1 DEF Placed, NoCommand, Verbs
        <5>2. command[q].id \in RecordIds
          BY <5>1 DEF StoreInv, ProcInv
        <5>3. QED BY <5>2, StoreAssumption DEF Store
      <4>2. file'[Store(q)] = file[Store(q)]
        BY <1>4, <3>2, <4>1
      <4>3. QED BY <1>9, <2>1, <4>2 DEF Effect, Store
    <3>3. QED BY <3>1, <3>2
  <2>7. QED BY <2>1, <2>2, <2>3, <2>4, <2>5, <2>6 DEF Effect, Store
<1>12. ASSUME NEW q \in Invocations, result'[q] = "ok" PROVE Placed(q)'
  BY <1>2, <1>12 DEF AloneEffects, Placed
<1>13. QED BY <1>5, <1>10, <1>11, <1>12 DEF AloneEffects

\* fs::rename.
LEMMA RenamesKept ==
  ASSUME StoreInv, NEW p \in Invocations, Renames(p)
  PROVE  StoreInv'
<1> DEFINE v == command[p].verb
<1>0. /\ RunningOp(p) /\ StoreTyped /\ KnownInv /\ ProcInv(p) /\ SoloInv(p) /\ command[p] # NoCommand
      /\ At(p, "rename")
      /\ UNCHANGED <<command, got, map, parent, opLog, overlapped, kills>>
  BY DEF Renames, At, StoreInv, RunningOp
<1>1. /\ v \in Verbs /\ ReadAt(v) \in Nat /\ GetAt(v) \in Nat /\ opPc[p] = ReadAt(v) + 3
      /\ v \in Gets => GetAt(v) < ReadAt(v)
      /\ Store(p) \in Stores
  BY <1>0, Places
<1>2. inode[p] = "none" /\ v # "refused"
  <2>1. inode[p] = "none"
    BY <1>0, <1>1 DEF ProcInv
  <2>2. v = "refused" => opPc[p] <= 2
    BY <1>0 DEF ProcInv
  <2>3. QED BY <1>1, <2>1, <2>2
<1>3. CASE temp[Store(p)] = Missing /\ UpsertFails(p) /\ UNCHANGED <<file, temp, inode>>
  <2>1. PICK r \in {"ok", "error"} : result' = [result EXCEPT ![p] = r] /\ opPc' = opPc
    BY <1>3 DEF UpsertFails
  <2>2. p \in overlapped
    <3>1. ASSUME p \notin overlapped PROVE FALSE
      <4>1. SoloMap(p) /\ opPc[p] - ReadAt(v) = 3
        BY <1>0, <1>1, <1>2, <3>1 DEF SoloInv
      <4>2. temp[Store(p)] = Whole(map[p])
        BY <4>1 DEF SoloMap
      <4>3. QED BY <1>3, <4>2 DEF Missing, Whole
    <3>2. QED BY <3>1
  <2>3. kills \in 0..MaxKills
    BY <1>0 DEF StoreTyped
  <2>4. QED BY <1>0, <1>2, <1>3, <2>1, <2>2, <2>3, EndKept DEF Alone
<1>4. CASE /\ Done(p)
           /\ file' = [file EXCEPT ![Store(p)] = temp[Store(p)]]
           /\ temp' = [temp EXCEPT ![Store(p)] = Missing]
           /\ inode' = [q \in Invocations |->
                 IF command[q] # NoCommand /\ inode[q] # "none" /\ Store(q) = Store(p)
                   THEN IF inode[q] = "temp" THEN "file" ELSE "unlinked"
                   ELSE inode[q]]
  <2>1. /\ opPc' \in [Invocations -> 0..9] /\ opPc'[p] = opPc[p] + 1
        /\ result' \in [Invocations -> {"none", "ok", "error", "killed"}]
        /\ \A q \in Invocations \ {p} : opPc'[q] = opPc[q] /\ result'[q] = result[q]
        /\ result'[p] = "ok" => Placed(p)'
    BY <1>0, <1>4, DoneFacts
  <2>2. /\ file \in [Stores -> Forms] /\ temp \in [Stores -> Forms]
        /\ inode \in [Invocations -> {"none", "temp", "file", "unlinked"}]
    BY <1>0 DEF StoreTyped
  <2>3. /\ inode' \in [Invocations -> {"none", "temp", "file", "unlinked"}]
        /\ inode'[p] = "none"
        /\ \A q \in Invocations : inode'[q] # "none" => inode[q] # "none"
    BY <1>2, <1>4, <2>2
  <2>4. /\ file' \in [Stores -> Forms] /\ temp' \in [Stores -> Forms]
        /\ \A s \in Stores : file'[s] \in {file[s], temp[s]} /\ temp'[s] \in {temp[s], Missing}
    BY <1>1, <1>4, <2>2, FormRecs
  <2>5. StoreTyped'
    BY <1>0, <2>1, <2>3, <2>4 DEF StoreTyped
  <2>6. KnownInv'
    <3>1. \A i : KnownId(i)' = KnownId(i)
      BY <1>0 DEF KnownId, Created
    <3>2. QED BY <1>0, <2>4, <3>1, FormRecs DEF KnownInv
  <2>7. ProcInv(p)'
    BY <1>0, <1>1, <1>2, <2>3 DEF ProcInv, KnownId, Created
  <2>8. SoloInv(p)'
    <3>1. SoloRecord(p)' /\ SoloMap(p)'
      BY <1>0, <1>1, <2>1 DEF SoloRecord, SoloMap
    <3>2. p \notin overlapped' =>
            /\ \A q \in Invocations : RunningOp(q)' => q = p
            /\ parent'[p] # Unread => parent'[p] = SinkCount(Logs(v))'
      BY <1>0, <2>1, SoloKept
    <3>3. QED BY <2>3, <3>1, <3>2 DEF SoloInv
  <2>9. ASSUME Alone PROVE AloneFiles' /\ AloneEffects' /\ AloneChain'
    <3>1. AloneChain'
      BY <1>0, <2>9 DEF StoreInv, AloneChain
    <3>2. AloneFiles' /\ AloneEffects'
      BY <1>0, <1>1, <1>2, <1>4, <2>1, <2>9, RenameEffects
    <3>3. QED BY <3>1, <3>2
  <2>10. QED BY <1>0, <2>1, <2>3, <2>5, <2>6, <2>7, <2>8, <2>9, OpStepKept
<1>5. QED BY <1>3, <1>4 DEF Renames

\* A process is killed.
LEMMA KilledKept ==
  ASSUME StoreInv, NEW p \in Invocations, Killed(p)
  PROVE  StoreInv'
<1>1. /\ RunningOp(p) /\ kills' = kills + 1 /\ kills < MaxKills
      /\ result' = [result EXCEPT ![p] = "killed"] /\ inode' = [inode EXCEPT ![p] = "none"]
      /\ UNCHANGED <<file, temp, command, opPc, got, map, parent, opLog, overlapped>>
  BY DEF Killed
<1>2. /\ kills \in 0..MaxKills /\ MaxKills \in Nat
      /\ inode \in [Invocations -> {"none", "temp", "file", "unlinked"}]
  BY StoreAssumption DEF StoreInv, StoreTyped
<1>3. kills' \in 0..MaxKills /\ inode'[p] = "none"
  BY <1>1, <1>2
<1>4. QED BY <1>1, <1>3, EndKept

\* A process starts: the others are as before, and it overlaps them all.
LEMMA InvokeKept ==
  ASSUME StoreInv, NEW p \in Invocations, NEW id \in RecordIds, NEW verb \in VerbsOn(id),
         InvokeOp(p, id, verb)
  PROVE  StoreInv'
<1>0. /\ StoreTyped /\ KnownInv /\ CreatorInv /\ ProcInv(p)
      /\ command[p] = NoCommand /\ command[p].verb = "none" /\ "none" \notin Creates \cup Removes
      /\ UNCHANGED <<file, temp, inode, opPc, got, map, parent, opLog, result, kills>>
  BY DEF InvokeOp, StoreInv, NoCommand, Creates, Removes
<1>1. verb \in Verbs /\ StoreOf[id] \in Stores
  BY StoreAssumption DEF VerbsOn, Verbs, Stores
<1>2. /\ command'[p] = [verb |-> verb, id |-> id]
      /\ command'[p].verb = verb /\ command'[p].id = id
      /\ \A q \in Invocations \ {p} : command'[q] = command[q]
  BY <1>0 DEF InvokeOp, StoreTyped
<1>3. command' \in [Invocations -> [verb : Verbs \cup {"none"}, id : RecordIds \cup {"none"}]]
  BY <1>0, <1>1 DEF InvokeOp, StoreTyped
<1>4. /\ overlapped \subseteq overlapped' /\ overlapped' \subseteq Invocations
      /\ \A q \in Invocations : RunningOp(q) => q \in overlapped' /\ p \in overlapped'
  BY <1>0 DEF InvokeOp, StoreTyped
<1>5. StoreTyped'
  BY <1>0, <1>3, <1>4 DEF StoreTyped
<1>6. opPc[p] = 0 /\ result[p] = "none" /\ parent[p] = Unread /\ got[p] = Fresh /\ inode[p] = "none"
  BY <1>0 DEF ProcInv, RunningOp
<1>7. \A i : KnownId(i) => KnownId(i)'
  BY <1>0, <1>2 DEF KnownId, Created
<1>8. KnownInv'
  BY <1>0, <1>7 DEF KnownInv
<1>9. verb \in Creates =>
        /\ id \notin Present
        /\ \A q \in Invocations : command[q].id = id => command[q].verb \notin Creates
  BY DEF InvokeOp
<1>10. CreatorInv'
  BY <1>0, <1>2, <1>9 DEF CreatorInv
<1>11. \A q \in Invocations \ {p} : RunningOp(q)' = RunningOp(q)
  BY <1>0, <1>2 DEF RunningOp
<1>12. ASSUME NEW q \in Invocations, q # p PROVE ProcInv(q)' /\ SoloInv(q)'
  <2>1. ProcInv(q)
    BY DEF StoreInv
  <2>2. command'[q] = command[q] /\ RunningOp(q)' = RunningOp(q)
    BY <1>2, <1>11, <1>12
  <2>3. ProcInv(q)'
    BY <1>0, <1>7, <2>1, <2>2 DEF ProcInv
  <2>4. SoloInv(q)'
    BY <1>4, <2>2 DEF SoloInv
  <2>5. QED BY <2>3, <2>4
<1>13. /\ GetAt(verb) \in Nat /\ ReadAt(verb) \in Nat
  BY <1>1 DEF GetAt, ReadAt, Verbs
<1>14. ProcInv(p)'
  <2>1. command'[p] # NoCommand
    BY <1>1, <1>2 DEF NoCommand, Verbs
  <2>2. ~(opPc'[p] > GetAt(verb)) /\ opPc'[p] <= 2
    BY <1>0, <1>6, <1>13
  <2>3. QED BY <1>0, <1>1, <1>2, <1>6, <2>1, <2>2 DEF ProcInv
<1>15. SoloInv(p)'
  <2> SUFFICES ASSUME RunningOp(p)', p \notin overlapped' PROVE
        /\ \A q \in Invocations : RunningOp(q)' => q = p
        /\ inode'[p] \in {"none", "temp"}
        /\ parent'[p] = Unread
        /\ SoloRecord(p)' /\ SoloMap(p)'
    BY DEF SoloInv
  <2>1. \A q \in Invocations : RunningOp(q)' => q = p
    BY <1>4, <1>11
  <2>2. ASSUME verb \in Creates
        PROVE  /\ id \notin DOMAIN file[StoreOf[id]].recs
               /\ \A q \in Invocations : command'[q].id = id /\ command'[q].verb \in Gets =>
                    opPc[q] <= GetAt(command'[q].verb)
    <3>1. ~KnownId(id)
      BY <1>9, <2>2 DEF KnownId, Created
    <3>2. id \notin DOMAIN file[StoreOf[id]].recs
      BY <1>0, <1>1, <3>1 DEF KnownInv
    <3>3. ASSUME NEW q \in Invocations, command'[q].id = id, command'[q].verb \in Gets
          PROVE  opPc[q] <= GetAt(command'[q].verb)
      <4>1. q # p
        BY <1>2, <2>2, <3>3 DEF Gets
      <4>2. command[q].id = id /\ command'[q].verb = command[q].verb
        BY <1>2, <3>3, <4>1
      <4>3. ~(opPc[q] > GetAt(command[q].verb))
        BY <3>1, <3>3, <4>2 DEF StoreInv, ProcInv
      <4>4. opPc[q] \in 0..9 /\ GetAt(command[q].verb) \in Nat
        BY <1>0 DEF StoreTyped, GetAt
      <4>5. QED BY <4>2, <4>3, <4>4
    <3>4. QED BY <3>2, <3>3
  <2>3. Store(p)' = StoreOf[id]
    BY <1>2 DEF Store
  <2>4. SoloRecord(p)'
    <3>1. ~(opPc'[p] > GetAt(verb))
      BY <1>0, <1>6, <1>13
    <3>2. QED BY <1>0, <1>2, <2>2, <2>3, <3>1 DEF SoloRecord
  <2>5. SoloMap(p)'
    <3>1. opPc'[p] - ReadAt(verb) <= 0 /\ opPc'[p] - ReadAt(verb) \in Int
      BY <1>0, <1>6, <1>13
    <3>2. QED BY <1>2, <3>1 DEF SoloMap
  <2>6. QED BY <1>0, <1>6, <2>1, <2>4, <2>5
<1>16. ASSUME Alone' PROVE AloneFiles' /\ AloneEffects' /\ AloneChain'
  <2>1. Alone
    BY <1>4, <1>16 DEF Alone
  <2>2. AloneFiles' /\ AloneChain'
    BY <1>0, <2>1 DEF StoreInv, AloneFiles, AloneChain
  <2>3. AloneEffects
    BY <2>1 DEF StoreInv
  <2>4. ASSUME NEW q \in Invocations, q # p PROVE (Placed(q) => Effect(q))' /\ (result[q] = "ok" => Placed(q))'
    <3>1. command'[q] = command[q] /\ Placed(q)' = Placed(q)
      BY <1>0, <1>2, <2>4 DEF Placed
    <3>2. ASSUME Effect(q) PROVE Effect(q)'
      BY <1>0, <1>2, <3>1, <3>2 DEF Effect, Store
    <3>3. QED BY <1>0, <2>3, <3>1, <3>2 DEF AloneEffects
  <2>5. ~Placed(p)' /\ result'[p] # "ok"
    BY <1>0, <1>2, <1>6, <1>13 DEF Placed
  <2>6. QED BY <2>2, <2>4, <2>5 DEF AloneEffects
<1>17. QED BY <1>5, <1>8, <1>10, <1>12, <1>14, <1>15, <1>16 DEF StoreInv

\* Every step keeps the invariant.
LEMMA StoreInductive == StoreInv /\ [StoreNext]_opVars => StoreInv'
<1> SUFFICES ASSUME StoreInv, [StoreNext]_opVars PROVE StoreInv'
  OBVIOUS
<1>1. CASE UNCHANGED opVars
  <2>1. /\ file' = file /\ temp' = temp /\ inode' = inode /\ command' = command /\ opPc' = opPc
        /\ got' = got /\ map' = map /\ parent' = parent /\ opLog' = opLog /\ result' = result
        /\ overlapped' = overlapped /\ kills' = kills
    BY <1>1 DEF opVars
  <2>2. StoreTyped' = StoreTyped
    BY <2>1 DEF StoreTyped
  <2>3. KnownInv' = KnownInv
    BY <2>1 DEF KnownInv, KnownId, Created
  <2>4. CreatorInv' = CreatorInv
    BY <2>1 DEF CreatorInv
  <2>5. \A p \in Invocations : ProcInv(p)' = ProcInv(p)
    BY <2>1 DEF ProcInv, KnownId, Created, RunningOp
  <2>6. ASSUME NEW p \in Invocations PROVE SoloInv(p)' = SoloInv(p)
    <3>1. SoloRecord(p)' = SoloRecord(p)
      BY <2>1 DEF SoloRecord, Store
    <3>2. SoloMap(p)' = SoloMap(p)
      BY <2>1 DEF SoloMap, Outcome, Changed, Store
    <3>3. \A q \in Invocations : RunningOp(q)' = RunningOp(q)
      BY <2>1 DEF RunningOp
    <3>4. SinkCount(Logs(command[p].verb))' = SinkCount(Logs(command[p].verb))
      BY <2>1 DEF SinkCount
    <3>5. QED BY <2>1, <3>1, <3>2, <3>3, <3>4 DEF SoloInv
  <2>7. AloneFiles' = AloneFiles /\ AloneChain' = AloneChain /\ Alone' = Alone
    BY <2>1 DEF AloneFiles, AloneChain, Alone
  <2>8. AloneEffects' = AloneEffects
    <3>1. \A p \in Invocations : Placed(p)' = Placed(p) /\ Effect(p)' = Effect(p)
      BY <2>1 DEF Placed, Effect, Store
    <3>2. QED BY <2>1, <3>1 DEF AloneEffects
  <2>9. QED BY <2>2, <2>3, <2>4, <2>5, <2>6, <2>7, <2>8 DEF StoreInv
<1>2. CASE StoreNext
  <2>1. PICK p \in Invocations :
          \/ OpStep(p) \/ Killed(p)
          \/ \E id \in RecordIds : \E verb \in VerbsOn(id) : InvokeOp(p, id, verb)
    BY <1>2 DEF StoreNext
  <2>2. CASE OpStep(p)
    BY <2>2, SinkKept, SinkFailsKept, GetKept, PlainStepKept, ReadsMapKept, TempKept, RenamesKept DEF OpStep
  <2>3. CASE Killed(p)
    BY <2>3, KilledKept
  <2>4. CASE \E id \in RecordIds : \E verb \in VerbsOn(id) : InvokeOp(p, id, verb)
    BY <2>4, InvokeKept
  <2>5. QED BY <2>1, <2>2, <2>3, <2>4
<1>3. QED BY <1>1, <1>2

\* StoreInv is an invariant of the operator's commands, however they overlap.
THEOREM StoreInvariant == StoreSpec => []StoreInv
BY StoreStarts, StoreInductive, PTL DEF StoreSpec

\* The invariant states the types and what commands that never overlap leave.
LEMMA StoreInvSound == StoreInv => StoreTypeOK /\ AloneSound
<1> SUFFICES ASSUME StoreInv PROVE StoreTypeOK /\ AloneSound
  OBVIOUS
<1>1. StoreTypeOK
  <2>1. ASSUME NEW c \in Forms
        PROVE  c \in {Opened, Part, Missing} \/ (c.is = "whole" /\ c.recs \in Maps)
    BY <2>1, FormRecs DEF Forms
  <2>2. /\ file \in [Stores -> Forms] /\ temp \in [Stores -> Forms]
        /\ inode \in [Invocations -> {"none", "temp", "file", "unlinked"}]
        /\ opPc \in [Invocations -> 0..9]
        /\ result \in [Invocations -> {"none", "ok", "error", "killed"}]
        /\ overlapped \subseteq Invocations /\ kills \in 0..MaxKills
    BY DEF StoreInv, StoreTyped
  <2>3. \A s \in Stores : \A c \in {file[s], temp[s]} : c \in Forms
    BY <2>2
  <2>4. QED BY <2>1, <2>2, <2>3 DEF StoreTypeOK
<1>2. AloneNothingLost
  <2> SUFFICES ASSUME Alone, NEW s \in Stores
               PROVE  /\ file[s].is = "whole"
                      /\ \A p \in Invocations : result[p] = "ok" /\ Store(p) = s =>
                          \/ command[p].verb \in Removes /\ command[p].id \notin DOMAIN file[s].recs
                          \/ command[p].id \in DOMAIN file[s].recs /\ p \in file[s].recs[command[p].id].changes
                          \/ \E q \in Invocations : opPc[q] > 1 /\ command[q].verb \in Removes
                                                    /\ command[q].id = command[p].id
    BY DEF AloneNothingLost
  <2>1. AloneFiles /\ AloneEffects
    BY DEF StoreInv
  <2>2. \A p \in Invocations : result[p] = "ok" => Effect(p)
    BY <2>1 DEF AloneEffects
  <2>3. QED BY <2>1, <2>2 DEF AloneFiles, Effect
<1>3. AloneChainLinear
  BY DEF StoreInv, AloneChain, AloneChainLinear
<1>4. QED BY <1>1, <1>2, <1>3 DEF AloneSound

\* A step that brings a record back on is a rename or a late write, by an
\* overlapped process or by the one that resumes it.
LEMMA OffStep ==
  ASSUME StoreInv, [StoreNext]_opVars
  PROVE  \A s \in Stores :
           \A i \in DOMAIN file[s].recs \cap DOMAIN file'[s].recs :
             file[s].recs[i].off /\ ~file'[s].recs[i].off =>
               \E p \in Invocations :
                 /\ At(p, "rename") \/ At(p, "write")
                 /\ p \in overlapped \/ (command[p].verb = "resume" /\ command[p].id = i)
<1> SUFFICES ASSUME NEW s \in Stores, NEW i \in DOMAIN file[s].recs \cap DOMAIN file'[s].recs,
                    file[s].recs[i].off, ~file'[s].recs[i].off
             PROVE  \E p \in Invocations :
                      /\ At(p, "rename") \/ At(p, "write")
                      /\ p \in overlapped \/ (command[p].verb = "resume" /\ command[p].id = i)
  OBVIOUS
<1>1. file' # file
  OBVIOUS
<1>2. StoreNext
  BY <1>1 DEF opVars
<1>3. PICK p \in Invocations : WritesPart(p) \/ WritesTemp(p) \/ Renames(p)
  <2>1. PICK p \in Invocations :
          \/ OpStep(p) \/ Killed(p)
          \/ \E id \in RecordIds : \E verb \in VerbsOn(id) : InvokeOp(p, id, verb)
    BY <1>2 DEF StoreNext
  <2>2. ~Killed(p) /\ \A id \in RecordIds : \A verb \in VerbsOn(id) : ~InvokeOp(p, id, verb)
    BY <1>1 DEF Killed, InvokeOp
  <2>3. /\ ~SinkReads(p) /\ ~SinkAppends(p) /\ ~SinkFails(p) /\ ~GetRecord(p) /\ ~Rejected(p) /\ ~Denied(p)
        /\ ~KeyResolved(p) /\ ~Dispatched(p) /\ ~ReadsMap(p) /\ ~OpensTemp(p)
    BY <1>1 DEF SinkReads, SinkAppends, SinkFails, GetRecord, Rejected, Denied, KeyResolved, Dispatched,
                ReadsMap, OpensTemp
  <2>4. QED BY <2>1, <2>2, <2>3 DEF OpStep
<1>4. CASE p \in overlapped
  BY <1>3, <1>4 DEF WritesPart, WritesTemp, Renames
<1>5. CASE p \notin overlapped
  <2> DEFINE v == command[p].verb
             id == command[p].id
             recs == file[Store(p)].recs
  <2>1. RunningOp(p) /\ SoloInv(p) /\ ProcInv(p)
    BY <1>3 DEF WritesPart, WritesTemp, Renames, At, StoreInv
  <2>2. inode[p] \in {"none", "temp"}
    BY <1>5, <2>1 DEF SoloInv
  <2>3. Renames(p)
    <3>1. ASSUME WritesPart(p) \/ WritesTemp(p) PROVE FALSE
      BY <1>1, <2>2, <3>1 DEF WritesPart, WritesTemp, Fills
    <3>2. QED BY <1>3, <3>1
  <2>4. At(p, "rename")
    BY <2>3 DEF Renames
  <2>5. /\ v \in Verbs /\ ReadAt(v) \in Nat /\ GetAt(v) \in Nat /\ opPc[p] = ReadAt(v) + 3
        /\ v \in Gets => GetAt(v) < ReadAt(v)
        /\ Store(p) \in Stores
    BY <2>1, <2>4, Places
  <2>6. v # "refused"
    BY <2>1, <2>5 DEF ProcInv
  <2>7. SoloRecord(p) /\ SoloMap(p)
    BY <1>5, <2>1, <2>6 DEF SoloInv
  <2>8. map[p] = Outcome(p) /\ temp[Store(p)] = Whole(map[p])
    BY <2>5, <2>7 DEF SoloMap
  <2>9. file' = [file EXCEPT ![Store(p)] = temp[Store(p)]]
    BY <1>1, <2>3 DEF Renames
  <2>10. file \in [Stores -> Forms] /\ map[p] \in Maps
    BY DEF StoreInv, StoreTyped
  <2>11. file'[Store(p)].recs = Outcome(p) /\ \A t \in Stores \ {Store(p)} : file'[t] = file[t]
    BY <2>5, <2>8, <2>9, <2>10, FormRecs
  <2>12. s = Store(p)
    BY <2>11
  <2>13. /\ v \in Removes => DOMAIN Outcome(p) = DOMAIN recs \ {id}
         /\ v \notin Removes => Outcome(p)[id] = Changed(p)
         /\ \A j \in DOMAIN recs \ {id} : Outcome(p)[j] = recs[j]
    BY DEF Outcome
  <2>14. i = id /\ v \notin Removes
    BY <2>11, <2>12, <2>13
  <2>15. ~Changed(p).off
    BY <2>11, <2>12, <2>13, <2>14
  <2>16. v \in Gets /\ got[p] = recs[id]
    BY <2>5, <2>6, <2>7, <2>12, <2>14 DEF SoloRecord, Gets
  <2>17. v = "resume"
    BY <2>12, <2>14, <2>15, <2>16 DEF Changed
  <2>18. QED BY <2>4, <2>14, <2>17
<1>6. QED BY <1>4, <1>5

\* Commands that never overlap lose nothing and fork no receipt chain, up to the
\* first receipt that a failed write or a kill cut short.
THEOREM StoresAloneSound == StoreSpec => []AloneSound
BY StoreInvariant, StoreInvSound, PTL

\* A revoked endpoint stays revoked, and a paused cron paused, but for a resume
\* and for a process that overlapped another.
THEOREM OffStays == StoreSpec => OffUnlessOverlapped
<1>1. StoreInv /\ [StoreNext]_opVars =>
        [\A s \in Stores :
       \A i \in DOMAIN file[s].recs \cap DOMAIN file'[s].recs :
           file[s].recs[i].off /\ ~file'[s].recs[i].off =>
             \E p \in Invocations :
               /\ At(p, "rename") \/ At(p, "write")
               /\ p \in overlapped \/ (command[p].verb = "resume" /\ command[p].id = i)]_opVars
  BY OffStep
<1>2. QED BY <1>1, StoreInvariant, PTL DEF StoreSpec, OffUnlessOverlapped

-----------------------------------------------------------------------------
(* A chat session *)

Refs == {"turn", "control", "mark", "none"} \X Nat \X Nat
EntrySet == [kind : Messages \cup {"checkpoint", "rollback", "system", "malformed", "torn"},
             ref : Refs]
Taking == {"receipt", "user", "assistant", "round"}
Running == phase \notin {"stopped", "refused"}
Vouching == {"assistant", "recovered"}

Acks == [id : Nat, entry : EntrySet, astray : BOOLEAN]

\* The types, and where in a turn each phase is.
SessionTyped ==
  /\ lines \in Seq(EntrySet) /\ live \in Seq(EntrySet)
  /\ tail = <<>> \/ \E e \in EntrySet : tail = <<e>>
  /\ chain \in Seq(Refs) /\ orphans \in Seq(Refs)
  /\ count \in Nat
  /\ phase \in Taking \cup {"chat", "mark", "reconcile", "stopped", "refused"}
  /\ turn \in [n : 0..MaxTurns, r : 0..MaxRounds, streamed : BOOLEAN]
  /\ mark \in [verb : {"none", "checkpoint", "rollback", "compact"}, target : Nat]
  /\ marks \in 0..MaxMarks /\ slips \in 0..MaxFaults /\ resumes \in 0..MaxResumes
  /\ drift \subseteq Reasons /\ slipped \in BOOLEAN
  /\ acked \subseteq Acks

\* Where in a turn, or in a command, each phase is.
PhaseInv ==
  /\ phase \in {"user", "assistant"} => turn.r < MaxRounds
  /\ phase = "user" => turn.r = 0
  /\ phase = "round" => turn.r > 0
  /\ phase \in Taking => live # <<>>
  /\ phase = "mark" => mark.verb # "none"
  /\ phase = "mark" /\ mark.verb = "rollback" => CheckpointPos(Entries, mark.target) # {}

\* An id that was not given astray is where its entry is; and until an append fails or
\* runs on from an unterminated line, the count is where the next line lands.
AckInv ==
  /\ AckedAtItsLine
  /\ Running /\ ~slipped => count = Len(Entries) /\ tail # <<Torn>>

\* A line of the journal stands for the receipt.
Recorded(c) == \E i \in DOMAIN lines : lines[i].kind \in Vouching /\ lines[i].ref = c

\* The receipt of the round that is under way.
Pending == Receipt(turn.n, turn.r + 1)

\* A receipt that was committed before, by a command or by a round.
Earlier(c) ==
  \/ \E k \in Nat : k <= marks /\ c = Control(k)
  \/ \E n \in Nat : \E r \in Nat :
       /\ c = Receipt(n, r)
       /\ n < turn.n \/ (n = turn.n /\ r <= turn.r + 1)
       /\ phase \in {"receipt", "round"} => n < turn.n \/ r <= turn.r

\* Every receipt is an earlier one, and no two are the same.
ChainInv ==
  /\ \A i \in DOMAIN chain : Earlier(chain[i])
  /\ \A i, j \in DOMAIN chain : i # j => chain[i] # chain[j]

\* What stands for a receipt stands for one of the chain, once; what is still to
\* be recorded is not recorded.
RecordInv ==
  /\ \A i \in DOMAIN lines : lines[i].kind \in Vouching => lines[i].ref \in Range(chain)
  /\ \A i, j \in DOMAIN lines :
       /\ i # j /\ lines[i].kind \in Vouching /\ lines[j].kind \in Vouching
       => lines[i].ref # lines[j].ref
  /\ phase \in {"user", "assistant"} => Pending \in Range(chain) /\ ~Recorded(Pending)
  /\ phase = "reconcile" =>
       /\ \A i, j \in DOMAIN orphans : i # j => orphans[i] # orphans[j]
       /\ \A i \in DOMAIN orphans : orphans[i] \in Range(chain) /\ ~Recorded(orphans[i])

\* The user's message of turn n may be in the journal.
Begun(n) ==
  /\ n <= turn.n
  /\ phase = "user" \/ (phase = "receipt" /\ turn.r = 0) => n < turn.n

\* The user's message of a turn is journaled in that turn.
UserInv ==
  \A i \in DOMAIN lines : lines[i].kind = "user" =>
    \E n \in Nat : lines[i].ref = Receipt(n, 0) /\ Begun(n)

\* Short of a failed append and of an unterminated line, the journal is whole.
CleanInv ==
  Running /\ drift \cap {"failed", "unterminated"} = {} => Parses /\ tail = <<>>

\* What the REPL holds, and what a replay would show.
MatchInv ==
  drift = {} =>
    /\ phase \in {"chat", "mark", "reconcile"} => live = Replay
    /\ phase \in {"receipt", "user"} /\ turn.r = 0 =>
         live = Append(Replay, Entry("user", Receipt(turn.n, 0)))
    /\ phase = "assistant" \/ (phase \in {"receipt", "round"} /\ turn.r > 0) =>
         Replay = live \o Committed

SessionInv ==
  /\ SessionTyped /\ PhaseInv /\ AckInv /\ ChainInv /\ RecordInv /\ UserInv
  /\ CleanInv /\ MatchInv

(* The replay *)

\* The positions whose messages a replay shows.
Shown(s) == {i \in DOMAIN s : s[i].kind \in Messages /\ ~Excluded(s, i)}

\* They are numbers, finitely many.
LEMMA ShownFacts ==
  ASSUME NEW s \in Seq(EntrySet)
  PROVE  /\ Len(s) \in Nat /\ DOMAIN s = 1..Len(s)
         /\ Shown(s) \subseteq 1..Len(s) /\ Shown(s) \subseteq Nat /\ IsFiniteSet(Shown(s))
<1>1. /\ Len(s) \in Nat /\ DOMAIN s = 1..Len(s)
      /\ Shown(s) \subseteq 1..Len(s) /\ Shown(s) \subseteq Nat
  BY LenProperties DEF Shown
<1>2. IsFiniteSet(1..Len(s))
  BY <1>1, FS_Interval
<1>3. IsFiniteSet(Shown(s))
  BY <1>1, <1>2, FS_Subset
<1>4. QED
  BY <1>1, <1>3

\* A replay, by the positions it shows.
LEMMA ReplayShown ==
  ASSUME NEW s
  PROVE  journal_entries_to_history(s) =
           [j \in DOMAIN Listed(Shown(s)) |-> s[Listed(Shown(s))[j]]]
  BY DEF journal_entries_to_history, Shown

\* A replay is a sequence of the entries at those positions.
LEMMA ReplayFacts ==
  ASSUME NEW s \in Seq(EntrySet)
  PROVE  /\ journal_entries_to_history(s) \in Seq(EntrySet)
         /\ Len(journal_entries_to_history(s)) = Cardinality(Shown(s))
         /\ \A e : e \in Range(journal_entries_to_history(s)) <=> \E i \in Shown(s) : s[i] = e
<1>1. /\ Len(s) \in Nat /\ DOMAIN s = 1..Len(s)
      /\ Shown(s) \subseteq 1..Len(s) /\ Shown(s) \subseteq Nat /\ IsFiniteSet(Shown(s))
  BY ShownFacts
<1> PICK L : L = Listed(Shown(s))
  OBVIOUS
<1> PICK n : n = Cardinality(Shown(s))
  OBVIOUS
<1>2. /\ n \in Nat /\ DOMAIN L = 1..n
      /\ \A j \in 1..n : L[j] \in Shown(s)
      /\ \A i \in Shown(s) : \E j \in 1..n : L[j] = i
  BY <1>1, ListedFacts
<1> PICK h : h = [j \in 1..n |-> s[L[j]]]
  OBVIOUS
<1>3. h = journal_entries_to_history(s)
  BY <1>2, ReplayShown
<1>4. \A i \in DOMAIN s : s[i] \in EntrySet
  BY ElementOfSeq, <1>1
<1>5. \A j \in 1..n : s[L[j]] \in EntrySet
  BY <1>1, <1>2, <1>4
<1>6. h \in Seq(EntrySet) /\ Len(h) = n
  BY <1>2, <1>5
<1>7. \A e : e \in Range(h) <=> \E i \in Shown(s) : s[i] = e
  BY <1>2 DEF Range
<1>8. QED
  BY <1>3, <1>6, <1>7

\* A replay depends on the shown positions and on what is at them.
LEMMA ReplaySame ==
  ASSUME NEW s \in Seq(EntrySet), NEW t \in Seq(EntrySet), Shown(s) = Shown(t),
         \A i \in Shown(s) : s[i] = t[i]
  PROVE  journal_entries_to_history(s) = journal_entries_to_history(t)
<1>1. Shown(s) \subseteq Nat /\ IsFiniteSet(Shown(s))
  BY ShownFacts
<1> PICK L : L = Listed(Shown(s))
  OBVIOUS
<1>2. \A j \in DOMAIN L : L[j] \in Shown(s)
  BY <1>1, ListedFacts
<1>3. [j \in DOMAIN L |-> s[L[j]]] = [j \in DOMAIN L |-> t[L[j]]]
  BY <1>2
<1>4. QED
  BY <1>3, ReplayShown

\* What an entry that is no rollback adds excludes nothing.
LEMMA AppendExcludes ==
  ASSUME NEW s \in Seq(EntrySet), NEW e \in EntrySet
  PROVE  /\ Len(Append(s, e)) = Len(s) + 1 /\ Append(s, e)[Len(s) + 1] = e
         /\ \A i \in 1..Len(s) : Append(s, e)[i] = s[i]
         /\ \A i \in 1..Len(s) : Excluded(s, i) => Excluded(Append(s, e), i)
         /\ e.kind # "rollback" =>
              /\ \A i \in 1..Len(s) : Excluded(Append(s, e), i) => Excluded(s, i)
              /\ ~Excluded(Append(s, e), Len(s) + 1)
<1> PICK t : t = Append(s, e)
  OBVIOUS
<1>1. /\ Len(s) \in Nat /\ Len(t) = Len(s) + 1 /\ t[Len(s) + 1] = e
      /\ \A i \in 1..Len(s) : t[i] = s[i]
  BY LenProperties, AppendProperties
<1>2. \A i \in 1..Len(s) : Excluded(s, i) => Excluded(t, i)
  BY <1>1 DEF Excluded
<1>3. e.kind # "rollback" => \A i \in 1..Len(s) : Excluded(t, i) => Excluded(s, i)
  <2> SUFFICES ASSUME e.kind # "rollback", NEW i \in 1..Len(s), Excluded(t, i)
               PROVE  Excluded(s, i)
    OBVIOUS
  <2>1. PICK j \in i..Len(t) : /\ t[j].kind = "rollback"
                               /\ \E c \in 1..(i - 1) : t[c] = Entry("checkpoint", t[j].ref)
    BY DEF Excluded
  <2>2. j \in i..Len(s)
    BY <1>1, <2>1
  <2>3. t[j] = s[j]
    BY <1>1, <2>2
  <2>4. \E c \in 1..(i - 1) : s[c] = Entry("checkpoint", s[j].ref)
    BY <1>1, <2>1, <2>3
  <2>5. QED
    BY <2>1, <2>2, <2>3, <2>4 DEF Excluded
<1>4. e.kind # "rollback" => ~Excluded(t, Len(s) + 1)
  <2> SUFFICES ASSUME e.kind # "rollback", Excluded(t, Len(s) + 1)
               PROVE  FALSE
    OBVIOUS
  <2>1. PICK j \in (Len(s) + 1)..Len(t) : t[j].kind = "rollback"
    BY DEF Excluded
  <2>2. j = Len(s) + 1
    BY <1>1, <2>1
  <2>3. QED
    BY <1>1, <2>1, <2>2
<1>5. QED
  BY <1>1, <1>2, <1>3, <1>4

\* A message is shown behind the others.
LEMMA ReplayAppend ==
  ASSUME NEW s \in Seq(EntrySet), NEW e \in EntrySet, e.kind \in Messages
  PROVE  journal_entries_to_history(Append(s, e)) = Append(journal_entries_to_history(s), e)
<1> PICK t : t = Append(s, e)
  OBVIOUS
<1> PICK m : m = Len(s) + 1
  OBVIOUS
<1>0. t \in Seq(EntrySet) /\ e.kind # "rollback"
  BY AppendProperties DEF Messages
<1>1. /\ Len(s) \in Nat /\ DOMAIN s = 1..Len(s) /\ DOMAIN t = 1..Len(t)
      /\ Shown(s) \subseteq 1..Len(s) /\ Shown(s) \subseteq Nat /\ IsFiniteSet(Shown(s))
  BY <1>0, ShownFacts
<1>2. /\ Len(t) = m /\ t[m] = e /\ ~Excluded(t, m)
      /\ \A i \in 1..Len(s) : t[i] = s[i] /\ (Excluded(t, i) <=> Excluded(s, i))
  BY <1>0, AppendExcludes
<1>3. Shown(t) = Shown(s) \cup {m}
  <2>1. \A i \in 1..Len(t) : i = m \/ i \in 1..Len(s)
    BY <1>1, <1>2
  <2>2. m \in Shown(t)
    BY <1>1, <1>2 DEF Shown
  <2>3. \A i \in 1..Len(s) : i \in Shown(t) <=> i \in Shown(s)
    BY <1>1, <1>2 DEF Shown
  <2>4. Shown(t) \subseteq 1..Len(t)
    BY <1>1 DEF Shown
  <2>5. QED
    BY <1>1, <2>1, <2>2, <2>3, <2>4
<1>4. Listed(Shown(t)) = Append(Listed(Shown(s)), m)
  <2>1. m \in Nat /\ \A i \in Shown(s) : i < m
    BY <1>1
  <2>2. QED
    BY <1>1, <1>3, <2>1, ListedLast
<1> PICK L : L = Listed(Shown(s))
  OBVIOUS
<1> PICK n : n = Cardinality(Shown(s))
  OBVIOUS
<1>5. /\ n \in Nat /\ L \in Seq(Nat) /\ Len(L) = n /\ DOMAIN L = 1..n
      /\ \A j \in 1..n : L[j] \in 1..Len(s)
  <2>1. /\ n \in Nat /\ L \in Seq(Shown(s)) /\ Len(L) = n /\ DOMAIN L = 1..n
        /\ \A j \in 1..n : L[j] \in Shown(s)
    BY <1>1, ListedFacts
  <2>2. L \in Seq(Nat)
    BY <1>1, <2>1
  <2>3. QED
    BY <1>1, <2>1, <2>2
<1> PICK h : h = journal_entries_to_history(s)
  OBVIOUS
<1> PICK g : g = journal_entries_to_history(t)
  OBVIOUS
<1>6. /\ h \in Seq(EntrySet) /\ Len(h) = n /\ g \in Seq(EntrySet) /\ DOMAIN h = 1..n
      /\ h = [j \in 1..n |-> s[L[j]]]
  <2>1. h \in Seq(EntrySet) /\ Len(h) = n /\ g \in Seq(EntrySet)
    BY <1>0, ReplayFacts
  <2>2. h = [j \in 1..n |-> s[L[j]]]
    BY <1>5, ReplayShown
  <2>3. QED
    BY <2>1, <2>2
<1> PICK M : M = Append(L, m)
  OBVIOUS
<1>7. /\ M \in Seq(Nat) /\ Len(M) = n + 1 /\ DOMAIN M = 1..(n + 1) /\ M[n + 1] = m
      /\ \A j \in 1..n : M[j] = L[j]
  <2>1. m \in Nat
    BY <1>1
  <2>2. QED
    BY <1>5, <2>1, AppendProperties, LenProperties
<1>8. g = [j \in 1..(n + 1) |-> t[M[j]]]
  BY <1>4, <1>7, ReplayShown
<1>9. Len(g) = n + 1
  BY <1>5, <1>6, <1>8
<1> PICK k : k = Append(h, e)
  OBVIOUS
<1>10. /\ k \in Seq(EntrySet) /\ Len(k) = n + 1 /\ k[n + 1] = e
       /\ \A j \in 1..n : k[j] = h[j]
  BY <1>5, <1>6, AppendProperties
<1>11. \A j \in 1..n : g[j] = k[j]
  <2> SUFFICES ASSUME NEW j \in 1..n
               PROVE  g[j] = k[j]
    OBVIOUS
  <2>1. j \in 1..(n + 1)
    BY <1>5
  <2>2. g[j] = t[M[j]] /\ M[j] = L[j]
    BY <1>7, <1>8, <2>1
  <2>3. t[L[j]] = s[L[j]]
    BY <1>2, <1>5
  <2>4. QED
    BY <1>6, <1>10, <2>2, <2>3
<1>12. g[n + 1] = k[n + 1]
  BY <1>2, <1>5, <1>7, <1>8, <1>10
<1>13. \A j \in 1..(n + 1) : g[j] = k[j]
  <2>1. \A j \in 1..(n + 1) : j \in 1..n \/ j = n + 1
    BY <1>5
  <2>2. QED
    BY <1>11, <1>12, <2>1
<1>14. g = k
  BY <1>6, <1>9, <1>10, <1>13, SeqEqual
<1>15. QED
  BY <1>14

\* What is neither a message nor a rollback changes no replay.
LEMMA ReplaySkip ==
  ASSUME NEW s \in Seq(EntrySet), NEW e \in EntrySet, e.kind \notin Messages, e.kind # "rollback"
  PROVE  journal_entries_to_history(Append(s, e)) = journal_entries_to_history(s)
<1> PICK t : t = Append(s, e)
  OBVIOUS
<1>0. t \in Seq(EntrySet)
  BY AppendProperties
<1>1. /\ Len(s) \in Nat /\ DOMAIN s = 1..Len(s) /\ DOMAIN t = 1..Len(t)
      /\ Shown(s) \subseteq 1..Len(s)
  BY <1>0, ShownFacts
<1>2. /\ Len(t) = Len(s) + 1 /\ t[Len(s) + 1] = e
      /\ \A i \in 1..Len(s) : t[i] = s[i] /\ (Excluded(t, i) <=> Excluded(s, i))
  BY <1>0, AppendExcludes
<1>3. Len(s) + 1 \notin Shown(t)
  BY <1>2 DEF Shown
<1>4. \A i \in 1..Len(s) : i \in Shown(t) <=> i \in Shown(s)
  BY <1>1, <1>2 DEF Shown
<1>5. \A i \in Shown(t) : i \in 1..Len(s)
  BY <1>1, <1>2, <1>3 DEF Shown
<1>6. Shown(t) = Shown(s)
  BY <1>1, <1>4, <1>5
<1>7. \A i \in Shown(s) : s[i] = t[i]
  BY <1>1, <1>2
<1>8. QED
  BY <1>0, <1>6, <1>7, ReplaySame

\* A rollback to a checkpoint that no rollback took out leaves the replay of what
\* was there up to the checkpoint.
LEMMA ReplayRollback ==
  ASSUME NEW s \in Seq(EntrySet), NEW k \in Nat, NEW c \in CheckpointPos(s, k),
         \A j \in CheckpointPos(s, k) : c <= j, ~Excluded(s, c)
  PROVE  journal_entries_to_history(SubSeq(s, 1, c)) =
           journal_entries_to_history(Append(s, Entry("rollback", Mark(k))))
<1> PICK e : e = Entry("rollback", Mark(k))
  OBVIOUS
<1>0. e \in EntrySet /\ e.kind = "rollback" /\ e.ref = Mark(k)
  BY DEF Entry, EntrySet, Mark, Refs
<1> PICK t : t = Append(s, e)
  OBVIOUS
<1> PICK p : p = SubSeq(s, 1, c)
  OBVIOUS
<1>1. /\ Len(s) \in Nat /\ DOMAIN s = 1..Len(s) /\ c \in 1..Len(s)
      /\ s[c] = Entry("checkpoint", Mark(k)) /\ s[c].kind = "checkpoint"
  BY LenProperties DEF CheckpointPos, Entry
<1>2. /\ t \in Seq(EntrySet) /\ Len(t) = Len(s) + 1 /\ t[Len(s) + 1] = e
      /\ DOMAIN t = 1..Len(t) /\ \A i \in 1..Len(s) : t[i] = s[i]
  BY <1>0, <1>1, AppendProperties, LenProperties
<1>3. /\ p \in Seq(EntrySet) /\ Len(p) = c /\ DOMAIN p = 1..c
      /\ \A i \in 1..c : p[i] = s[i]
  <2>1. \A i \in 1..c : s[i] \in EntrySet
    BY <1>1, ElementOfSeq
  <2>2. QED
    BY <1>1, <2>1, SubSeqProperties
<1>4. \A i \in 1..Len(t) : i > c => Excluded(t, i)
  <2> SUFFICES ASSUME NEW i \in 1..Len(t), i > c
               PROVE  Excluded(t, i)
    OBVIOUS
  <2>1. Len(t) \in i..Len(t) /\ c \in 1..(i - 1)
    BY <1>1, <1>2
  <2>2. t[Len(t)].kind = "rollback" /\ t[c] = Entry("checkpoint", t[Len(t)].ref)
    BY <1>0, <1>1, <1>2
  <2>3. QED
    BY <2>1, <2>2 DEF Excluded
<1>5. ASSUME NEW i \in 1..c, i # c
      PROVE  Excluded(t, i) <=> Excluded(p, i)
  <2>1. ASSUME Excluded(p, i)
        PROVE  Excluded(t, i)
    <3>1. PICK j \in i..Len(p) : /\ p[j].kind = "rollback"
                                 /\ \E d \in 1..(i - 1) : p[d] = Entry("checkpoint", p[j].ref)
      BY <2>1 DEF Excluded
    <3>2. PICK d \in 1..(i - 1) : p[d] = Entry("checkpoint", p[j].ref)
      BY <3>1
    <3>3. j \in 1..c /\ d \in 1..c /\ j \in 1..Len(s) /\ d \in 1..Len(s) /\ j \in i..Len(t)
      BY <1>1, <1>2, <1>3
    <3>4. p[j] = t[j] /\ p[d] = t[d]
      BY <1>2, <1>3, <3>3
    <3>5. QED
      BY <3>1, <3>2, <3>3, <3>4 DEF Excluded
  <2>2. ASSUME Excluded(t, i)
        PROVE  Excluded(p, i)
    <3>1. PICK j \in i..Len(t) : /\ t[j].kind = "rollback"
                                 /\ \E d \in 1..(i - 1) : t[d] = Entry("checkpoint", t[j].ref)
      BY <2>2 DEF Excluded
    <3>2. PICK d \in 1..(i - 1) : t[d] = Entry("checkpoint", t[j].ref)
      BY <3>1
    <3>3. d \in 1..c /\ d \in 1..Len(s) /\ d \in 1..(c - 1) /\ d < c /\ s[d] = t[d] /\ p[d] = s[d]
      BY <1>1, <1>2, <1>3
    <3>4. j # Len(s) + 1
      <4>1. SUFFICES ASSUME j = Len(s) + 1
                     PROVE  FALSE
        OBVIOUS
      <4>2. s[d] = Entry("checkpoint", Mark(k))
        BY <1>0, <1>2, <3>2, <3>3, <4>1
      <4>3. d \in CheckpointPos(s, k)
        BY <1>1, <3>3, <4>2 DEF CheckpointPos
      <4>4. c <= d
        BY <4>3
      <4>5. QED
        BY <1>1, <3>3, <4>4
    <3>5. j \in 1..Len(s) /\ s[j] = t[j]
      BY <1>1, <1>2, <3>1, <3>4
    <3>6. j <= c
      <4>1. SUFFICES ASSUME j > c
                     PROVE  FALSE
        BY <1>1, <3>5
      <4>2. j \in c..Len(s)
        BY <1>1, <3>5, <4>1
      <4>3. Excluded(s, c)
        BY <3>1, <3>2, <3>3, <3>5, <4>2 DEF Excluded
      <4>4. QED
        BY <4>3
    <3>7. j \in i..Len(p) /\ j \in 1..c
      BY <1>1, <1>3, <3>5, <3>6
    <3>8. p[j] = t[j] /\ p[d] = t[d]
      BY <1>3, <3>3, <3>5, <3>7
    <3>9. QED
      BY <3>1, <3>2, <3>7, <3>8 DEF Excluded
  <2>3. QED
    BY <2>1, <2>2
<1>6. c \notin Shown(p) /\ c \notin Shown(t)
  BY <1>1, <1>2, <1>3 DEF Shown, Messages
<1>7. \A i \in 1..c : i # c => (i \in Shown(p) <=> i \in Shown(t))
  BY <1>1, <1>2, <1>3, <1>5 DEF Shown
<1>8. Shown(p) = Shown(t)
  <2>1. Shown(p) \subseteq 1..c
    BY <1>3 DEF Shown
  <2>2. \A i \in Shown(t) : i \in 1..c
    BY <1>1, <1>2, <1>4 DEF Shown
  <2>3. \A i \in 1..c : i \in Shown(p) <=> i \in Shown(t)
    BY <1>6, <1>7
  <2>4. QED
    BY <2>1, <2>2, <2>3
<1>9. \A i \in Shown(p) : p[i] = t[i]
  BY <1>1, <1>2, <1>3 DEF Shown
<1>10. QED
  BY <1>2, <1>3, <1>8, <1>9, ReplaySame

(* The steps of a session *)

\* What an append in progress will write.
LEMMA PendingFacts ==
  ASSUME SessionTyped, PhaseInv, Appending
  PROVE  /\ PendingEntry \in EntrySet
         /\ PendingEntry.kind \in Messages \cup {"checkpoint", "rollback"}
         /\ phase = "user" => PendingEntry = Entry("user", Receipt(turn.n, 0))
         /\ phase = "assistant" => PendingEntry = Entry("assistant", Pending)
         /\ phase = "mark" => /\ PendingEntry.kind \in {"checkpoint", "rollback"}
                              /\ PendingEntry.ref = Mark(mark.target)
                              /\ PendingEntry.kind = "rollback" <=> mark.verb = "rollback"
         /\ phase = "reconcile" => orphans # <<>> /\ PendingEntry = Entry("recovered", Head(orphans))
<1>1. turn.n \in Nat /\ turn.r \in Nat /\ mark.target \in Nat
  BY HistoryAssumption DEF SessionTyped
<1>2. \A kind \in Messages \cup {"checkpoint", "rollback"} : \A ref \in Refs :
        /\ Entry(kind, ref) \in EntrySet /\ Entry(kind, ref).kind = kind
        /\ Entry(kind, ref).ref = ref
  BY DEF Entry, EntrySet
<1>3. /\ Receipt(turn.n, 0) \in Refs /\ Pending \in Refs /\ Mark(mark.target) \in Refs
  BY <1>1 DEF Receipt, Pending, Mark, Refs
<1>4. CASE phase = "user"
  <2>1. PendingEntry = Entry("user", Receipt(turn.n, 0))
    BY <1>4 DEF PendingEntry
  <2>2. "user" \in Messages
    BY DEF Messages
  <2>3. QED
    BY <1>2, <1>3, <1>4, <2>1, <2>2
<1>5. CASE phase = "assistant"
  <2>1. PendingEntry = Entry("assistant", Pending)
    BY <1>5 DEF PendingEntry, Pending
  <2>2. "assistant" \in Messages
    BY DEF Messages
  <2>3. QED
    BY <1>2, <1>3, <1>5, <2>1, <2>2
<1>6. CASE phase = "mark"
  <2>1. PendingEntry = IF mark.verb = "rollback" THEN Entry("rollback", Mark(mark.target))
                       ELSE Entry("checkpoint", Mark(mark.target))
    BY <1>6 DEF PendingEntry
  <2>2. PICK kind \in {"checkpoint", "rollback"} :
          /\ PendingEntry = Entry(kind, Mark(mark.target))
          /\ kind = "rollback" <=> mark.verb = "rollback"
    BY <2>1
  <2>3. /\ PendingEntry \in EntrySet /\ PendingEntry.kind \in {"checkpoint", "rollback"}
        /\ PendingEntry.ref = Mark(mark.target)
        /\ PendingEntry.kind = "rollback" <=> mark.verb = "rollback"
    <3>1. kind \in Messages \cup {"checkpoint", "rollback"}
      OBVIOUS
    <3>2. PendingEntry \in EntrySet /\ PendingEntry.kind = kind /\ PendingEntry.ref = Mark(mark.target)
      BY <1>2, <1>3, <2>2, <3>1
    <3>3. QED
      BY <2>2, <3>2
  <2>4. QED
    BY <1>6, <2>3
<1>7. CASE phase = "reconcile"
  <2>1. PendingEntry = Entry("recovered", Head(orphans)) /\ orphans # <<>>
    BY <1>7 DEF PendingEntry, Appending
  <2>2. Head(orphans) \in Refs
    BY <2>1, HeadTailProperties DEF SessionTyped
  <2>3. "recovered" \in Messages
    BY DEF Messages
  <2>4. QED
    BY <1>2, <1>7, <2>1, <2>2, <2>3
<1>8. QED
  BY <1>4, <1>5, <1>6, <1>7 DEF Appending

\* The journal's entries, and what they replay to.
LEMMA EntriesTyped ==
  ASSUME SessionTyped
  PROVE  /\ Entries \in Seq(EntrySet) /\ Replay \in Seq(EntrySet)
         /\ tail = <<>> => Entries = lines
<1>1. Entries \in Seq(EntrySet)
  <2>1. CASE tail = <<>> \/ tail = <<Torn>>
    BY <2>1 DEF Entries, SessionTyped
  <2>2. CASE ~(tail = <<>> \/ tail = <<Torn>>)
    <3>0. PICK e \in EntrySet : tail = <<e>>
      BY <2>2 DEF SessionTyped
    <3>1. lines \in Seq(EntrySet) /\ tail \in Seq(EntrySet)
      BY <3>0 DEF SessionTyped
    <3>2. QED
      BY <2>2, <3>1, ConcatProperties DEF Entries
  <2>3. QED
    BY <2>1, <2>2
<1>2. Replay \in Seq(EntrySet)
  BY <1>1, ReplayFacts DEF Replay
<1>3. QED
  BY <1>1, <1>2 DEF Entries

\* The orphans are receipts of the chain, each once, that no message vouches for.
LEMMA OrphanFacts ==
  ASSUME SessionTyped, \A i, j \in DOMAIN chain : i # j => chain[i] # chain[j]
  PROVE  /\ OrphanReceipts \in Seq(Refs)
         /\ \A i \in DOMAIN OrphanReceipts :
              OrphanReceipts[i] \in Range(chain) /\ ~Vouched(OrphanReceipts[i])
         /\ \A i, j \in DOMAIN OrphanReceipts : i # j => OrphanReceipts[i] # OrphanReceipts[j]
<1> PICK S : S = {i \in DOMAIN chain : ~Vouched(chain[i])}
  OBVIOUS
<1>1. Len(chain) \in Nat /\ DOMAIN chain = 1..Len(chain) /\ S \subseteq 1..Len(chain) /\ S \subseteq Nat
  BY LenProperties DEF SessionTyped
<1>2. IsFiniteSet(S)
  <2>1. IsFiniteSet(1..Len(chain))
    BY <1>1, FS_Interval
  <2>2. QED
    BY <1>1, <2>1, FS_Subset
<1> PICK n : n = Cardinality(S)
  OBVIOUS
<1> PICK L : L = Listed(S)
  OBVIOUS
<1>3. /\ n \in Nat /\ DOMAIN L = 1..n /\ \A j \in 1..n : L[j] \in S /\ Rank(S, L[j]) = j
  BY <1>1, <1>2, ListedFacts
<1> PICK o : o = OrphanReceipts
  OBVIOUS
<1>4. o = [j \in 1..n |-> chain[L[j]]]
  BY <1>3 DEF OrphanReceipts
<1>5. \A j \in 1..n : L[j] \in DOMAIN chain /\ ~Vouched(chain[L[j]])
  BY <1>3
<1>6. \A j \in 1..n : chain[L[j]] \in Refs /\ chain[L[j]] \in Range(chain)
  BY <1>1, <1>5, ElementOfSeq DEF SessionTyped, Range
<1>7. o \in Seq(Refs) /\ DOMAIN o = 1..n
  BY <1>3, <1>4, <1>6
<1>8. \A i, j \in 1..n : i # j => L[i] # L[j]
  BY <1>3
<1>9. \A i, j \in 1..n : i # j => o[i] # o[j]
  BY <1>4, <1>5, <1>8
<1>10. QED
  BY <1>4, <1>5, <1>6, <1>7, <1>9

\* The journal's file operations keep its types.
LEMMA JournalTyped ==
  ASSUME SessionTyped, NEW e \in EntrySet
  PROVE  /\ Bad \in EntrySet /\ Torn \in EntrySet
         /\ Appended(e) => /\ lines' \in Seq(EntrySet) /\ tail' = <<>> /\ count' \in Nat
                           /\ acked' \subseteq Acks /\ slipped' \in BOOLEAN
         /\ LeftBehind(e) => /\ lines' \in Seq(EntrySet)
                             /\ tail' = <<>> \/ \E x \in EntrySet : tail' = <<x>>
         /\ ReadAll => /\ lines' = lines /\ count' \in Nat /\ tail' \in {<<>>, tail}
                       /\ Entries' = Entries /\ slipped' \in BOOLEAN
<1>1. Bad \in EntrySet /\ Torn \in EntrySet
  BY DEF Bad, Torn, Entry, EntrySet, Refs
<1>2. /\ lines \in Seq(EntrySet)
      /\ tail = <<>> \/ \E x \in EntrySet : tail = <<x>>
      /\ count \in Nat /\ acked \subseteq Acks /\ Len(lines) \in Nat /\ slipped \in BOOLEAN
  BY LenProperties DEF SessionTyped
<1>3. \A x \in EntrySet : Append(lines, x) \in Seq(EntrySet)
  BY <1>2, AppendProperties
<1>4. ASSUME Appended(e)
      PROVE  /\ lines' \in Seq(EntrySet) /\ tail' = <<>> /\ count' \in Nat
             /\ acked' \subseteq Acks /\ slipped' \in BOOLEAN
  <2>1. slipped' \in BOOLEAN
    BY <1>2, <1>4 DEF Appended
  <2>2. [id |-> count, entry |-> e, astray |-> slipped'] \in Acks
    BY <1>2, <2>1 DEF Acks
  <2>3. QED
    BY <1>1, <1>2, <1>3, <1>4, <2>1, <2>2 DEF Appended
<1>5. ASSUME LeftBehind(e)
      PROVE  /\ lines' \in Seq(EntrySet)
             /\ tail' = <<>> \/ \E x \in EntrySet : tail' = <<x>>
  <2>1. CASE UNCHANGED <<lines, tail>>
    BY <1>2, <2>1
  <2>2. CASE tail = <<>> /\ tail' \in {<<Torn>>, <<e>>} /\ UNCHANGED lines
    BY <1>1, <1>2, <2>2
  <2>3. CASE lines' = Append(lines, IF tail = <<>> THEN e ELSE Bad) /\ tail' = <<>>
    BY <1>1, <1>3, <2>3
  <2>4. CASE tail # <<>> /\ tail' = <<Torn>> /\ UNCHANGED lines
    BY <1>1, <1>2, <2>4
  <2>5. QED
    BY <1>5, <2>1, <2>2, <2>3, <2>4 DEF LeftBehind
<1>6. ASSUME ReadAll
      PROVE  /\ lines' = lines /\ count' \in Nat /\ tail' \in {<<>>, tail}
             /\ Entries' = Entries /\ slipped' \in BOOLEAN
  <2>1. CASE tail = <<Torn>>
    BY <1>2, <1>6, <2>1 DEF ReadAll, Entries
  <2>2. CASE tail # <<Torn>>
    BY <1>2, <1>6, <2>2 DEF ReadAll, Entries
  <2>3. QED
    BY <2>1, <2>2
<1>7. QED
  BY <1>1, <1>4, <1>5, <1>6

\* What the REPL may keep at the end of a turn.
LEMMA KeptTyped ==
  ASSUME SessionTyped, live # <<>>
  PROVE  /\ Front(live) \in Seq(EntrySet)
         /\ Committed \in Seq(EntrySet) /\ Len(Committed) = turn.r
         /\ \A r \in 1..turn.r : Committed[r] = Entry("assistant", Receipt(turn.n, r))
         /\ turn.r > 0 => Kept(TRUE) \in Seq(EntrySet)
         /\ Kept(FALSE) \in Seq(EntrySet)
<1>1. live \in Seq(EntrySet) /\ turn.n \in Nat /\ turn.r \in Nat /\ Len(live) \in Nat
  BY HistoryAssumption, LenProperties DEF SessionTyped
<1>2. Front(live) \in Seq(EntrySet)
  <2>1. \A i \in 1..(Len(live) - 1) : live[i] \in EntrySet
    BY <1>1, ElementOfSeq
  <2>2. QED
    BY <1>1, <2>1, SubSeqProperties DEF Front
<1>3. \A r \in 1..turn.r : Entry("assistant", Receipt(turn.n, r)) \in EntrySet
  BY <1>1 DEF Entry, EntrySet, Receipt, Refs, Messages
<1>4. Committed \in Seq(EntrySet) /\ Len(Committed) = turn.r
  BY <1>1, <1>3 DEF Committed
<1>5. \A r \in 1..turn.r : Committed[r] = Entry("assistant", Receipt(turn.n, r))
  BY DEF Committed
<1>6. live \o Committed \in Seq(EntrySet)
  BY <1>1, <1>4, ConcatProperties
<1>7. turn.r > 0 => Append(live, Committed[turn.r]) \in Seq(EntrySet)
  <2>1. turn.r > 0 => turn.r \in 1..turn.r
    BY <1>1
  <2>2. QED
    BY <1>1, <1>3, <1>5, <2>1, AppendProperties
<1>8. turn.r > 0 => Kept(TRUE) \in Seq(EntrySet)
  BY <1>2, <1>6, <1>7 DEF Kept
<1>9. Kept(FALSE) \in Seq(EntrySet)
  BY <1>2, <1>6 DEF Kept
<1>10. QED
  BY <1>2, <1>4, <1>5, <1>8, <1>9

\* A rollback keeps what lies up to the first line of its checkpoint.
LEMMA RetainedFacts ==
  ASSUME SessionTyped, NEW k, CheckpointPos(Entries, k) # {}
  PROVE  /\ Retained(k) \in Seq(EntrySet)
         /\ \E c \in CheckpointPos(Entries, k) :
              /\ \A j \in CheckpointPos(Entries, k) : c <= j
              /\ Retained(k) = SubSeq(Entries, 1, c)
<1> PICK s : s = Entries
  OBVIOUS
<1> PICK P : P = CheckpointPos(s, k)
  OBVIOUS
<1>1. s \in Seq(EntrySet) /\ Len(s) \in Nat /\ DOMAIN s = 1..Len(s)
  BY EntriesTyped, LenProperties
<1>2. P \subseteq 1..Len(s) /\ P \subseteq Nat /\ P # {}
  BY <1>1 DEF CheckpointPos
<1>3. \E i \in P : \A j \in P : i <= j
  BY <1>2, LeastOf
<1> PICK c : c = CHOOSE i \in P : \A j \in P : i <= j
  OBVIOUS
<1>4. c \in P /\ \A j \in P : c <= j
  BY <1>3
<1>5. Retained(k) = SubSeq(s, 1, c)
  BY DEF Retained
<1>6. \A i \in 1..c : s[i] \in EntrySet
  BY <1>1, <1>2, <1>4, ElementOfSeq
<1>7. SubSeq(s, 1, c) \in Seq(EntrySet)
  BY <1>2, <1>4, <1>6, SubSeqProperties
<1>8. QED
  BY <1>4, <1>5, <1>7

\* Init establishes the invariant.
LEMMA SessionStarts == HistoryInit => SessionInv
<1> SUFFICES ASSUME HistoryInit
             PROVE  SessionInv
  OBVIOUS
<1>1. /\ lines = <<>> /\ tail = <<>> /\ count = 0 /\ chain = <<>> /\ live = <<>>
      /\ phase = "chat" /\ turn = NoTurn /\ mark = NoMark /\ orphans = <<>> /\ marks = 0
      /\ acked = {} /\ drift = {} /\ slipped = FALSE /\ slips = 0 /\ resumes = 0
  BY DEF HistoryInit
<1>2. lines \in Seq(EntrySet) /\ live \in Seq(EntrySet) /\ chain \in Seq(Refs) /\ orphans \in Seq(Refs)
  BY <1>1
<1>3. DOMAIN lines = {} /\ DOMAIN chain = {} /\ Len(lines) = 0
  BY <1>1
<1>4. SessionTyped
  <2>1. /\ 0 \in 0..MaxTurns /\ 0 \in 0..MaxRounds /\ marks \in 0..MaxMarks
        /\ slips \in 0..MaxFaults /\ resumes \in 0..MaxResumes
    BY <1>1, HistoryAssumption
  <2>2. turn \in [n : 0..MaxTurns, r : 0..MaxRounds, streamed : BOOLEAN]
    BY <1>1, <2>1 DEF NoTurn
  <2>3. mark \in [verb : {"none", "checkpoint", "rollback", "compact"}, target : Nat]
    BY <1>1 DEF NoMark
  <2>4. QED
    BY <1>1, <1>2, <2>1, <2>2, <2>3 DEF SessionTyped
<1>5. PhaseInv
  BY <1>1 DEF PhaseInv, Taking
<1>6. Entries = lines /\ Parses
  BY <1>1, <1>3 DEF Entries, Parses, Range
<1>7. AckInv
  BY <1>1, <1>3, <1>6 DEF AckInv, AckedAtItsLine
<1>8. ChainInv /\ RecordInv /\ UserInv
  BY <1>1, <1>3 DEF ChainInv, RecordInv, UserInv
<1>9. CleanInv
  BY <1>1, <1>6 DEF CleanInv
<1>10. live = Replay
  <2>1. Shown(lines) = {}
    BY <1>3 DEF Shown
  <2>2. Replay \in Seq(EntrySet) /\ Len(Replay) = 0
    BY <1>2, <1>6, <2>1, ReplayFacts, FS_EmptySet DEF Replay
  <2>3. QED
    BY <1>1, <2>2, EmptySeq
<1>11. MatchInv
  BY <1>1, <1>10 DEF MatchInv
<1>12. QED
  BY <1>4, <1>5, <1>7, <1>8, <1>9, <1>11 DEF SessionInv

\* Every step keeps the types and the place in the turn.
LEMMA SessionTypedKept ==
  ASSUME SessionInv, HistoryNext
  PROVE  SessionTyped'
<1>0. SessionTyped /\ PhaseInv /\ ChainInv
  BY DEF SessionInv
<1>1. /\ lines \in Seq(EntrySet) /\ live \in Seq(EntrySet)
      /\ tail = <<>> \/ \E e \in EntrySet : tail = <<e>>
      /\ chain \in Seq(Refs) /\ orphans \in Seq(Refs) /\ count \in Nat
      /\ phase \in Taking \cup {"chat", "mark", "reconcile", "stopped", "refused"}
      /\ turn \in [n : 0..MaxTurns, r : 0..MaxRounds, streamed : BOOLEAN]
      /\ mark \in [verb : {"none", "checkpoint", "rollback", "compact"}, target : Nat]
      /\ marks \in 0..MaxMarks /\ slips \in 0..MaxFaults /\ resumes \in 0..MaxResumes
      /\ drift \subseteq Reasons /\ slipped \in BOOLEAN /\ acked \subseteq Acks
  BY <1>0 DEF SessionTyped
<1>2. /\ MaxTurns \in Nat /\ MaxRounds \in Nat /\ MaxMarks \in Nat /\ MaxFaults \in Nat
      /\ MaxResumes \in Nat /\ turn.n \in Nat /\ turn.r \in Nat /\ marks \in Nat
      /\ turn.n \in 0..MaxTurns /\ turn.r \in 0..MaxRounds /\ turn.streamed \in BOOLEAN
  BY <1>1, HistoryAssumption
<1>3. /\ Receipt(turn.n, 0) \in Refs /\ Receipt(turn.n + 1, 0) \in Refs
      /\ Receipt(turn.n, turn.r + 1) \in Refs /\ Control(marks + 1) \in Refs
  BY <1>2 DEF Receipt, Control, Refs
<1>4. \A kind \in Messages : \A ref \in Refs : Entry(kind, ref) \in EntrySet
  BY DEF Entry, EntrySet
<1>5. /\ Entry("user", Receipt(turn.n, 0)) \in EntrySet
      /\ Entry("user", Receipt(turn.n + 1, 0)) \in EntrySet
      /\ Entry("assistant", Receipt(turn.n, turn.r + 1)) \in EntrySet
  BY <1>3, <1>4 DEF Messages
<1>6. NoMark \in [verb : {"none", "checkpoint", "rollback", "compact"}, target : Nat] /\ <<>> \in Seq(EntrySet)
  BY DEF NoMark
<1>7. Appending => PendingEntry \in EntrySet
  BY <1>0, PendingFacts
<1>8. ASSUME AppendFails(PendingEntry), Appending
      PROVE  /\ slips' \in 0..MaxFaults /\ slipped' = TRUE /\ count' = count /\ acked' = acked
             /\ lines' \in Seq(EntrySet)
             /\ tail' = <<>> \/ \E e \in EntrySet : tail' = <<e>>
  <2>1. LeftBehind(PendingEntry) /\ slips < MaxFaults /\ slips' = slips + 1
    BY <1>8 DEF AppendFails
  <2>2. /\ lines' \in Seq(EntrySet)
        /\ tail' = <<>> \/ \E e \in EntrySet : tail' = <<e>>
    BY <1>0, <1>7, <1>8, <2>1, JournalTyped
  <2>3. slips' \in 0..MaxFaults
    BY <1>1, <1>2, <2>1
  <2>4. QED
    BY <1>8, <2>2, <2>3 DEF AppendFails
<1>9. phase \in Taking => live # <<>>
  BY <1>0 DEF PhaseInv
<1>10. ASSUME NEW streamed \in BOOLEAN, TurnBegins(streamed)
       PROVE  SessionTyped'
  <2>1. live' \in Seq(EntrySet)
    BY <1>1, <1>5, <1>10, AppendProperties DEF TurnBegins
  <2>2. turn' \in [n : 0..MaxTurns, r : 0..MaxRounds, streamed : BOOLEAN]
    BY <1>2, <1>10 DEF TurnBegins
  <2>3. QED
    BY <1>1, <1>10, <2>1, <2>2 DEF TurnBegins, SessionTyped, Taking
<1>11. ASSUME ReceiptPersisted
       PROVE  SessionTyped'
  <2>1. chain' \in Seq(Refs)
    BY <1>1, <1>3, <1>11, AppendProperties DEF ReceiptPersisted
  <2>2. QED
    BY <1>1, <1>11, <2>1 DEF ReceiptPersisted, SessionTyped, Taking
<1>12. ASSUME UserJournaled
       PROVE  SessionTyped'
  <2>1. /\ lines' \in Seq(EntrySet) /\ tail' = <<>> /\ count' \in Nat
        /\ acked' \subseteq Acks /\ slipped' \in BOOLEAN
    BY <1>0, <1>5, <1>12, JournalTyped DEF UserJournaled
  <2>2. QED
    BY <1>1, <1>12, <2>1 DEF UserJournaled, SessionTyped, Taking
<1>13. ASSUME AssistantJournaled
       PROVE  SessionTyped'
  <2>1. /\ lines' \in Seq(EntrySet) /\ tail' = <<>> /\ count' \in Nat
        /\ acked' \subseteq Acks /\ slipped' \in BOOLEAN
    BY <1>0, <1>5, <1>13, JournalTyped DEF AssistantJournaled
  <2>2. turn.r < MaxRounds
    BY <1>0, <1>13 DEF PhaseInv, AssistantJournaled
  <2>3. turn' \in [n : 0..MaxTurns, r : 0..MaxRounds, streamed : BOOLEAN]
    <3>1. turn' = [turn EXCEPT !.r = turn.r + 1] /\ turn.r + 1 \in 0..MaxRounds
      BY <1>2, <1>13, <2>2 DEF AssistantJournaled
    <3>2. QED
      BY <1>1, <3>1
  <2>4. QED
    BY <1>1, <1>13, <2>1, <2>3 DEF AssistantJournaled, SessionTyped, Taking
<1>14. ASSUME NextRound
       PROVE  SessionTyped'
  BY <1>1, <1>14 DEF NextRound, SessionTyped, Taking
<1>15. ASSUME TurnAnswers
       PROVE  SessionTyped'
  <2>1. live' \in Seq(EntrySet)
    <3>1. turn.r > 0 /\ live # <<>>
      BY <1>0, <1>15 DEF PhaseInv, TurnAnswers, Taking
    <3>2. QED
      BY <1>0, <1>15, <3>1, KeptTyped DEF TurnAnswers, TurnOver
  <2>2. drift' \subseteq Reasons
    BY <1>1, <1>15 DEF TurnAnswers, Reasons
  <2>3. QED
    BY <1>1, <1>15, <2>1, <2>2 DEF TurnAnswers, TurnOver, SessionTyped
<1>16. ASSUME TurnRefused
       PROVE  SessionTyped'
  <2>1. live' \in Seq(EntrySet)
    <3>1. live # <<>>
      BY <1>0, <1>16 DEF PhaseInv, TurnRefused, Taking
    <3>2. QED
      BY <1>0, <1>16, <3>1, KeptTyped DEF TurnRefused, TurnOver
  <2>2. drift' \subseteq Reasons
    BY <1>1, <1>16 DEF TurnRefused, Reasons
  <2>3. QED
    BY <1>1, <1>16, <2>1, <2>2 DEF TurnRefused, TurnOver, SessionTyped
<1>17. ASSUME TurnAppendFails
       PROVE  SessionTyped'
  <2>1. Appending /\ phase \in Taking
    BY <1>17 DEF TurnAppendFails, Appending, Taking
  <2>2. live' \in Seq(EntrySet)
    BY <1>0, <1>9, <1>17, <2>1, KeptTyped DEF TurnAppendFails, TurnOver
  <2>3. drift' \subseteq Reasons
    BY <1>1, <1>17 DEF TurnAppendFails, Reasons
  <2>4. QED
    BY <1>1, <1>8, <1>17, <2>1, <2>2, <2>3 DEF TurnAppendFails, TurnOver, SessionTyped
<1>18. ASSUME StdoutFails
       PROVE  SessionTyped'
  <2>1. live' \in Seq(EntrySet)
    <3>1. live # <<>>
      BY <1>0, <1>18 DEF PhaseInv, StdoutFails, Taking
    <3>2. QED
      BY <1>0, <1>18, <3>1, KeptTyped DEF StdoutFails
  <2>2. drift' \subseteq Reasons
    BY <1>1, <1>18 DEF StdoutFails, Reasons
  <2>3. slips' \in 0..MaxFaults
    BY <1>1, <1>2, <1>18 DEF StdoutFails
  <2>4. QED
    BY <1>1, <1>18, <2>1, <2>2, <2>3 DEF StdoutFails, SessionTyped
<1>19. ASSUME NEW verb \in {"checkpoint", "rollback"}, NEW k \in 1..MaxMarks, MarkBegins(verb, k)
       PROVE  SessionTyped'
  <2>1. lines' = lines /\ count' \in Nat /\ tail' \in {<<>>, tail} /\ slipped' \in BOOLEAN
    BY <1>0, <1>5, <1>19, JournalTyped DEF MarkBegins
  <2>2. chain' \in Seq(Refs)
    BY <1>1, <1>3, <1>19, AppendProperties DEF MarkBegins
  <2>3. mark' \in [verb : {"none", "checkpoint", "rollback", "compact"}, target : Nat]
    BY <1>2, <1>19 DEF MarkBegins
  <2>4. marks' \in 0..MaxMarks
    BY <1>1, <1>2, <1>19 DEF MarkBegins
  <2>5. QED
    BY <1>1, <1>19, <2>1, <2>2, <2>3, <2>4 DEF MarkBegins, SessionTyped
<1>20. ASSUME CompactBegins
       PROVE  SessionTyped'
  <2>2. chain' \in Seq(Refs)
    BY <1>1, <1>3, <1>20, AppendProperties DEF CompactBegins
  <2>3. mark' \in [verb : {"none", "checkpoint", "rollback", "compact"}, target : Nat]
    BY <1>2, <1>20 DEF CompactBegins
  <2>4. marks' \in 0..MaxMarks
    BY <1>1, <1>2, <1>20 DEF CompactBegins
  <2>5. QED
    BY <1>1, <1>20, <2>2, <2>3, <2>4 DEF CompactBegins, SessionTyped
<1>21. ASSUME MarkJournaled
       PROVE  SessionTyped'
  <2>0. Appending /\ mark.target \in Nat /\ mark.verb \in {"checkpoint", "rollback", "compact"}
    BY <1>0, <1>1, <1>21 DEF MarkJournaled, Appending, PhaseInv
  <2>1. /\ lines' \in Seq(EntrySet) /\ tail' = <<>> /\ count' \in Nat
        /\ acked' \subseteq Acks /\ slipped' \in BOOLEAN
    BY <1>0, <1>7, <1>21, <2>0, JournalTyped DEF MarkJournaled
  <2>2. Installed \in Seq(EntrySet)
    <3>1. CASE mark.verb = "checkpoint"
      BY <1>1, <3>1 DEF Installed
    <3>2. CASE mark.verb = "compact"
      <4>1. Entry("system", Mark(mark.target)) \in EntrySet
        BY <2>0 DEF Entry, EntrySet, Mark, Refs
      <4>2. QED
        BY <3>2, <4>1 DEF Installed
    <3>3. CASE mark.verb = "rollback"
      <4>1. CheckpointPos(Entries, mark.target) # {}
        BY <1>0, <1>21, <3>3 DEF PhaseInv, MarkJournaled
      <4>2. Retained(mark.target) \in Seq(EntrySet)
        BY <1>0, <2>0, <4>1, RetainedFacts
      <4>3. QED
        BY <3>3, <4>2, ReplayFacts DEF Installed
    <3>4. QED
      BY <2>0, <3>1, <3>2, <3>3
  <2>3. drift' \subseteq Reasons
    BY <1>1, <1>21, <2>0 DEF MarkJournaled, MarkDrift, Reasons
  <2>4. QED
    BY <1>1, <1>6, <1>21, <2>1, <2>2, <2>3 DEF MarkJournaled, SessionTyped
<1>22. ASSUME MarkAppendFails
       PROVE  SessionTyped'
  <2>1. Appending
    BY <1>22 DEF MarkAppendFails, Appending
  <2>2. drift' \subseteq Reasons
    BY <1>1, <1>22 DEF MarkAppendFails, Reasons
  <2>3. QED
    BY <1>1, <1>6, <1>8, <1>22, <2>1, <2>2 DEF MarkAppendFails, SessionTyped
<1>23. ASSUME Quits
       PROVE  SessionTyped'
  BY <1>1, <1>6, <1>23 DEF Quits, SessionTyped
<1>24. ASSUME Crashes
       PROVE  SessionTyped'
  <2>1. /\ lines' \in Seq(EntrySet)
        /\ tail' = <<>> \/ \E e \in EntrySet : tail' = <<e>>
    <3>1. CASE Appending
      BY <1>0, <1>7, <1>24, <3>1, JournalTyped DEF Crashes
    <3>2. CASE ~Appending
      BY <1>1, <1>24, <3>2 DEF Crashes
    <3>3. QED
      BY <3>1, <3>2
  <2>2. slips' \in 0..MaxFaults
    BY <1>1, <1>2, <1>24 DEF Crashes
  <2>3. QED
    BY <1>1, <1>6, <1>24, <2>1, <2>2 DEF Crashes, SessionTyped
<1>25. ASSUME Resumes
       PROVE  SessionTyped'
  <2>1. resumes' \in 0..MaxResumes
    BY <1>1, <1>2, <1>25 DEF Resumes
  <2>2. CASE Parses /\ tail # <<Torn>>
    <3>1. live' \in Seq(EntrySet) /\ count' \in Nat
      BY <1>0, <1>25, <2>2, EntriesTyped, LenProperties DEF Resumes
    <3>2. orphans' \in Seq(Refs)
      BY <1>0, <1>25, <2>2, OrphanFacts DEF Resumes, ChainInv
    <3>3. drift' \subseteq Reasons
      BY <1>25, <2>2 DEF Resumes, Reasons
    <3>4. QED
      BY <1>1, <1>25, <2>1, <2>2, <3>1, <3>2, <3>3 DEF Resumes, SessionTyped
  <2>3. CASE ~(Parses /\ tail # <<Torn>>)
    BY <1>1, <1>25, <2>1, <2>3 DEF Resumes, SessionTyped
  <2>4. QED
    BY <2>2, <2>3
<1>26. ASSUME Reconciles
       PROVE  SessionTyped'
  <2>0. Appending
    BY <1>26 DEF Reconciles, Appending
  <2>1. /\ lines' \in Seq(EntrySet) /\ tail' = <<>> /\ count' \in Nat
        /\ acked' \subseteq Acks /\ slipped' \in BOOLEAN
    BY <1>0, <1>7, <1>26, <2>0, JournalTyped DEF Reconciles
  <2>2. orphans' \in Seq(Refs)
    BY <1>1, <1>26, HeadTailProperties DEF Reconciles
  <2>3. drift' \subseteq Reasons
    BY <1>1, <1>26 DEF Reconciles, Reasons
  <2>4. QED
    BY <1>1, <1>26, <2>1, <2>2, <2>3 DEF Reconciles, SessionTyped
<1>27. ASSUME ReconcileFails
       PROVE  SessionTyped'
  <2>1. Appending
    BY <1>27 DEF ReconcileFails, Appending
  <2>2. QED
    BY <1>1, <1>6, <1>8, <1>27, <2>1 DEF ReconcileFails, SessionTyped
<1>28. ASSUME Resumed
       PROVE  SessionTyped'
  BY <1>1, <1>28 DEF Resumed, SessionTyped
<1>29. QED
  BY <1>10, <1>11, <1>12, <1>13, <1>14, <1>15, <1>16, <1>17, <1>18, <1>19, <1>20, <1>21,
     <1>22, <1>23, <1>24, <1>25, <1>26, <1>27, <1>28 DEF HistoryNext

\* Every step keeps the place in the turn, or in the command.
LEMMA PhaseKept ==
  ASSUME SessionInv, HistoryNext
  PROVE  PhaseInv'
<1>0. SessionTyped /\ PhaseInv
  BY DEF SessionInv
<1>1. /\ phase \in {"user", "assistant"} => turn.r < MaxRounds
      /\ phase = "user" => turn.r = 0
      /\ phase = "round" => turn.r > 0
      /\ phase \in Taking => live # <<>>
      /\ phase = "mark" => mark.verb # "none"
      /\ phase = "mark" /\ mark.verb = "rollback" => CheckpointPos(Entries, mark.target) # {}
  BY <1>0 DEF PhaseInv
<1>2. live \in Seq(EntrySet) /\ turn.r \in Nat /\ turn.n \in Nat
  BY <1>0, HistoryAssumption DEF SessionTyped
<1>3. ASSUME NEW streamed \in BOOLEAN, TurnBegins(streamed)
      PROVE  PhaseInv'
  <2>1. live' # <<>>
    BY <1>2, <1>3 DEF TurnBegins
  <2>2. QED
    BY <1>3, <2>1 DEF TurnBegins, PhaseInv
<1>4. ASSUME ReceiptPersisted
      PROVE  PhaseInv'
  <2>1. phase' = IF turn.r = 0 THEN "user" ELSE "assistant"
    BY <1>4 DEF ReceiptPersisted
  <2>2. UNCHANGED <<turn, live>> /\ turn.r < MaxRounds /\ phase \in Taking
    BY <1>4 DEF ReceiptPersisted, Taking
  <2>3. QED
    BY <1>1, <2>1, <2>2 DEF PhaseInv
<1>5. ASSUME UserJournaled
      PROVE  PhaseInv'
  BY <1>1, <1>5 DEF UserJournaled, PhaseInv, Taking
<1>6. ASSUME AssistantJournaled
      PROVE  PhaseInv'
  <2>1. turn' = [turn EXCEPT !.r = turn.r + 1] /\ phase' = "round" /\ live' = live /\ phase \in Taking
    BY <1>6 DEF AssistantJournaled, Taking
  <2>2. turn'.r > 0
    BY <1>0, <1>2, <2>1 DEF SessionTyped
  <2>3. QED
    BY <1>1, <2>1, <2>2 DEF PhaseInv
<1>7. ASSUME NextRound
      PROVE  PhaseInv'
  BY <1>1, <1>7 DEF NextRound, PhaseInv, Taking
<1>8. phase' \in {"chat", "stopped", "refused", "reconcile"} => PhaseInv'
  BY DEF PhaseInv, Taking
<1>9. ASSUME NEW verb \in {"checkpoint", "rollback"}, NEW k \in 1..MaxMarks, MarkBegins(verb, k)
      PROVE  PhaseInv'
  <2>1. Bad \in EntrySet
    BY DEF Bad, Entry, EntrySet, Refs
  <2>2. Entries' = Entries
    BY <1>0, <1>9, <2>1, JournalTyped DEF MarkBegins
  <2>3. /\ phase' = "mark" /\ mark' = [verb |-> verb, target |-> k]
        /\ verb = "rollback" => CheckpointPos(Entries, k) # {}
    BY <1>9 DEF MarkBegins
  <2>4. mark'.verb = verb /\ mark'.target = k
    BY <2>3
  <2>5. CheckpointPos(Entries, k)' = CheckpointPos(Entries, k)
    BY <2>2 DEF CheckpointPos
  <2>6. (phase = "mark" /\ mark.verb = "rollback" => CheckpointPos(Entries, mark.target) # {})'
    BY <2>2, <2>3, <2>4 DEF CheckpointPos
  <2>7. QED
    BY <2>3, <2>4, <2>6 DEF PhaseInv, Taking
<1>10. ASSUME CompactBegins
       PROVE  PhaseInv'
  <2>1. phase' = "mark" /\ mark' = [verb |-> "compact", target |-> marks + 1]
    BY <1>10 DEF CompactBegins
  <2>2. mark'.verb = "compact"
    BY <2>1
  <2>3. QED
    BY <2>1, <2>2 DEF PhaseInv, Taking
<1>11. TurnAnswers \/ TurnRefused \/ TurnAppendFails => phase' = "chat"
  BY DEF TurnAnswers, TurnRefused, TurnAppendFails, TurnOver
<1>12. StdoutFails \/ MarkJournaled \/ MarkAppendFails \/ Resumed => phase' = "chat"
  BY DEF StdoutFails, MarkJournaled, MarkAppendFails, Resumed
<1>13. Quits \/ Crashes \/ ReconcileFails => phase' = "stopped"
  BY DEF Quits, Crashes, ReconcileFails
<1>14. Resumes \/ Reconciles => phase' \in {"reconcile", "refused"}
  BY DEF Resumes, Reconciles
<1>15. QED
  BY <1>3, <1>4, <1>5, <1>6, <1>7, <1>8, <1>9, <1>10, <1>11, <1>12, <1>13, <1>14 DEF HistoryNext

\* What writes the journal is the append in progress; other steps leave its entries.
LEMMA JournalSteps ==
  ASSUME SessionInv, HistoryNext
  PROVE  \/ lines' = lines /\ Entries' = Entries /\ (tail' = tail \/ phase = "chat")
         \/ Appending /\ (Appended(PendingEntry) \/ LeftBehind(PendingEntry))
<1>0. SessionTyped /\ PhaseInv
  BY DEF SessionInv
<1>1. UNCHANGED <<lines, tail>> => lines' = lines /\ Entries' = Entries /\ tail' = tail
  BY DEF Entries
<1>2. ASSUME NEW verb \in {"checkpoint", "rollback"}, NEW k \in 1..MaxMarks, MarkBegins(verb, k)
      PROVE  lines' = lines /\ Entries' = Entries /\ phase = "chat"
  <2>1. Bad \in EntrySet
    BY DEF Bad, Entry, EntrySet, Refs
  <2>2. QED
    BY <1>0, <1>2, <2>1, JournalTyped DEF MarkBegins
<1>3. UserJournaled => Appending /\ Appended(PendingEntry)
  BY DEF UserJournaled, Appending, PendingEntry
<1>4. AssistantJournaled => Appending /\ Appended(PendingEntry)
  BY DEF AssistantJournaled, Appending, PendingEntry
<1>5. MarkJournaled \/ Reconciles => Appending /\ Appended(PendingEntry)
  BY DEF MarkJournaled, Reconciles, Appending
<1>6. TurnAppendFails \/ MarkAppendFails \/ ReconcileFails => Appending /\ LeftBehind(PendingEntry)
  BY DEF TurnAppendFails, MarkAppendFails, ReconcileFails, AppendFails, Appending
<1>7. Crashes => UNCHANGED <<lines, tail>> \/ (Appending /\ LeftBehind(PendingEntry))
  BY DEF Crashes
<1>8. TurnAnswers \/ TurnRefused \/ StdoutFails \/ Quits \/ Resumes \/ Resumed \/ CompactBegins
        => UNCHANGED <<lines, tail>>
  BY DEF TurnAnswers, TurnRefused, StdoutFails, Quits, Resumes, Resumed, CompactBegins
<1>9. ReceiptPersisted \/ NextRound \/ (\E streamed \in BOOLEAN : TurnBegins(streamed))
        => UNCHANGED <<lines, tail>>
  BY DEF ReceiptPersisted, NextRound, TurnBegins
<1>10. QED
  BY <1>1, <1>2, <1>3, <1>4, <1>5, <1>6, <1>7, <1>8, <1>9 DEF HistoryNext

\* What an append, or a failed one, may do to the file.
LEMMA WriteFacts ==
  ASSUME SessionTyped, NEW e \in EntrySet, Appended(e) \/ LeftBehind(e)
  PROVE  /\ \/ lines' = lines
            \/ lines' = Append(lines, e) /\ tail = <<>> /\ tail' = <<>>
            \/ lines' = Append(lines, Bad) /\ tail # <<>> /\ tail' = <<>>
         /\ lines' = lines => Entries' \in {Entries, lines, Append(lines, e)}
         /\ lines' # lines => Entries' = lines'
<1>1. lines \in Seq(EntrySet) /\ Bad \in EntrySet /\ Torn \in EntrySet
  BY JournalTyped DEF SessionTyped
<1>2. \A x \in EntrySet : Append(lines, x) # lines /\ lines \o <<x>> = Append(lines, x)
  <2> SUFFICES ASSUME NEW x \in EntrySet
               PROVE  Append(lines, x) # lines /\ lines \o <<x>> = Append(lines, x)
    OBVIOUS
  <2>1. Len(Append(lines, x)) = Len(lines) + 1 /\ Len(lines) \in Nat
    BY <1>1, AppendProperties, LenProperties
  <2>2. Append(lines, x) # lines
    BY <2>1
  <2>3. Append(lines, x) = lines \o <<x>>
    BY <1>1, AppendIsConcat
  <2>4. QED
    BY <2>2, <2>3
<1>3. CASE lines' = Append(lines, IF tail = <<>> THEN e ELSE Bad) /\ tail' = <<>>
  <2>1. lines' # lines
    BY <1>1, <1>2, <1>3
  <2>2. Entries' = lines'
    BY <1>3 DEF Entries
  <2>3. QED
    BY <1>3, <2>1, <2>2
<1>4. CASE UNCHANGED <<lines, tail>>
  BY <1>4 DEF Entries
<1>5. CASE lines' = lines /\ tail' = <<Torn>>
  <2>1. Entries' = lines'
    BY <1>5 DEF Entries
  <2>2. QED
    BY <1>5, <2>1
<1>6. CASE lines' = lines /\ tail' = <<e>>
  <2>1. Entries' \in {lines', lines' \o tail'}
    BY DEF Entries
  <2>2. Entries' \in {lines, Append(lines, e)}
    BY <1>2, <1>6, <2>1
  <2>3. QED
    BY <1>6, <2>2
<1>7. QED
  BY <1>3, <1>4, <1>5, <1>6 DEF Appended, LeftBehind

\* Appending leaves the lines before, and a spoiled journal stays spoiled.
LEMMA GrowFacts ==
  ASSUME NEW s \in Seq(EntrySet), NEW x \in EntrySet
  PROVE  /\ Len(s) \in Nat /\ DOMAIN s = 1..Len(s) /\ Append(s, x) \in Seq(EntrySet)
         /\ Len(Append(s, x)) = Len(s) + 1 /\ DOMAIN Append(s, x) = 1..(Len(s) + 1)
         /\ \A i \in 1..Len(s) : i \in DOMAIN Append(s, x) /\ Append(s, x)[i] = s[i]
         /\ Append(s, x)[Len(s) + 1] = x /\ Len(s) + 1 \in DOMAIN Append(s, x)
         /\ \A i \in DOMAIN Append(s, x) : i \in 1..Len(s) \/ i = Len(s) + 1
         /\ Range(Append(s, x)) = Range(s) \cup {x}
<1> PICK t : t = Append(s, x)
  OBVIOUS
<1>1. Len(s) \in Nat /\ DOMAIN s = 1..Len(s)
  BY LenProperties
<1>2. /\ t \in Seq(EntrySet) /\ Len(t) = Len(s) + 1 /\ t[Len(s) + 1] = x
      /\ \A i \in 1..Len(s) : t[i] = s[i]
  BY <1>1, AppendProperties
<1>3. DOMAIN t = 1..(Len(s) + 1)
  BY <1>2, LenProperties
<1>4. \A i \in DOMAIN t : i \in 1..Len(s) \/ i = Len(s) + 1
  BY <1>1, <1>3
<1>5. Len(s) + 1 \in DOMAIN t /\ \A i \in 1..Len(s) : i \in DOMAIN t
  BY <1>1, <1>3
<1>6. Range(t) = Range(s) \cup {x}
  BY <1>1, <1>2, <1>4, <1>5 DEF Range
<1>7. QED
  BY <1>1, <1>2, <1>3, <1>4, <1>5, <1>6

\* How the lines may change in a step.
LEMMA LinesStep ==
  ASSUME SessionInv, HistoryNext
  PROVE  \/ lines' = lines
         \/ /\ lines' = Append(lines, PendingEntry) /\ tail = <<>> /\ tail' = <<>>
            /\ Appending /\ PendingEntry \in EntrySet
         \/ lines' = Append(lines, Bad) /\ tail # <<>> /\ tail' = <<>> /\ ~Parses'
<1>0. SessionTyped /\ PhaseInv
  BY DEF SessionInv
<1>1. CASE lines' = lines
  BY <1>1
<1>2. CASE lines' # lines
  <2>1. Appending /\ (Appended(PendingEntry) \/ LeftBehind(PendingEntry))
    BY <1>2, JournalSteps
  <2>2. PendingEntry \in EntrySet
    BY <1>0, <2>1, PendingFacts
  <2>3. \/ lines' = Append(lines, PendingEntry) /\ tail = <<>> /\ tail' = <<>>
        \/ lines' = Append(lines, Bad) /\ tail # <<>> /\ tail' = <<>>
    BY <1>0, <1>2, <2>1, <2>2, WriteFacts
  <2>4. lines' = Append(lines, Bad) => ~Parses'
    <3>1. lines \in Seq(EntrySet) /\ Bad \in EntrySet
      BY <1>0, <2>2, JournalTyped DEF SessionTyped
    <3>2. Bad \in Range(Append(lines, Bad))
      BY <3>1, GrowFacts
    <3>3. QED
      BY <3>2 DEF Parses
  <2>5. QED
    BY <2>1, <2>2, <2>3, <2>4
<1>3. QED
  BY <1>1, <1>2

\* What is on a terminated line stays there.
LEMMA LinesStay ==
  ASSUME SessionInv, HistoryNext
  PROVE  \A i \in DOMAIN lines : i \in DOMAIN lines' /\ lines'[i] = lines[i]
<1>0. lines \in Seq(EntrySet) /\ Bad \in EntrySet
  BY DEF SessionInv, SessionTyped, Bad, Entry, EntrySet, Refs
<1>1. CASE lines' = lines
  BY <1>1
<1>2. CASE \E e \in EntrySet : lines' = Append(lines, e)
  BY <1>0, <1>2, GrowFacts
<1>3. QED
  BY <1>0, <1>1, <1>2, LinesStep

\* Lines stay where they are, so what was acknowledged at its line is still there.
LEMMA AcksStay ==
  ASSUME SessionInv, HistoryNext, acked' = acked
  PROVE  AckedAtItsLine'
<1>1. \A i \in DOMAIN lines : i \in DOMAIN lines' /\ lines'[i] = lines[i]
  BY LinesStay
<1>2. AckedAtItsLine
  BY DEF SessionInv, AckInv
<1>3. QED
  BY <1>1, <1>2 DEF AckedAtItsLine

\* An append that succeeds takes the id of the line it writes, unless it is astray.
LEMMA AckAppended ==
  ASSUME SessionInv, HistoryNext, Appended(PendingEntry), PendingEntry \in EntrySet, Running
  PROVE  AckInv'
<1>0. SessionTyped /\ AckInv /\ lines \in Seq(EntrySet) /\ slipped \in BOOLEAN
  BY DEF SessionInv, SessionTyped
<1>1. \A i \in DOMAIN lines : i \in DOMAIN lines' /\ lines'[i] = lines[i]
  BY LinesStay
<1> DEFINE new == [id |-> count, entry |-> PendingEntry, astray |-> slipped']
<1>2. /\ tail' = <<>> /\ count' = count + 1 /\ acked' = acked \cup {new}
      /\ slipped' = (slipped \/ tail # <<>>)
      /\ lines' = Append(lines, IF tail = <<>> THEN PendingEntry ELSE Bad)
  BY DEF Appended
<1>3. ASSUME ~slipped'
      PROVE  /\ count + 1 \in DOMAIN lines' /\ lines'[count + 1] = PendingEntry
             /\ count' = Len(Entries') /\ tail' # <<Torn>>
  <2>1. tail = <<>> /\ ~slipped
    BY <1>0, <1>2, <1>3
  <2>2. Entries = lines /\ Entries' = lines' /\ lines' = Append(lines, PendingEntry)
    BY <1>2, <2>1 DEF Entries
  <2>3. count = Len(lines)
    BY <1>0, <2>1, <2>2 DEF AckInv
  <2>4. /\ Len(lines) \in Nat /\ Len(lines') = Len(lines) + 1
        /\ lines'[Len(lines) + 1] = PendingEntry /\ Len(lines) + 1 \in DOMAIN lines'
    BY <1>0, <2>2, GrowFacts
  <2>5. QED
    BY <1>2, <2>2, <2>3, <2>4
<1>4. ASSUME NEW a \in acked', ~a.astray
      PROVE  a.id + 1 \in DOMAIN lines' /\ lines'[a.id + 1] = a.entry
  <2>1. CASE a \in acked
    <3>1. a.id + 1 \in DOMAIN lines /\ lines[a.id + 1] = a.entry
      BY <1>0, <1>4, <2>1 DEF AckInv, AckedAtItsLine
    <3>2. QED
      BY <1>1, <3>1
  <2>2. CASE a = new
    <3>1. a.id = count /\ a.entry = PendingEntry /\ ~slipped'
      BY <1>4, <2>2
    <3>2. QED
      BY <1>3, <3>1
  <2>3. QED
    BY <1>2, <2>1, <2>2
<1> HIDE DEF new
<1>5. QED
  BY <1>3, <1>4 DEF AckInv, AckedAtItsLine

\* Every step keeps the acknowledged entries at their lines.
LEMMA AckKept ==
  ASSUME SessionInv, HistoryNext
  PROVE  AckInv'
<1>0. SessionTyped /\ PhaseInv /\ AckInv
  BY DEF SessionInv
<1>1. ASSUME UserJournaled \/ AssistantJournaled \/ MarkJournaled \/ Reconciles
      PROVE  AckInv'
  <2>1. Appended(PendingEntry) /\ Appending
    BY <1>1 DEF UserJournaled, AssistantJournaled, MarkJournaled, Reconciles, PendingEntry, Appending
  <2>2. PendingEntry \in EntrySet
    BY <1>0, <2>1, PendingFacts
  <2>3. Running
    BY <1>1 DEF UserJournaled, AssistantJournaled, MarkJournaled, Reconciles, Running
  <2>4. QED
    BY <2>1, <2>2, <2>3, AckAppended
<1>2. ASSUME TurnAppendFails \/ MarkAppendFails \/ ReconcileFails
      PROVE  AckInv'
  <2>1. slipped' = TRUE /\ acked' = acked
    BY <1>2 DEF TurnAppendFails, MarkAppendFails, ReconcileFails, AppendFails
  <2>2. QED
    BY <2>1, AcksStay DEF AckInv
<1>3. ASSUME UNCHANGED <<lines, tail, count, acked, slipped>>, Running
      PROVE  AckInv'
  <2>1. Entries' = Entries
    BY <1>3 DEF Entries
  <2>2. QED
    BY <1>0, <1>3, <2>1, AcksStay DEF AckInv
<1>4. ASSUME Crashes
      PROVE  AckInv'
  <2>1. phase' = "stopped" /\ acked' = acked
    BY <1>4 DEF Crashes
  <2>2. QED
    BY <2>1, AcksStay DEF AckInv, Running
<1>5. ASSUME Resumes
      PROVE  AckInv'
  <2>1. UNCHANGED <<lines, tail, acked>>
    BY <1>5 DEF Resumes
  <2>2. Entries' = Entries
    BY <2>1 DEF Entries
  <2>3. phase' = "refused" \/ (count' = Len(Entries) /\ tail # <<Torn>>)
    BY <1>5 DEF Resumes
  <2>4. QED
    BY <2>1, <2>2, <2>3, AcksStay DEF AckInv, Running
<1>6. ASSUME NEW verb \in {"checkpoint", "rollback"}, NEW k \in 1..MaxMarks, MarkBegins(verb, k)
      PROVE  AckInv'
  <2>0. Running /\ acked' = acked /\ ReadAll
    BY <1>6 DEF MarkBegins, Running
  <2>1. CASE tail = <<Torn>>
    <3>1. tail' = <<>> /\ count' = Len(lines) /\ lines' = lines
      BY <2>0, <2>1 DEF ReadAll
    <3>2. count' = Len(Entries') /\ tail' # <<Torn>>
      BY <3>1 DEF Entries
    <3>3. QED
      BY <2>0, <3>2, AcksStay DEF AckInv
  <2>2. CASE tail # <<Torn>>
    BY <1>3, <2>0, <2>2 DEF ReadAll
  <2>3. QED
    BY <2>1, <2>2
<1>7. TurnAnswers \/ TurnRefused \/ StdoutFails \/ Quits \/ Resumed \/ CompactBegins
        => UNCHANGED <<lines, tail, count, acked, slipped>> /\ Running
  BY DEF TurnAnswers, TurnRefused, StdoutFails, Quits, Resumed, CompactBegins, Running
<1>8. ReceiptPersisted \/ NextRound \/ (\E streamed \in BOOLEAN : TurnBegins(streamed))
        => UNCHANGED <<lines, tail, count, acked, slipped>> /\ Running
  BY DEF ReceiptPersisted, NextRound, TurnBegins, Running
<1>9. QED
  BY <1>1, <1>2, <1>3, <1>4, <1>5, <1>6, <1>7, <1>8 DEF HistoryNext

\* A new receipt at the end of the chain.
LEMMA ChainGrows ==
  ASSUME SessionTyped, ChainInv, NEW c \in Refs, chain' = Append(chain, c), ~Earlier(c),
         Earlier(c)', \A d \in Refs : Earlier(d) => Earlier(d)'
  PROVE  ChainInv' /\ c \notin Range(chain) /\ Range(chain') = Range(chain) \cup {c}
<1>0. chain \in Seq(Refs)
  BY DEF SessionTyped
<1>1. /\ Len(chain) \in Nat /\ DOMAIN chain = 1..Len(chain) /\ DOMAIN chain' = 1..(Len(chain) + 1)
      /\ \A i \in 1..Len(chain) : chain'[i] = chain[i]
      /\ chain'[Len(chain) + 1] = c
  BY <1>0, AppendProperties, LenProperties
<1>2. \A i \in DOMAIN chain' : i \in DOMAIN chain \/ i = Len(chain) + 1
  BY <1>1
<1>3. \A i \in DOMAIN chain : chain[i] \in Refs /\ Earlier(chain[i]) /\ chain[i] # c
  BY <1>0, <1>1, ElementOfSeq DEF ChainInv
<1>4. (\A i \in DOMAIN chain : Earlier(chain[i]))'
  <2>1. \A i \in DOMAIN chain' : \E d \in Refs : chain'[i] = d /\ Earlier(d)'
    BY <1>1, <1>2, <1>3
  <2>2. QED
    BY <2>1 DEF Earlier
<1>5. \A i, j \in DOMAIN chain' : i # j => chain'[i] # chain'[j]
  BY <1>1, <1>2, <1>3 DEF ChainInv
<1>6. Range(chain') = Range(chain) \cup {c}
  <2>1. Len(chain) + 1 \in DOMAIN chain' /\ \A i \in DOMAIN chain : i \in DOMAIN chain'
    BY <1>1
  <2>2. QED
    BY <1>1, <1>2, <2>1 DEF Range
<1>7. c \notin Range(chain)
  BY <1>3 DEF Range
<1>8. QED
  BY <1>4, <1>5, <1>6, <1>7 DEF ChainInv

\* Every step keeps the chain's receipts apart, and the chain only grows.
LEMMA ChainKept ==
  ASSUME SessionInv, HistoryNext
  PROVE  /\ ChainInv' /\ Range(chain) \subseteq Range(chain')
         /\ ReceiptPersisted => Pending \notin Range(chain) /\ Pending \in Range(chain')
<1>0. SessionTyped /\ PhaseInv /\ ChainInv
  BY DEF SessionInv
<1>1. /\ turn.n \in Nat /\ turn.r \in Nat /\ marks \in Nat
  BY <1>0, HistoryAssumption DEF SessionTyped
<1>2. ASSUME chain' = chain, \A d \in Refs : Earlier(d) => Earlier(d)'
      PROVE  ChainInv' /\ Range(chain) \subseteq Range(chain')
  <2>1. \A i \in DOMAIN chain : chain[i] \in Refs
    BY <1>0, ElementOfSeq, LenProperties DEF SessionTyped
  <2>2. \A i \in DOMAIN chain : Earlier(chain[i])'
    <3> SUFFICES ASSUME NEW i \in DOMAIN chain
                 PROVE  Earlier(chain[i])'
      OBVIOUS
    <3>1. PICK d : d = chain[i]
      OBVIOUS
    <3>2. Earlier(d)'
      BY <1>0, <1>2, <2>1, <3>1 DEF ChainInv
    <3>3. QED
      BY <1>2, <3>1, <3>2
  <2>3. QED
    BY <1>0, <1>2, <2>2 DEF ChainInv
<1>3. ASSUME turn' = turn, marks' = marks,
             phase' \in {"receipt", "round"} => phase \in {"receipt", "round"}
      PROVE  \A d \in Refs : Earlier(d) => Earlier(d)'
  BY <1>3 DEF Earlier
<1>4. ASSUME NEW streamed \in BOOLEAN, TurnBegins(streamed)
      PROVE  ChainInv' /\ Range(chain) \subseteq Range(chain')
  <2>1. chain' = chain /\ turn'.n = turn.n + 1 /\ marks' = marks
    BY <1>4 DEF TurnBegins
  <2>2. ASSUME NEW d \in Refs, Earlier(d)
        PROVE  Earlier(d)'
    BY <1>1, <2>1, <2>2 DEF Earlier
  <2>3. QED
    BY <1>2, <2>1, <2>2
<1>5. ASSUME ReceiptPersisted
      PROVE  /\ ChainInv' /\ Range(chain) \subseteq Range(chain')
             /\ Pending \notin Range(chain) /\ Pending \in Range(chain')
  <2>1. chain' = Append(chain, Pending) /\ phase = "receipt" /\ turn' = turn /\ marks' = marks
    BY <1>5 DEF ReceiptPersisted, Pending
  <2>2. phase' \in {"user", "assistant"}
    BY <1>5 DEF ReceiptPersisted
  <2>3. Pending \in Refs /\ Pending = Receipt(turn.n, turn.r + 1) /\ turn.r + 1 \in Nat
    BY <1>1 DEF Pending, Receipt, Refs
  <2>4. ~Earlier(Pending)
    BY <1>1, <2>1, <2>3 DEF Earlier, Receipt, Control
  <2>5. PICK c : c = Pending
    OBVIOUS
  <2>6. Earlier(c)'
    BY <1>1, <2>1, <2>2, <2>3, <2>5 DEF Earlier
  <2>7. \A d \in Refs : Earlier(d) => Earlier(d)'
    BY <1>3, <2>1, <2>2
  <2>8. QED
    BY <1>0, <2>1, <2>3, <2>4, <2>5, <2>6, <2>7, ChainGrows
<1>6. ASSUME NEW k \in {marks + 1}, chain' = Append(chain, Control(k)), marks' = k, turn' = turn,
             phase' = "mark"
      PROVE  ChainInv' /\ Range(chain) \subseteq Range(chain')
  <2>1. Control(k) \in Refs /\ k \in Nat
    BY <1>1 DEF Control, Refs
  <2>2. ~Earlier(Control(k))
    BY <1>1 DEF Earlier, Control, Receipt
  <2>3. Earlier(Control(k))'
    BY <1>1, <1>6, <2>1 DEF Earlier
  <2>4. \A d \in Refs : Earlier(d) => Earlier(d)'
    <3> SUFFICES ASSUME NEW d \in Refs, Earlier(d)
                 PROVE  Earlier(d)'
      OBVIOUS
    <3>1. marks <= marks'
      BY <1>1, <1>6
    <3>2. CASE \E j \in Nat : j <= marks /\ d = Control(j)
      <4>1. PICK j \in Nat : j <= marks /\ d = Control(j)
        BY <3>2
      <4>2. j <= marks'
        BY <1>1, <1>6, <4>1
      <4>3. QED
        BY <4>1, <4>2 DEF Earlier
    <3>3. CASE \E n \in Nat : \E r \in Nat :
                 d = Receipt(n, r) /\ (n < turn.n \/ (n = turn.n /\ r <= turn.r + 1))
      BY <1>6, <3>3 DEF Earlier
    <3>4. QED
      BY <3>2, <3>3 DEF Earlier
  <2>5. QED
    BY <1>0, <1>6, <2>1, <2>2, <2>3, <2>4, ChainGrows
<1>7. ASSUME AssistantJournaled
      PROVE  ChainInv' /\ Range(chain) \subseteq Range(chain')
  <2>1. chain' = chain /\ turn' = [turn EXCEPT !.r = turn.r + 1] /\ marks' = marks /\ phase = "assistant"
    BY <1>7 DEF AssistantJournaled
  <2>2. turn'.n = turn.n /\ turn'.r = turn.r + 1
    BY <1>0, <2>1 DEF SessionTyped
  <2>3. ASSUME NEW d \in Refs, Earlier(d)
        PROVE  Earlier(d)'
    BY <1>1, <2>1, <2>2, <2>3 DEF Earlier
  <2>4. QED
    BY <1>2, <2>1, <2>3
<1>8. ASSUME NEW verb \in {"checkpoint", "rollback"}, NEW k \in 1..MaxMarks, MarkBegins(verb, k)
      PROVE  ChainInv' /\ Range(chain) \subseteq Range(chain')
  BY <1>6, <1>8 DEF MarkBegins
<1>9. ASSUME CompactBegins
      PROVE  ChainInv' /\ Range(chain) \subseteq Range(chain')
  BY <1>6, <1>9 DEF CompactBegins
<1>10. ASSUME NextRound \/ UserJournaled
       PROVE  ChainInv' /\ Range(chain) \subseteq Range(chain')
  <2>1. /\ chain' = chain /\ turn' = turn /\ marks' = marks
        /\ phase' \in {"receipt", "round"} => phase \in {"receipt", "round"}
    BY <1>10 DEF NextRound, UserJournaled
  <2>2. QED
    BY <1>2, <1>3, <2>1
<1>11. TurnAnswers \/ TurnRefused \/ TurnAppendFails =>
         chain' = chain /\ turn' = turn /\ marks' = marks /\ phase' \notin {"receipt", "round"}
  BY DEF TurnAnswers, TurnRefused, TurnAppendFails, TurnOver
<1>12. StdoutFails \/ MarkJournaled \/ MarkAppendFails \/ Resumed \/ Quits \/ Crashes =>
         chain' = chain /\ turn' = turn /\ marks' = marks /\ phase' \notin {"receipt", "round"}
  BY DEF StdoutFails, MarkJournaled, MarkAppendFails, Resumed, Quits, Crashes
<1>13. ReconcileFails \/ Resumes \/ Reconciles =>
         chain' = chain /\ turn' = turn /\ marks' = marks /\ phase' \notin {"receipt", "round"}
  BY DEF ReconcileFails, Resumes, Reconciles
<1>14. ASSUME chain' = chain /\ turn' = turn /\ marks' = marks /\ phase' \notin {"receipt", "round"}
       PROVE  ChainInv' /\ Range(chain) \subseteq Range(chain')
  BY <1>2, <1>3, <1>14
<1>15. ChainInv' /\ Range(chain) \subseteq Range(chain')
  BY <1>4, <1>5, <1>7, <1>8, <1>9, <1>10, <1>11, <1>12, <1>13, <1>14 DEF HistoryNext
<1>16. QED
  BY <1>5, <1>15

\* Which step leads into a phase.
LEMMA PhaseAfter ==
  ASSUME HistoryNext
  PROVE  /\ phase' \in {"user", "assistant"} => ReceiptPersisted \/ UserJournaled
         /\ phase' = "reconcile" => Resumes \/ Reconciles
         /\ phase' = "mark" =>
              \/ CompactBegins
              \/ \E verb \in {"checkpoint", "rollback"} : \E k \in 1..MaxMarks : MarkBegins(verb, k)
         /\ phase' \in {"receipt", "round"} =>
              AssistantJournaled \/ NextRound \/ \E streamed \in BOOLEAN : TurnBegins(streamed)
<1>1. TurnAnswers \/ TurnRefused \/ TurnAppendFails => phase' = "chat"
  BY DEF TurnAnswers, TurnRefused, TurnAppendFails, TurnOver
<1>2. StdoutFails \/ MarkJournaled \/ MarkAppendFails \/ Resumed => phase' = "chat"
  BY DEF StdoutFails, MarkJournaled, MarkAppendFails, Resumed
<1>3. Quits \/ Crashes \/ ReconcileFails => phase' = "stopped"
  BY DEF Quits, Crashes, ReconcileFails
<1>4. Resumes \/ Reconciles => phase' \in {"reconcile", "refused"}
  BY DEF Resumes, Reconciles
<1>5. CompactBegins \/ (\E verb \in {"checkpoint", "rollback"} : \E k \in 1..MaxMarks : MarkBegins(verb, k))
        => phase' = "mark"
  BY DEF CompactBegins, MarkBegins
<1>6. AssistantJournaled \/ NextRound \/ (\E streamed \in BOOLEAN : TurnBegins(streamed))
        => phase' \in {"round", "receipt"}
  BY DEF AssistantJournaled, NextRound, TurnBegins
<1>7. ReceiptPersisted \/ UserJournaled => phase' \in {"user", "assistant"}
  BY DEF ReceiptPersisted, UserJournaled
<1>8. QED
  BY <1>1, <1>2, <1>3, <1>4, <1>5, <1>6, <1>7 DEF HistoryNext

\* What stands for a receipt after a line is added.
LEMMA RecordedGrows ==
  ASSUME lines \in Seq(EntrySet), NEW x \in EntrySet, lines' = Append(lines, x)
  PROVE  \A c : Recorded(c)' <=> Recorded(c) \/ (x.kind \in Vouching /\ x.ref = c)
<1>1. /\ DOMAIN lines = 1..Len(lines) /\ Len(lines) + 1 \in DOMAIN lines'
      /\ \A i \in DOMAIN lines : i \in DOMAIN lines' /\ lines'[i] = lines[i]
      /\ lines'[Len(lines) + 1] = x
      /\ \A i \in DOMAIN lines' : i \in DOMAIN lines \/ i = Len(lines) + 1
  BY GrowFacts
<1>2. QED
  BY <1>1 DEF Recorded

\* Lines that stand for different receipts, when one is added.
LEMMA RecordGrows ==
  ASSUME SessionTyped, RecordInv, NEW x \in EntrySet, lines' = Append(lines, x),
         Range(chain) \subseteq Range(chain'),
         x.kind \in Vouching => x.ref \in Range(chain) /\ ~Recorded(x.ref)
  PROVE  /\ \A i \in DOMAIN lines' : lines'[i].kind \in Vouching => lines'[i].ref \in Range(chain')
         /\ \A i, j \in DOMAIN lines' :
              /\ i # j /\ lines'[i].kind \in Vouching /\ lines'[j].kind \in Vouching
              => lines'[i].ref # lines'[j].ref
<1>0. lines \in Seq(EntrySet)
  BY DEF SessionTyped
<1>1. /\ DOMAIN lines = 1..Len(lines) /\ Len(lines) + 1 \in DOMAIN lines'
      /\ \A i \in DOMAIN lines : i \in DOMAIN lines' /\ lines'[i] = lines[i]
      /\ lines'[Len(lines) + 1] = x
      /\ \A i \in DOMAIN lines' : i \in DOMAIN lines \/ i = Len(lines) + 1
  BY <1>0, GrowFacts
<1>2. /\ \A i \in DOMAIN lines : lines[i].kind \in Vouching => lines[i].ref \in Range(chain)
      /\ \A i, j \in DOMAIN lines :
           /\ i # j /\ lines[i].kind \in Vouching /\ lines[j].kind \in Vouching
           => lines[i].ref # lines[j].ref
  BY DEF RecordInv
<1>3. x.kind \in Vouching => \A i \in DOMAIN lines : lines[i].kind \in Vouching => lines[i].ref # x.ref
  BY DEF Recorded
<1>4. \A i \in DOMAIN lines' : lines'[i].kind \in Vouching => lines'[i].ref \in Range(chain')
  BY <1>1, <1>2
<1>5. \A i, j \in DOMAIN lines' :
        /\ i # j /\ lines'[i].kind \in Vouching /\ lines'[j].kind \in Vouching
        => lines'[i].ref # lines'[j].ref
  <2> SUFFICES ASSUME NEW i \in DOMAIN lines', NEW j \in DOMAIN lines', i # j,
                      lines'[i].kind \in Vouching, lines'[j].kind \in Vouching
               PROVE  lines'[i].ref # lines'[j].ref
    OBVIOUS
  <2>1. CASE i \in DOMAIN lines /\ j \in DOMAIN lines
    BY <1>1, <1>2, <2>1
  <2>2. CASE i \in DOMAIN lines /\ j = Len(lines) + 1
    BY <1>1, <1>3, <2>2
  <2>3. CASE j \in DOMAIN lines /\ i = Len(lines) + 1
    BY <1>1, <1>3, <2>3
  <2>4. QED
    BY <1>1, <2>1, <2>2, <2>3
<1>6. QED
  BY <1>4, <1>5

\* Every step leaves at most one line for a receipt.
LEMMA RecordKept ==
  ASSUME SessionInv, HistoryNext
  PROVE  RecordInv'
<1>0. SessionTyped /\ PhaseInv /\ ChainInv /\ RecordInv /\ lines \in Seq(EntrySet)
  BY DEF SessionInv, SessionTyped
<1>1. Range(chain) \subseteq Range(chain')
  BY ChainKept
<1>2. /\ Bad \in EntrySet /\ Bad.kind \notin Vouching
  BY DEF Bad, Entry, EntrySet, Refs, Vouching
<1>3. ASSUME Appending
      PROVE  /\ PendingEntry \in EntrySet
             /\ PendingEntry.kind \in Vouching =>
                  PendingEntry.ref \in Range(chain) /\ ~Recorded(PendingEntry.ref)
  <2>1. PendingEntry \in EntrySet
    BY <1>0, <1>3, PendingFacts
  <2>2. CASE phase = "user"
    <3>1. PendingEntry = Entry("user", Receipt(turn.n, 0))
      BY <1>0, <1>3, <2>2, PendingFacts
    <3>2. PendingEntry.kind \notin Vouching
      BY <3>1 DEF Entry, Vouching
    <3>3. QED
      BY <2>1, <3>2
  <2>3. CASE phase = "assistant"
    <3>1. PendingEntry = Entry("assistant", Pending)
      BY <1>0, <1>3, <2>3, PendingFacts
    <3>2. PendingEntry.ref = Pending
      BY <3>1 DEF Entry
    <3>3. QED
      BY <1>0, <2>1, <2>3, <3>2 DEF RecordInv
  <2>4. CASE phase = "mark"
    <3>1. PendingEntry.kind \in {"checkpoint", "rollback"}
      BY <1>0, <1>3, <2>4, PendingFacts
    <3>2. QED
      BY <2>1, <3>1 DEF Vouching
  <2>5. CASE phase = "reconcile"
    <3>1. orphans # <<>> /\ PendingEntry = Entry("recovered", Head(orphans))
      BY <1>0, <1>3, <2>5, PendingFacts
    <3>2. PendingEntry.ref = Head(orphans)
      BY <3>1 DEF Entry
    <3>3. 1 \in DOMAIN orphans /\ Head(orphans) = orphans[1]
      BY <1>0, <3>1 DEF SessionTyped
    <3>4. QED
      BY <1>0, <2>1, <2>5, <3>2, <3>3 DEF RecordInv
  <2>6. QED
    BY <1>3, <2>2, <2>3, <2>4, <2>5 DEF Appending
<1>4. /\ \A i \in DOMAIN lines' : lines'[i].kind \in Vouching => lines'[i].ref \in Range(chain')
      /\ \A i, j \in DOMAIN lines' :
           /\ i # j /\ lines'[i].kind \in Vouching /\ lines'[j].kind \in Vouching
           => lines'[i].ref # lines'[j].ref
  <2>1. CASE lines' = lines
    BY <1>0, <1>1, <2>1 DEF RecordInv
  <2>2. CASE lines' = Append(lines, Bad)
    BY <1>0, <1>1, <1>2, <2>2, RecordGrows
  <2>3. CASE lines' = Append(lines, PendingEntry) /\ Appending
    BY <1>0, <1>1, <1>3, <2>3, RecordGrows
  <2>4. QED
    BY <2>1, <2>2, <2>3, LinesStep
<1>5. ASSUME phase' \in {"user", "assistant"}
      PROVE  Pending' \in Range(chain') /\ ~Recorded(Pending)'
  <2>1. CASE ReceiptPersisted
    <3>1. lines' = lines /\ turn' = turn
      BY <2>1 DEF ReceiptPersisted
    <3>2. Pending' = Pending /\ Pending \notin Range(chain) /\ Pending \in Range(chain')
      BY <2>1, <3>1, ChainKept DEF Pending
    <3>3. ~Recorded(Pending)
      BY <1>0, <3>2 DEF Recorded, RecordInv
    <3>4. ~Recorded(Pending)'
      BY <3>1, <3>2, <3>3 DEF Recorded
    <3>5. QED
      BY <3>2, <3>4
  <2>2. CASE UserJournaled
    <3>1. /\ Appended(Entry("user", Receipt(turn.n, 0))) /\ turn' = turn /\ phase = "user"
      BY <2>2 DEF UserJournaled
    <3>2. Appending /\ PendingEntry = Entry("user", Receipt(turn.n, 0))
      BY <3>1 DEF Appending, PendingEntry
    <3>3. PICK x \in EntrySet : lines' = Append(lines, x) /\ x.kind \notin Vouching
      <4>1. PendingEntry \in EntrySet /\ PendingEntry.kind \notin Vouching
        BY <1>3, <3>2 DEF Entry, Vouching
      <4>2. QED
        BY <1>2, <3>1, <3>2, <4>1 DEF Appended
    <3>4. Pending' = Pending /\ Pending \in Range(chain) /\ ~Recorded(Pending)
      BY <1>0, <3>1 DEF Pending, RecordInv
    <3>5. PICK c : c = Pending
      OBVIOUS
    <3>6. ~Recorded(c)'
      BY <1>0, <3>3, <3>4, <3>5, RecordedGrows
    <3>7. ~Recorded(Pending)'
      BY <3>4, <3>5, <3>6 DEF Recorded
    <3>8. QED
      BY <1>1, <3>4, <3>7
  <2>3. QED
    BY <1>5, <2>1, <2>2, PhaseAfter
<1>6. ASSUME phase' = "reconcile"
      PROVE  /\ \A i, j \in DOMAIN orphans' : i # j => orphans'[i] # orphans'[j]
             /\ (\A i \in DOMAIN orphans : orphans[i] \in Range(chain) /\ ~Recorded(orphans[i]))'
  <2>1. CASE Resumes
    <3>1. orphans' = OrphanReceipts /\ lines' = lines /\ chain' = chain
      BY <1>6, <2>1 DEF Resumes
    <3>2. /\ \A i \in DOMAIN OrphanReceipts :
               OrphanReceipts[i] \in Range(chain) /\ ~Vouched(OrphanReceipts[i])
          /\ \A i, j \in DOMAIN OrphanReceipts : i # j => OrphanReceipts[i] # OrphanReceipts[j]
      BY <1>0, OrphanFacts DEF ChainInv
    <3>3. \A c : Recorded(c) => Vouched(c)
      <4>1. \A i \in DOMAIN lines : lines[i] \in Range(Entries)
        <5>1. CASE Entries = lines
          BY <5>1 DEF Range
        <5>2. CASE Entries = lines \o tail /\ Entries # lines
          <6>1. PICK e \in EntrySet : tail = <<e>>
            BY <1>0, <5>2 DEF SessionTyped, Entries
          <6>2. Entries = Append(lines, e)
            BY <1>0, <5>2, <6>1, AppendIsConcat
          <6>3. QED
            BY <1>0, <6>2, GrowFacts DEF Range
        <5>3. QED
          BY <5>1, <5>2 DEF Entries
      <4>2. QED
        BY <4>1 DEF Recorded, Vouched, Vouching
    <3>4. \A i \in DOMAIN OrphanReceipts : OrphanReceipts[i] \in Range(chain) /\ ~Recorded(OrphanReceipts[i])
      BY <3>2, <3>3
    <3>5. QED
      BY <3>1, <3>2, <3>4 DEF Recorded
  <2>2. CASE Reconciles
    <3>1. /\ phase = "reconcile" /\ orphans # <<>> /\ Appended(PendingEntry) /\ orphans' = Tail(orphans)
          /\ chain' = chain /\ Appending
      BY <2>2 DEF Reconciles, Appending
    <3>2. PICK x \in EntrySet : lines' = Append(lines, x) /\ x \in {PendingEntry, Bad}
      BY <1>2, <1>3, <3>1 DEF Appended
    <3>3. PendingEntry = Entry("recovered", Head(orphans))
      BY <1>0, <3>1, PendingFacts
    <3>4. x.kind \in Vouching => x.ref = orphans[1]
      <4>1. PendingEntry.ref = orphans[1]
        BY <1>0, <3>1, <3>3 DEF Entry, SessionTyped
      <4>2. QED
        BY <1>2, <3>2, <4>1
    <3>5. /\ \A i \in DOMAIN orphans' : i + 1 \in DOMAIN orphans /\ orphans'[i] = orphans[i + 1] /\ i + 1 # 1
          /\ 1 \in DOMAIN orphans
      BY <1>0, <3>1, HeadTailProperties, LenProperties DEF SessionTyped
    <3>6. /\ \A i, j \in DOMAIN orphans : i # j => orphans[i] # orphans[j]
          /\ \A i \in DOMAIN orphans : orphans[i] \in Range(chain) /\ ~Recorded(orphans[i])
      BY <1>0, <3>1 DEF RecordInv
    <3>7. \A c : Recorded(c)' <=> Recorded(c) \/ (x.kind \in Vouching /\ x.ref = c)
      BY <1>0, <3>2, RecordedGrows
    <3>8. \A i \in DOMAIN orphans' : i \in Nat
      BY <1>0, <3>1, HeadTailProperties, LenProperties DEF SessionTyped
    <3>9. \A i, j \in DOMAIN orphans' : i # j => orphans'[i] # orphans'[j]
      BY <3>5, <3>6, <3>8
    <3>10. \A i \in DOMAIN orphans' : \E c : orphans'[i] = c /\ c \in Range(chain) /\ ~Recorded(c)'
      BY <3>4, <3>5, <3>6, <3>7
    <3>11. (\A i \in DOMAIN orphans : orphans[i] \in Range(chain) /\ ~Recorded(orphans[i]))'
      BY <3>1, <3>10 DEF Recorded
    <3>12. QED
      BY <3>9, <3>11
  <2>3. QED
    BY <1>6, <2>1, <2>2, PhaseAfter
<1>7. QED
  BY <1>4, <1>5, <1>6 DEF RecordInv

\* A turn that had begun has.
LEMMA BegunStays ==
  ASSUME SessionInv, HistoryNext, NEW n \in Nat, Begun(n)
  PROVE  Begun(n)'
<1>0. SessionTyped /\ PhaseInv
  BY DEF SessionInv
<1>1. turn.n \in Nat /\ turn.r \in Nat
  BY <1>0, HistoryAssumption DEF SessionTyped
<1>2. CASE \E streamed \in BOOLEAN : TurnBegins(streamed)
  <2>1. turn'.n = turn.n + 1
    BY <1>2 DEF TurnBegins
  <2>2. QED
    BY <1>1, <2>1 DEF Begun
<1>3. CASE AssistantJournaled
  <2>1. turn' = [turn EXCEPT !.r = turn.r + 1] /\ phase' = "round"
    BY <1>3 DEF AssistantJournaled
  <2>2. turn'.n = turn.n
    BY <1>0, <2>1 DEF SessionTyped
  <2>3. QED
    BY <2>1, <2>2 DEF Begun
<1>4. CASE ReceiptPersisted
  <2>1. turn' = turn /\ phase = "receipt" /\ (phase' = "user" => turn.r = 0) /\ phase' # "receipt"
    BY <1>4 DEF ReceiptPersisted
  <2>2. QED
    BY <2>1 DEF Begun
<1>5. CASE NextRound
  <2>1. turn' = turn /\ turn.r > 0 /\ phase' = "receipt"
    BY <1>0, <1>5 DEF NextRound, PhaseInv
  <2>2. QED
    BY <1>1, <2>1 DEF Begun
<1>6. CASE phase' \notin {"user", "receipt"} /\ turn' = turn
  BY <1>6 DEF Begun
<1>7. UserJournaled => phase' = "assistant" /\ turn' = turn
  BY DEF UserJournaled
<1>8. TurnAnswers \/ TurnRefused \/ TurnAppendFails => turn' = turn
  BY DEF TurnAnswers, TurnRefused, TurnAppendFails, TurnOver
<1>9. StdoutFails \/ MarkJournaled \/ MarkAppendFails \/ Resumed \/ Quits \/ Crashes => turn' = turn
  BY DEF StdoutFails, MarkJournaled, MarkAppendFails, Resumed, Quits, Crashes
<1>10. ReconcileFails \/ Resumes \/ Reconciles \/ CompactBegins => turn' = turn
  BY DEF ReconcileFails, Resumes, Reconciles, CompactBegins
<1>11. (\E verb \in {"checkpoint", "rollback"} : \E k \in 1..MaxMarks : MarkBegins(verb, k)) => turn' = turn
  BY DEF MarkBegins
<1>12. CASE turn' = turn /\ phase' \in {"user", "receipt"}
  BY <1>2, <1>3, <1>4, <1>5, <1>7, <1>12, PhaseAfter
<1>13. QED
  BY <1>2, <1>3, <1>4, <1>5, <1>6, <1>7, <1>8, <1>9, <1>10, <1>11, <1>12 DEF HistoryNext

\* Every step keeps the users' messages in their turns.
LEMMA UserKept ==
  ASSUME SessionInv, HistoryNext
  PROVE  UserInv'
<1>0. SessionTyped /\ PhaseInv /\ UserInv /\ lines \in Seq(EntrySet)
  BY DEF SessionInv, SessionTyped
<1>1. turn.n \in Nat /\ turn.r \in Nat
  BY <1>0, HistoryAssumption DEF SessionTyped
<1>2. \A i \in DOMAIN lines : lines[i].kind = "user" =>
        \E n \in Nat : lines[i].ref = Receipt(n, 0) /\ Begun(n)'
  BY <1>0, BegunStays DEF UserInv
<1>3. CASE lines' = lines
  BY <1>2, <1>3 DEF UserInv
<1>4. ASSUME NEW x \in EntrySet, lines' = Append(lines, x),
             x.kind = "user" => \E n \in Nat : x.ref = Receipt(n, 0) /\ Begun(n)'
      PROVE  UserInv'
  <2>1. /\ \A i \in DOMAIN lines : lines'[i] = lines[i]
        /\ lines'[Len(lines) + 1] = x
        /\ \A i \in DOMAIN lines' : i \in DOMAIN lines \/ i = Len(lines) + 1
    BY <1>0, <1>4, GrowFacts
  <2>2. \A i \in DOMAIN lines' : lines'[i].kind = "user" =>
          \E n \in Nat : lines'[i].ref = Receipt(n, 0) /\ Begun(n)'
    BY <1>2, <1>4, <2>1
  <2>3. QED
    BY <2>2 DEF UserInv
<1>5. CASE lines' = Append(lines, Bad)
  <2>1. Bad \in EntrySet /\ Bad.kind # "user"
    BY DEF Bad, Entry, EntrySet, Refs
  <2>2. QED
    BY <1>4, <1>5, <2>1
<1>6. CASE lines' = Append(lines, PendingEntry) /\ Appending /\ PendingEntry \in EntrySet
  <2>1. ASSUME PendingEntry.kind = "user"
        PROVE  \E n \in Nat : PendingEntry.ref = Receipt(n, 0) /\ Begun(n)'
    <3>1. phase = "user" /\ PendingEntry = Entry("user", Receipt(turn.n, 0))
      <4>1. phase = "assistant" => PendingEntry = Entry("assistant", Pending)
        BY <1>0, <1>6, PendingFacts
      <4>2. phase = "mark" => PendingEntry.kind \in {"checkpoint", "rollback"}
        BY <1>0, <1>6, PendingFacts
      <4>3. phase = "reconcile" => PendingEntry = Entry("recovered", Head(orphans))
        BY <1>0, <1>6, PendingFacts
      <4>4. phase = "user" => PendingEntry = Entry("user", Receipt(turn.n, 0))
        BY <1>0, <1>6, PendingFacts
      <4>5. QED
        BY <1>6, <2>1, <4>1, <4>2, <4>3, <4>4 DEF Appending, Entry
    <3>2. turn' = turn /\ phase' \notin {"user", "receipt"}
      <4>1. lines' # lines
        BY <1>0, <1>6, GrowFacts
      <4>2. UserJournaled \/ TurnAppendFails \/ Crashes
        BY <3>1, <4>1 DEF HistoryNext, TurnBegins, ReceiptPersisted, AssistantJournaled, NextRound,
           TurnAnswers, TurnRefused, StdoutFails, MarkBegins, CompactBegins, MarkJournaled,
           MarkAppendFails, Quits, Resumes, Reconciles, ReconcileFails, Resumed
      <4>3. QED
        BY <4>2 DEF UserJournaled, TurnAppendFails, TurnOver, Crashes
    <3>3. PendingEntry.ref = Receipt(turn.n, 0)
      BY <3>1 DEF Entry
    <3>4. PICK n \in Nat : n = turn.n
      BY <1>1
    <3>5. Begun(n)'
      BY <1>1, <3>2, <3>4 DEF Begun
    <3>6. QED
      BY <3>3, <3>4, <3>5
  <2>2. QED
    BY <1>4, <1>6, <2>1
<1>7. QED
  BY <1>3, <1>5, <1>6, LinesStep

\* An append to a whole journal leaves it whole.
LEMMA WholeAppended ==
  ASSUME SessionTyped, PhaseInv, Appending, Appended(PendingEntry), Parses, tail = <<>>
  PROVE  /\ Parses' /\ tail' = <<>> /\ Entries = lines /\ Entries' = Append(Entries, PendingEntry)
         /\ PendingEntry \in EntrySet
<1>0. lines \in Seq(EntrySet)
  BY DEF SessionTyped
<1>1. lines' = Append(lines, PendingEntry) /\ tail' = <<>>
  BY DEF Appended
<1>2. PendingEntry \in EntrySet /\ PendingEntry.kind \in Messages \cup {"checkpoint", "rollback"}
  BY PendingFacts
<1>3. PendingEntry # Bad
  BY <1>2 DEF Bad, Entry, Messages
<1>4. Range(lines') = Range(lines) \cup {PendingEntry}
  BY <1>0, <1>1, <1>2, GrowFacts
<1>5. Parses'
  BY <1>3, <1>4 DEF Parses
<1>6. Entries = lines /\ Entries' = lines'
  BY <1>1 DEF Entries
<1>7. QED
  BY <1>1, <1>2, <1>5, <1>6

\* Every step leaves the journal whole, short of the named causes.
LEMMA CleanKept ==
  ASSUME SessionInv, HistoryNext
  PROVE  CleanInv'
<1> SUFFICES ASSUME Running', drift' \cap {"failed", "unterminated"} = {}
             PROVE  Parses' /\ tail' = <<>>
  BY DEF CleanInv
<1>0. SessionTyped /\ PhaseInv /\ CleanInv
  BY DEF SessionInv
<1>1. CASE Resumes
  <2>1. lines' = lines /\ tail' = tail /\ Parses /\ tail = <<>>
    BY <1>1 DEF Resumes, Running
  <2>2. QED
    BY <2>1 DEF Parses
<1>2. ASSUME Running, drift \cap {"failed", "unterminated"} = {}, UNCHANGED <<lines, tail>>
      PROVE  Parses' /\ tail' = <<>>
  BY <1>0, <1>2 DEF CleanInv, Parses
<1>3. ASSUME Running, drift \cap {"failed", "unterminated"} = {}, Appended(PendingEntry), Appending
      PROVE  Parses' /\ tail' = <<>>
  BY <1>0, <1>3, WholeAppended DEF CleanInv
<1>4. ASSUME UserJournaled \/ AssistantJournaled \/ Reconciles
      PROVE  Running /\ drift \subseteq drift' /\ Appended(PendingEntry) /\ Appending
  BY <1>4 DEF UserJournaled, AssistantJournaled, Reconciles, PendingEntry, Appending, Running
<1>5. ASSUME MarkJournaled
      PROVE  /\ Running /\ drift \cap {"failed", "unterminated"} = {}
             /\ Appended(PendingEntry) /\ Appending
  <2>1. mark.verb \in {"checkpoint", "rollback", "compact"}
    BY <1>0, <1>5 DEF MarkJournaled, PhaseInv, SessionTyped
  <2>2. drift \ {"compacted", "rounds"} \subseteq MarkDrift
    BY <2>1 DEF MarkDrift
  <2>3. QED
    BY <1>5, <2>2 DEF MarkJournaled, Appending, Running
<1>6. TurnAppendFails \/ MarkAppendFails => "failed" \in drift'
  BY DEF TurnAppendFails, MarkAppendFails
<1>7. ~(Quits \/ Crashes \/ ReconcileFails)
  BY DEF Quits, Crashes, ReconcileFails, Running
<1>8. ASSUME NEW verb \in {"checkpoint", "rollback"}, NEW k \in 1..MaxMarks, MarkBegins(verb, k)
      PROVE  Parses' /\ tail' = <<>>
  <2>1. Running /\ drift' = drift
    BY <1>8 DEF MarkBegins, Running
  <2>2. Parses /\ tail = <<>>
    BY <1>0, <2>1 DEF CleanInv
  <2>3. UNCHANGED <<lines, tail>>
    BY <1>8, <2>2 DEF MarkBegins, ReadAll
  <2>4. QED
    BY <2>2, <2>3 DEF Parses
<1>9. TurnAnswers \/ TurnRefused \/ StdoutFails \/ Resumed \/ CompactBegins
        => UNCHANGED <<lines, tail>> /\ Running /\ drift \subseteq drift'
  BY DEF TurnAnswers, TurnRefused, StdoutFails, Resumed, CompactBegins, Running
<1>10. ReceiptPersisted \/ NextRound \/ (\E streamed \in BOOLEAN : TurnBegins(streamed))
        => UNCHANGED <<lines, tail>> /\ Running /\ drift \subseteq drift'
  BY DEF ReceiptPersisted, NextRound, TurnBegins, Running
<1>11. drift \subseteq drift' => drift \cap {"failed", "unterminated"} = {}
  OBVIOUS
<1>12. QED
  BY <1>1, <1>2, <1>3, <1>4, <1>5, <1>6, <1>7, <1>8, <1>9, <1>10, <1>11 DEF HistoryNext

\* A message that comes back off a conversation leaves the conversation.
LEMMA FrontOfAppend ==
  ASSUME NEW s \in Seq(EntrySet), NEW e \in EntrySet
  PROVE  Front(Append(s, e)) = s
<1> PICK t : t = Append(s, e)
  OBVIOUS
<1>1. /\ t \in Seq(EntrySet) /\ Len(s) \in Nat /\ Len(t) = Len(s) + 1
      /\ \A i \in 1..Len(s) : t[i] = s[i]
  BY AppendProperties, LenProperties
<1>2. Front(t) = SubSeq(t, 1, Len(s))
  BY <1>1 DEF Front
<1>3. \A i \in 1..Len(s) : t[i] \in EntrySet
  BY <1>1, ElementOfSeq
<1>4. /\ SubSeq(t, 1, Len(s)) \in Seq(EntrySet)
      /\ Len(SubSeq(t, 1, Len(s))) = Len(s)
      /\ \A i \in 1..Len(s) : SubSeq(t, 1, Len(s))[i] = t[i]
  BY <1>1, <1>3, SubSeqProperties
<1>5. SubSeq(t, 1, Len(s)) = s
  BY <1>1, <1>4, SeqEqual
<1>6. QED
  BY <1>2, <1>5

\* One more committed round.
LEMMA CommittedGrows ==
  ASSUME SessionTyped, turn' = [turn EXCEPT !.r = turn.r + 1]
  PROVE  Append(live \o Committed, Entry("assistant", Pending)) = live \o Committed'
<1>0. turn.n \in Nat /\ turn.r \in Nat /\ live \in Seq(EntrySet)
  BY HistoryAssumption DEF SessionTyped
<1>1. turn'.n = turn.n /\ turn'.r = turn.r + 1
  BY DEF SessionTyped
<1> PICK m : m = turn.r
  OBVIOUS
<1> PICK e : e = Entry("assistant", Pending)
  OBVIOUS
<1>2. \A r \in 1..(m + 1) : Entry("assistant", Receipt(turn.n, r)) \in EntrySet
  BY <1>0 DEF Entry, EntrySet, Receipt, Refs, Messages
<1>3. e = Entry("assistant", Receipt(turn.n, m + 1)) /\ e \in EntrySet
  BY <1>0, <1>2 DEF Pending
<1> PICK c : c = Committed
  OBVIOUS
<1>4. c = [r \in 1..m |-> Entry("assistant", Receipt(turn.n, r))]
  BY DEF Committed
<1>5. c \in Seq(EntrySet) /\ Len(c) = m
  BY <1>0, <1>2, <1>4
<1> PICK d : d = [r \in 1..(m + 1) |-> Entry("assistant", Receipt(turn.n, r))]
  OBVIOUS
<1>6. Committed' = d
  BY <1>1 DEF Committed
<1>7. d \in Seq(EntrySet) /\ Len(d) = m + 1
  BY <1>0, <1>2
<1>8. /\ Append(c, e) \in Seq(EntrySet) /\ Len(Append(c, e)) = m + 1 /\ Append(c, e)[m + 1] = e
      /\ \A r \in 1..m : Append(c, e)[r] = c[r]
  BY <1>3, <1>5, AppendProperties
<1>9. \A r \in 1..(m + 1) : Append(c, e)[r] = d[r]
  <2>1. \A r \in 1..(m + 1) : r \in 1..m \/ r = m + 1
    BY <1>0
  <2>2. QED
    BY <1>3, <1>4, <1>8, <2>1
<1>10. Append(c, e) = d
  BY <1>7, <1>8, <1>9, SeqEqual
<1>11. <<e>> \in Seq(EntrySet)
  BY <1>3
<1>12. Append(live \o c, e) = (live \o c) \o <<e>> /\ Append(c, e) = c \o <<e>>
  BY <1>0, <1>3, <1>5, ConcatProperties, AppendIsConcat
<1>13. (live \o c) \o <<e>> = live \o (c \o <<e>>)
  BY <1>0, <1>5, <1>11, ConcatAssociative
<1>14. QED
  BY <1>6, <1>10, <1>12, <1>13

\* Every step leaves the conversation what a replay would show, short of the named causes.
LEMMA MatchKept ==
  ASSUME SessionInv, HistoryNext
  PROVE  MatchInv'
<1>0. SessionTyped /\ PhaseInv /\ CleanInv /\ MatchInv
  BY DEF SessionInv
<1>1. /\ turn.n \in Nat /\ turn.r \in Nat /\ live \in Seq(EntrySet) /\ turn.streamed \in BOOLEAN
      /\ drift \subseteq Reasons
  BY <1>0, HistoryAssumption DEF SessionTyped
<1>2. Entries \in Seq(EntrySet) /\ Replay \in Seq(EntrySet)
  BY <1>0, EntriesTyped
<1>3. UNCHANGED <<lines, tail>> => Replay' = Replay
  BY DEF Replay, Entries
<1>4. phase' \in {"stopped", "refused"} => MatchInv'
  BY DEF MatchInv
<1>5. drift' # {} => MatchInv'
  BY DEF MatchInv
<1>6. ASSUME Appending, Appended(PendingEntry), drift \cap {"failed", "unterminated"} = {}
      PROVE  /\ PendingEntry \in EntrySet
             /\ Replay' = journal_entries_to_history(Append(Entries, PendingEntry))
  <2>1. Running
    BY <1>6 DEF Appending, Running
  <2>2. Parses /\ tail = <<>>
    BY <1>0, <1>6, <2>1 DEF CleanInv
  <2>3. Entries' = Append(Entries, PendingEntry) /\ PendingEntry \in EntrySet
    BY <1>0, <1>6, <2>2, WholeAppended
  <2>4. QED
    BY <2>3 DEF Replay
<1>7. ASSUME phase \in {"receipt", "user"}, turn.r = 0, drift = {}
      PROVE  live = Append(Replay, Entry("user", Receipt(turn.n, 0))) /\ Front(live) = Replay
  <2>1. live = Append(Replay, Entry("user", Receipt(turn.n, 0)))
    BY <1>0, <1>7 DEF MatchInv
  <2>2. Entry("user", Receipt(turn.n, 0)) \in EntrySet
    BY <1>1 DEF Entry, EntrySet, Receipt, Refs, Messages
  <2>3. QED
    BY <1>2, <2>1, <2>2, FrontOfAppend
<1>8. phase \in {"receipt", "round"} /\ turn.r > 0 /\ drift = {} => Replay = live \o Committed
  BY <1>0 DEF MatchInv
<1>9. phase \in {"chat", "mark", "reconcile"} /\ drift = {} => live = Replay
  BY <1>0 DEF MatchInv
<1>10. ASSUME NEW streamed \in BOOLEAN, TurnBegins(streamed)
       PROVE  MatchInv'
  <2>1. /\ UNCHANGED <<lines, tail, drift>> /\ phase = "chat" /\ phase' = "receipt"
        /\ turn' = [n |-> turn.n + 1, r |-> 0, streamed |-> streamed]
        /\ live' = Append(live, Entry("user", Receipt(turn.n + 1, 0)))
    BY <1>10 DEF TurnBegins
  <2>2. turn'.n = turn.n + 1 /\ turn'.r = 0 /\ Replay' = Replay
    BY <1>3, <2>1
  <2>3. drift = {} => live' = Append(Replay', Entry("user", Receipt(turn'.n, 0)))
    BY <1>9, <2>1, <2>2
  <2>4. ASSUME drift' = {}
        PROVE  live' = Append(Replay', Entry("user", Receipt(turn'.n, 0)))
    BY <2>1, <2>3, <2>4
  <2>5. QED
    BY <2>1, <2>2, <2>4 DEF MatchInv
<1>11. ASSUME ReceiptPersisted
       PROVE  MatchInv'
  <2>1. /\ UNCHANGED <<lines, tail, drift, turn, live>> /\ phase = "receipt"
        /\ phase' = IF turn.r = 0 THEN "user" ELSE "assistant"
    BY <1>11 DEF ReceiptPersisted
  <2>2. Replay' = Replay /\ Committed' = Committed
    BY <1>3, <2>1 DEF Committed
  <2>3. CASE turn.r = 0
    <3>1. phase' = "user" /\ (drift = {} => live = Append(Replay, Entry("user", Receipt(turn.n, 0))))
      BY <1>7, <2>1, <2>3
    <3>2. QED
      BY <2>1, <2>2, <2>3, <3>1 DEF MatchInv
  <2>4. CASE turn.r # 0
    <3>1. phase' = "assistant" /\ (drift = {} => Replay = live \o Committed)
      BY <1>1, <1>8, <2>1, <2>4
    <3>2. QED
      BY <2>1, <2>2, <2>4, <3>1 DEF MatchInv
  <2>5. QED
    BY <2>3, <2>4
<1>12. ASSUME UserJournaled
       PROVE  MatchInv'
  <2>1. /\ phase = "user" /\ phase' = "assistant" /\ UNCHANGED <<drift, turn, live>>
        /\ Appended(Entry("user", Receipt(turn.n, 0))) /\ turn.r = 0
    BY <1>0, <1>12 DEF UserJournaled, PhaseInv
  <2>2. Appending /\ PendingEntry = Entry("user", Receipt(turn.n, 0))
    BY <2>1 DEF Appending, PendingEntry
  <2>3. ASSUME drift = {}
        PROVE  Replay' = live \o Committed'
    <3>1. /\ PendingEntry \in EntrySet
          /\ Replay' = journal_entries_to_history(Append(Entries, PendingEntry))
      BY <1>6, <2>1, <2>2, <2>3
    <3>2. PendingEntry.kind \in Messages
      BY <2>2 DEF Entry, Messages
    <3>3. Replay' = Append(Replay, PendingEntry)
      BY <1>2, <3>1, <3>2, ReplayAppend DEF Replay
    <3>4. Replay' = live
      BY <1>7, <2>1, <2>2, <2>3, <3>3
    <3>5. Committed' \in Seq(EntrySet) /\ Len(Committed') = 0
      BY <2>1 DEF Committed
    <3>6. live \o Committed' = live
      BY <1>1, <3>5, EmptySeq, ConcatEmptySeq
    <3>7. QED
      BY <3>4, <3>6
  <2>4. QED
    BY <2>1, <2>3 DEF MatchInv
<1>13. ASSUME AssistantJournaled
       PROVE  MatchInv'
  <2>1. /\ phase = "assistant" /\ phase' = "round" /\ UNCHANGED <<drift, live>>
        /\ Appended(Entry("assistant", Pending)) /\ turn' = [turn EXCEPT !.r = turn.r + 1]
    BY <1>13 DEF AssistantJournaled, Pending
  <2>2. Appending /\ PendingEntry = Entry("assistant", Pending)
    BY <2>1 DEF Appending, PendingEntry, Pending
  <2>3. ASSUME drift = {}
        PROVE  Replay' = live \o Committed'
    <3>1. /\ PendingEntry \in EntrySet
          /\ Replay' = journal_entries_to_history(Append(Entries, PendingEntry))
      BY <1>6, <2>1, <2>2, <2>3
    <3>2. PendingEntry.kind \in Messages
      BY <2>2 DEF Entry, Messages
    <3>3. Replay' = Append(Replay, PendingEntry)
      BY <1>2, <3>1, <3>2, ReplayAppend DEF Replay
    <3>4. Replay = live \o Committed
      BY <1>0, <2>1, <2>3 DEF MatchInv
    <3>5. QED
      BY <1>0, <2>1, <2>2, <3>3, <3>4, CommittedGrows
  <2>4. QED
    BY <2>1, <2>3 DEF MatchInv
<1>14. ASSUME NextRound
       PROVE  MatchInv'
  <2>1. /\ UNCHANGED <<lines, tail, drift, turn, live>> /\ phase = "round" /\ phase' = "receipt"
        /\ turn.r > 0
    BY <1>0, <1>14 DEF NextRound, PhaseInv
  <2>2. Replay' = Replay /\ Committed' = Committed
    BY <1>3, <2>1 DEF Committed
  <2>3. drift = {} => Replay = live \o Committed
    BY <1>8, <2>1
  <2>4. turn.r # 0
    BY <1>1, <2>1
  <2>5. QED
    BY <2>1, <2>2, <2>3, <2>4 DEF MatchInv
<1>15. ASSUME phase' = "chat", UNCHANGED <<lines, tail>>, drift' = {} => live' = Replay
       PROVE  MatchInv'
  BY <1>3, <1>15 DEF MatchInv
<1>16. ASSUME TurnAnswers
       PROVE  MatchInv'
  <2>1. /\ phase = "round" /\ phase' = "chat" /\ UNCHANGED <<lines, tail>> /\ live' = Kept(TRUE)
        /\ drift' = IF ~turn.streamed /\ turn.r > 1 THEN drift \cup {"rounds"} ELSE drift
        /\ turn.r > 0
    BY <1>0, <1>16 DEF TurnAnswers, TurnOver, PhaseInv
  <2>2. ASSUME drift' = {}
        PROVE  live' = Replay
    <3>1. drift = {} /\ (turn.streamed \/ ~(turn.r > 1))
      BY <2>1, <2>2
    <3>2. Replay = live \o Committed
      BY <1>8, <2>1, <3>1
    <3>3. CASE turn.streamed
      BY <2>1, <3>2, <3>3 DEF Kept
    <3>4. CASE ~turn.streamed
      <4>1. turn.r = 1
        BY <1>1, <2>1, <3>1, <3>4
      <4>2. live' = Append(live, Committed[1])
        BY <2>1, <3>4, <4>1 DEF Kept
      <4>3. live # <<>>
        BY <1>0, <2>1 DEF PhaseInv, Taking
      <4>4. Committed \in Seq(EntrySet) /\ Len(Committed) = 1
        BY <1>0, <4>1, <4>3, KeptTyped
      <4>5. Committed = <<Committed[1]>> /\ Committed[1] \in EntrySet
        BY <4>4
      <4>6. Append(live, Committed[1]) = live \o <<Committed[1]>>
        BY <1>1, <4>5, AppendIsConcat
      <4>7. QED
        BY <3>2, <4>2, <4>5, <4>6
    <3>5. QED
      BY <3>3, <3>4
  <2>3. QED
    BY <1>15, <2>1, <2>2
<1>17. ASSUME TurnRefused
       PROVE  MatchInv'
  <2>1. /\ phase = "receipt" /\ phase' = "chat" /\ UNCHANGED <<lines, tail>> /\ live' = Kept(FALSE)
        /\ drift' = IF ~turn.streamed /\ turn.r > 0 THEN drift \cup {"rounds"} ELSE drift
    BY <1>17 DEF TurnRefused, TurnOver
  <2>2. ASSUME drift' = {}
        PROVE  live' = Replay
    <3>1. drift = {} /\ (turn.streamed \/ ~(turn.r > 0))
      BY <2>1, <2>2
    <3>2. CASE turn.r > 0
      BY <1>8, <2>1, <3>1, <3>2 DEF Kept
    <3>3. CASE turn.r = 0
      <4>1. live' = Front(live)
        BY <2>1, <3>3 DEF Kept
      <4>2. QED
        BY <1>7, <2>1, <3>1, <3>3, <4>1
    <3>4. QED
      BY <1>1, <3>2, <3>3
  <2>3. QED
    BY <1>15, <2>1, <2>2
<1>18. ASSUME StdoutFails
       PROVE  MatchInv'
  <2>1. /\ phase \in {"receipt", "round"} /\ phase' = "chat" /\ UNCHANGED <<lines, tail>>
        /\ live' = Front(live) /\ drift' = IF turn.r > 0 THEN drift \cup {"failed"} ELSE drift
    BY <1>18 DEF StdoutFails
  <2>2. ASSUME drift' = {}
        PROVE  live' = Replay
    <3>0. drift = {} /\ ~(turn.r > 0)
      BY <2>1, <2>2
    <3>1. drift = {} /\ turn.r = 0
      BY <1>1, <3>0
    <3>2. phase = "receipt"
      BY <1>0, <2>1, <3>1 DEF PhaseInv
    <3>3. QED
      BY <1>7, <2>1, <3>1, <3>2
  <2>3. QED
    BY <1>15, <2>1, <2>2
<1>19. ASSUME NEW verb \in {"checkpoint", "rollback"}, NEW k \in 1..MaxMarks, MarkBegins(verb, k)
       PROVE  MatchInv'
  <2>1. Bad \in EntrySet
    BY DEF Bad, Entry, EntrySet, Refs
  <2>2. Entries' = Entries
    BY <1>0, <1>19, <2>1, JournalTyped DEF MarkBegins
  <2>3. Replay' = Replay
    BY <2>2 DEF Replay
  <2>4. phase = "chat" /\ phase' = "mark" /\ UNCHANGED <<live, drift>>
    BY <1>19 DEF MarkBegins
  <2>5. QED
    BY <1>9, <2>3, <2>4 DEF MatchInv
<1>20. ASSUME CompactBegins
       PROVE  MatchInv'
  <2>1. phase = "chat" /\ phase' = "mark" /\ UNCHANGED <<lines, tail, live, drift>>
    BY <1>20 DEF CompactBegins
  <2>2. QED
    BY <1>3, <1>9, <2>1 DEF MatchInv
<1>21. ASSUME MarkJournaled
       PROVE  MatchInv'
  <2>1. /\ phase = "mark" /\ phase' = "chat" /\ Appended(PendingEntry) /\ live' = Installed
        /\ drift' = MarkDrift /\ Appending
    BY <1>21 DEF MarkJournaled, Appending
  <2>2. mark.verb \in {"checkpoint", "rollback", "compact"} /\ mark.target \in Nat
    BY <1>0, <2>1 DEF PhaseInv, SessionTyped
  <2>3. ASSUME drift' = {}
        PROVE  live' = Replay'
    <3>1. CASE mark.verb = "compact"
      BY <2>1, <2>3, <3>1 DEF MarkDrift
    <3>2. CASE mark.verb = "checkpoint"
      <4>1. drift = {} /\ live' = live
        BY <2>1, <2>3, <3>2 DEF MarkDrift, Installed
      <4>2. PendingEntry.kind \in {"checkpoint", "rollback"} /\ PendingEntry.kind # "rollback"
        BY <1>0, <2>1, <3>2, PendingFacts
      <4>3. /\ PendingEntry \in EntrySet
            /\ Replay' = journal_entries_to_history(Append(Entries, PendingEntry))
        BY <1>6, <2>1, <4>1
      <4>4. PendingEntry.kind \notin Messages
        BY <4>2 DEF Messages
      <4>5. Replay' = Replay
        BY <1>2, <4>2, <4>3, <4>4, ReplaySkip DEF Replay
      <4>6. QED
        BY <1>9, <2>1, <4>1, <4>5
    <3>3. CASE mark.verb = "rollback"
      <4>1. /\ drift \subseteq {"compacted", "rounds"} /\ ~Excised(mark.target)
            /\ live' = journal_entries_to_history(Retained(mark.target))
        BY <2>1, <2>3, <3>3 DEF MarkDrift, Installed
      <4>2. PendingEntry = Entry("rollback", Mark(mark.target))
        BY <2>1, <3>3 DEF PendingEntry
      <4>3. Replay' = journal_entries_to_history(Append(Entries, PendingEntry))
        BY <1>6, <2>1, <4>1
      <4>4. CheckpointPos(Entries, mark.target) # {}
        BY <1>0, <2>1, <3>3 DEF PhaseInv
      <4>5. PICK c \in CheckpointPos(Entries, mark.target) :
              /\ \A j \in CheckpointPos(Entries, mark.target) : c <= j
              /\ Retained(mark.target) = SubSeq(Entries, 1, c)
        BY <1>0, <2>2, <4>4, RetainedFacts
      <4>6. ~Excluded(Entries, c)
        BY <4>1, <4>5 DEF Excised
      <4>7. journal_entries_to_history(SubSeq(Entries, 1, c)) =
              journal_entries_to_history(Append(Entries, Entry("rollback", Mark(mark.target))))
        BY <1>2, <2>2, <4>5, <4>6, ReplayRollback
      <4>8. QED
        BY <4>1, <4>2, <4>3, <4>5, <4>7
    <3>4. QED
      BY <2>2, <3>1, <3>2, <3>3
  <2>4. QED
    BY <2>1, <2>3 DEF MatchInv
<1>22. ASSUME Resumes
       PROVE  MatchInv'
  <2>1. phase' = "refused" \/ (phase' = "reconcile" /\ live' = Replay)
    BY <1>22 DEF Resumes
  <2>2. UNCHANGED <<lines, tail>>
    BY <1>22 DEF Resumes
  <2>3. QED
    BY <1>3, <2>1, <2>2 DEF MatchInv
<1>23. ASSUME Resumed
       PROVE  MatchInv'
  <2>1. phase = "reconcile" /\ phase' = "chat" /\ UNCHANGED <<lines, tail, live, drift>>
    BY <1>23 DEF Resumed
  <2>2. QED
    BY <1>9, <1>15, <2>1
<1>24. TurnAppendFails \/ MarkAppendFails \/ Reconciles => drift' # {}
  BY DEF TurnAppendFails, MarkAppendFails, Reconciles
<1>25. Quits \/ Crashes \/ ReconcileFails => phase' = "stopped"
  BY DEF Quits, Crashes, ReconcileFails
<1>26. QED
  BY <1>4, <1>5, <1>10, <1>11, <1>12, <1>13, <1>14, <1>16, <1>17, <1>18, <1>19, <1>20, <1>21,
     <1>22, <1>23, <1>24, <1>25 DEF HistoryNext

\* The invariant is inductive.
LEMMA SessionInductive == SessionInv /\ [HistoryNext]_histVars => SessionInv'
<1> SUFFICES ASSUME SessionInv, [HistoryNext]_histVars
             PROVE  SessionInv'
  OBVIOUS
<1>1. CASE HistoryNext
  <2>1. SessionTyped' /\ PhaseInv' /\ AckInv'
    BY <1>1, SessionTypedKept, PhaseKept, AckKept
  <2>2. ChainInv' /\ RecordInv' /\ UserInv'
    BY <1>1, ChainKept, RecordKept, UserKept
  <2>3. CleanInv' /\ MatchInv'
    BY <1>1, CleanKept, MatchKept
  <2>4. QED
    BY <2>1, <2>2, <2>3 DEF SessionInv
<1>2. CASE UNCHANGED histVars
  <2>1. /\ UNCHANGED <<lines, tail, count, chain, live, phase, turn, mark, orphans>>
        /\ UNCHANGED <<marks, acked, drift, slipped, slips, resumes>>
    BY <1>2 DEF histVars
  <2>2. Entries' = Entries /\ Parses' = Parses /\ Replay' = Replay /\ Committed' = Committed
        /\ Pending' = Pending /\ Running' = Running
    BY <2>1 DEF Entries, Parses, Replay, Committed, Pending, Running
  <2>3. SessionTyped' /\ PhaseInv'
    BY <2>1, <2>2 DEF SessionInv, SessionTyped, PhaseInv, CheckpointPos
  <2>4. AckInv' /\ ChainInv'
    BY <2>1, <2>2 DEF SessionInv, AckInv, AckedAtItsLine, ChainInv, Earlier
  <2>5. RecordInv' /\ UserInv'
    BY <2>1, <2>2 DEF SessionInv, RecordInv, Recorded, UserInv, Begun
  <2>6. CleanInv' /\ MatchInv'
    BY <2>1, <2>2 DEF SessionInv, CleanInv, MatchInv
  <2>7. QED
    BY <2>3, <2>4, <2>5, <2>6 DEF SessionInv
<1>3. QED
  BY <1>1, <1>2

\* The invariant of a chat session holds in every reachable state.
THEOREM SessionInvariant == HistorySpec => []SessionInv
BY SessionStarts, SessionInductive, PTL DEF HistorySpec

\* It gives the types, and what SessionSound states.
LEMMA SessionInvSound == SessionInv => HistoryTypeOK /\ SessionSound
<1> SUFFICES ASSUME SessionInv
             PROVE  HistoryTypeOK /\ SessionSound
  OBVIOUS
<1>0. SessionTyped /\ AckInv /\ RecordInv /\ CleanInv /\ MatchInv
  BY DEF SessionInv
<1>1. HistoryTypeOK
  <2>1. tail = <<>> \/ Len(tail) = 1
    BY <1>0 DEF SessionTyped
  <2>2. QED
    BY <1>0, <2>1 DEF SessionTyped, HistoryTypeOK, Taking
<1>2. HistoryMatchesReplay
  <2>1. phase = "chat" => Running
    BY DEF Running
  <2>2. drift = {} => drift \cap {"failed", "unterminated"} = {}
    OBVIOUS
  <2>3. QED
    BY <1>0, <2>1, <2>2 DEF HistoryMatchesReplay, CleanInv, MatchInv
<1>3. AckedAtItsLine
  BY <1>0 DEF AckInv
<1>4. HealedOnce
  BY <1>0 DEF HealedOnce, RecordInv, Vouching
<1>5. QED
  BY <1>1, <1>2, <1>3, <1>4 DEF SessionSound

\* The conversation and the journal agree but for the named drifts, what was
\* acknowledged stays at its line unless its id was given astray, and nothing is
\* healed twice, for any number of turns, rounds, commands, faults and resumptions.
THEOREM SessionKeepsHistory == HistorySpec => []SessionSound
<1>1. SessionInv => SessionSound
  BY SessionInvSound
<1>2. QED
  BY <1>1, SessionInvariant, PTL

\* What an append in progress writes, if a message, is not in the journal yet.
LEMMA PendingIsNew ==
  ASSUME SessionInv, Appending, PendingEntry.kind \in Messages
  PROVE  PendingEntry \notin Range(lines)
<1>0. SessionTyped /\ PhaseInv /\ RecordInv /\ UserInv
  BY DEF SessionInv
<1>1. turn.n \in Nat
  BY <1>0, HistoryAssumption DEF SessionTyped
<1>2. CASE phase = "user"
  <2>1. PendingEntry = Entry("user", Receipt(turn.n, 0))
    BY <1>0, <1>2, PendingFacts
  <2>2. PendingEntry.kind = "user" /\ PendingEntry.ref = Receipt(turn.n, 0)
    BY <2>1 DEF Entry
  <2>3. \A i \in DOMAIN lines : lines[i].kind = "user" => lines[i].ref # Receipt(turn.n, 0)
    BY <1>0, <1>1, <1>2 DEF UserInv, Begun, Receipt
  <2>4. QED
    BY <2>2, <2>3 DEF Range
<1>3. CASE phase = "assistant"
  <2>1. PendingEntry = Entry("assistant", Pending)
    BY <1>0, <1>3, PendingFacts
  <2>2. PendingEntry.kind \in Vouching /\ PendingEntry.ref = Pending
    BY <2>1 DEF Entry, Vouching
  <2>3. ~Recorded(Pending)
    BY <1>0, <1>3 DEF RecordInv
  <2>4. QED
    BY <2>2, <2>3 DEF Range, Recorded
<1>4. CASE phase = "mark"
  <2>1. PendingEntry.kind \in {"checkpoint", "rollback"}
    BY <1>0, <1>4, PendingFacts
  <2>2. QED
    BY <2>1 DEF Messages
<1>5. CASE phase = "reconcile"
  <2>1. orphans # <<>> /\ PendingEntry = Entry("recovered", Head(orphans))
    BY <1>0, <1>5, PendingFacts
  <2>2. PendingEntry.kind \in Vouching /\ PendingEntry.ref = Head(orphans)
    BY <2>1 DEF Entry, Vouching
  <2>3. 1 \in DOMAIN orphans /\ Head(orphans) = orphans[1]
    BY <1>0, <2>1 DEF SessionTyped
  <2>4. ~Recorded(Head(orphans))
    BY <1>0, <1>5, <2>3 DEF RecordInv
  <2>5. QED
    BY <2>2, <2>4 DEF Range, Recorded
<1>6. QED
  BY <1>2, <1>3, <1>4, <1>5 DEF Appending

\* What the terminated lines exclude, no longer journal shows.
LEMMA OutStaysOut ==
  ASSUME NEW s \in Seq(EntrySet), NEW e \in EntrySet, NEW x \in Range(s), x.kind \in Messages,
         x \notin Range(journal_entries_to_history(s)), x # e
  PROVE  x \notin Range(journal_entries_to_history(Append(s, e)))
<1> PICK t : t = Append(s, e)
  OBVIOUS
<1>1. /\ t \in Seq(EntrySet) /\ DOMAIN s = 1..Len(s) /\ t[Len(s) + 1] = e
      /\ \A i \in DOMAIN t : i \in 1..Len(s) \/ i = Len(s) + 1
      /\ \A i \in 1..Len(s) : t[i] = s[i]
  BY GrowFacts
<1>2. \A i \in 1..Len(s) : Excluded(s, i) => Excluded(t, i)
  BY AppendExcludes
<1>3. \A i \in Shown(s) : s[i] # x
  BY ReplayFacts
<1>4. \A i \in DOMAIN t : i \in Shown(t) => t[i] # x
  BY <1>1, <1>2, <1>3 DEF Shown
<1>5. \A i \in Shown(t) : t[i] # x
  BY <1>4 DEF Shown
<1>6. x \in Range(journal_entries_to_history(t)) <=> \E i \in Shown(t) : t[i] = x
  BY <1>1, ReplayFacts
<1>7. QED
  BY <1>5, <1>6

\* A step never brings back a message that the terminated lines exclude.
LEMMA ExcisedStep ==
  ASSUME SessionInv, HistoryNext, Entries' # Entries, Parses'
  PROVE  \A e \in {x \in Range(lines) : x.kind \in Messages}
                  \ Range(journal_entries_to_history(lines)) : e \notin Range(Replay')
<1>0. SessionTyped /\ PhaseInv /\ lines \in Seq(EntrySet)
  BY DEF SessionInv, SessionTyped
<1>1. Appending /\ (Appended(PendingEntry) \/ LeftBehind(PendingEntry))
  BY JournalSteps
<1>2. PendingEntry \in EntrySet
  BY <1>0, <1>1, PendingFacts
<1>3. Entries' = lines \/ Entries' = Append(lines, PendingEntry)
  <2>1. CASE lines' = lines
    BY <1>0, <1>1, <1>2, <2>1, WriteFacts
  <2>2. CASE lines' # lines
    <3>1. Entries' = lines'
      BY <1>0, <1>1, <1>2, <2>2, WriteFacts
    <3>2. lines' = Append(lines, PendingEntry)
      BY <2>2, LinesStep
    <3>3. QED
      BY <3>1, <3>2
  <2>3. QED
    BY <2>1, <2>2
<1>4. PendingEntry.kind \in Messages => PendingEntry \notin Range(lines)
  BY <1>1, PendingIsNew
<1>5. SUFFICES ASSUME NEW x \in Range(lines), x.kind \in Messages,
                      x \notin Range(journal_entries_to_history(lines))
               PROVE  x \notin Range(Replay')
  OBVIOUS
<1>6. CASE Entries' = lines
  BY <1>5, <1>6 DEF Replay
<1>7. CASE Entries' = Append(lines, PendingEntry)
  <2>1. x # PendingEntry
    BY <1>4, <1>5
  <2>2. x \notin Range(journal_entries_to_history(Append(lines, PendingEntry)))
    BY <1>0, <1>2, <1>5, <2>1, OutStaysOut
  <2>3. QED
    BY <1>7, <2>2 DEF Replay
<1>8. QED
  BY <1>3, <1>6, <1>7

\* A message that a terminated rollback took out of the conversation never comes back
\* in a replay, whatever is recorded, rolled back, torn or healed later.
THEOREM ExcisedForGood == HistorySpec => ExcisedStaysOut
<1>1. SessionInv /\ [HistoryNext]_histVars =>
        [Entries' # Entries /\ Parses /\ Parses' =>
           LET out == {e \in Range(lines) : e.kind \in Messages}
                        \ Range(journal_entries_to_history(lines))
           IN \A e \in out : e \notin Range(Replay')]_histVars
  BY ExcisedStep DEF histVars
<1>2. QED
  BY <1>1, SessionInvariant, PTL DEF HistorySpec, ExcisedStaysOut

-----------------------------------------------------------------------------
(* The receipt log and its readers *)

Pieces == [part : {"head", "body", "sig", "nl", "hole"}, id : 0..MaxLogged, parent : 0..MaxLogged]
Receipts == [id : 0..MaxLogged, parent : 0..MaxLogged, good : BOOLEAN]
Loaded == [chain : Seq(Receipts), ok : BOOLEAN]

ReadersTyped ==
  /\ bytes \in Seq(Pieces)
  /\ appender \in [pc : {"idle", "writing", "written", "terminated"}, id : 0..MaxLogged]
  /\ appender.pc # "idle" => appender.id # 0
  /\ tip \in 0..MaxLogged /\ durable \subseteq 1..MaxLogged
  /\ cache \in Loaded
  /\ rdPc \in [LogReaders -> {"idle", "torn", "parsed", "verifying", "answered"}]
  /\ rdChain \in [LogReaders -> Seq(Receipts)] /\ rdSeen \in [LogReaders -> Seq(Pieces)]
  /\ rdTorn \in [LogReaders -> Nat] /\ rdPrefix \in [LogReaders -> Nat]
  /\ answer \in [LogReaders -> Loaded]
  /\ spoiled \in BOOLEAN /\ logCrashes \in 0..MaxLogCrashes

\* What has been verified: all of the cached chain, the prefix a reader trusts,
\* and an answer as a whole.
VerifiedTo(loaded, m) ==
  \A n \in 1..m :
    loaded[n].good /\ loaded[n].parent = IF n = 1 THEN 0 ELSE loaded[n - 1].id
ReaderInv(r) ==
  /\ rdPc[r] = "verifying" =>
       rdPrefix[r] <= Len(rdChain[r]) /\ VerifiedTo(rdChain[r], rdPrefix[r])
  /\ rdPc[r] = "answered" =>
       /\ answer[r].chain = rdChain[r]
       /\ answer[r].ok <=> VerifiesFrom(rdChain[r], 0)

\* The log as the appender alone writes it: lines of four pieces.
PartAt(i) ==
  CASE i % 4 = 1 -> "head" [] i % 4 = 2 -> "body" [] i % 4 = 3 -> "sig" [] i % 4 = 0 -> "nl"
WellFormed(log) ==
  \A i \in 1..Len(log) :
    /\ log[i].part = PartAt(i)
    /\ i % 4 = 0 => log[i] = Newline
    /\ i % 4 \in {2, 3} => log[i].id = log[i - 1].id

\* How far the appender is with the last line, and where the durable ones are.
AppenderInv ==
  /\ appender.pc = "terminated" => Len(bytes) % 4 = 0
  /\ appender.pc = "writing" => Len(bytes) % 4 \in {1, 2}
  /\ appender.pc = "written" => Len(bytes) % 4 = 3
  /\ appender.pc \in {"writing", "written"} => bytes[Len(bytes)].id = appender.id
  /\ appender.pc = "terminated" => Len(bytes) >= 4 /\ bytes[Len(bytes) - 1].id = appender.id
DurableInv ==
  \A id \in durable : \E i \in 1..Len(bytes) :
    i % 4 = 3 /\ i + 1 <= Len(bytes) /\ bytes[i].id = id
LogInv ==
  /\ WellFormed(bytes) /\ AppenderInv /\ DurableInv
  /\ \A r \in LogReaders :
       rdPc[r] = "torn" => Len(rdSeen[r]) % 4 = 1 /\ rdTorn[r] = Len(rdSeen[r]) - 1

ReadersInv ==
  /\ ReadersTyped
  /\ cache.ok => VerifiesFrom(cache.chain, 0)
  /\ \A r \in LogReaders : ReaderInv(r)
  /\ ~spoiled => LogInv

\* Counting in fours.
LEMMA Fours ==
  ASSUME NEW n \in Nat
  PROVE  /\ n % 4 \in 0..3
         /\ (n + 1) % 4 = IF n % 4 = 3 THEN 0 ELSE (n % 4) + 1
         /\ n % 4 = 1 => (n + 1) % 4 = 2 /\ (n + 2) % 4 = 3 /\ (n + 3) % 4 = 0
         /\ n > 0 => (n - 1) % 4 = IF n % 4 = 0 THEN 3 ELSE (n % 4) - 1
         /\ n > 0 /\ n % 4 = 0 => n >= 4
OBVIOUS

\* The first newline from the start of a line on.
LEMMA FourEnds ==
  ASSUME NEW n \in Nat, NEW j \in Nat, n % 4 = 1, j % 4 = 0, j >= n
  PROVE  j >= n + 3
OBVIOUS

\* The piece at a place of a well-formed log.
LEMMA PieceOf ==
  ASSUME NEW log, WellFormed(log), NEW k \in 1..Len(log)
  PROVE  /\ k % 4 = 1 => log[k].part = "head"
         /\ k % 4 = 2 => log[k].part = "body" /\ log[k].id = log[k - 1].id
         /\ k % 4 = 3 => log[k].part = "sig" /\ log[k].id = log[k - 1].id
         /\ k % 4 = 0 => log[k].part = "nl" /\ log[k] = Newline
BY DEF WellFormed, PartAt

\* The least of a set of numbers.
LEMMA MinOfNumbers ==
  ASSUME NEW S, S \subseteq Nat, S # {}
  PROVE  Min(S) \in S /\ \A k \in S : Min(S) <= k
BY LeastOf DEF Min

\* The lines of a well-formed log start at every fourth piece.
LEMMA LogLines ==
  ASSUME NEW log \in Seq(Pieces), WellFormed(log)
  PROVE  /\ Newlines(log) = {i \in 1..Len(log) : i % 4 = 0}
         /\ Starts(log) = {i \in 1..Len(log) : i % 4 = 1}
<1>1. DOMAIN log = 1..Len(log) /\ Len(log) \in Nat
  BY LenProperties
<1>2. ASSUME NEW i \in 1..Len(log) PROVE log[i].part = "nl" <=> i % 4 = 0
  BY <1>1, Fours DEF WellFormed, PartAt
<1>3. Newlines(log) = {i \in 1..Len(log) : i % 4 = 0}
  BY <1>1, <1>2 DEF Newlines
<1>4. ASSUME NEW i \in 1..Len(log) PROVE i = 1 \/ i - 1 \in Newlines(log) <=> i % 4 = 1
  <2>1. i \in Nat /\ i > 0 /\ (i - 1) % 4 = IF i % 4 = 0 THEN 3 ELSE (i % 4) - 1
    BY <1>1, Fours
  <2>2. i # 1 => i - 1 \in 1..Len(log)
    BY <1>1
  <2>3. i = 1 => i % 4 = 1
    OBVIOUS
  <2>4. i % 4 \in 0..3
    BY <2>1, Fours
  <2>5. QED BY <1>1, <1>3, <2>1, <2>2, <2>3, <2>4
<1>5. QED BY <1>1, <1>3, <1>4 DEF Starts

\* A line of a well-formed log: it decodes when its body is there, and is
\* authentic when its signature is.
LEMMA LogLine ==
  ASSUME NEW log \in Seq(Pieces), WellFormed(log), NEW i \in Starts(log)
  PROVE  /\ ~Blank(LineAt(log, i))
         /\ Decodes(LineAt(log, i)) <=> i + 1 <= Len(log)
         /\ Authentic(LineAt(log, i)) <=> i + 2 <= Len(log)
         /\ Terminated(log, i) <=> i + 3 <= Len(log)
<1> DEFINE ends == {j \in Newlines(log) : j >= i}
           last == IF i + 3 <= Len(log) THEN i + 2 ELSE Len(log)
<1>1. /\ DOMAIN log = 1..Len(log) /\ Len(log) \in Nat
      /\ Newlines(log) = {k \in 1..Len(log) : k % 4 = 0}
      /\ i \in 1..Len(log) /\ i % 4 = 1 /\ i \in Nat
  BY LenProperties, LogLines
<1>2. (i + 1) % 4 = 2 /\ (i + 2) % 4 = 3 /\ (i + 3) % 4 = 0
  BY <1>1, Fours
<1>3. \A j \in ends : j \in Nat /\ j <= Len(log) /\ j >= i + 3
  BY <1>1, FourEnds
<1>4. i + 3 <= Len(log) => i + 3 \in ends
  BY <1>1, <1>2
<1>5. ends # {} <=> i + 3 <= Len(log)
  BY <1>1, <1>3, <1>4
<1>6. ends # {} => Min(ends) = i + 3
  <2>1. ASSUME ends # {} PROVE Min(ends) = i + 3
    <3>1. ends \subseteq Nat
      BY <1>3
    <3>2. Min(ends) \in ends /\ \A k \in ends : Min(ends) <= k
      BY <2>1, <3>1, MinOfNumbers
    <3>3. i + 3 \in ends
      BY <1>4, <1>5, <2>1
    <3>4. Min(ends) <= i + 3 /\ Min(ends) >= i + 3 /\ Min(ends) \in Nat
      BY <1>3, <3>2, <3>3
    <3>5. QED BY <1>1, <3>4
  <2>2. QED BY <2>1
<1>7. LineAt(log, i) = SubSeq(log, i, last)
  <2>1. (IF ends = {} THEN Len(log) ELSE Min(ends) - 1) = last
    <3>1. i + 3 - 1 = i + 2
      BY <1>1
    <3>2. CASE i + 3 <= Len(log)
      <4>1. ends # {}
        BY <1>5, <3>2
      <4>2. last = i + 2
        BY <3>2
      <4> HIDE DEF ends, last
      <4>3. Min(ends) = i + 3
        BY <1>6, <4>1
      <4>4. Min(ends) - 1 = i + 2
        BY <1>1, <3>1, <4>3
      <4>5. QED BY <4>1, <4>2, <4>4
    <3>3. CASE ~(i + 3 <= Len(log))
      <4>1. ends = {} /\ last = Len(log)
        BY <1>5, <3>3
      <4> HIDE DEF ends, last
      <4>2. QED BY <4>1
    <3>4. QED BY <3>2, <3>3
  <2>2. LineAt(log, i) = SubSeq(log, i, IF ends = {} THEN Len(log) ELSE Min(ends) - 1)
    BY DEF LineAt
  <2> HIDE DEF ends, last
  <2>3. QED BY <2>1, <2>2
<1>8. last \in Nat /\ last <= Len(log) /\ i <= last /\ last <= i + 2
      /\ (last >= i + 1 <=> i + 1 <= Len(log)) /\ (last = i + 2 <=> i + 2 <= Len(log))
  BY <1>1
<1> HIDE DEF last, ends
<1>9. Len(SubSeq(log, i, last)) = last - i + 1
      /\ \A k \in 1..(last - i + 1) : SubSeq(log, i, last)[k] = log[i + k - 1]
  <2>1. \A k \in i..last : log[k] \in Pieces
    BY <1>1, <1>8
  <2>2. QED BY <1>1, <1>8, <2>1, SubSeqProperties
<1> DEFINE line == SubSeq(log, i, last)
<1>10. line[1] = log[i]
  <2>1. 1 \in 1..(last - i + 1) /\ i + 1 - 1 = i
    BY <1>1, <1>8
  <2>2. QED BY <1>9, <2>1
<1>11. last >= i + 1 => line[2] = log[i + 1]
  <2>1. last >= i + 1 => 2 \in 1..(last - i + 1) /\ i + 2 - 1 = i + 1
    BY <1>1, <1>8
  <2>2. QED BY <1>9, <2>1
<1>12. last = i + 2 => line[3] = log[i + 2]
  <2>1. last = i + 2 => 3 \in 1..(last - i + 1) /\ i + 3 - 1 = i + 2
    BY <1>1, <1>8
  <2>2. QED BY <1>9, <2>1
<1>13. log[i].part = "head"
  BY <1>1 DEF WellFormed, PartAt
<1>14. i + 1 <= Len(log) => log[i + 1].part = "body" /\ log[i + 1].id = log[i].id
  <2>1. ASSUME i + 1 <= Len(log) PROVE log[i + 1].part = "body" /\ log[i + 1].id = log[i].id
    <3>1. PICK k \in 1..Len(log) : k = i + 1 /\ k - 1 = i /\ k % 4 = 2
      BY <1>1, <1>2, <2>1
    <3>2. QED BY <3>1, PieceOf
  <2>2. QED BY <2>1
<1>15. i + 2 <= Len(log) => log[i + 2].part = "sig" /\ log[i + 2].id = log[i].id
  <2>1. ASSUME i + 2 <= Len(log) PROVE log[i + 2].part = "sig" /\ log[i + 2].id = log[i].id
    <3>1. i + 1 <= Len(log)
      BY <1>1, <2>1
    <3>2. log[i + 2].part = "sig" /\ log[i + 2].id = log[i + 1].id
      <4>1. PICK k \in 1..Len(log) : k = i + 2 /\ k - 1 = i + 1 /\ k % 4 = 3
        BY <1>1, <1>2, <2>1
      <4>2. QED BY <4>1, PieceOf
    <3>3. QED BY <1>14, <3>1, <3>2
  <2>2. QED BY <2>1
<1> HIDE DEF line
<1>16. Len(line) = last - i + 1 /\ LineAt(log, i) = line
  BY <1>7, <1>9 DEF line
<1>17. Len(line) >= 2 <=> last >= i + 1
  BY <1>1, <1>8, <1>16
<1>18. Len(line) = 3 <=> last = i + 2
  BY <1>1, <1>8, <1>16
<1>19. Decodes(line) <=> i + 1 <= Len(log)
  BY <1>8, <1>10, <1>11, <1>13, <1>14, <1>17 DEF Decodes
<1>20. Authentic(line) <=> i + 2 <= Len(log)
  <2>1. i + 2 <= Len(log) => i + 1 <= Len(log)
    BY <1>1
  <2>2. QED BY <1>8, <1>10, <1>12, <1>15, <1>18, <1>19, <2>1 DEF Authentic
<1>21. ~Blank(line)
  <2>1. Len(line) # 0
    BY <1>1, <1>8, <1>16
  <2>2. QED BY <2>1 DEF Blank
<1>22. Terminated(log, i) <=> i + 3 <= Len(log)
  BY <1>5 DEF Terminated, ends
<1>23. QED BY <1>16, <1>19, <1>20, <1>21, <1>22

\* Only a head without a body at the very end does not decode.
LEMMA LogTorn ==
  ASSUME NEW log \in Seq(Pieces), WellFormed(log)
  PROVE  /\ ~Malformed(log)
         /\ TornAt(log) = IF Len(log) % 4 = 1 THEN {Len(log)} ELSE {}
<1>1. Len(log) \in Nat /\ Starts(log) = {i \in 1..Len(log) : i % 4 = 1}
  BY LenProperties, LogLines
<1>2. Undecodable(log) = {i \in Starts(log) : ~(i + 1 <= Len(log))}
  BY LogLine DEF Undecodable
<1>3. \A i \in Starts(log) : ~(i + 1 <= Len(log)) <=> i = Len(log)
  BY <1>1
<1>4. TornAt(log) = Undecodable(log)
  <2>1. ASSUME NEW i \in Undecodable(log) PROVE ~Terminated(log, i)
    <3>1. i \in Starts(log) /\ ~(i + 1 <= Len(log)) /\ i \in Nat
      BY <1>1, <1>2
    <3>2. ~(i + 3 <= Len(log))
      BY <1>1, <3>1
    <3>3. QED BY <3>1, <3>2, LogLine
  <2>2. QED BY <2>1 DEF TornAt
<1>5. Len(log) % 4 = 1 => Len(log) \in Starts(log)
  <2>1. Len(log) % 4 = 1 => Len(log) # 0
    OBVIOUS
  <2>2. QED BY <1>1, <2>1
<1>6. QED BY <1>1, <1>2, <1>3, <1>4, <1>5 DEF Malformed

\* What a load makes of a log: one receipt for each line that decodes.
LEMMA ChainLoaded ==
  ASSUME NEW log \in Seq(Pieces)
  PROVE  /\ ChainOf(log) \in Seq(Receipts)
         /\ \A i \in Starts(log) : Decodes(LineAt(log, i)) =>
              \E n \in 1..Len(ChainOf(log)) :
                ChainOf(log)[n] = [id |-> log[i].id, parent |-> log[i].parent,
                                   good |-> Authentic(LineAt(log, i))]
<1> DEFINE begins == {i \in Starts(log) : Decodes(LineAt(log, i))}
           order == Listed(begins)
           receipt(i) == [id |-> log[i].id, parent |-> log[i].parent,
                          good |-> Authentic(LineAt(log, i))]
<1>1. DOMAIN log = 1..Len(log) /\ Len(log) \in Nat /\ \A i \in 1..Len(log) : log[i] \in Pieces
  BY LenProperties, ElementOfSeq
<1>2. begins \subseteq 1..Len(log)
  BY <1>1 DEF Starts
<1>3. begins \subseteq Nat /\ IsFiniteSet(begins)
  <2>1. IsFiniteSet(1..Len(log))
    BY <1>1, FS_Interval
  <2>2. QED BY <1>1, <1>2, <2>1, FS_Subset
<1>4. ChainOf(log) = [n \in DOMAIN order |-> receipt(order[n])]
  BY DEF ChainOf
<1> HIDE DEF begins
<1>5. /\ Cardinality(begins) \in Nat /\ DOMAIN order = 1..Cardinality(begins)
      /\ \A n \in 1..Cardinality(begins) : order[n] \in begins
      /\ \A i \in begins : \E n \in 1..Cardinality(begins) : order[n] = i
  BY <1>3, ListedFacts
<1> HIDE DEF order
<1>6. ASSUME NEW i \in begins PROVE receipt(i) \in Receipts
  <2>1. log[i] \in Pieces
    BY <1>1, <1>2
  <2>2. log[i].id \in 0..MaxLogged /\ log[i].parent \in 0..MaxLogged
    BY <2>1 DEF Pieces
  <2>3. Authentic(LineAt(log, i)) \in BOOLEAN
    BY DEF Authentic
  <2>4. QED BY <2>2, <2>3 DEF Receipts
<1> HIDE DEF receipt
<1>7. ChainOf(log) \in Seq(Receipts) /\ Len(ChainOf(log)) = Cardinality(begins)
      /\ \A n \in 1..Cardinality(begins) : ChainOf(log)[n] = receipt(order[n])
  BY <1>4, <1>5, <1>6
<1>8. ASSUME NEW i \in Starts(log), Decodes(LineAt(log, i))
      PROVE  \E n \in 1..Len(ChainOf(log)) : ChainOf(log)[n] = receipt(i)
  <2>1. i \in begins
    BY <1>8 DEF begins
  <2>2. PICK n \in 1..Cardinality(begins) : order[n] = i
    BY <1>5, <2>1
  <2>3. QED BY <1>7, <2>2
<1>9. QED BY <1>7, <1>8 DEF receipt

\* A well-formed log keeps its durable receipts, and they load as good ones.
LEMMA LogSound ==
  ASSUME NEW log \in Seq(Pieces), WellFormed(log), NEW i \in 1..Len(log), i % 4 = 3
  PROVE  \E n \in DOMAIN ChainOf(log) : ChainOf(log)[n].id = log[i].id /\ ChainOf(log)[n].good
<1>1. Len(log) \in Nat /\ DOMAIN ChainOf(log) = 1..Len(ChainOf(log))
  BY LenProperties, ChainLoaded
<1>2. i \in Nat /\ i >= 3 /\ i - 2 \in Nat /\ (i - 2) % 4 = 1 /\ (i - 1) % 4 = 2
      /\ i - 2 \in 1..Len(log) /\ i - 1 \in 1..Len(log)
  BY <1>1
<1>3. i - 2 \in Starts(log)
  BY <1>2, LogLines
<1>4. i - 2 + 1 <= Len(log) /\ i - 2 + 2 <= Len(log)
  BY <1>1, <1>2
<1>5. Decodes(LineAt(log, i - 2)) /\ Authentic(LineAt(log, i - 2))
  BY <1>3, <1>4, LogLine
<1>6. log[i].id = log[i - 1].id
  BY DEF WellFormed
<1>7. log[i - 1].id = log[i - 2].id
  <2>1. i - 1 - 1 = i - 2
    BY <1>2
  <2>2. log[i - 1].id = log[i - 1 - 1].id
    BY <1>2 DEF WellFormed
  <2>3. QED BY <2>1, <2>2
<1>8. PICK n \in 1..Len(ChainOf(log)) :
        ChainOf(log)[n] = [id |-> log[i - 2].id, parent |-> log[i - 2].parent,
                           good |-> Authentic(LineAt(log, i - 2))]
  BY <1>3, <1>5, ChainLoaded
<1>9. QED BY <1>1, <1>5, <1>6, <1>7, <1>8

\* The first state.
LEMMA ReadersStarts == ReadersInit => ReadersInv
<1> SUFFICES ASSUME ReadersInit PROVE ReadersInv
  OBVIOUS
<1>1. MaxLogged \in Nat /\ MaxLogCrashes \in Nat
  BY ReadersAssumption
<1>2. PICK e : e = <<>>
  OBVIOUS
<1>3. e \in Seq(Pieces) /\ e \in Seq(Receipts) /\ Len(e) = 0
  BY <1>2, EmptySeq
<1>4. [chain |-> e, ok |-> TRUE] \in Loaded
  BY <1>3 DEF Loaded
<1>5. ReadersTyped
  <2>1. bytes \in Seq(Pieces) /\ cache \in Loaded
    BY <1>2, <1>3, <1>4 DEF ReadersInit
  <2>2. /\ rdChain \in [LogReaders -> Seq(Receipts)] /\ rdSeen \in [LogReaders -> Seq(Pieces)]
        /\ answer \in [LogReaders -> Loaded]
    <3>1. rdChain = [r \in LogReaders |-> e] /\ rdSeen = [r \in LogReaders |-> e]
          /\ answer = [r \in LogReaders |-> [chain |-> e, ok |-> TRUE]]
      BY <1>2 DEF ReadersInit
    <3>2. QED BY <1>3, <1>4, <3>1
  <2>3. /\ appender \in [pc : {"idle", "writing", "written", "terminated"}, id : 0..MaxLogged]
        /\ appender.pc = "idle"
    BY <1>1 DEF ReadersInit, Idle
  <2>4. /\ rdPc \in [LogReaders -> {"idle", "torn", "parsed", "verifying", "answered"}]
        /\ rdTorn \in [LogReaders -> Nat] /\ rdPrefix \in [LogReaders -> Nat]
    BY DEF ReadersInit
  <2>5. tip \in 0..MaxLogged /\ durable \subseteq 1..MaxLogged /\ logCrashes \in 0..MaxLogCrashes
    BY <1>1 DEF ReadersInit
  <2>6. spoiled \in BOOLEAN
    BY DEF ReadersInit
  <2>7. QED BY <2>6, <2>1, <2>2, <2>3, <2>4, <2>5 DEF ReadersTyped
<1>6. cache.chain = e /\ bytes = e
  BY <1>2 DEF ReadersInit
<1>7. VerifiesFrom(cache.chain, 0)
  BY <1>3, <1>6 DEF VerifiesFrom
<1>8. LogInv
  BY <1>3, <1>6 DEF ReadersInit, LogInv, WellFormed, AppenderInv, DurableInv, Idle
<1>9. QED BY <1>5, <1>7, <1>8 DEF ReadersInv, ReaderInv, ReadersInit

\* A step of a reader leaves the log alone.
LEMMA LogStays ==
  ASSUME ~spoiled => LogInv, UNCHANGED <<bytes, appender, durable, spoiled>>,
         \A q \in LogReaders : ~spoiled /\ rdPc'[q] = "torn" =>
           \/ rdPc[q] = "torn" /\ rdSeen'[q] = rdSeen[q] /\ rdTorn'[q] = rdTorn[q]
           \/ Len(rdSeen'[q]) % 4 = 1 /\ rdTorn'[q] = Len(rdSeen'[q]) - 1
  PROVE  ~spoiled' => LogInv'
BY DEF LogInv, WellFormed, AppenderInv, DurableInv

\* A reader nobody touches.
LEMMA ReaderStays ==
  ASSUME NEW q \in LogReaders, ReaderInv(q), rdPc'[q] = rdPc[q], rdChain'[q] = rdChain[q],
         rdPrefix'[q] = rdPrefix[q], answer'[q] = answer[q]
  PROVE  ReaderInv(q)'
BY DEF ReaderInv, VerifiedTo, VerifiesFrom

\* A step of the appender changes the log only.
LEMMA AppendKeeps ==
  ASSUME ReadersInv, UNCHANGED <<cache, rdVars>>, logCrashes' \in 0..MaxLogCrashes,
         spoiled' \in BOOLEAN, spoiled => spoiled',
         bytes' \in Seq(Pieces), tip' \in 0..MaxLogged, durable' \subseteq 1..MaxLogged,
         appender' \in [pc : {"idle", "writing", "written", "terminated"}, id : 0..MaxLogged],
         appender'.pc # "idle" => appender'.id # 0,
         ~spoiled' => WellFormed(bytes') /\ AppenderInv' /\ DurableInv'
  PROVE  ReadersInv'
<1>1. UNCHANGED <<rdPc, rdChain, rdTorn, rdSeen, rdPrefix, answer, cache>>
  BY DEF rdVars
<1>2. ReadersTyped'
  BY <1>1 DEF ReadersInv, ReadersTyped
<1>3. \A q \in LogReaders : ReaderInv(q)'
  BY <1>1, ReaderStays DEF ReadersInv
<1>4. cache'.ok => VerifiesFrom(cache'.chain, 0)
  BY <1>1 DEF ReadersInv
<1>5. ~spoiled' => LogInv'
  <2>1. ASSUME ~spoiled' PROVE LogInv'
    <3>1. \A q \in LogReaders :
            rdPc[q] = "torn" => Len(rdSeen[q]) % 4 = 1 /\ rdTorn[q] = Len(rdSeen[q]) - 1
      BY <2>1 DEF ReadersInv, LogInv
    <3>2. \A q \in LogReaders :
            rdPc'[q] = "torn" => Len(rdSeen'[q]) % 4 = 1 /\ rdTorn'[q] = Len(rdSeen'[q]) - 1
      BY <1>1, <3>1
    <3>3. WellFormed(bytes') /\ AppenderInv' /\ DurableInv'
      BY <2>1
    <3>4. QED BY <3>2, <3>3 DEF LogInv
  <2>2. QED BY <2>1
<1>6. QED BY <1>2, <1>3, <1>4, <1>5 DEF ReadersInv

\* The number of the next receipt.
LEMMA SignedNat ==
  ASSUME ReadersInv
  PROVE  Signed \in Nat /\ Signed # 0
<1> DEFINE S == {0} \cup durable \cup {appender.id} \cup {bytes[i].id : i \in DOMAIN bytes}
<1>1. MaxLogged \in Nat /\ bytes \in Seq(Pieces) /\ durable \subseteq 1..MaxLogged
      /\ appender.id \in 0..MaxLogged
  BY ReadersAssumption DEF ReadersInv, ReadersTyped
<1>2. \A i \in DOMAIN bytes : bytes[i] \in Pieces
  BY <1>1, ElementOfSeq, LenProperties
<1>3. \A i \in DOMAIN bytes : bytes[i].id \in 0..MaxLogged
  BY <1>2 DEF Pieces
<1>4. S \subseteq 0..MaxLogged /\ 0 \in S
  <2>1. 0 \in 0..MaxLogged /\ 1..MaxLogged \subseteq 0..MaxLogged
    BY <1>1
  <2>2. {bytes[i].id : i \in DOMAIN bytes} \subseteq 0..MaxLogged
    BY <1>3
  <2>3. QED BY ONLY <1>1, <2>1, <2>2
<1> HIDE DEF S
<1> DEFINE U == {n \in 0..MaxLogged : \A s \in S : s <= n}
<1>5. U \subseteq Nat /\ U # {}
  <2>1. MaxLogged \in U
    BY <1>1, <1>4
  <2>2. QED BY <1>1, <2>1
<1>6. PICK m \in U : \A k \in U : m <= k
  BY <1>5, LeastOf
<1>7. m \in S
  <2>1. ASSUME m \notin S PROVE FALSE
    <3>1. m \in Nat /\ m <= MaxLogged /\ \A s \in S : s \in Nat /\ s <= m /\ s # m
      BY <1>1, <1>4, <1>6, <2>1
    <3>2. m # 0
      BY <1>4, <2>1
    <3>3. m - 1 \in 0..MaxLogged /\ \A s \in S : s <= m - 1
      BY <1>1, <3>1, <3>2
    <3>4. m - 1 \in U
      BY <3>3
    <3>5. m <= m - 1
      BY <1>6, <3>4
    <3>6. QED BY <3>1, <3>5
  <2>2. QED BY <2>1
<1>8. \E x \in S : \A y \in S : x >= y
  <2>1. \A y \in S : m >= y
    BY <1>1, <1>4, <1>6
  <2>2. QED BY <1>7, <2>1
<1>9. Max(S) \in S
  BY <1>8 DEF Max
<1>10. Max(S) \in Nat
  <2>1. \A s \in S : s \in Nat
    BY <1>1, <1>4
  <2>2. QED BY <1>9, <2>1
<1>11. Signed = 1 + Max(S)
  BY DEF Signed, S
<1>12. QED BY <1>10, <1>11

\* One more piece at the end of a well-formed log.
LEMMA PieceAdded ==
  ASSUME NEW log \in Seq(Pieces), WellFormed(log), NEW x \in Pieces,
         x.part = PartAt(Len(log) + 1), (Len(log) + 1) % 4 = 0 => x = Newline,
         (Len(log) + 1) % 4 \in {2, 3} => x.id = log[Len(log)].id
  PROVE  /\ WellFormed(Append(log, x)) /\ Append(log, x) \in Seq(Pieces)
         /\ Len(Append(log, x)) = Len(log) + 1 /\ Append(log, x)[Len(log) + 1] = x
         /\ \A i \in 1..Len(log) : Append(log, x)[i] = log[i]
<1> DEFINE new == Append(log, x)
<1>1. /\ Len(log) \in Nat /\ new \in Seq(Pieces) /\ Len(new) = Len(log) + 1
      /\ new[Len(log) + 1] = x /\ \A i \in 1..Len(log) : new[i] = log[i]
  BY LenProperties, AppendProperties
<1> HIDE DEF new
<1>2. ASSUME NEW i \in 1..Len(new)
      PROVE  /\ new[i].part = PartAt(i)
             /\ i % 4 = 0 => new[i] = Newline
             /\ i % 4 \in {2, 3} => new[i].id = new[i - 1].id
  <2>1. CASE i = Len(log) + 1
    <3>1. i % 4 \in {2, 3} => Len(log) # 0
      BY <2>1
    <3>2. i - 1 = Len(log)
      BY <1>1, <2>1
    <3>3. Len(log) # 0 => Len(log) \in 1..Len(log)
      BY <1>1
    <3>4. new[i] = x
      BY <1>1, <2>1
    <3>5. QED BY <1>1, <2>1, <3>1, <3>2, <3>3, <3>4
  <2>2. CASE i # Len(log) + 1
    <3>1. i \in 1..Len(log) /\ new[i] = log[i]
      BY <1>1, <2>2
    <3>2. i % 4 \in {2, 3} => i - 1 \in 1..Len(log)
      BY <1>1, <3>1
    <3>3. QED BY <1>1, <3>1, <3>2 DEF WellFormed
  <2>3. QED BY <2>1, <2>2
<1>3. WellFormed(new)
  BY <1>2 DEF WellFormed
<1>4. QED BY <1>1, <1>3 DEF new

\* One or two more members at the end of a sequence.
LEMMA ConcatShort ==
  ASSUME NEW S, NEW s \in Seq(S), NEW t \in Seq(S)
  PROVE  /\ Len(t) = 1 => s \o t = Append(s, t[1])
         /\ Len(t) = 2 => s \o t = Append(Append(s, t[1]), t[2])
<1>1. Len(s) \in Nat /\ Len(t) \in Nat /\ \A i \in 1..Len(t) : t[i] \in S
  BY LenProperties, ElementOfSeq
<1>2. /\ s \o t \in Seq(S) /\ Len(s \o t) = Len(s) + Len(t)
      /\ \A i \in 1..(Len(s) + Len(t)) : (s \o t)[i] = IF i <= Len(s) THEN s[i] ELSE t[i - Len(s)]
  BY ConcatProperties
<1>3. ASSUME Len(t) = 1 PROVE s \o t = Append(s, t[1])
  <2>1. /\ Append(s, t[1]) \in Seq(S) /\ Len(Append(s, t[1])) = Len(s) + 1
        /\ \A i \in 1..Len(s) : Append(s, t[1])[i] = s[i]
        /\ Append(s, t[1])[Len(s) + 1] = t[1]
    BY <1>1, <1>3, AppendProperties
  <2>2. ASSUME NEW i \in 1..(Len(s) + 1) PROVE (s \o t)[i] = Append(s, t[1])[i]
    <3>1. CASE i \in 1..Len(s)
      BY <1>1, <1>2, <1>3, <2>1, <3>1
    <3>2. CASE i = Len(s) + 1
      <4>1. i - Len(s) = 1 /\ ~(i <= Len(s))
        BY <1>1, <3>2
      <4>2. QED BY <1>2, <1>3, <2>1, <3>2, <4>1
    <3>3. i \in 1..Len(s) \/ i = Len(s) + 1
      BY <1>1
    <3>4. QED BY <3>1, <3>2, <3>3
  <2>3. QED BY <1>2, <1>3, <2>1, <2>2, SeqEqual
<1>4. ASSUME Len(t) = 2 PROVE s \o t = Append(Append(s, t[1]), t[2])
  <2> DEFINE u == Append(s, t[1])
  <2>1. /\ u \in Seq(S) /\ Len(u) = Len(s) + 1 /\ u[Len(s) + 1] = t[1]
        /\ \A i \in 1..Len(s) : u[i] = s[i]
    BY <1>1, <1>4, AppendProperties
  <2> HIDE DEF u
  <2>2. /\ Append(u, t[2]) \in Seq(S) /\ Len(Append(u, t[2])) = Len(s) + 2
        /\ \A i \in 1..(Len(s) + 1) : Append(u, t[2])[i] = u[i]
        /\ Append(u, t[2])[Len(s) + 2] = t[2]
    <3>1. Len(u) + 1 = Len(s) + 2 /\ t[2] \in S
      BY <1>1, <1>4, <2>1
    <3>2. /\ Append(u, t[2]) \in Seq(S) /\ Len(Append(u, t[2])) = Len(u) + 1
          /\ \A i \in 1..Len(u) : Append(u, t[2])[i] = u[i]
          /\ Append(u, t[2])[Len(u) + 1] = t[2]
      BY <2>1, <3>1, AppendProperties
    <3>3. QED BY <2>1, <3>1, <3>2
  <2>3. ASSUME NEW i \in 1..(Len(s) + 2) PROVE (s \o t)[i] = Append(u, t[2])[i]
    <3>1. CASE i \in 1..Len(s)
      BY <1>1, <1>2, <1>4, <2>1, <2>2, <3>1
    <3>2. CASE i = Len(s) + 1
      <4>1. i - Len(s) = 1 /\ ~(i <= Len(s)) /\ i \in 1..(Len(s) + 1)
        BY <1>1, <3>2
      <4>2. (s \o t)[i] = t[1]
        BY <1>2, <1>4, <4>1
      <4>3. Append(u, t[2])[i] = u[i]
        BY <2>2, <4>1
      <4>4. u[i] = t[1]
        <5>1. u[Len(s) + 1] = t[1]
          BY <2>1
        <5>2. QED BY ONLY <3>2, <5>1
      <4>5. QED BY <4>2, <4>3, <4>4
    <3>3. CASE i = Len(s) + 2
      <4>1. i - Len(s) = 2 /\ ~(i <= Len(s))
        BY <1>1, <3>3
      <4>2. (s \o t)[i] = t[2]
        BY <1>2, <1>4, <4>1
      <4>3. QED BY <2>2, <3>3, <4>2
    <3>4. i \in 1..Len(s) \/ i = Len(s) + 1 \/ i = Len(s) + 2
      BY <1>1
    <3>5. QED BY <3>1, <3>2, <3>3, <3>4
  <2>4. QED BY <1>2, <1>4, <2>2, <2>3, SeqEqual DEF u
<1>5. QED BY <1>3, <1>4

\* A log that only grows keeps the durable receipts.
LEMMA DurableGrows ==
  ASSUME DurableInv, durable' = durable, Len(bytes) \in Nat, Len(bytes') \in Nat,
         Len(bytes) <= Len(bytes'), \A i \in 1..Len(bytes) : bytes'[i] = bytes[i]
  PROVE  DurableInv'
<1> SUFFICES ASSUME NEW id \in durable
             PROVE  \E i \in 1..Len(bytes') : i % 4 = 3 /\ i + 1 <= Len(bytes') /\ bytes'[i].id = id
  BY DEF DurableInv
<1>1. PICK i \in 1..Len(bytes) : i % 4 = 3 /\ i + 1 <= Len(bytes) /\ bytes[i].id = id
  BY DEF DurableInv
<1>2. i \in 1..Len(bytes') /\ i + 1 <= Len(bytes') /\ bytes'[i] = bytes[i]
  BY <1>1
<1>3. QED BY <1>1, <1>2

\* The first pieces of a line.
LEMMA AppendBeginsKept ==
  ASSUME ReadersInv, NEW parts \in {<<"head">>, <<"head", "body">>}, AppendBegins(parts)
  PROVE  ReadersInv'
<1>1. /\ appender.pc = "idle" /\ Signed <= MaxLogged
      /\ appender' = [pc |-> "writing", id |-> Signed]
      /\ bytes' = bytes \o [i \in 1..Len(parts) |-> Piece(parts[i], Signed, tip)]
      /\ spoiled' = (spoiled \/ (bytes # <<>> /\ bytes[Len(bytes)] # Newline))
      /\ UNCHANGED <<tip, durable, cache, rdVars, logCrashes>>
  BY DEF AppendBegins
<1>2. MaxLogged \in Nat /\ Signed \in 1..MaxLogged /\ Signed \in 0..MaxLogged
  BY <1>1, ReadersAssumption, SignedNat
<1>3. tip \in 0..MaxLogged /\ durable \subseteq 1..MaxLogged /\ bytes \in Seq(Pieces)
      /\ Len(bytes) \in Nat
  BY LenProperties DEF ReadersInv, ReadersTyped
<1>4. PICK id : id = Signed
  OBVIOUS
<1> DEFINE h == Piece("head", id, tip)
           b == Piece("body", id, tip)
           f == [i \in 1..Len(parts) |-> Piece(parts[i], id, tip)]
<1>5. h \in Pieces /\ b \in Pieces /\ h.part = "head" /\ b.part = "body" /\ h.id = id /\ b.id = id
  BY <1>2, <1>3, <1>4 DEF Piece, Pieces
<1>6. bytes' = bytes \o f
  BY <1>1, <1>4
<1>7. \/ Len(f) = 1 /\ f \in Seq(Pieces) /\ f[1] = h
      \/ Len(f) = 2 /\ f \in Seq(Pieces) /\ f[1] = h /\ f[2] = b
  <2>1. CASE parts = <<"head">>
    <3>1. Len(parts) = 1 /\ parts[1] = "head"
      BY <2>1
    <3>2. Len(f) = 1 /\ f[1] = h /\ \A i \in 1..1 : f[i] \in Pieces
      BY <1>5, <3>1
    <3>3. f = [i \in 1..1 |-> f[i]]
      BY <3>1
    <3>4. f \in Seq(Pieces)
      BY <3>2, <3>3
    <3>5. QED BY <3>2, <3>4
  <2>2. CASE parts = <<"head", "body">>
    <3>1. Len(parts) = 2 /\ parts[1] = "head" /\ parts[2] = "body"
      BY <2>2
    <3>2. Len(f) = 2 /\ f[1] = h /\ f[2] = b
      BY <3>1
    <3>3. \A i \in 1..2 : f[i] \in Pieces
      BY <1>5, <3>2
    <3>4. f = [i \in 1..2 |-> f[i]]
      BY <3>1
    <3>5. f \in Seq(Pieces)
      BY <3>3, <3>4
    <3>6. QED BY <3>2, <3>5
  <2>3. QED BY <2>1, <2>2
<1> HIDE DEF f, h, b
<1>8. bytes' = Append(bytes, h) \/ bytes' = Append(Append(bytes, h), b)
  BY <1>3, <1>6, <1>7, ConcatShort
<1>9. bytes' \in Seq(Pieces)
  <2>1. Append(bytes, h) \in Seq(Pieces)
    BY <1>3, <1>5, AppendProperties
  <2>2. Append(Append(bytes, h), b) \in Seq(Pieces)
    BY <1>5, <2>1, AppendProperties
  <2>3. QED BY <1>8, <2>1, <2>2
<1>10. ASSUME ~spoiled' PROVE WellFormed(bytes') /\ AppenderInv' /\ DurableInv'
  <2>1. LogInv
    BY <1>1, <1>10 DEF ReadersInv
  <2>2. Len(bytes) % 4 = 0 /\ (Len(bytes) + 1) % 4 = 1 /\ (Len(bytes) + 1 + 1) % 4 = 2
        /\ (Len(bytes) + 2) % 4 = 2
    <3>1. Len(bytes) % 4 = 0
      <4>1. CASE bytes = <<>>
        BY <4>1
      <4>2. CASE bytes # <<>>
        <5>1. bytes[Len(bytes)] = Newline
          BY <1>1, <1>10, <4>2
        <5>2. Len(bytes) \in 1..Len(bytes) /\ Newline.part = "nl"
          <6>1. Len(bytes) # 0
            BY <1>3, <4>2, EmptySeq
          <6>2. QED BY <1>3, <6>1 DEF Newline, Piece
        <5>3. Len(bytes) % 4 \in 0..3
          BY <1>3, Fours
        <5>4. QED BY <2>1, <5>1, <5>2, <5>3, PieceOf DEF LogInv
      <4>3. QED BY <4>1, <4>2
    <3>2. QED BY <1>3, <3>1
  <2>3. h.part = PartAt(Len(bytes) + 1)
    BY <1>5, <2>2 DEF PartAt
  <2> DEFINE one == Append(bytes, h)
  <2>4. /\ WellFormed(one) /\ one \in Seq(Pieces)
        /\ Len(one) = Len(bytes) + 1 /\ one[Len(bytes) + 1] = h
        /\ \A i \in 1..Len(bytes) : one[i] = bytes[i]
    BY <1>3, <1>5, <2>1, <2>2, <2>3, PieceAdded DEF LogInv
  <2> HIDE DEF one
  <2>5. CASE bytes' = one
    <3>1. AppenderInv'
      BY <1>1, <1>4, <1>5, <2>2, <2>4, <2>5 DEF AppenderInv
    <3>2. DurableInv'
      <4>1. Len(bytes') \in Nat /\ Len(bytes) <= Len(bytes') /\ \A i \in 1..Len(bytes) : bytes'[i] = bytes[i]
        BY <1>3, <2>4, <2>5
      <4>2. QED BY <1>1, <1>3, <2>1, <4>1, DurableGrows DEF LogInv
    <3>3. QED BY <2>4, <2>5, <3>1, <3>2
  <2>6. CASE bytes' = Append(one, b)
    <3>1. b.part = PartAt(Len(one) + 1) /\ (Len(one) + 1) % 4 = 2 /\ b.id = one[Len(one)].id
      BY <1>5, <2>2, <2>4 DEF PartAt
    <3>2. /\ WellFormed(Append(one, b)) /\ Append(one, b) \in Seq(Pieces)
          /\ Len(Append(one, b)) = Len(one) + 1 /\ Append(one, b)[Len(one) + 1] = b
          /\ \A i \in 1..Len(one) : Append(one, b)[i] = one[i]
      BY <1>5, <2>4, <3>1, PieceAdded
    <3>3. Len(bytes') = Len(one) + 1 /\ bytes'[Len(bytes')] = b
      BY <2>6, <3>2
    <3>4. AppenderInv'
      BY <1>1, <1>4, <1>5, <3>1, <3>3 DEF AppenderInv
    <3>5. DurableInv'
      <4>1. Len(bytes') \in Nat /\ Len(bytes) <= Len(bytes') /\ \A i \in 1..Len(bytes) : bytes'[i] = bytes[i]
        BY <1>3, <2>4, <2>6, <3>2
      <4>2. QED BY <1>1, <1>3, <2>1, <4>1, DurableGrows DEF LogInv
    <3>6. QED BY <2>6, <3>2, <3>4, <3>5
  <2>7. QED BY <1>8, <2>5, <2>6 DEF one
<1>11. appender' \in [pc : {"idle", "writing", "written", "terminated"}, id : 0..MaxLogged]
       /\ appender'.id # 0
  BY <1>1, <1>2
<1>12. /\ tip' \in 0..MaxLogged /\ durable' \subseteq 1..MaxLogged
       /\ spoiled' \in BOOLEAN /\ (spoiled => spoiled') /\ logCrashes' \in 0..MaxLogCrashes
       /\ UNCHANGED <<cache, rdVars>>
  BY <1>1, <1>3 DEF ReadersInv, ReadersTyped
<1>13. QED BY <1>9, <1>10, <1>11, <1>12, AppendKeeps

\* The rest of a line.
LEMMA AppendRestKept ==
  ASSUME ReadersInv, AppendRest
  PROVE  ReadersInv'
<1>1. PICK id : id = appender.id
  OBVIOUS
<1> DEFINE b == Piece("body", id, tip)
           g == Piece("sig", id, tip)
           headed == bytes[Len(bytes)].part = "head"
<1>2. /\ appender.pc = "writing" /\ appender' = [appender EXCEPT !.pc = "written"]
      /\ bytes' = bytes \o (IF headed THEN <<b, g>> ELSE <<g>>)
      /\ UNCHANGED <<tip, durable, cache, rdVars, spoiled, logCrashes>>
  BY <1>1 DEF AppendRest
<1>3. /\ tip \in 0..MaxLogged /\ durable \subseteq 1..MaxLogged /\ bytes \in Seq(Pieces)
      /\ Len(bytes) \in Nat /\ id \in 0..MaxLogged /\ id # 0
      /\ appender \in [pc : {"idle", "writing", "written", "terminated"}, id : 0..MaxLogged]
  BY <1>1, <1>2, LenProperties DEF ReadersInv, ReadersTyped
<1>4. b \in Pieces /\ g \in Pieces /\ b.part = "body" /\ g.part = "sig" /\ b.id = id /\ g.id = id
  BY <1>3 DEF Piece, Pieces
<1> HIDE DEF b, g
<1>5. /\ headed => bytes' = Append(Append(bytes, b), g)
      /\ ~headed => bytes' = Append(bytes, g)
  <2>1. <<b, g>> \in Seq(Pieces) /\ <<g>> \in Seq(Pieces)
    BY <1>4
  <2>2. CASE headed
    <3>1. bytes' = bytes \o <<b, g>>
      BY <1>2, <2>2
    <3>2. QED BY <1>3, <2>1, <2>2, <3>1, ConcatShort
  <2>3. CASE ~headed
    <3>1. bytes' = bytes \o <<g>>
      BY <1>2, <2>3
    <3>2. QED BY <1>3, <2>1, <2>3, <3>1, ConcatShort
  <2>4. QED BY <2>2, <2>3
<1>6. bytes' \in Seq(Pieces)
  <2>1. Append(bytes, b) \in Seq(Pieces) /\ Append(bytes, g) \in Seq(Pieces)
    BY <1>3, <1>4, AppendProperties
  <2>2. Append(Append(bytes, b), g) \in Seq(Pieces)
    BY <1>4, <2>1, AppendProperties
  <2>3. QED BY <1>5, <2>1, <2>2
<1>7. /\ appender'.pc = "written" /\ appender'.id = id
      /\ appender' \in [pc : {"idle", "writing", "written", "terminated"}, id : 0..MaxLogged]
  BY <1>1, <1>2, <1>3
<1>8. ASSUME ~spoiled PROVE WellFormed(bytes') /\ AppenderInv' /\ DurableInv'
  <2>1. WellFormed(bytes) /\ AppenderInv /\ DurableInv
    BY <1>8 DEF ReadersInv, LogInv
  <2>2. Len(bytes) % 4 \in {1, 2} /\ bytes[Len(bytes)].id = id
    BY <1>1, <1>2, <2>1 DEF AppenderInv
  <2>3. Len(bytes) \in 1..Len(bytes)
    <3>1. Len(bytes) # 0
      BY <2>2
    <3>2. QED BY <1>3, <3>1
  <2>4. headed <=> Len(bytes) % 4 = 1
    BY <2>1, <2>2, <2>3, PieceOf
  <2>5. CASE Len(bytes) % 4 = 1
    <3> DEFINE one == Append(bytes, b)
    <3>1. (Len(bytes) + 1) % 4 = 2 /\ (Len(bytes) + 1 + 1) % 4 = 3
      BY <1>3, <2>5
    <3>2. b.part = PartAt(Len(bytes) + 1) /\ b.id = bytes[Len(bytes)].id
      BY <1>4, <2>2, <3>1 DEF PartAt
    <3>3. /\ WellFormed(one) /\ one \in Seq(Pieces)
          /\ Len(one) = Len(bytes) + 1 /\ one[Len(bytes) + 1] = b
          /\ \A i \in 1..Len(bytes) : one[i] = bytes[i]
      BY <1>3, <1>4, <2>1, <3>1, <3>2, PieceAdded
    <3> HIDE DEF one
    <3>4. g.part = PartAt(Len(one) + 1) /\ g.id = one[Len(one)].id /\ (Len(one) + 1) % 4 = 3
      BY <1>4, <3>1, <3>3 DEF PartAt
    <3>5. /\ WellFormed(Append(one, g)) /\ Append(one, g) \in Seq(Pieces)
          /\ Len(Append(one, g)) = Len(one) + 1 /\ Append(one, g)[Len(one) + 1] = g
          /\ \A i \in 1..Len(one) : Append(one, g)[i] = one[i]
      BY <1>4, <3>3, <3>4, PieceAdded
    <3>6. bytes' = Append(one, g)
      BY <1>5, <2>4, <2>5 DEF one
    <3>7. AppenderInv'
      BY <1>4, <1>7, <3>4, <3>5, <3>6 DEF AppenderInv
    <3>8. Len(bytes') \in Nat /\ Len(bytes) <= Len(bytes') /\ \A i \in 1..Len(bytes) : bytes'[i] = bytes[i]
      BY <1>3, <3>3, <3>5, <3>6
    <3>9. DurableInv'
      BY <1>2, <1>3, <2>1, <3>8, DurableGrows
    <3>10. QED BY <3>5, <3>6, <3>7, <3>9
  <2>6. CASE Len(bytes) % 4 = 2
    <3>1. (Len(bytes) + 1) % 4 = 3
      BY <1>3, <2>6
    <3>2. g.part = PartAt(Len(bytes) + 1) /\ g.id = bytes[Len(bytes)].id
      BY <1>4, <2>2, <3>1 DEF PartAt
    <3>3. /\ WellFormed(Append(bytes, g)) /\ Append(bytes, g) \in Seq(Pieces)
          /\ Len(Append(bytes, g)) = Len(bytes) + 1 /\ Append(bytes, g)[Len(bytes) + 1] = g
          /\ \A i \in 1..Len(bytes) : Append(bytes, g)[i] = bytes[i]
      BY <1>3, <1>4, <2>1, <3>1, <3>2, PieceAdded
    <3>4. bytes' = Append(bytes, g)
      BY <1>5, <2>4, <2>6
    <3>5. AppenderInv'
      BY <1>4, <1>7, <3>1, <3>3, <3>4 DEF AppenderInv
    <3>6. Len(bytes') \in Nat /\ Len(bytes) <= Len(bytes') /\ \A i \in 1..Len(bytes) : bytes'[i] = bytes[i]
      BY <1>3, <3>3, <3>4
    <3>7. DurableInv'
      BY <1>2, <1>3, <2>1, <3>6, DurableGrows
    <3>8. QED BY <3>3, <3>4, <3>5, <3>7
  <2>7. QED BY <2>2, <2>5, <2>6
<1>9. /\ tip' \in 0..MaxLogged /\ durable' \subseteq 1..MaxLogged
      /\ spoiled' \in BOOLEAN /\ spoiled' = spoiled /\ logCrashes' \in 0..MaxLogCrashes
      /\ UNCHANGED <<cache, rdVars>>
  BY <1>2, <1>3 DEF ReadersInv, ReadersTyped
<1>10. QED BY <1>3, <1>6, <1>7, <1>8, <1>9, AppendKeeps

\* The newline, the return of sync_all, and an append that fails.
LEMMA AppendEndsKept ==
  ASSUME ReadersInv, AppendNewline \/ AppendSyncs \/ LogAppendFails
  PROVE  ReadersInv'
<1>1. /\ tip \in 0..MaxLogged /\ durable \subseteq 1..MaxLogged /\ bytes \in Seq(Pieces)
      /\ Len(bytes) \in Nat /\ MaxLogged \in Nat
      /\ appender \in [pc : {"idle", "writing", "written", "terminated"}, id : 0..MaxLogged]
      /\ appender.pc # "idle" => appender.id # 0
  BY LenProperties, ReadersAssumption DEF ReadersInv, ReadersTyped
<1>2. CASE AppendNewline
  <2>1. /\ appender.pc = "written" /\ appender' = [appender EXCEPT !.pc = "terminated"]
        /\ bytes' = Append(bytes, Newline)
        /\ UNCHANGED <<tip, durable, cache, rdVars, spoiled, logCrashes>>
    BY <1>2 DEF AppendNewline
  <2>2. Newline \in Pieces /\ Newline.part = "nl"
    BY <1>1 DEF Newline, Piece, Pieces
  <2>3. bytes' \in Seq(Pieces)
    BY <1>1, <2>1, <2>2, AppendProperties
  <2>4. /\ appender' \in [pc : {"idle", "writing", "written", "terminated"}, id : 0..MaxLogged]
        /\ appender'.pc = "terminated" /\ appender'.id = appender.id /\ appender.id # 0
    BY <1>1, <2>1
  <2>5. ASSUME ~spoiled PROVE WellFormed(bytes') /\ AppenderInv' /\ DurableInv'
    <3>1. WellFormed(bytes) /\ AppenderInv /\ DurableInv
      BY <2>5 DEF ReadersInv, LogInv
    <3>2. Len(bytes) % 4 = 3 /\ bytes[Len(bytes)].id = appender.id
      BY <2>1, <3>1 DEF AppenderInv
    <3>3. (Len(bytes) + 1) % 4 = 0 /\ Len(bytes) >= 3
      BY <1>1, <3>2
    <3>4. Newline.part = PartAt(Len(bytes) + 1)
      BY <2>2, <3>3 DEF PartAt
    <3>5. /\ WellFormed(Append(bytes, Newline))
          /\ Len(Append(bytes, Newline)) = Len(bytes) + 1
          /\ \A i \in 1..Len(bytes) : Append(bytes, Newline)[i] = bytes[i]
      BY <1>1, <2>2, <3>1, <3>3, <3>4, PieceAdded
    <3>6. Len(bytes') \in Nat /\ Len(bytes) <= Len(bytes') /\ \A i \in 1..Len(bytes) : bytes'[i] = bytes[i]
      BY <1>1, <2>1, <3>5
    <3>7. DurableInv'
      BY <1>1, <2>1, <3>1, <3>6, DurableGrows
    <3>8. Len(bytes') % 4 = 0 /\ Len(bytes') >= 4 /\ bytes'[Len(bytes') - 1].id = appender.id
      <4>1. Len(bytes') = Len(bytes) + 1 /\ Len(bytes') - 1 = Len(bytes) /\ Len(bytes) \in 1..Len(bytes)
        BY <1>1, <2>1, <3>3, <3>5
      <4>2. QED BY <1>1, <3>2, <3>3, <3>6, <4>1
    <3>9. AppenderInv'
      BY <2>4, <3>8 DEF AppenderInv
    <3>10. QED BY <2>1, <3>5, <3>7, <3>9
  <2>6. /\ tip' \in 0..MaxLogged /\ durable' \subseteq 1..MaxLogged
        /\ spoiled' \in BOOLEAN /\ spoiled' = spoiled /\ logCrashes' \in 0..MaxLogCrashes
        /\ UNCHANGED <<cache, rdVars>>
    BY <1>1, <2>1 DEF ReadersInv, ReadersTyped
  <2>7. QED BY <2>3, <2>4, <2>5, <2>6, AppendKeeps
<1>3. CASE AppendSyncs
  <2>1. /\ appender.pc = "terminated" /\ appender' = Idle /\ tip' = appender.id
        /\ durable' = durable \cup {appender.id}
        /\ UNCHANGED <<bytes, cache, rdVars, spoiled, logCrashes>>
    BY <1>3 DEF AppendSyncs
  <2>2. /\ appender' \in [pc : {"idle", "writing", "written", "terminated"}, id : 0..MaxLogged]
        /\ appender'.pc = "idle"
    BY <1>1, <2>1 DEF Idle
  <2>3. tip' \in 0..MaxLogged /\ durable' \subseteq 1..MaxLogged /\ bytes' \in Seq(Pieces)
    <3>1. appender.id \in 0..MaxLogged /\ appender.id \in 1..MaxLogged
      BY <1>1, <2>1
    <3>2. QED BY <1>1, <2>1, <3>1
  <2>4. ASSUME ~spoiled PROVE WellFormed(bytes') /\ AppenderInv' /\ DurableInv'
    <3>1. WellFormed(bytes) /\ AppenderInv /\ DurableInv
      BY <2>4 DEF ReadersInv, LogInv
    <3>2. Len(bytes) % 4 = 0 /\ Len(bytes) >= 4 /\ bytes[Len(bytes) - 1].id = appender.id
      BY <2>1, <3>1 DEF AppenderInv
    <3>3. PICK k \in 1..Len(bytes) : k % 4 = 3 /\ k + 1 <= Len(bytes) /\ bytes[k].id = appender.id
      <4>1. (Len(bytes) - 1) % 4 = 3 /\ Len(bytes) - 1 \in 1..Len(bytes)
            /\ (Len(bytes) - 1) + 1 <= Len(bytes)
        BY <1>1, <3>2
      <4>2. QED BY <3>2, <4>1
    <3>4. DurableInv'
      BY <2>1, <3>1, <3>3 DEF DurableInv
    <3>5. AppenderInv'
      BY <2>1, <2>2, <3>2 DEF AppenderInv
    <3>6. QED BY <2>1, <3>1, <3>4, <3>5
  <2>5. /\ spoiled' \in BOOLEAN /\ spoiled' = spoiled /\ logCrashes' \in 0..MaxLogCrashes
        /\ UNCHANGED <<cache, rdVars>>
    BY <2>1 DEF ReadersInv, ReadersTyped
  <2>6. QED BY <2>2, <2>3, <2>4, <2>5, AppendKeeps
<1>4. CASE LogAppendFails
  <2>1. /\ appender' = Idle /\ logCrashes < MaxLogCrashes /\ logCrashes' = logCrashes + 1
        /\ UNCHANGED <<bytes, tip, durable, cache, rdVars, spoiled>>
    BY <1>4 DEF LogAppendFails
  <2>2. /\ appender' \in [pc : {"idle", "writing", "written", "terminated"}, id : 0..MaxLogged]
        /\ appender'.pc = "idle"
    BY <1>1, <2>1 DEF Idle
  <2>3. /\ tip' \in 0..MaxLogged /\ durable' \subseteq 1..MaxLogged /\ bytes' \in Seq(Pieces)
        /\ spoiled' \in BOOLEAN /\ spoiled' = spoiled
    BY <1>1, <2>1 DEF ReadersInv, ReadersTyped
  <2>4. logCrashes' \in 0..MaxLogCrashes
    <3>1. logCrashes \in 0..MaxLogCrashes /\ MaxLogCrashes \in Nat
      BY ReadersAssumption DEF ReadersInv, ReadersTyped
    <3>2. QED BY <2>1, <3>1
  <2>5. ASSUME ~spoiled' PROVE WellFormed(bytes') /\ AppenderInv' /\ DurableInv'
    <3>1. WellFormed(bytes) /\ DurableInv
      BY <2>1, <2>5 DEF ReadersInv, LogInv
    <3>2. AppenderInv'
      BY <2>2 DEF AppenderInv
    <3>3. QED BY <2>1, <3>1, <3>2 DEF DurableInv
  <2>6. UNCHANGED <<cache, rdVars>>
    BY <2>1
  <2>7. QED BY <2>2, <2>3, <2>4, <2>5, <2>6, AppendKeeps
<1>5. QED BY <1>2, <1>3, <1>4

\* What a step of one reader has to show.
LEMMA ReaderStepKept ==
  ASSUME ReadersInv, NEW r \in LogReaders,
         UNCHANGED <<bytes, appender, tip, durable, spoiled, logCrashes>>,
         cache' \in Loaded, cache'.ok => VerifiesFrom(cache'.chain, 0),
         rdPc' \in [LogReaders -> {"idle", "torn", "parsed", "verifying", "answered"}],
         rdChain' \in [LogReaders -> Seq(Receipts)], rdSeen' \in [LogReaders -> Seq(Pieces)],
         rdTorn' \in [LogReaders -> Nat], rdPrefix' \in [LogReaders -> Nat],
         answer' \in [LogReaders -> Loaded],
         \A q \in LogReaders \ {r} :
           /\ rdPc'[q] = rdPc[q] /\ rdChain'[q] = rdChain[q] /\ rdSeen'[q] = rdSeen[q]
           /\ rdTorn'[q] = rdTorn[q] /\ rdPrefix'[q] = rdPrefix[q] /\ answer'[q] = answer[q],
         ReaderInv(r)',
         ~spoiled /\ rdPc'[r] = "torn" =>
           Len(rdSeen'[r]) % 4 = 1 /\ rdTorn'[r] = Len(rdSeen'[r]) - 1
  PROVE  ReadersInv'
<1>1. ReadersTyped'
  BY DEF ReadersInv, ReadersTyped
<1>2. \A q \in LogReaders : ReaderInv(q)'
  BY ReaderStays DEF ReadersInv
<1>3. ~spoiled' => LogInv'
  <2>1. \A q \in LogReaders : ~spoiled /\ rdPc'[q] = "torn" =>
           \/ rdPc[q] = "torn" /\ rdSeen'[q] = rdSeen[q] /\ rdTorn'[q] = rdTorn[q]
           \/ Len(rdSeen'[q]) % 4 = 1 /\ rdTorn'[q] = Len(rdSeen'[q]) - 1
    OBVIOUS
  <2>2. ~spoiled => LogInv
    BY DEF ReadersInv
  <2>3. QED BY <2>1, <2>2, LogStays
<1>4. QED BY <1>1, <1>2, <1>3 DEF ReadersInv

\* A reader loads the log.
LEMMA ReadLogKept ==
  ASSUME ReadersInv, NEW r \in LogReaders, ReadLog(r)
  PROVE  ReadersInv'
<1>1. /\ rdChain' = [rdChain EXCEPT ![r] = ChainOf(bytes)]
      /\ UNCHANGED <<bytes, appender, tip, durable, cache, rdPrefix, answer, spoiled, logCrashes>>
  BY DEF ReadLog
<1>2. /\ bytes \in Seq(Pieces) /\ cache \in Loaded /\ (cache.ok => VerifiesFrom(cache.chain, 0))
      /\ rdPc \in [LogReaders -> {"idle", "torn", "parsed", "verifying", "answered"}]
      /\ rdChain \in [LogReaders -> Seq(Receipts)] /\ rdSeen \in [LogReaders -> Seq(Pieces)]
      /\ rdTorn \in [LogReaders -> Nat] /\ rdPrefix \in [LogReaders -> Nat]
      /\ answer \in [LogReaders -> Loaded]
  BY DEF ReadersInv, ReadersTyped
<1>3. ChainOf(bytes) \in Seq(Receipts)
  BY <1>2, ChainLoaded
<1>4. TornAt(bytes) \subseteq 1..Len(bytes) /\ Len(bytes) \in Nat
  BY <1>2, LenProperties DEF TornAt, Undecodable, Starts
<1>5. TornAt(bytes) # {} => Min(TornAt(bytes)) - 1 \in Nat
  <2>1. ASSUME TornAt(bytes) # {} PROVE Min(TornAt(bytes)) \in TornAt(bytes)
    <3>1. TornAt(bytes) \subseteq Nat
      BY <1>4
    <3>2. QED BY <2>1, <3>1, MinOfNumbers
  <2>2. TornAt(bytes) # {} => Min(TornAt(bytes)) \in 1..Len(bytes)
    BY <1>4, <2>1
  <2>3. QED BY <1>4, <2>2
<1>6. rdChain' \in [LogReaders -> Seq(Receipts)]
      /\ (\A q \in LogReaders \ {r} : rdChain'[q] = rdChain[q])
  BY <1>1, <1>2, <1>3
<1>7. CASE TornAt(bytes) = {}
  <2>1. rdPc' = [rdPc EXCEPT ![r] = "parsed"] /\ UNCHANGED <<rdTorn, rdSeen>>
    BY <1>7 DEF ReadLog
  <2>2. /\ rdPc' \in [LogReaders -> {"idle", "torn", "parsed", "verifying", "answered"}]
        /\ rdPc'[r] = "parsed" /\ (\A q \in LogReaders \ {r} : rdPc'[q] = rdPc[q])
    BY <1>2, <2>1
  <2>3. ReaderInv(r)'
    BY <2>2 DEF ReaderInv
  <2>4. QED BY <1>1, <1>2, <1>6, <2>1, <2>2, <2>3, ReaderStepKept
<1>8. CASE TornAt(bytes) # {}
  <2>1. /\ rdPc' = [rdPc EXCEPT ![r] = "torn"]
        /\ rdTorn' = [rdTorn EXCEPT ![r] = Min(TornAt(bytes)) - 1]
        /\ rdSeen' = [rdSeen EXCEPT ![r] = bytes]
    BY <1>8 DEF ReadLog
  <2>2. /\ rdPc' \in [LogReaders -> {"idle", "torn", "parsed", "verifying", "answered"}]
        /\ rdPc'[r] = "torn" /\ (\A q \in LogReaders \ {r} : rdPc'[q] = rdPc[q])
    BY <1>2, <2>1
  <2>3. /\ rdSeen' \in [LogReaders -> Seq(Pieces)] /\ rdSeen'[r] = bytes
        /\ (\A q \in LogReaders \ {r} : rdSeen'[q] = rdSeen[q])
    BY <1>2, <2>1
  <2>4. /\ rdTorn' \in [LogReaders -> Nat] /\ rdTorn'[r] = Min(TornAt(bytes)) - 1
        /\ (\A q \in LogReaders \ {r} : rdTorn'[q] = rdTorn[q])
    BY <1>2, <1>5, <1>8, <2>1
  <2>5. ReaderInv(r)'
    BY <2>2 DEF ReaderInv
  <2>6. ASSUME ~spoiled PROVE Len(bytes) % 4 = 1 /\ Min(TornAt(bytes)) = Len(bytes)
    <3>1. WellFormed(bytes)
      BY <2>6 DEF ReadersInv, LogInv
    <3>2. Len(bytes) % 4 = 1 /\ TornAt(bytes) = {Len(bytes)}
      BY <1>2, <1>8, <3>1, LogTorn
    <3>3. TornAt(bytes) \subseteq Nat
      BY <1>4
    <3>4. Min(TornAt(bytes)) \in TornAt(bytes)
      BY <1>8, <3>3, MinOfNumbers
    <3>5. QED BY <3>2, <3>4
  <2>7. QED BY <1>1, <1>2, <1>6, <2>2, <2>3, <2>4, <2>5, <2>6, ReaderStepKept
<1>9. QED BY <1>7, <1>8

\* The other steps of a reader that leave the log alone.
LEMMA LoadKept ==
  ASSUME ReadersInv, NEW r \in LogReaders,
         RepairFails(r) \/ ContentHit(r) \/ TakePrefix(r) \/ VerifyAndStore(r) \/ LoadAgain(r)
  PROVE  ReadersInv'
<1>1. /\ cache \in Loaded /\ (cache.ok => VerifiesFrom(cache.chain, 0))
      /\ rdPc \in [LogReaders -> {"idle", "torn", "parsed", "verifying", "answered"}]
      /\ rdChain \in [LogReaders -> Seq(Receipts)] /\ rdSeen \in [LogReaders -> Seq(Pieces)]
      /\ rdTorn \in [LogReaders -> Nat] /\ rdPrefix \in [LogReaders -> Nat]
      /\ answer \in [LogReaders -> Loaded] /\ ReaderInv(r)
  BY DEF ReadersInv, ReadersTyped
<1>2. PICK e : e = <<>>
  OBVIOUS
<1>3. e \in Seq(Pieces) /\ e \in Seq(Receipts)
  BY <1>2, EmptySeq
<1>4. [chain |-> e, ok |-> TRUE] \in Loaded
  BY <1>3 DEF Loaded
<1>5. cache.chain \in Seq(Receipts) /\ cache.ok \in BOOLEAN /\ rdChain[r] \in Seq(Receipts)
      /\ Len(cache.chain) \in Nat /\ Len(rdChain[r]) \in Nat
  <2>1. cache.chain \in Seq(Receipts) /\ cache.ok \in BOOLEAN
    BY <1>1 DEF Loaded
  <2>2. rdChain[r] \in Seq(Receipts)
    BY <1>1
  <2>3. QED BY <2>1, <2>2, LenProperties
<1>6. CASE RepairFails(r)
  <2>1. /\ rdPc' = [rdPc EXCEPT ![r] = "idle"] /\ rdSeen' = [rdSeen EXCEPT ![r] = e]
        /\ rdTorn' = [rdTorn EXCEPT ![r] = 0] /\ rdChain' = [rdChain EXCEPT ![r] = e]
        /\ UNCHANGED <<bytes, appender, tip, durable, cache, rdPrefix, answer, spoiled, logCrashes>>
    BY <1>2, <1>6 DEF RepairFails
  <2>2. /\ rdPc' \in [LogReaders -> {"idle", "torn", "parsed", "verifying", "answered"}]
        /\ rdPc'[r] = "idle" /\ (\A q \in LogReaders \ {r} : rdPc'[q] = rdPc[q])
    BY <1>1, <2>1
  <2>3. /\ rdSeen' \in [LogReaders -> Seq(Pieces)] /\ rdChain' \in [LogReaders -> Seq(Receipts)]
        /\ rdTorn' \in [LogReaders -> Nat]
        /\ (\A q \in LogReaders \ {r} :
              rdSeen'[q] = rdSeen[q] /\ rdChain'[q] = rdChain[q] /\ rdTorn'[q] = rdTorn[q])
    BY <1>1, <1>3, <2>1
  <2>4. ReaderInv(r)'
    BY <2>2 DEF ReaderInv
  <2>5. QED BY <1>1, <2>1, <2>2, <2>3, <2>4, ReaderStepKept
<1>7. CASE ContentHit(r)
  <2>1. /\ cache.ok /\ Len(cache.chain) = Len(rdChain[r]) /\ StartsWith(rdChain[r], cache.chain)
        /\ answer' = [answer EXCEPT ![r] = [chain |-> cache.chain, ok |-> TRUE]]
        /\ rdPc' = [rdPc EXCEPT ![r] = "answered"]
        /\ UNCHANGED <<bytes, appender, tip, durable, cache, rdChain, rdTorn, rdSeen, rdPrefix,
                 spoiled, logCrashes>>
    BY <1>7 DEF ContentHit
  <2>2. /\ rdPc' \in [LogReaders -> {"idle", "torn", "parsed", "verifying", "answered"}]
        /\ rdPc'[r] = "answered" /\ (\A q \in LogReaders \ {r} : rdPc'[q] = rdPc[q])
    BY <1>1, <2>1
  <2>3. [chain |-> cache.chain, ok |-> TRUE] \in Loaded
    BY <1>5 DEF Loaded
  <2>4. /\ answer' \in [LogReaders -> Loaded] /\ answer'[r] = [chain |-> cache.chain, ok |-> TRUE]
        /\ (\A q \in LogReaders \ {r} : answer'[q] = answer[q])
    BY <1>1, <2>1, <2>3
  <2>5. cache.chain = rdChain[r]
    <3>1. \A n \in 1..Len(cache.chain) : cache.chain[n] = rdChain[r][n]
      BY <2>1 DEF StartsWith
    <3>2. QED BY <1>5, <2>1, <3>1, SeqEqual
  <2>6. ReaderInv(r)'
    BY <1>1, <2>1, <2>2, <2>4, <2>5 DEF ReaderInv
  <2>7. QED BY <1>1, <2>1, <2>2, <2>4, <2>6, ReaderStepKept
<1>8. CASE TakePrefix(r)
  <2> DEFINE n0 == IF cache.ok /\ StartsWith(rdChain[r], cache.chain) THEN Len(cache.chain) ELSE 0
  <2>1. /\ rdPrefix' = [rdPrefix EXCEPT ![r] = n0]
        /\ rdPc' = [rdPc EXCEPT ![r] = "verifying"]
        /\ UNCHANGED <<bytes, appender, tip, durable, cache, rdChain, rdTorn, rdSeen, answer,
                 spoiled, logCrashes>>
    BY <1>8 DEF TakePrefix
  <2>2. n0 \in Nat /\ n0 <= Len(rdChain[r]) /\ VerifiedTo(rdChain[r], n0)
    <3>1. CASE cache.ok /\ StartsWith(rdChain[r], cache.chain)
      <4>1. n0 = Len(cache.chain)
        BY <3>1
      <4>2. Len(cache.chain) <= Len(rdChain[r])
            /\ \A n \in 1..Len(cache.chain) : cache.chain[n] = rdChain[r][n]
        BY <3>1 DEF StartsWith
      <4>3. VerifiesFrom(cache.chain, 0)
        BY <1>1, <3>1
      <4>4. ASSUME NEW n \in 1..Len(cache.chain)
            PROVE  rdChain[r][n].good
                   /\ rdChain[r][n].parent = IF n = 1 THEN 0 ELSE rdChain[r][n - 1].id
        <5>1. 0 + 1 = 1 /\ n \in 0 + 1..Len(cache.chain)
          BY <1>5
        <5>2. cache.chain[n].good
              /\ cache.chain[n].parent = IF n = 1 THEN 0 ELSE cache.chain[n - 1].id
          BY <4>3, <5>1 DEF VerifiesFrom
        <5>3. n # 1 => n - 1 \in 1..Len(cache.chain)
          BY <1>5
        <5>4. QED BY <4>2, <5>2, <5>3
      <4> HIDE DEF n0
      <4>5. QED BY <1>5, <4>1, <4>2, <4>4 DEF VerifiedTo
    <3>2. CASE ~(cache.ok /\ StartsWith(rdChain[r], cache.chain))
      <4>1. n0 = 0
        BY <3>2
      <4> HIDE DEF n0
      <4>2. QED BY <1>5, <4>1 DEF VerifiedTo
    <3>3. QED BY <3>1, <3>2
  <2> HIDE DEF n0
  <2>3. /\ rdPc' \in [LogReaders -> {"idle", "torn", "parsed", "verifying", "answered"}]
        /\ rdPc'[r] = "verifying" /\ (\A q \in LogReaders \ {r} : rdPc'[q] = rdPc[q])
    BY <1>1, <2>1
  <2>4. /\ rdPrefix' \in [LogReaders -> Nat] /\ rdPrefix'[r] = n0
        /\ (\A q \in LogReaders \ {r} : rdPrefix'[q] = rdPrefix[q])
    BY <1>1, <2>1, <2>2
  <2>5. ReaderInv(r)'
    BY <2>1, <2>2, <2>3, <2>4 DEF ReaderInv
  <2>6. QED BY <1>1, <2>1, <2>3, <2>4, <2>5, ReaderStepKept
<1>9. CASE VerifyAndStore(r)
  <2>1. PICK loadedNow : loadedNow = [chain |-> rdChain[r], ok |-> VerifiesFrom(rdChain[r], rdPrefix[r])]
    OBVIOUS
  <2>2. /\ rdPc[r] = "verifying" /\ cache' = loadedNow /\ answer' = [answer EXCEPT ![r] = loadedNow]
        /\ rdPc' = [rdPc EXCEPT ![r] = "answered"] /\ rdPrefix' = [rdPrefix EXCEPT ![r] = 0]
        /\ UNCHANGED <<bytes, appender, tip, durable, rdChain, rdTorn, rdSeen, spoiled, logCrashes>>
    BY <1>9, <2>1 DEF VerifyAndStore
  <2>3. VerifiesFrom(rdChain[r], rdPrefix[r]) \in BOOLEAN
    BY DEF VerifiesFrom
  <2>4. loadedNow \in Loaded /\ loadedNow.chain = rdChain[r]
        /\ (loadedNow.ok <=> VerifiesFrom(rdChain[r], rdPrefix[r]))
    BY <1>5, <2>1, <2>3 DEF Loaded
  <2>5. VerifiesFrom(rdChain[r], rdPrefix[r]) <=> VerifiesFrom(rdChain[r], 0)
    <3>1. rdPrefix[r] \in Nat /\ rdPrefix[r] <= Len(rdChain[r]) /\ VerifiedTo(rdChain[r], rdPrefix[r])
      BY <1>1, <2>2 DEF ReaderInv
    <3>2. \A n \in 0 + 1..Len(rdChain[r]) :
            n \in 1..rdPrefix[r] \/ n \in rdPrefix[r] + 1..Len(rdChain[r])
      BY <1>5, <3>1
    <3>3. \A n \in rdPrefix[r] + 1..Len(rdChain[r]) : n \in 0 + 1..Len(rdChain[r])
      BY <1>5, <3>1
    <3>4. QED BY <3>1, <3>2, <3>3 DEF VerifiesFrom, VerifiedTo
  <2>6. /\ rdPc' \in [LogReaders -> {"idle", "torn", "parsed", "verifying", "answered"}]
        /\ rdPc'[r] = "answered" /\ (\A q \in LogReaders \ {r} : rdPc'[q] = rdPc[q])
    BY <1>1, <2>2
  <2>7. /\ answer' \in [LogReaders -> Loaded] /\ answer'[r] = loadedNow
        /\ rdPrefix' \in [LogReaders -> Nat]
        /\ (\A q \in LogReaders \ {r} : answer'[q] = answer[q] /\ rdPrefix'[q] = rdPrefix[q])
    BY <1>1, <2>2, <2>4
  <2>8. cache' \in Loaded /\ (cache'.ok => VerifiesFrom(cache'.chain, 0))
    BY <2>2, <2>4, <2>5
  <2>9. ReaderInv(r)'
    BY <2>2, <2>4, <2>5, <2>6, <2>7 DEF ReaderInv
  <2>10. QED BY <1>1, <2>2, <2>6, <2>7, <2>8, <2>9, ReaderStepKept
<1>10. CASE LoadAgain(r)
  <2>1. /\ rdPc' = [rdPc EXCEPT ![r] = "idle"] /\ rdChain' = [rdChain EXCEPT ![r] = e]
        /\ answer' = [answer EXCEPT ![r] = [chain |-> e, ok |-> TRUE]]
        /\ UNCHANGED <<bytes, appender, tip, durable, cache, rdTorn, rdSeen, rdPrefix, spoiled,
                 logCrashes>>
    BY <1>2, <1>10 DEF LoadAgain
  <2>2. /\ rdPc' \in [LogReaders -> {"idle", "torn", "parsed", "verifying", "answered"}]
        /\ rdPc'[r] = "idle" /\ (\A q \in LogReaders \ {r} : rdPc'[q] = rdPc[q])
    BY <1>1, <2>1
  <2>3. /\ answer' \in [LogReaders -> Loaded] /\ rdChain' \in [LogReaders -> Seq(Receipts)]
        /\ (\A q \in LogReaders \ {r} : answer'[q] = answer[q] /\ rdChain'[q] = rdChain[q])
    BY <1>1, <1>3, <1>4, <2>1
  <2>4. ReaderInv(r)'
    BY <2>2 DEF ReaderInv
  <2>5. QED BY <1>1, <2>1, <2>2, <2>3, <2>4, ReaderStepKept
<1>11. QED BY <1>6, <1>7, <1>8, <1>9, <1>10

\* File::set_len cuts a log or pads it.
LEMMA SetLenFacts ==
  ASSUME NEW log \in Seq(Pieces), NEW n \in Nat
  PROVE  /\ SetLen(log, n) \in Seq(Pieces) /\ Len(SetLen(log, n)) = n
         /\ \A i \in 1..n : i <= Len(log) => SetLen(log, n)[i] = log[i]
<1>1. Hole \in Pieces
  BY ReadersAssumption DEF Hole, Piece, Pieces
<1>2. Len(log) \in Nat /\ \A i \in 1..Len(log) : log[i] \in Pieces
  BY LenProperties, ElementOfSeq
<1>3. SetLen(log, n) \in [1..n -> Pieces]
  BY <1>1, <1>2 DEF SetLen
<1>4. \A i \in 1..n : i <= Len(log) => SetLen(log, n)[i] = log[i]
  BY DEF SetLen
<1>5. SetLen(log, n) \in Seq(Pieces) /\ Len(SetLen(log, n)) = n
  BY <1>3
<1>6. QED BY <1>4, <1>5

\* A torn tail is cut off: nothing durable was in it.
LEMMA TornCut ==
  ASSUME bytes \in Seq(Pieces), Len(bytes) \in Nat, WellFormed(bytes), DurableInv,
         Len(bytes) % 4 = 1, durable' = durable, Len(bytes') = Len(bytes) - 1,
         \A i \in 1..(Len(bytes) - 1) : bytes'[i] = bytes[i]
  PROVE  WellFormed(bytes') /\ DurableInv'
<1>1. WellFormed(bytes')
  <2>1. ASSUME NEW i \in 1..Len(bytes')
        PROVE  /\ bytes'[i].part = PartAt(i) /\ (i % 4 = 0 => bytes'[i] = Newline)
               /\ (i % 4 \in {2, 3} => bytes'[i].id = bytes'[i - 1].id)
    <3>1. i \in 1..(Len(bytes) - 1) /\ i \in 1..Len(bytes)
      OBVIOUS
    <3>2. i % 4 \in {2, 3} => i - 1 \in 1..(Len(bytes) - 1)
      BY <3>1
    <3>3. QED BY <3>1, <3>2 DEF WellFormed
  <2>2. QED BY <2>1 DEF WellFormed
<1>2. ASSUME NEW id \in durable'
      PROVE  \E i \in 1..Len(bytes') : i % 4 = 3 /\ i + 1 <= Len(bytes') /\ bytes'[i].id = id
  <2>1. PICK i \in 1..Len(bytes) : i % 4 = 3 /\ i + 1 <= Len(bytes) /\ bytes[i].id = id
    BY DEF DurableInv
  <2>2. (i + 1) % 4 = 0
    BY <2>1, Fours
  <2>3. i + 1 # Len(bytes)
    BY <2>2
  <2>4. i + 1 <= Len(bytes) - 1 /\ i \in 1..(Len(bytes) - 1)
    BY <2>1, <2>3
  <2>5. QED BY <2>1, <2>4
<1>3. QED BY <1>1, <1>2 DEF DurableInv

\* A reader repairs a log that may have changed since it was read.
LEMMA RepairKept ==
  ASSUME ReadersInv, NEW r \in LogReaders, RepairLog(r)
  PROVE  ReadersInv'
<1>1. /\ bytes \in Seq(Pieces) /\ cache \in Loaded /\ (cache.ok => VerifiesFrom(cache.chain, 0))
      /\ rdPc \in [LogReaders -> {"idle", "torn", "parsed", "verifying", "answered"}]
      /\ rdChain \in [LogReaders -> Seq(Receipts)] /\ rdSeen \in [LogReaders -> Seq(Pieces)]
      /\ rdTorn \in [LogReaders -> Nat] /\ rdPrefix \in [LogReaders -> Nat]
      /\ answer \in [LogReaders -> Loaded] /\ Len(bytes) \in Nat /\ spoiled \in BOOLEAN
      /\ appender.pc \in {"idle", "writing", "written", "terminated"}
  BY LenProperties DEF ReadersInv, ReadersTyped
<1>2. PICK e : e = <<>>
  OBVIOUS
<1>3. e \in Seq(Pieces)
  BY <1>2, EmptySeq
<1>4. /\ rdPc[r] = "torn" /\ appender.pc # "writing" /\ bytes' = SetLen(bytes, rdTorn[r])
      /\ spoiled' = (spoiled \/ bytes # rdSeen[r])
      /\ rdPc' = [rdPc EXCEPT ![r] = "parsed"] /\ rdSeen' = [rdSeen EXCEPT ![r] = e]
      /\ rdTorn' = [rdTorn EXCEPT ![r] = 0]
      /\ UNCHANGED <<appender, tip, durable, cache, rdChain, rdPrefix, answer, logCrashes>>
  BY <1>2 DEF RepairLog
<1>5. rdTorn[r] \in Nat /\ bytes' \in Seq(Pieces)
  BY <1>1, <1>4, SetLenFacts
<1>6. /\ rdPc' \in [LogReaders -> {"idle", "torn", "parsed", "verifying", "answered"}]
      /\ rdPc'[r] = "parsed" /\ (\A q \in LogReaders \ {r} : rdPc'[q] = rdPc[q])
  BY <1>1, <1>4
<1>7. /\ rdSeen' \in [LogReaders -> Seq(Pieces)] /\ rdTorn' \in [LogReaders -> Nat]
      /\ \A q \in LogReaders \ {r} : rdSeen'[q] = rdSeen[q] /\ rdTorn'[q] = rdTorn[q]
  BY <1>1, <1>3, <1>4
<1>8. spoiled' \in BOOLEAN
  BY <1>1, <1>4
<1>9. ASSUME ~spoiled' PROVE LogInv'
  <2>1. ~spoiled /\ bytes = rdSeen[r]
    BY <1>4, <1>9
  <2>2. WellFormed(bytes) /\ AppenderInv /\ DurableInv
        /\ \A q \in LogReaders :
             rdPc[q] = "torn" => Len(rdSeen[q]) % 4 = 1 /\ rdTorn[q] = Len(rdSeen[q]) - 1
    BY <2>1 DEF ReadersInv, LogInv
  <2>3. Len(bytes) % 4 = 1 /\ rdTorn[r] = Len(bytes) - 1
    BY <1>4, <2>1, <2>2
  <2>4. appender.pc = "idle"
    <3>1. appender.pc # "written" /\ appender.pc # "terminated"
      BY <2>2, <2>3 DEF AppenderInv
    <3>2. QED BY <1>1, <1>4, <3>1
  <2>5. PICK k \in Nat : k = rdTorn[r] /\ k = Len(bytes) - 1
    BY <1>5, <2>3
  <2>6. Len(bytes') = k /\ \A i \in 1..k : i <= Len(bytes) => bytes'[i] = bytes[i]
    BY <1>1, <1>4, <2>5, SetLenFacts
  <2>7. \A i \in 1..k : i <= Len(bytes)
    BY <1>1, <2>5
  <2>8. WellFormed(bytes') /\ DurableInv'
    <3>1. durable' = durable /\ Len(bytes') = Len(bytes) - 1
          /\ \A i \in 1..(Len(bytes) - 1) : bytes'[i] = bytes[i]
      BY <1>4, <2>5, <2>6, <2>7
    <3>2. QED BY <1>1, <2>2, <2>3, <3>1, TornCut
  <2>9. AppenderInv'
    BY <1>4, <2>4 DEF AppenderInv
  <2>10. \A q \in LogReaders :
           rdPc'[q] = "torn" => Len(rdSeen'[q]) % 4 = 1 /\ rdTorn'[q] = Len(rdSeen'[q]) - 1
    BY <1>6, <1>7, <2>2
  <2>11. QED BY <2>8, <2>9, <2>10 DEF LogInv
<1>10. ReadersTyped'
  BY <1>4, <1>5, <1>6, <1>7, <1>8 DEF ReadersInv, ReadersTyped
<1>11. ReaderInv(r)'
  BY <1>6 DEF ReaderInv
<1>12. \A q \in LogReaders : ReaderInv(q)'
  BY <1>4, <1>6, <1>11, ReaderStays DEF ReadersInv
<1>13. QED BY <1>1, <1>4, <1>9, <1>10, <1>12 DEF ReadersInv

\* A crash in an append, and the boot that repairs and verifies the log.
LEMMA CrashKept ==
  ASSUME ReadersInv, CrashAndBoot
  PROVE  ReadersInv'
<1> DEFINE torn == TornAt(bytes)
           kept == IF torn = {} THEN bytes ELSE SetLen(bytes, Min(torn) - 1)
           loaded == ChainOf(kept)
<1>1. /\ bytes \in Seq(Pieces) /\ Len(bytes) \in Nat /\ durable \subseteq 1..MaxLogged
      /\ spoiled \in BOOLEAN /\ logCrashes \in 0..MaxLogCrashes
      /\ MaxLogged \in Nat /\ MaxLogCrashes \in Nat
      /\ appender.pc \in {"idle", "writing", "written", "terminated"}
  BY ReadersAssumption, LenProperties DEF ReadersInv, ReadersTyped
<1>2. PICK e : e = <<>>
  OBVIOUS
<1>3. e \in Seq(Pieces) /\ e \in Seq(Receipts) /\ Len(e) = 0
  BY <1>2, EmptySeq
<1>4. [chain |-> e, ok |-> TRUE] \in Loaded
  BY <1>3 DEF Loaded
<1>5. /\ logCrashes < MaxLogCrashes /\ logCrashes' = logCrashes + 1
      /\ appender.pc # "idle" /\ VerifiesFrom(loaded, 0) /\ bytes' = kept /\ appender' = Idle
      /\ tip' = IF loaded = <<>> THEN 0 ELSE loaded[Len(loaded)].id
      /\ cache' = [chain |-> e, ok |-> TRUE]
      /\ rdPc' = [r \in LogReaders |-> "idle"] /\ rdSeen' = [r \in LogReaders |-> e]
      /\ rdChain' = [r \in LogReaders |-> e]
      /\ rdTorn' = [r \in LogReaders |-> 0] /\ rdPrefix' = [r \in LogReaders |-> 0]
      /\ answer' = [r \in LogReaders |-> [chain |-> e, ok |-> TRUE]]
      /\ UNCHANGED <<durable, spoiled>>
  BY <1>2 DEF CrashAndBoot
<1>6. torn \subseteq 1..Len(bytes)
  BY <1>1, LenProperties DEF TornAt, Undecodable, Starts
<1>7. ASSUME torn # {} PROVE Min(torn) \in 1..Len(bytes) /\ Min(torn) - 1 \in Nat
  <2>1. torn \subseteq Nat
    BY <1>1, <1>6
  <2> HIDE DEF torn
  <2>2. Min(torn) \in torn
    BY <1>7, <2>1, MinOfNumbers
  <2>3. Min(torn) \in 1..Len(bytes)
    BY <1>6, <2>2
  <2>4. QED BY <1>1, <2>3
<1>8. kept \in Seq(Pieces)
  <2> HIDE DEF torn
  <2>1. CASE torn = {}
    BY <1>1, <2>1
  <2>2. CASE torn # {}
    BY <1>1, <1>7, <2>2, SetLenFacts
  <2>3. QED BY <2>1, <2>2
<1> HIDE DEF kept, torn
<1>9. loaded \in Seq(Receipts)
  BY <1>8, ChainLoaded
<1> HIDE DEF loaded
<1>10. tip' \in 0..MaxLogged
  <2>1. CASE loaded = <<>>
    BY <1>1, <1>5, <2>1
  <2>2. CASE loaded # <<>>
    <3>1. Len(loaded) \in Nat /\ Len(loaded) # 0
      BY <1>9, <2>2, EmptySeq, LenProperties
    <3>2. loaded[Len(loaded)] \in Receipts
      BY <1>9, <3>1, ElementOfSeq
    <3>3. loaded[Len(loaded)].id \in 0..MaxLogged
      BY <3>2 DEF Receipts
    <3>4. QED BY <1>5, <2>2, <3>3
  <2>3. QED BY <2>1, <2>2
<1>11. ReadersTyped'
  <2>1. /\ rdChain' \in [LogReaders -> Seq(Receipts)] /\ rdSeen' \in [LogReaders -> Seq(Pieces)]
        /\ answer' \in [LogReaders -> Loaded] /\ cache' \in Loaded
    BY <1>3, <1>4, <1>5
  <2>2. /\ rdPc' \in [LogReaders -> {"idle", "torn", "parsed", "verifying", "answered"}]
        /\ rdTorn' \in [LogReaders -> Nat] /\ rdPrefix' \in [LogReaders -> Nat]
    BY <1>5
  <2>3. /\ appender' \in [pc : {"idle", "writing", "written", "terminated"}, id : 0..MaxLogged]
        /\ appender'.pc = "idle"
    BY <1>1, <1>5 DEF Idle
  <2>4. logCrashes' \in 0..MaxLogCrashes
    BY <1>1, <1>5
  <2>5. spoiled' \in BOOLEAN
    BY <1>1, <1>5
  <2>6. durable' \subseteq 1..MaxLogged /\ bytes' \in Seq(Pieces)
    BY <1>1, <1>5, <1>8
  <2>7. QED BY <1>10, <2>1, <2>2, <2>3, <2>4, <2>5, <2>6 DEF ReadersTyped
<1>12. \A r \in LogReaders : ReaderInv(r)'
  BY <1>5 DEF ReaderInv
<1>13. VerifiesFrom(cache'.chain, 0)
  BY <1>3, <1>5 DEF VerifiesFrom
<1>14. ASSUME ~spoiled PROVE LogInv'
  <2>1. WellFormed(bytes) /\ AppenderInv /\ DurableInv
    BY <1>14 DEF ReadersInv, LogInv
  <2>2. torn = IF Len(bytes) % 4 = 1 THEN {Len(bytes)} ELSE {}
    BY <1>1, <2>1, LogTorn DEF torn
  <2>3. CASE Len(bytes) % 4 = 1
    <3>1. torn = {Len(bytes)}
      BY <2>2, <2>3
    <3>2. Min(torn) = Len(bytes) /\ Len(bytes) - 1 \in Nat
      <4>1. torn \subseteq Nat /\ torn # {}
        BY <1>1, <3>1
      <4>2. Min(torn) \in torn
        BY <4>1, MinOfNumbers
      <4>3. Len(bytes) # 0
        BY <2>3
      <4>4. QED BY <1>1, <3>1, <4>2, <4>3
    <3>3. bytes' = SetLen(bytes, Len(bytes) - 1)
      <4>1. torn # {}
        BY <3>1
      <4>2. QED BY <1>5, <3>2, <4>1 DEF kept
    <3>4. Len(bytes') = Len(bytes) - 1 /\ \A i \in 1..(Len(bytes) - 1) : bytes'[i] = bytes[i]
      <4>1. PICK k \in Nat : k = Len(bytes) - 1
        BY <3>2
      <4>2. Len(bytes') = k /\ \A i \in 1..k : i <= Len(bytes) => bytes'[i] = bytes[i]
        BY <1>1, <3>3, <4>1, SetLenFacts
      <4>3. \A i \in 1..k : i <= Len(bytes)
        BY <1>1, <4>1
      <4>4. QED BY <4>1, <4>2, <4>3
    <3>5. WellFormed(bytes') /\ DurableInv'
      BY <1>1, <1>5, <2>1, <2>3, <3>4, TornCut
    <3>6. AppenderInv'
      BY <1>5 DEF AppenderInv, Idle
    <3>7. QED BY <1>5, <3>5, <3>6 DEF LogInv
  <2>4. CASE Len(bytes) % 4 # 1
    <3>1. bytes' = bytes /\ kept = bytes
      BY <1>5, <2>2, <2>4 DEF kept
    <3>2. AppenderInv'
      BY <1>5 DEF AppenderInv, Idle
    <3>3. DurableInv'
      BY <1>5, <2>1, <3>1 DEF DurableInv
    <3>4. QED BY <1>5, <2>1, <3>1, <3>2, <3>3 DEF LogInv
  <2>5. QED BY <2>3, <2>4
<1>15. ~spoiled' => LogInv'
  BY <1>5, <1>14
<1>16. QED BY <1>11, <1>12, <1>13, <1>15 DEF ReadersInv

\* Every step keeps the invariant.
LEMMA ReadersInductive == ReadersInv /\ [ReadersNext]_readerVars => ReadersInv'
<1> SUFFICES ASSUME ReadersInv, [ReadersNext]_readerVars PROVE ReadersInv'
  OBVIOUS
<1>1. CASE UNCHANGED readerVars
  <2>1. UNCHANGED <<bytes, appender, tip, durable, cache, rdVars, spoiled, logCrashes>>
    BY <1>1 DEF readerVars
  <2>2. /\ spoiled \in BOOLEAN /\ logCrashes \in 0..MaxLogCrashes /\ bytes \in Seq(Pieces) /\ tip \in 0..MaxLogged /\ durable \subseteq 1..MaxLogged
        /\ appender \in [pc : {"idle", "writing", "written", "terminated"}, id : 0..MaxLogged]
        /\ (appender.pc # "idle" => appender.id # 0)
    BY DEF ReadersInv, ReadersTyped
  <2>3. ASSUME ~spoiled PROVE WellFormed(bytes') /\ AppenderInv' /\ DurableInv'
    <3>1. WellFormed(bytes) /\ AppenderInv /\ DurableInv
      BY <2>3 DEF ReadersInv, LogInv
    <3>2. bytes' = bytes /\ AppenderInv' = AppenderInv /\ DurableInv' = DurableInv
      BY <2>1 DEF AppenderInv, DurableInv
    <3>3. QED BY <3>1, <3>2
  <2>4. QED BY <2>1, <2>2, <2>3, AppendKeeps
<1>2. CASE \E parts \in {<<"head">>, <<"head", "body">>} : AppendBegins(parts)
  BY <1>2, AppendBeginsKept
<1>3. CASE AppendRest \/ AppendNewline \/ AppendSyncs \/ LogAppendFails \/ CrashAndBoot
  BY <1>3, AppendRestKept, AppendEndsKept, CrashKept
<1>4. CASE \E r \in LogReaders :
             \/ ReadLog(r) \/ RepairLog(r) \/ RepairFails(r)
             \/ ContentHit(r) \/ TakePrefix(r) \/ VerifyAndStore(r) \/ LoadAgain(r)
  BY <1>4, ReadLogKept, RepairKept, LoadKept
<1>5. QED BY <1>1, <1>2, <1>3, <1>4 DEF ReadersNext

\* ReadersInv is an invariant of the log and its readers.
THEOREM ReadersInvariant == ReadersSpec => []ReadersInv
BY ReadersStarts, ReadersInductive, PTL DEF ReadersSpec

\* The invariant states the types and what the readers may rely on.
LEMMA ReadersInvSound == ReadersInv => ReadersTypeOK /\ ReadersSound
<1> SUFFICES ASSUME ReadersInv PROVE ReadersTypeOK /\ ReadersSound
  OBVIOUS
<1>1. ReadersTypeOK
  BY DEF ReadersInv, ReadersTyped, ReadersTypeOK
<1>2. ASSUME ~spoiled
      PROVE  /\ ~Malformed(bytes)
             /\ \A id \in durable : \E n \in DOMAIN ChainOf(bytes) :
                  ChainOf(bytes)[n].id = id /\ ChainOf(bytes)[n].good
  <2>1. WellFormed(bytes) /\ DurableInv /\ bytes \in Seq(Pieces)
    BY <1>2 DEF ReadersInv, LogInv, ReadersTyped
  <2>2. ~Malformed(bytes)
    BY <2>1, LogTorn
  <2>3. ASSUME NEW id \in durable
        PROVE  \E n \in DOMAIN ChainOf(bytes) : ChainOf(bytes)[n].id = id /\ ChainOf(bytes)[n].good
    <3>1. PICK i \in 1..Len(bytes) : i % 4 = 3 /\ bytes[i].id = id
      BY <2>1 DEF DurableInv
    <3>2. QED BY <2>1, <3>1, LogSound
  <2>4. QED BY <2>2, <2>3
<1>3. ReadersSound
  BY <1>2 DEF ReadersInv, ReaderInv, ReadersSound
<1>4. QED BY <1>1, <1>3

\* Readers answer what they read, and the log keeps what was durable.
THEOREM ReceiptReadersSound == ReadersSpec => []ReadersSound
BY ReadersInvariant, ReadersInvSound, PTL

-----------------------------------------------------------------------------
(* The state directory under restores *)

BlankTrees == {NoTree, EmptyTree, Stub}   \* trees without contents
Procs == Restores \cup Boots

\* Nothing is at the path or set aside that was not live, but for blank trees.
TreesKnown ==
  /\ liveTree \in wasLive \cup BlankTrees
  /\ \A r \in Restores : aside[r] \in wasLive \cup BlankTrees
  /\ wasLive \cap BlankTrees = {}

TreeKept(t) ==
  \/ liveTree = t
  \/ \E r \in Restores : aside[r] = t
  \/ \E g \in gone : g.tree = t /\ g.by \in forced \cap wasLive
TreesKept == \A t \in wasLive : TreeKept(t)
TreesWhole == \A r \in Restores \cap wasLive : archive[r] # "broken"
TreesInv == TreesKnown /\ TreesKept /\ TreesWhole

\* What a restore has done by the step it is at.
RestoreInv(r) ==
  /\ treePc[r] \in {"staged", "displacing", "swapping", "rollback", "stamping", "deleting"} =>
       archive[r] # "broken"
  /\ treePc[r] \in {"idle", "staged", "displacing"} => aside[r] = NoTree
  /\ treePc[r] \in {"stamping", "deleting"} => r \in wasLive
  /\ treePc[r] = "deleting" => r \in forced

\* Where a restore that works alone has left the trees, step by step.
AloneInv(r) ==
  RestoreAlone(r) =>
    /\ treePc[r] \in {"idle", "staged", "displacing"} => liveTree = Prior /\ treeFaults = 0
    /\ treePc[r] = "swapping" => liveTree = NoTree /\ aside[r] = Prior /\ treeFaults = 0
    /\ treePc[r] = "rollback" => liveTree = NoTree /\ aside[r] = Prior /\ treeFaults = 1
    /\ treePc[r] \in {"stamping", "deleting"} => liveTree = r
    /\ treePc[r] = "failed" /\ treeFaults <= 1 =>
         liveTree = Prior \/ (liveTree = r /\ archive[r] # "broken")

TreeTyped == TreeTypeOK /\ forced \subseteq Restores
TreeInv ==
  /\ TreeTyped /\ TreesInv
  /\ \A r \in Restores : RestoreInv(r) /\ AloneInv(r)

\* The initial states.
LEMMA TreeStarts == TreeInit => TreeInv
<1> SUFFICES ASSUME TreeInit PROVE TreeInv
  OBVIOUS
<1>1. TreeTyped
  BY StateTreeAssumption DEF TreeInit, TreeTyped, TreeTypeOK, Trees, TreeSteps
<1>2. TreesInv
  BY StateTreeAssumption
  DEF TreeInit, TreesInv, TreesKnown, TreesKept, TreeKept, TreesWhole, BlankTrees
<1>3. ASSUME NEW r \in Restores PROVE RestoreInv(r) /\ AloneInv(r)
  BY DEF TreeInit, RestoreInv, AloneInv
<1>4. QED BY <1>1, <1>2, <1>3 DEF TreeInv

\* A tree is put at the path, in place of a blank one or of itself.
LEMMA PutKept ==
  ASSUME TreeInv, NEW t, Becomes(t), liveTree \in BlankTrees \cup {t},
         t \in Restores => archive[t] # "broken",
         UNCHANGED <<aside, gone, archive, forced>>
  PROVE  TreesInv' /\ wasLive \subseteq wasLive'
<1>1. liveTree' = t /\ wasLive' = wasLive \cup ({t} \ BlankTrees)
  BY DEF Becomes, BlankTrees
<1>2. TreesKnown'
  BY <1>1 DEF TreeInv, TreesInv, TreesKnown
<1>3. ASSUME NEW x \in wasLive' PROVE TreeKept(x)'
  <2>1. CASE x = t
    BY <1>1, <2>1 DEF TreeKept
  <2>2. CASE x # t
    <3>1. x \in wasLive /\ x \notin BlankTrees /\ TreeKept(x)
      BY <1>1, <2>2 DEF TreeInv, TreesInv, TreesKnown, TreesKept
    <3>2. liveTree # x
      BY <2>2, <3>1
    <3>3. QED BY <1>1, <3>1, <3>2 DEF TreeKept
  <2>3. QED BY <2>1, <2>2
<1>4. TreesWhole'
  BY <1>1 DEF TreeInv, TreesInv, TreesWhole
<1>5. QED BY <1>1, <1>2, <1>3, <1>4 DEF TreesInv, TreesKept

\* The trees stay as they are.
LEMMA TreesStay ==
  ASSUME TreeInv, UNCHANGED <<liveTree, wasLive, aside, gone, archive, forced>>
  PROVE  TreesInv'
BY DEF TreeInv, TreesInv, TreesKnown, TreesKept, TreeKept, TreesWhole

\* A step of one process leaves the steps of the others alone, and a restore
\* beside it is no longer alone.
LEMMA OthersKept ==
  ASSUME TreeInv, NEW p \in Procs, NEW to \in TreeSteps \ {"idle"},
         treePc' = [treePc EXCEPT ![p] = to],
         UNCHANGED <<archive, forced>>, wasLive \subseteq wasLive',
         \A q \in Restores \ {p} : aside'[q] = aside[q],
         NEW r \in Restores, r # p
  PROVE  RestoreInv(r)' /\ AloneInv(r)'
<1>1. treePc'[r] = treePc[r] /\ treePc'[p] = to /\ aside'[r] = aside[r]
  BY DEF TreeInv, TreeTyped, TreeTypeOK, Procs
<1>2. RestoreInv(r)'
  BY <1>1 DEF TreeInv, RestoreInv
<1>3. ~RestoreAlone(r)'
  BY <1>1 DEF RestoreAlone, Procs
<1>4. QED BY <1>2, <1>3 DEF AloneInv

\* What a restore alone knows before its own step, it knew alone.
LEMMA AloneBefore ==
  ASSUME TreeInv, NEW r \in Restores, NEW to \in TreeSteps,
         treePc' = [treePc EXCEPT ![r] = to]
  PROVE  treePc'[r] = to /\ (RestoreAlone(r)' => RestoreAlone(r))
<1>1. \A p \in Procs \ {r} : treePc'[p] = treePc[p]
  BY DEF TreeInv, TreeTyped, TreeTypeOK, Procs
<1>2. treePc'[r] = to
  BY DEF TreeInv, TreeTyped, TreeTypeOK, Procs
<1>3. QED BY <1>1, <1>2 DEF RestoreAlone, Procs

\* What a refused system call counts.
LEMMA FaultTyped ==
  ASSUME TreeInv, Fault \/ NoFault
  PROVE  treeFaults' \in 0..MaxTreeFaults /\ (NoFault => treeFaults' = treeFaults)
         /\ (Fault => treeFaults' = treeFaults + 1)
<1>1. MaxTreeFaults \in Nat /\ treeFaults \in 0..MaxTreeFaults
  BY StateTreeAssumption DEF TreeInv, TreeTyped, TreeTypeOK
<1>2. QED BY <1>1 DEF Fault, NoFault

\* A restore's step, once its parts are known.
LEMMA RestoreStepKept ==
  ASSUME TreeInv, NEW r \in Restores, NEW to \in TreeSteps \ {"idle"},
         treePc' = [treePc EXCEPT ![r] = to],
         UNCHANGED <<archive, forced, treeKills>>, wasLive \subseteq wasLive',
         \A q \in Restores \ {r} : aside'[q] = aside[q],
         aside' \in [Restores -> Trees \cup {NoTree}],
         liveTree' \in Trees \cup {NoTree}, treeFaults' \in 0..MaxTreeFaults,
         TreesInv', RestoreInv(r)', AloneInv(r)'
  PROVE  TreeInv'
<1>1. TreeTyped'
  BY DEF TreeInv, TreeTyped, TreeTypeOK
<1>2. ASSUME NEW q \in Restores PROVE RestoreInv(q)' /\ AloneInv(q)'
  BY OthersKept DEF Procs
<1>3. QED BY <1>1, <1>2 DEF TreeInv

\* Staging and the look at the path.
LEMMA StageKept ==
  ASSUME TreeInv, NEW r \in Restores, Stage(r) \/ FindPrior(r)
  PROVE  TreeInv'
<1>0. /\ RestoreInv(r) /\ AloneInv(r) /\ TreesInv /\ treeFaults \in 0..MaxTreeFaults
      /\ aside \in [Restores -> Trees \cup {NoTree}] /\ liveTree \in Trees \cup {NoTree}
  BY DEF TreeInv, TreeTyped, TreeTypeOK
<1>1. /\ UNCHANGED <<liveTree, wasLive, aside, gone, archive, forced, treeKills>>
      /\ Fault \/ NoFault
  BY DEF Stage, FindPrior, NoFault
<1>2. TreesInv' /\ treeFaults' \in 0..MaxTreeFaults
  BY <1>1, TreesStay, FaultTyped
<1>3. CASE Stage(r)
  <2>1. CASE archive[r] # "broken" /\ Go(r, "idle", "staged") /\ NoFault
    <3>1. treePc' = [treePc EXCEPT ![r] = "staged"] /\ treePc[r] = "idle"
          /\ treeFaults' = treeFaults
      BY <2>1 DEF Go, NoFault
    <3>2. treePc'[r] = "staged" /\ (RestoreAlone(r)' => RestoreAlone(r))
      BY <3>1, AloneBefore DEF TreeSteps
    <3>3. RestoreInv(r)'
      BY <1>0, <1>1, <2>1, <3>1, <3>2 DEF RestoreInv
    <3>4. AloneInv(r)'
      BY <1>0, <1>1, <3>1, <3>2 DEF AloneInv
    <3>5. QED BY <1>0, <1>1, <1>2, <3>1, <3>3, <3>4, RestoreStepKept DEF TreeSteps
  <2>2. CASE Go(r, "idle", "failed")
    <3>1. treePc' = [treePc EXCEPT ![r] = "failed"] /\ treePc[r] = "idle"
      BY <2>2 DEF Go
    <3>2. treePc'[r] = "failed" /\ (RestoreAlone(r)' => RestoreAlone(r))
      BY <3>1, AloneBefore DEF TreeSteps
    <3>3. RestoreInv(r)'
      BY <1>0, <1>1, <3>1, <3>2 DEF RestoreInv
    <3>4. AloneInv(r)'
      BY <1>0, <1>1, <3>1, <3>2 DEF AloneInv
    <3>5. QED BY <1>0, <1>1, <1>2, <3>1, <3>3, <3>4, RestoreStepKept DEF TreeSteps
  <2>3. QED BY <1>3, <2>1, <2>2 DEF Stage
<1>4. CASE FindPrior(r)
  <2>1. PICK to \in {"swapping", "displacing"} :
          /\ treePc' = [treePc EXCEPT ![r] = to] /\ treePc[r] = "staged"
          /\ treeFaults' = treeFaults /\ (to = "swapping" => liveTree = NoTree)
    BY <1>4 DEF FindPrior, Go
  <2>2. treePc'[r] = to /\ (RestoreAlone(r)' => RestoreAlone(r))
    BY <2>1, AloneBefore DEF TreeSteps
  <2>3. RestoreInv(r)'
    BY <1>0, <1>1, <2>1, <2>2 DEF RestoreInv
  <2>4. AloneInv(r)'
    BY <1>0, <1>1, <2>1, <2>2, StateTreeAssumption DEF AloneInv
  <2>5. QED BY <1>0, <1>1, <1>2, <2>1, <2>3, <2>4, RestoreStepKept DEF TreeSteps
<1>5. QED BY <1>3, <1>4

\* The first rename moves the tree from the path to the restore's side.
LEMMA DisplaceKept ==
  ASSUME TreeInv, NEW r \in Restores, Displace(r)
  PROVE  TreeInv'
<1>0. /\ RestoreInv(r) /\ AloneInv(r) /\ TreesInv /\ treeFaults \in 0..MaxTreeFaults
      /\ aside \in [Restores -> Trees \cup {NoTree}] /\ liveTree \in Trees \cup {NoTree}
  BY DEF TreeInv, TreeTyped, TreeTypeOK
<1>1. UNCHANGED <<archive, forced, gone, treeKills>> /\ treePc[r] = "displacing"
  BY DEF Displace, Go
<1>2. CASE /\ liveTree # NoTree /\ NoFault /\ Go(r, "displacing", "swapping")
           /\ aside' = [aside EXCEPT ![r] = liveTree] /\ Becomes(NoTree)
  <2>1. /\ treePc' = [treePc EXCEPT ![r] = "swapping"] /\ treeFaults' = treeFaults
        /\ aside' = [aside EXCEPT ![r] = liveTree] /\ liveTree' = NoTree /\ wasLive' = wasLive
    BY <1>2 DEF Go, NoFault, Becomes
  <2>2. treePc'[r] = "swapping" /\ (RestoreAlone(r)' => RestoreAlone(r))
    BY <2>1, AloneBefore DEF TreeSteps
  <2>3. /\ aside'[r] = liveTree /\ \A q \in Restores \ {r} : aside'[q] = aside[q]
        /\ aside' \in [Restores -> Trees \cup {NoTree}] /\ aside[r] = NoTree
    BY <1>0, <1>1, <2>1 DEF RestoreInv
  <2>4. TreesInv'
    <3>1. TreesKnown'
      BY <1>0, <2>1, <2>3 DEF TreesInv, TreesKnown, BlankTrees
    <3>2. ASSUME NEW x \in wasLive' PROVE TreeKept(x)'
      <4>1. TreeKept(x) /\ x # NoTree
        BY <1>0, <2>1, <3>2 DEF TreesInv, TreesKnown, TreesKept, BlankTrees
      <4>2. CASE liveTree = x
        BY <2>3, <4>2 DEF TreeKept
      <4>3. CASE \E q \in Restores : aside[q] = x
        BY <2>3, <4>1, <4>3 DEF TreeKept
      <4>4. CASE \E g \in gone : g.tree = x /\ g.by \in forced \cap wasLive
        BY <1>1, <2>1, <4>4 DEF TreeKept
      <4>5. QED BY <4>1, <4>2, <4>3, <4>4 DEF TreeKept
    <3>3. QED BY <1>0, <1>1, <2>1, <3>1, <3>2 DEF TreesInv, TreesKept, TreesWhole
  <2>5. RestoreInv(r)'
    BY <1>0, <1>1, <2>1, <2>2 DEF RestoreInv
  <2>6. AloneInv(r)'
    BY <1>0, <1>1, <2>1, <2>2, <2>3 DEF AloneInv
  <2>7. QED BY <1>0, <1>1, <2>1, <2>3, <2>4, <2>5, <2>6, RestoreStepKept DEF TreeSteps
<1>3. CASE Go(r, "displacing", "failed") /\ (Fault \/ NoFault) /\ UNCHANGED <<aside, liveTree, wasLive>>
  <2>1. treePc' = [treePc EXCEPT ![r] = "failed"]
    BY <1>3 DEF Go
  <2>2. treePc'[r] = "failed" /\ (RestoreAlone(r)' => RestoreAlone(r))
    BY <2>1, AloneBefore DEF TreeSteps
  <2>3. TreesInv' /\ treeFaults' \in 0..MaxTreeFaults
    BY <1>1, <1>3, TreesStay, FaultTyped
  <2>4. RestoreInv(r)'
    BY <1>0, <1>1, <1>3, <2>2 DEF RestoreInv
  <2>5. AloneInv(r)'
    BY <1>0, <1>1, <1>3, <2>2 DEF AloneInv
  <2>6. QED BY <1>0, <1>1, <1>3, <2>1, <2>3, <2>4, <2>5, RestoreStepKept DEF TreeSteps
<1>4. QED BY <1>2, <1>3 DEF Displace

\* The second rename puts the restored tree in place, or fails.
LEMMA SwapKept ==
  ASSUME TreeInv, NEW r \in Restores, Swap(r)
  PROVE  TreeInv'
<1>0. /\ RestoreInv(r) /\ AloneInv(r) /\ TreesInv /\ treeFaults \in 0..MaxTreeFaults
      /\ aside \in [Restores -> Trees \cup {NoTree}] /\ liveTree \in Trees \cup {NoTree}
  BY DEF TreeInv, TreeTyped, TreeTypeOK
<1>1. UNCHANGED <<archive, forced, aside, gone, treeKills>> /\ treePc[r] = "swapping"
  BY DEF Swap, Go
<1>2. CASE CanRename /\ NoFault /\ Go(r, "swapping", "stamping") /\ Becomes(r)
  <2>1. /\ treePc' = [treePc EXCEPT ![r] = "stamping"] /\ treeFaults' = treeFaults
        /\ liveTree \in BlankTrees /\ liveTree' = r /\ wasLive' = wasLive \cup {r}
    BY <1>2, StateTreeAssumption DEF Go, NoFault, Becomes, CanRename, BlankTrees
  <2>2. treePc'[r] = "stamping" /\ (RestoreAlone(r)' => RestoreAlone(r))
    BY <2>1, AloneBefore DEF TreeSteps
  <2>3. TreesInv'
    BY <1>0, <1>1, <1>2, <2>1, PutKept DEF RestoreInv
  <2>4. RestoreInv(r)'
    BY <1>0, <1>1, <2>1, <2>2 DEF RestoreInv
  <2>5. AloneInv(r)'
    BY <1>0, <1>1, <2>1, <2>2 DEF AloneInv
  <2>6. liveTree' \in Trees \cup {NoTree}
    BY <2>1 DEF Trees
  <2>7. QED BY <1>0, <1>1, <2>1, <2>3, <2>4, <2>5, <2>6, RestoreStepKept DEF TreeSteps
<1>3. CASE /\ Go(r, "swapping", "rollback") /\ UNCHANGED <<liveTree, wasLive>>
           /\ (~CanRename /\ NoFault) \/ Fault
  <2>1. treePc' = [treePc EXCEPT ![r] = "rollback"]
    BY <1>3 DEF Go
  <2>2. treePc'[r] = "rollback" /\ (RestoreAlone(r)' => RestoreAlone(r))
    BY <2>1, AloneBefore DEF TreeSteps
  <2>3. TreesInv' /\ treeFaults' \in 0..MaxTreeFaults
    BY <1>1, <1>3, TreesStay, FaultTyped
  <2>4. RestoreInv(r)'
    BY <1>0, <1>1, <1>3, <2>2 DEF RestoreInv
  <2>5. ASSUME RestoreAlone(r)' PROVE liveTree' = NoTree /\ aside'[r] = Prior /\ treeFaults' = 1
    <3>1. liveTree = NoTree /\ aside[r] = Prior /\ treeFaults = 0
      BY <1>0, <1>1, <2>2, <2>5 DEF AloneInv
    <3>2. Fault
      BY <1>3, <3>1 DEF CanRename
    <3>3. QED BY <1>1, <1>3, <3>1, <3>2 DEF Fault
  <2>6. AloneInv(r)'
    BY <2>2, <2>5 DEF AloneInv
  <2>7. QED BY <1>0, <1>1, <1>3, <2>1, <2>3, <2>4, <2>6, RestoreStepKept DEF TreeSteps
<1>4. QED BY <1>2, <1>3 DEF Swap

\* The displaced tree goes back to the path, where it can.
LEMMA RollbackKept ==
  ASSUME TreeInv, NEW r \in Restores, Rollback(r)
  PROVE  TreeInv'
<1>0. /\ RestoreInv(r) /\ AloneInv(r) /\ TreesInv /\ treeFaults \in 0..MaxTreeFaults
      /\ aside \in [Restores -> Trees \cup {NoTree}] /\ liveTree \in Trees \cup {NoTree}
  BY DEF TreeInv, TreeTyped, TreeTypeOK
<1>1. /\ UNCHANGED <<archive, forced, gone, treeKills>> /\ treePc[r] = "rollback"
      /\ treePc' = [treePc EXCEPT ![r] = "failed"] /\ (Fault \/ NoFault)
  BY DEF Rollback, Go
<1>2. treePc'[r] = "failed" /\ (RestoreAlone(r)' => RestoreAlone(r))
  BY <1>1, AloneBefore DEF TreeSteps
<1>3. treeFaults' \in 0..MaxTreeFaults
  BY <1>1, FaultTyped
<1>4. CASE /\ aside[r] # NoTree /\ CanRename /\ NoFault
           /\ Becomes(aside[r]) /\ aside' = [aside EXCEPT ![r] = NoTree]
  <2>1. /\ liveTree \in BlankTrees /\ liveTree' = aside[r]
        /\ wasLive' = wasLive \cup ({aside[r]} \ BlankTrees)
    BY <1>4 DEF Becomes, CanRename, BlankTrees
  <2>2. /\ aside'[r] = NoTree /\ \A q \in Restores \ {r} : aside'[q] = aside[q]
        /\ aside' \in [Restores -> Trees \cup {NoTree}] /\ liveTree' \in Trees \cup {NoTree}
    BY <1>0, <1>4, <2>1
  <2>3. wasLive' = wasLive
    BY <1>0, <2>1 DEF TreesInv, TreesKnown
  <2>4. TreesInv'
    <3>1. TreesKnown'
      BY <1>0, <2>1, <2>2, <2>3 DEF TreesInv, TreesKnown, BlankTrees
    <3>2. ASSUME NEW x \in wasLive' PROVE TreeKept(x)'
      <4>1. TreeKept(x) /\ x \notin BlankTrees
        BY <1>0, <2>3, <3>2 DEF TreesInv, TreesKnown, TreesKept
      <4>2. liveTree # x
        BY <2>1, <4>1
      <4>3. CASE \E q \in Restores : aside[q] = x
        BY <2>1, <2>2, <4>3 DEF TreeKept
      <4>4. CASE \E g \in gone : g.tree = x /\ g.by \in forced \cap wasLive
        BY <1>1, <2>3, <4>4 DEF TreeKept
      <4>5. QED BY <4>1, <4>2, <4>3, <4>4 DEF TreeKept
    <3>3. QED BY <1>0, <1>1, <2>3, <3>1, <3>2 DEF TreesInv, TreesKept, TreesWhole
  <2>5. RestoreInv(r)'
    BY <1>2 DEF RestoreInv
  <2>6. AloneInv(r)'
    BY <1>0, <1>1, <1>2, <2>1 DEF AloneInv
  <2>7. QED BY <1>1, <1>3, <2>2, <2>3, <2>4, <2>5, <2>6, RestoreStepKept DEF TreeSteps
<1>5. CASE /\ UNCHANGED <<liveTree, wasLive, aside>>
           /\ (NoFault /\ (aside[r] = NoTree \/ ~CanRename)) \/ Fault
  <2>1. TreesInv'
    BY <1>1, <1>5, TreesStay
  <2>2. RestoreInv(r)'
    BY <1>2 DEF RestoreInv
  <2>3. ASSUME RestoreAlone(r)' PROVE treeFaults' = 2
    <3>1. liveTree = NoTree /\ aside[r] = Prior /\ treeFaults = 1
      BY <1>0, <1>1, <1>2, <2>3 DEF AloneInv
    <3>2. Fault
      BY <1>5, <3>1, StateTreeAssumption DEF CanRename
    <3>3. QED BY <3>1, <3>2 DEF Fault
  <2>4. AloneInv(r)'
    BY <1>2, <2>3 DEF AloneInv
  <2>5. QED BY <1>0, <1>1, <1>3, <1>5, <2>1, <2>2, <2>4, RestoreStepKept DEF TreeSteps
<1>6. QED BY <1>4, <1>5 DEF Rollback

\* migrate_to stamps what is at the path by then.
LEMMA StampTrees ==
  ASSUME TreeInv, NEW p \in Procs, NEW next, migrate_to(p, next),
         UNCHANGED <<archive, forced, aside, gone, treeKills>>
  PROVE  /\ TreesInv' /\ wasLive \subseteq wasLive'
         /\ liveTree' \in Trees \cup {NoTree} /\ treeFaults' \in 0..MaxTreeFaults
         /\ treePc[p] = "stamping"
         /\ treePc' = [treePc EXCEPT ![p] = next] \/ treePc' = [treePc EXCEPT ![p] = "failed"]
         /\ liveTree \notin {NoTree, EmptyTree} => liveTree' = liveTree
<1>0. liveTree \in Trees \cup {NoTree} /\ TreesInv
  BY DEF TreeInv, TreeTyped, TreeTypeOK
<1>1. /\ treePc[p] = "stamping" /\ (Fault \/ NoFault)
      /\ treePc' = [treePc EXCEPT ![p] = next] \/ treePc' = [treePc EXCEPT ![p] = "failed"]
  BY DEF migrate_to, Go
<1>2. treeFaults' \in 0..MaxTreeFaults
  BY <1>1, FaultTyped
<1>3. CASE Becomes(Stamped(liveTree))
  <2>1. liveTree \in BlankTrees \cup {Stamped(liveTree)}
    BY DEF Stamped, BlankTrees
  <2>2. Stamped(liveTree) \in Restores => archive[Stamped(liveTree)] # "broken"
    BY <1>0, StateTreeAssumption DEF Stamped, TreesInv, TreesKnown, TreesWhole, BlankTrees
  <2>3. TreesInv' /\ wasLive \subseteq wasLive'
    BY <1>3, <2>1, <2>2, PutKept
  <2>4. liveTree' = Stamped(liveTree)
    BY <1>3 DEF Becomes
  <2>5. /\ liveTree' \in Trees \cup {NoTree}
        /\ liveTree \notin {NoTree, EmptyTree} => liveTree' = liveTree
    BY <1>0, <2>4 DEF Stamped, Trees
  <2>6. QED BY <1>1, <1>2, <2>3, <2>5
<1>4. CASE UNCHANGED <<liveTree, wasLive>>
  BY <1>0, <1>1, <1>2, <1>4, TreesStay
<1>5. QED BY <1>3, <1>4 DEF migrate_to

\* The restored tree is stamped.
LEMMA StampRestoredKept ==
  ASSUME TreeInv, NEW r \in Restores, StampRestored(r)
  PROVE  TreeInv'
<1>0. /\ RestoreInv(r) /\ AloneInv(r)
      /\ aside \in [Restores -> Trees \cup {NoTree}]
  BY DEF TreeInv, TreeTyped, TreeTypeOK
<1>1. PICK next \in {"deleting", "done"} :
        migrate_to(r, next) /\ (next = "deleting" => r \in forced)
  BY DEF StampRestored
<1>2. UNCHANGED <<archive, forced, aside, gone, treeKills>>
  BY DEF StampRestored
<1>3. /\ TreesInv' /\ wasLive \subseteq wasLive'
      /\ liveTree' \in Trees \cup {NoTree} /\ treeFaults' \in 0..MaxTreeFaults
      /\ treePc[r] = "stamping"
      /\ treePc' = [treePc EXCEPT ![r] = next] \/ treePc' = [treePc EXCEPT ![r] = "failed"]
      /\ liveTree \notin {NoTree, EmptyTree} => liveTree' = liveTree
  BY <1>1, <1>2, StampTrees DEF Procs
<1>4. PICK to \in {next, "failed"} : treePc' = [treePc EXCEPT ![r] = to]
  BY <1>3
<1>5. treePc'[r] = to /\ (RestoreAlone(r)' => RestoreAlone(r))
  BY <1>4, AloneBefore DEF TreeSteps
<1>6. RestoreInv(r)'
  BY <1>0, <1>1, <1>2, <1>3, <1>4, <1>5 DEF RestoreInv
<1>7. ASSUME RestoreAlone(r)' PROVE liveTree' = r /\ archive'[r] # "broken"
  BY <1>0, <1>2, <1>3, <1>5, <1>7, StateTreeAssumption DEF AloneInv, RestoreInv
<1>8. AloneInv(r)'
  BY <1>4, <1>5, <1>7 DEF AloneInv
<1>9. QED BY <1>0, <1>2, <1>3, <1>4, <1>6, <1>8, RestoreStepKept DEF TreeSteps

\* A forced restore deletes what it displaced, its own tree having been in place.
LEMMA DeleteKept ==
  ASSUME TreeInv, NEW r \in Restores, DeletePrior(r)
  PROVE  TreeInv'
<1>0. /\ RestoreInv(r) /\ AloneInv(r) /\ TreesInv
      /\ aside \in [Restores -> Trees \cup {NoTree}] /\ liveTree \in Trees \cup {NoTree}
  BY DEF TreeInv, TreeTyped, TreeTypeOK
<1>1. /\ UNCHANGED <<liveTree, archive, forced, wasLive, treeKills>> /\ treePc[r] = "deleting"
      /\ aside' = [aside EXCEPT ![r] = NoTree] /\ (Fault \/ NoFault)
      /\ gone' = gone \cup {[tree |-> aside[r], by |-> r]}
  BY DEF DeletePrior, Go
<1>2. PICK to \in {"done", "failed"} : treePc' = [treePc EXCEPT ![r] = to]
  BY DEF DeletePrior, Go
<1>3. treePc'[r] = to /\ (RestoreAlone(r)' => RestoreAlone(r))
  BY <1>2, AloneBefore DEF TreeSteps
<1>4. treeFaults' \in 0..MaxTreeFaults
  BY <1>1, FaultTyped
<1>5. /\ aside'[r] = NoTree /\ \A q \in Restores \ {r} : aside'[q] = aside[q]
      /\ aside' \in [Restores -> Trees \cup {NoTree}]
  BY <1>0, <1>1
<1>6. TreesInv'
  <2>1. TreesKnown'
    BY <1>0, <1>1, <1>5 DEF TreesInv, TreesKnown, BlankTrees
  <2>2. ASSUME NEW x \in wasLive' PROVE TreeKept(x)'
    <3>1. TreeKept(x)
      BY <1>0, <1>1, <2>2 DEF TreesInv, TreesKept
    <3>2. CASE liveTree = x
      BY <1>1, <3>2 DEF TreeKept
    <3>3. ASSUME NEW q \in Restores, aside[q] = x PROVE TreeKept(x)'
      <4>1. CASE q = r
        <5>1. [tree |-> aside[r], by |-> r] \in gone' /\ r \in forced' \cap wasLive'
          BY <1>0, <1>1 DEF RestoreInv
        <5>2. QED BY <3>3, <4>1, <5>1 DEF TreeKept
      <4>2. CASE q # r
        BY <1>5, <3>3, <4>2 DEF TreeKept
      <4>3. QED BY <4>1, <4>2
    <3>4. CASE \E g \in gone : g.tree = x /\ g.by \in forced \cap wasLive
      BY <1>1, <3>4 DEF TreeKept
    <3>5. QED BY <3>1, <3>2, <3>3, <3>4 DEF TreeKept
  <2>3. QED BY <1>0, <1>1, <2>1, <2>2 DEF TreesInv, TreesKept, TreesWhole
<1>7. RestoreInv(r)'
  BY <1>2, <1>3 DEF RestoreInv
<1>8. AloneInv(r)'
  BY <1>0, <1>1, <1>2, <1>3 DEF AloneInv, RestoreInv
<1>9. QED BY <1>0, <1>1, <1>2, <1>4, <1>5, <1>6, <1>7, <1>8, RestoreStepKept DEF TreeSteps

\* A process that boots fills a blank path and leaves any other tree.
LEMMA BootKept ==
  ASSUME TreeInv, NEW b \in Boots, MakeRoot(b) \/ MakeDirs(b) \/ StampBooted(b)
  PROVE  TreeInv'
<1>0. /\ TreesInv /\ treeFaults \in 0..MaxTreeFaults
      /\ aside \in [Restores -> Trees \cup {NoTree}] /\ liveTree \in Trees \cup {NoTree}
  BY DEF TreeInv, TreeTyped, TreeTypeOK
<1>1. UNCHANGED <<archive, forced, aside, gone, treeKills>> /\ b \in Procs /\ b \notin Restores
  BY StateTreeAssumption DEF MakeRoot, MakeDirs, StampBooted, Procs
<1>2. /\ TreesInv' /\ wasLive \subseteq wasLive' /\ liveTree' \in Trees \cup {NoTree}
      /\ treeFaults' \in 0..MaxTreeFaults
      /\ \E to \in TreeSteps \ {"idle"} : treePc' = [treePc EXCEPT ![b] = to]
  <2>1. CASE MakeRoot(b) \/ MakeDirs(b)
    <3>1. PICK t \in {liveTree, EmptyTree, b} :
            Becomes(t) /\ (t # liveTree => liveTree \in BlankTrees)
      BY <2>1 DEF MakeRoot, MakeDirs, BlankTrees
    <3>2. t \in Restores => archive[t] # "broken"
      BY <1>0, <1>1, <3>1, StateTreeAssumption DEF TreesInv, TreesKnown, TreesWhole, BlankTrees
    <3>3. TreesInv' /\ wasLive \subseteq wasLive'
      BY <1>1, <3>1, <3>2, PutKept
    <3>4. liveTree' \in Trees \cup {NoTree}
      BY <1>0, <3>1 DEF Becomes, Trees
    <3>5. QED BY <1>0, <2>1, <3>3, <3>4 DEF MakeRoot, MakeDirs, Go, TreeSteps
  <2>2. CASE StampBooted(b)
    <3>1. migrate_to(b, "done")
      BY <2>2 DEF StampBooted
    <3>2. QED BY <1>1, <3>1, StampTrees DEF TreeSteps
  <2>3. QED BY <2>1, <2>2
<1>3. PICK to \in TreeSteps \ {"idle"} : treePc' = [treePc EXCEPT ![b] = to]
  BY <1>2
<1>4. ASSUME NEW r \in Restores PROVE RestoreInv(r)' /\ AloneInv(r)'
  BY <1>1, <1>2, <1>3, OthersKept
<1>5. TreeTyped'
  BY <1>1, <1>2, <1>3 DEF TreeInv, TreeTyped, TreeTypeOK, Procs
<1>6. QED BY <1>2, <1>4, <1>5 DEF TreeInv

\* A process is killed where it is.
LEMMA TreeKilledKept ==
  ASSUME TreeInv, NEW p \in Procs, TreeKilled(p)
  PROVE  TreeInv'
<1>1. /\ UNCHANGED <<liveTree, archive, forced, aside, wasLive, gone, treeFaults>>
      /\ treePc' = [treePc EXCEPT ![p] = "killed"]
  BY DEF TreeKilled
<1>2. treeKills' \in 0..MaxTreeKills
  <2>1. MaxTreeKills \in Nat /\ treeKills \in 0..MaxTreeKills
    BY StateTreeAssumption DEF TreeInv, TreeTyped, TreeTypeOK
  <2>2. QED BY <2>1 DEF TreeKilled
<1>3. TreesInv'
  BY <1>1, TreesStay
<1>4. TreeTyped'
  BY <1>1, <1>2 DEF TreeInv, TreeTyped, TreeTypeOK, Procs, TreeSteps
<1>5. ASSUME NEW r \in Restores PROVE RestoreInv(r)' /\ AloneInv(r)'
  <2>1. CASE r = p
    <3>1. treePc'[r] = "killed"
      BY <1>1, <2>1 DEF TreeInv, TreeTyped, TreeTypeOK, Procs
    <3>2. QED BY <3>1 DEF RestoreInv, AloneInv
  <2>2. CASE r # p
    BY <1>1, <2>2, OthersKept DEF TreeSteps
  <2>3. QED BY <2>1, <2>2
<1>6. QED BY <1>3, <1>4, <1>5 DEF TreeInv

\* Every step keeps it.
LEMMA TreeInductive == TreeInv /\ [TreeNext]_treeVars => TreeInv'
<1> SUFFICES ASSUME TreeInv, [TreeNext]_treeVars PROVE TreeInv'
  OBVIOUS
<1>1. CASE UNCHANGED treeVars
  BY <1>1 DEF treeVars, TreeInv, TreeTyped, TreeTypeOK, TreesInv, TreesKnown, TreesKept, TreeKept,
              TreesWhole, RestoreInv, AloneInv, RestoreAlone
<1>2. CASE TreeNext
  BY <1>2, StageKept, DisplaceKept, SwapKept, RollbackKept, StampRestoredKept, DeleteKept,
     BootKept, TreeKilledKept DEF TreeNext, Procs
<1>3. QED BY <1>1, <1>2

\* Restores, boots, refused system calls and kills, in any order, keep it.
THEOREM TreeInvariant == TreeSpec => []TreeInv
BY TreeStarts, TreeInductive, PTL DEF TreeSpec

\* What a state of the invariant shows of the trees.
LEMMA TreeInvSound == TreeInv => TreeTypeOK /\ PriorStateKept
<1> SUFFICES ASSUME TreeInv PROVE TreeTypeOK /\ PriorStateKept
  OBVIOUS
<1>1. \A t \in wasLive : TreeKept(t)
  BY DEF TreeInv, TreesInv, TreesKept
<1>2. \A r \in Restores \cap wasLive : archive[r] # "broken"
  BY DEF TreeInv, TreesInv, TreesWhole
<1>3. ASSUME NEW r \in Restores, treePc[r] = "failed", RestoreAlone(r), treeFaults <= 1
      PROVE  liveTree = Prior \/ (liveTree = r /\ archive[r] # "broken")
  BY <1>3 DEF TreeInv, AloneInv
<1>4. QED BY <1>1, <1>2, <1>3 DEF TreeInv, TreeTyped, TreeKept, PriorStateKept

\* No interleaving of restores, booting processes, failures and kills loses a tree
\* that was live, but for the one a forced restore deletes after its own went live;
\* and a restore that fails alone after one refused system call leaves the prior
\* tree or its own (backup.rs restore_backup).
THEOREM PriorTreeKept == TreeSpec => []PriorStateKept
BY TreeInvariant, TreeInvSound, PTL

-----------------------------------------------------------------------------
(* file.write with snapshots *)

FileStates == Contents \cup {NoFile}
CallStates ==
  [at : {"idle", "store", "ready", "refused", "written", "failed",
         "restoring", "rewriting", "undone", "stale", "lost"},
   append : BOOLEAN, snap : FileStates, before : FileStates, wrote : FileStates,
   over : FileStates, after : FileStates, raced : BOOLEAN, harmed : BOOLEAN]
BlobStates == {"none", "new", "old", "corrupt"}

UndoTyped ==
  /\ content \in FileStates
  /\ blobs \in [Contents -> BlobStates]
  /\ call \in [FileCalls -> CallStates]
  /\ outside \in 0..MaxOutside

\* What holds of one call at every step of it and of its undo. The two middle
\* parts are what makes the last two inductive: between its read and its write
\* the snapshot is what the file holds, and between the check of an undo and its
\* write the file holds what the call left, unless somebody changed it.
SnapGood(c) == c.at \notin {"idle", "store"} /\ c.snap # NoFile /\ ~c.harmed => Good(c.snap)
SnapCurrent(c) == c.at \in {"store", "ready"} /\ ~c.raced => c.snap = content
SnapBefore(c) == c.at = "written" /\ ~c.raced => c.snap = c.before
SnapUndoing(c) ==
  c.at \in {"restoring", "rewriting"} /\ ~c.raced =>
    c.snap = c.before /\ content \in {c.wrote, NoFile}
SnapBack(c) == c.at = "undone" /\ ~c.raced => c.after = c.before /\ c.over \in {c.wrote, NoFile}
CallInv(c) == SnapGood(c) /\ SnapCurrent(c) /\ SnapBefore(c) /\ SnapUndoing(c) /\ SnapBack(c)

UndoInv == UndoTyped /\ \A w \in FileCalls : CallInv(call[w])

\* The empty file, a file of one chunk and a file one chunk longer are contents.
LEMMA ContentsClosed ==
  /\ <<>> \in Contents
  /\ \A w \in FileCalls : <<ChunkOf[w]>> \in Contents
  /\ \A s \in Contents, w \in FileCalls :
       Len(Append(s, ChunkOf[w])) <= MaxChunks => Append(s, ChunkOf[w]) \in Contents
<1>0. MaxChunks \in Nat /\ MaxChunks > 0
  BY FileUndoAssumption
<1>1. /\ \A s \in Contents : s \in Seq(Chunks) /\ Len(s) <= MaxChunks
      /\ \A s \in Seq(Chunks) : Len(s) <= MaxChunks => s \in Contents
  <2>1. ASSUME NEW s \in Contents PROVE s \in Seq(Chunks) /\ Len(s) <= MaxChunks
    <3>1. PICK n \in 0..MaxChunks : s \in [1..n -> Chunks]
      BY <2>1 DEF Contents
    <3>2. QED BY <1>0, <3>1
  <2>2. ASSUME NEW s \in Seq(Chunks), Len(s) <= MaxChunks PROVE s \in Contents
    <3>1. Len(s) \in 0..MaxChunks /\ s \in [1..Len(s) -> Chunks]
      BY <1>0, <2>2
    <3>2. QED BY <3>1 DEF Contents
  <2>3. QED BY <2>1, <2>2
<1>2. \A w \in FileCalls : ChunkOf[w] \in Chunks
  BY DEF Chunks
<1>3. <<>> \in Contents
  <2>1. PICK s \in Seq(Chunks) : s = <<>> /\ Len(s) = 0
    BY EmptySeq
  <2>2. Len(s) <= MaxChunks
    BY ONLY <1>0, <2>1
  <2>3. s \in Contents
    BY ONLY <1>1, <2>2
  <2>4. QED BY ONLY <2>1, <2>3
<1>4. ASSUME NEW w \in FileCalls PROVE <<ChunkOf[w]>> \in Contents
  <2>1. <<ChunkOf[w]>> \in Seq(Chunks) /\ Len(<<ChunkOf[w]>>) = 1
    BY <1>2
  <2>2. QED BY <1>0, <1>1, <2>1
<1>5. ASSUME NEW s \in Contents, NEW w \in FileCalls, Len(Append(s, ChunkOf[w])) <= MaxChunks
      PROVE  Append(s, ChunkOf[w]) \in Contents
  <2>1. Append(s, ChunkOf[w]) \in Seq(Chunks)
    BY <1>1, <1>2
  <2>2. QED BY <1>1, <1>5, <2>1
<1>6. QED BY <1>3, <1>4, <1>5

\* The states a program may find: an absent file, or one chunk.
LEMMA UndoStarts == UndoInit => UndoInv
<1> SUFFICES ASSUME UndoInit PROVE UndoInv
  OBVIOUS
<1>1. MaxOutside \in Nat
  BY FileUndoAssumption
<1>2. <<CHOOSE c \in Chunks : TRUE>> \in Contents
  <2>1. PICK w \in FileCalls : TRUE
    BY FileUndoAssumption
  <2>2. ChunkOf[w] \in Chunks
    BY DEF Chunks
  <2>3. (CHOOSE c \in Chunks : TRUE) \in Chunks
    BY <2>2
  <2>4. PICK v \in FileCalls : (CHOOSE c \in Chunks : TRUE) = ChunkOf[v]
    BY <2>3 DEF Chunks
  <2>5. QED BY <2>4, ContentsClosed
<1>3. NewCall \in CallStates
  BY DEF NewCall, CallStates, FileStates
<1>4. UndoTyped
  <2>1. content \in FileStates
    BY <1>2 DEF UndoInit, FileStates
  <2>2. blobs \in [Contents -> BlobStates] /\ call \in [FileCalls -> CallStates]
    BY <1>3 DEF UndoInit, BlobStates
  <2>3. outside \in 0..MaxOutside
    BY <1>1 DEF UndoInit
  <2>4. QED BY <2>1, <2>2, <2>3 DEF UndoTyped
<1>5. ASSUME NEW w \in FileCalls PROVE CallInv(call[w])
  <2>1. call[w] = NewCall
    BY DEF UndoInit
  <2>2. QED BY <2>1 DEF NewCall, CallInv, SnapGood, SnapCurrent, SnapBefore, SnapUndoing, SnapBack
<1>6. QED BY <1>4, <1>5 DEF UndoInv

\* A call that gives up has nothing left to keep.
LEMMA GaveUpKept ==
  ASSUME NEW how \in {"refused", "failed", "stale", "lost"}
  PROVE  GaveUp(how) \in CallStates /\ CallInv(GaveUp(how)) /\ CallInv(GaveUp(how))'
<1>1. GaveUp(how) \in CallStates
  BY DEF GaveUp, NewCall, CallStates, FileStates
<1>2. GaveUp(how).snap = NoFile /\ GaveUp(how).at = how
  BY DEF GaveUp, NewCall
<1>3. QED
  BY <1>1, <1>2 DEF CallInv, SnapGood, SnapCurrent, SnapBefore, SnapUndoing, SnapBack

\* A change of the file that spares the blobs leaves every other call as it was,
\* or raced.
LEMMA OvertakenKept ==
  ASSUME UndoInv, NEW calls \in [FileCalls -> CallStates], NEW but,
         \A w \in FileCalls : w \notin but => calls[w] = call[w],
         call' = Overtaken(calls, but), UNCHANGED blobs
  PROVE  /\ call' \in [FileCalls -> CallStates]
         /\ \A w \in FileCalls : w \notin but => CallInv(call[w])'
         /\ \A w \in FileCalls : w \in but => call'[w] = calls[w]
<1>1. ASSUME NEW w \in FileCalls PROVE call'[w] =
        IF w \notin but /\ calls[w].at \in {"store", "ready", "restoring", "rewriting"}
        THEN [calls[w] EXCEPT !.raced = TRUE] ELSE calls[w]
  BY DEF Overtaken
<1>2. ASSUME NEW w \in FileCalls PROVE call'[w] \in CallStates
  BY <1>1 DEF CallStates
<1>3. call' \in [FileCalls -> CallStates]
  BY <1>2 DEF Overtaken
<1>4. ASSUME NEW w \in FileCalls, w \notin but PROVE CallInv(call[w])'
  <2>1. CallInv(call[w]) /\ calls[w] = call[w] /\ call[w] \in CallStates
    BY <1>4 DEF UndoInv, UndoTyped
  <2>2. CASE call[w].at \in {"store", "ready", "restoring", "rewriting"}
    <3>1. call'[w] = [call[w] EXCEPT !.raced = TRUE]
      BY <1>1, <1>4, <2>1, <2>2
    <3>2. /\ call'[w].raced /\ call'[w].at = call[w].at /\ call'[w].snap = call[w].snap
          /\ call'[w].harmed = call[w].harmed
      BY <2>1, <3>1 DEF CallStates
    <3>3. SnapGood(call[w])'
      BY <2>1, <3>2 DEF CallInv, SnapGood, Good
    <3>4. QED
      BY <3>2, <3>3, <2>2 DEF CallInv, SnapCurrent, SnapBefore, SnapUndoing, SnapBack
  <2>3. CASE call[w].at \notin {"store", "ready", "restoring", "rewriting"}
    <3>1. call'[w] = call[w]
      BY <1>1, <1>4, <2>1, <2>3
    <3>2. QED
      BY <2>1, <2>3, <3>1
      DEF CallInv, SnapGood, Good, SnapCurrent, SnapBefore, SnapUndoing, SnapBack
  <2>4. QED BY <2>2, <2>3
<1>5. QED BY <1>1, <1>3, <1>4

\* A step of one call that leaves the file alone and spoils no blob.
LEMMA OwnStepKept ==
  ASSUME UndoInv, NEW w \in FileCalls, NEW r \in CallStates,
         call' = [call EXCEPT ![w] = r], UNCHANGED content,
         blobs' \in [Contents -> BlobStates], \A c \in Contents : Good(c) => Good(c)',
         outside' \in 0..MaxOutside, CallInv(r)'
  PROVE  UndoInv'
<1>1. UndoTyped'
  BY DEF UndoInv, UndoTyped
<1>2. call'[w] = r
  BY DEF UndoInv, UndoTyped
<1>3. ASSUME NEW v \in FileCalls PROVE CallInv(call[v])'
  <2>1. CASE v = w
    BY <1>2, <2>1 DEF CallInv, SnapGood, Good, SnapCurrent, SnapBefore, SnapUndoing, SnapBack
  <2>2. CASE v # w
    <3>1. call'[v] = call[v] /\ CallInv(call[v]) /\ call[v] \in CallStates
      BY <2>2 DEF UndoInv, UndoTyped
    <3>2. call[v].snap \in FileStates
      BY <3>1 DEF CallStates
    <3>3. SnapGood(call[v])'
      BY <3>1, <3>2 DEF CallInv, SnapGood, FileStates
    <3>4. QED
      BY <3>1, <3>3 DEF CallInv, SnapCurrent, SnapBefore, SnapUndoing, SnapBack
  <2>3. QED BY <2>1, <2>2
<1>4. QED BY <1>1, <1>3 DEF UndoInv

\* What an outside event costs.
LEMMA OutsideTyped == ASSUME UndoInv, Outside PROVE outside' \in 0..MaxOutside
<1>1. MaxOutside \in Nat
  BY FileUndoAssumption
<1>2. QED BY <1>1 DEF UndoInv, UndoTyped, Outside

\* The capture of a call.
LEMMA CaptureKept ==
  ASSUME UndoInv, NEW w \in FileCalls,
         \/ \E append \in BOOLEAN : CaptureReads(w, append)
         \/ CaptureStores(w)
         \/ CaptureFails(w)
  PROVE  UndoInv'
<1>0. /\ call[w] \in CallStates /\ CallInv(call[w]) /\ content \in FileStates
      /\ blobs \in [Contents -> BlobStates] /\ call \in [FileCalls -> CallStates]
      /\ outside \in 0..MaxOutside
  BY DEF UndoInv, UndoTyped
<1>1. ASSUME NEW append \in BOOLEAN, CaptureReads(w, append) PROVE UndoInv'
  <2>0. UNCHANGED <<content, blobs, outside>> /\ call[w].at = "idle"
    BY <1>1 DEF CaptureReads
  <2>1. CASE content # NoFile /\ Len(content) > MaxCaptureChunks
    <3>1. call' = [call EXCEPT ![w] = GaveUp("refused")]
      BY <1>1, <2>1 DEF CaptureReads
    <3>2. GaveUp("refused") \in CallStates /\ CallInv(GaveUp("refused"))'
      BY GaveUpKept
    <3>3. QED BY <1>0, <2>0, <3>1, <3>2, OwnStepKept DEF Good
  <2>2. CASE ~(content # NoFile /\ Len(content) > MaxCaptureChunks)
    <3>r. PICK r : r = [call[w] EXCEPT !.append = append, !.snap = content,
                                  !.at = IF content = NoFile THEN "ready" ELSE "store"]
      OBVIOUS
    <3>1. call' = [call EXCEPT ![w] = r]
      BY <3>r, <1>1, <2>2 DEF CaptureReads
    <3>2. r \in CallStates /\ r.snap = content /\ r.at \in {"ready", "store"}
          /\ (r.at = "ready" => content = NoFile)
      BY <3>r, <1>0 DEF CallStates
    <3>3. CallInv(r)'
      BY <2>0, <3>2 DEF CallInv, SnapGood, SnapCurrent, SnapBefore, SnapUndoing, SnapBack
    <3>4. QED BY <1>0, <2>0, <3>1, <3>2, <3>3, OwnStepKept DEF Good
  <2>3. QED BY <2>1, <2>2
<1>2. CASE CaptureStores(w)
  <2>r. PICK r : r = [call[w] EXCEPT !.at = "ready"]
    OBVIOUS
  <2>0. UNCHANGED <<content, outside>> /\ call[w].at = "store"
    BY <2>r, <1>2 DEF CaptureStores
  <2>1. call' = [call EXCEPT ![w] = r]
    BY <2>r, <1>0, <1>2 DEF CaptureStores
  <2>2. r \in CallStates /\ r.snap = call[w].snap /\ r.at = "ready" /\ r.raced = call[w].raced
    BY <2>r, <1>0 DEF CallStates
  <2>3. blobs' = [blobs EXCEPT ![call[w].snap] = IF Good(call[w].snap) THEN @ ELSE "new"]
    BY <2>r, <1>2 DEF CaptureStores
  <2>4. blobs' \in [Contents -> BlobStates]
    BY <1>0, <2>3 DEF BlobStates
  <2>5. ASSUME NEW c \in Contents, Good(c) \/ c = call[w].snap PROVE Good(c)'
    BY <1>0, <2>3, <2>5 DEF Good
  <2>6. call[w].snap \in FileStates
    BY <2>r, <1>0 DEF CallStates
  <2>7. SnapGood(r)'
    BY <2>2, <2>5, <2>6 DEF SnapGood, FileStates
  <2>8. CallInv(r)'
    BY <1>0, <2>0, <2>2, <2>7 DEF CallInv, SnapCurrent, SnapBefore, SnapUndoing, SnapBack
  <2>9. QED BY <1>0, <2>0, <2>1, <2>2, <2>4, <2>5, <2>8, OwnStepKept
<1>3. CASE CaptureFails(w)
  <2>1. UNCHANGED <<content, blobs>> /\ Outside /\ call' = [call EXCEPT ![w] = GaveUp("refused")]
    BY <1>3 DEF CaptureFails
  <2>2. GaveUp("refused") \in CallStates /\ CallInv(GaveUp("refused"))'
    BY GaveUpKept
  <2>3. QED BY <1>0, <2>1, <2>2, OutsideTyped, OwnStepKept DEF Good
<1>4. QED BY <1>1, <1>2, <1>3

\* A write: what it replaces is what the call read, unless it was overtaken.
LEMMA WriteKept ==
  ASSUME UndoInv, NEW w \in FileCalls, Writes(w) \/ WriteFails(w)
  PROVE  UndoInv'
<1>0. /\ call[w] \in CallStates /\ CallInv(call[w]) /\ content \in FileStates
      /\ blobs \in [Contents -> BlobStates] /\ call \in [FileCalls -> CallStates]
      /\ outside \in 0..MaxOutside
  BY DEF UndoInv, UndoTyped
<1>1. CASE Writes(w)
  <2>r. PICK r : r = [call[w] EXCEPT !.at = "written", !.before = content, !.wrote = Written(w)]
    OBVIOUS
  <2>c. PICK calls : calls = [call EXCEPT ![w] = r]
    OBVIOUS
  <2>1. /\ call[w].at = "ready" /\ Len(Written(w)) <= MaxChunks /\ content' = Written(w)
        /\ UNCHANGED <<blobs, outside>> /\ call' = Overtaken(calls, {w})
    BY <2>c, <2>r, <1>1 DEF Writes
  <2>2. Written(w) \in FileStates
    <3>1. CASE ~call[w].append
      BY <3>1, ContentsClosed DEF Written, FileStates
    <3>2. CASE call[w].append
      <4>1. Written(w) = Append(IF content = NoFile THEN <<>> ELSE content, ChunkOf[w])
        BY <3>2 DEF Written
      <4>2. (IF content = NoFile THEN <<>> ELSE content) \in Contents
        BY <1>0, ContentsClosed DEF FileStates
      <4>3. QED BY <2>1, <4>1, <4>2, ContentsClosed DEF FileStates
    <3>3. QED BY <3>1, <3>2
  <2>3. /\ r \in CallStates /\ r.at = "written" /\ r.before = content /\ r.snap = call[w].snap
        /\ r.raced = call[w].raced /\ r.harmed = call[w].harmed
    BY <2>r, <1>0, <2>2 DEF CallStates
  <2>4. calls \in [FileCalls -> CallStates] /\ calls[w] = r
        /\ \A v \in FileCalls : v \notin {w} => calls[v] = call[v]
    BY <2>c, <1>0, <2>3
  <2>5. /\ call' \in [FileCalls -> CallStates] /\ call'[w] = r
        /\ \A v \in FileCalls : v # w => CallInv(call[v])'
    <3>1. UNCHANGED blobs /\ call' = Overtaken(calls, {w})
      BY <2>1
    <3>2. QED BY ONLY UndoInv, <2>4, <3>1, OvertakenKept
  <2>6. CallInv(call[w])'
    <3>1. SnapGood(call[w])'
      BY <1>0, <2>1, <2>3, <2>5 DEF CallInv, SnapGood, Good
    <3>2. SnapBefore(call[w])'
      BY <1>0, <2>1, <2>3, <2>5 DEF CallInv, SnapCurrent, SnapBefore
    <3>3. QED
      BY <2>3, <2>5, <3>1, <3>2 DEF CallInv, SnapCurrent, SnapUndoing, SnapBack
  <2>7. QED BY <1>0, <2>1, <2>2, <2>5, <2>6 DEF UndoInv, UndoTyped
<1>2. CASE WriteFails(w)
  <2>g. PICK g : g = GaveUp("failed")
    OBVIOUS
  <2>c. PICK calls : calls = [call EXCEPT ![w] = g]
    OBVIOUS
  <2>1. /\ content' \in {content, IF call[w].append /\ content # NoFile THEN content ELSE <<>>}
        /\ UNCHANGED blobs /\ Outside /\ call' = Overtaken(calls, {w})
    BY <2>g, <2>c, <1>2 DEF WriteFails
  <2>2. content' \in FileStates
    BY <1>0, <2>1, ContentsClosed DEF FileStates
  <2>3. g \in CallStates /\ CallInv(g)'
    BY <2>g, GaveUpKept
  <2>4. calls \in [FileCalls -> CallStates] /\ calls[w] = g
        /\ \A v \in FileCalls : v \notin {w} => calls[v] = call[v]
    BY <2>c, <1>0, <2>3
  <2>5. /\ call' \in [FileCalls -> CallStates] /\ call'[w] = g
        /\ \A v \in FileCalls : v # w => CallInv(call[v])'
    <3>1. UNCHANGED blobs /\ call' = Overtaken(calls, {w})
      BY <2>1
    <3>2. QED BY ONLY UndoInv, <2>4, <3>1, OvertakenKept
  <2>6. CallInv(call[w])'
    BY <2>3, <2>5 DEF CallInv, SnapGood, Good, SnapCurrent, SnapBefore, SnapUndoing, SnapBack
  <2>7. QED BY <1>0, <2>1, <2>2, <2>5, <2>6, OutsideTyped DEF UndoInv, UndoTyped
<1>3. QED BY <1>1, <1>2

\* An undo: the check, the read of the blob, the write over the path.
LEMMA UndoKept ==
  ASSUME UndoInv, NEW w \in FileCalls,
         UndoChecks(w) \/ UndoReads(w) \/ UndoWrites(w) \/ UndoFails(w)
  PROVE  UndoInv'
<1>0. /\ call[w] \in CallStates /\ CallInv(call[w]) /\ content \in FileStates
      /\ blobs \in [Contents -> BlobStates] /\ call \in [FileCalls -> CallStates]
      /\ outside \in 0..MaxOutside
  BY DEF UndoInv, UndoTyped
<1>1. CASE UndoChecks(w)
  <2>0. UNCHANGED <<content, blobs, outside>> /\ call[w].at = "written"
    BY <1>1 DEF UndoChecks
  <2>1. CASE content = NoFile /\ call[w].snap = NoFile
    <3>r. PICK r : r = [call[w] EXCEPT !.at = "undone", !.over = content, !.after = content]
      OBVIOUS
    <3>1. call' = [call EXCEPT ![w] = r]
      BY <3>r, <1>0, <1>1, <2>1 DEF UndoChecks
    <3>2. /\ r \in CallStates /\ r.at = "undone" /\ r.over = NoFile /\ r.after = NoFile
          /\ r.snap = NoFile /\ r.before = call[w].before /\ r.raced = call[w].raced
      BY <3>r, <1>0, <2>1 DEF CallStates
    <3>3. CallInv(r)'
      BY <1>0, <2>0, <2>1, <3>2
      DEF CallInv, SnapGood, SnapCurrent, SnapBefore, SnapUndoing, SnapBack
    <3>4. QED BY <1>0, <2>0, <3>1, <3>2, <3>3, OwnStepKept DEF Good
  <2>2. CASE ~(content = NoFile /\ call[w].snap = NoFile) /\ content \in {NoFile, call[w].wrote}
    <3>r. PICK r : r = [call[w] EXCEPT !.at = "restoring"]
      OBVIOUS
    <3>1. call' = [call EXCEPT ![w] = r]
      BY <3>r, <1>0, <1>1, <2>2 DEF UndoChecks
    <3>2. /\ r \in CallStates /\ r.at = "restoring" /\ r.snap = call[w].snap
          /\ r.before = call[w].before /\ r.raced = call[w].raced /\ r.wrote = call[w].wrote
          /\ r.harmed = call[w].harmed
      BY <3>r, <1>0 DEF CallStates
    <3>3. CallInv(r)'
      BY <1>0, <2>0, <2>2, <3>2
      DEF CallInv, SnapGood, Good, SnapCurrent, SnapBefore, SnapUndoing, SnapBack
    <3>4. QED BY <1>0, <2>0, <3>1, <3>2, <3>3, OwnStepKept DEF Good
  <2>3. CASE content \notin {NoFile, call[w].wrote}
    <3>1. call' = [call EXCEPT ![w] = GaveUp("stale")]
      BY <1>0, <1>1, <2>3 DEF UndoChecks
    <3>2. GaveUp("stale") \in CallStates /\ CallInv(GaveUp("stale"))'
      BY GaveUpKept
    <3>3. QED BY <1>0, <2>0, <3>1, <3>2, OwnStepKept DEF Good
  <2>4. QED BY <2>1, <2>2, <2>3
<1>2. CASE UndoReads(w)
  <2>0. UNCHANGED <<content, blobs, outside>> /\ call[w].at = "restoring"
    BY <1>2 DEF UndoReads
  <2>1. CASE Good(call[w].snap)
    <3>r. PICK r : r = [call[w] EXCEPT !.at = "rewriting"]
      OBVIOUS
    <3>1. call' = [call EXCEPT ![w] = r]
      BY <3>r, <1>0, <1>2, <2>1 DEF UndoReads
    <3>2. /\ r \in CallStates /\ r.at = "rewriting" /\ r.snap = call[w].snap
          /\ r.before = call[w].before /\ r.raced = call[w].raced /\ r.wrote = call[w].wrote
      BY <3>r, <1>0 DEF CallStates
    <3>3. CallInv(r)'
      BY <1>0, <2>0, <2>1, <3>2
      DEF CallInv, SnapGood, Good, SnapCurrent, SnapBefore, SnapUndoing, SnapBack
    <3>4. QED BY <1>0, <2>0, <3>1, <3>2, <3>3, OwnStepKept DEF Good
  <2>2. CASE ~Good(call[w].snap)
    <3>1. call' = [call EXCEPT ![w] = GaveUp("lost")]
      BY <1>0, <1>2, <2>2 DEF UndoReads
    <3>2. GaveUp("lost") \in CallStates /\ CallInv(GaveUp("lost"))'
      BY GaveUpKept
    <3>3. QED BY <1>0, <2>0, <3>1, <3>2, OwnStepKept DEF Good
  <2>3. QED BY <2>1, <2>2
<1>3. CASE UndoWrites(w)
  <2>r. PICK r : r = [call[w] EXCEPT !.at = "undone", !.over = content, !.after = call[w].snap]
    OBVIOUS
  <2>c. PICK calls : calls = [call EXCEPT ![w] = r]
    OBVIOUS
  <2>1. /\ call[w].at \in {"restoring", "rewriting"} /\ content' = call[w].snap
        /\ UNCHANGED <<blobs, outside>> /\ call' = Overtaken(calls, {w})
    BY <2>c, <2>r, <1>3 DEF UndoWrites
  <2>2. /\ r \in CallStates /\ r.at = "undone" /\ r.over = content /\ r.after = call[w].snap
        /\ r.snap = call[w].snap /\ r.before = call[w].before /\ r.wrote = call[w].wrote
        /\ r.raced = call[w].raced /\ r.harmed = call[w].harmed
        /\ call[w].snap \in FileStates
    BY <2>r, <1>0 DEF CallStates
  <2>3. calls \in [FileCalls -> CallStates] /\ calls[w] = r
        /\ \A v \in FileCalls : v \notin {w} => calls[v] = call[v]
    BY <2>c, <1>0, <2>2
  <2>4. /\ call' \in [FileCalls -> CallStates] /\ call'[w] = r
        /\ \A v \in FileCalls : v # w => CallInv(call[v])'
    BY <2>1, <2>3, OvertakenKept
  <2>5. CallInv(call[w])'
    <3>1. SnapGood(call[w])'
      BY <1>0, <2>1, <2>2, <2>4 DEF CallInv, SnapGood, Good
    <3>2. SnapBack(call[w])'
      BY <1>0, <2>1, <2>2, <2>4 DEF CallInv, SnapUndoing, SnapBack
    <3>3. QED
      BY <2>2, <2>4, <3>1, <3>2 DEF CallInv, SnapCurrent, SnapUndoing, SnapBefore
  <2>6. QED BY <1>0, <2>1, <2>2, <2>4, <2>5 DEF UndoInv, UndoTyped
<1>4. CASE UndoFails(w)
  <2>g. PICK g : g = GaveUp("failed")
    OBVIOUS
  <2>c. PICK calls : calls = [call EXCEPT ![w] = g]
    OBVIOUS
  <2>1. /\ content' \in {content, <<>>}
        /\ UNCHANGED blobs /\ Outside /\ call' = Overtaken(calls, {w})
    BY <2>g, <2>c, <1>4 DEF UndoFails
  <2>2. content' \in FileStates
    BY <1>0, <2>1, ContentsClosed DEF FileStates
  <2>3. g \in CallStates /\ CallInv(g)'
    BY <2>g, GaveUpKept
  <2>4. calls \in [FileCalls -> CallStates] /\ calls[w] = g
        /\ \A v \in FileCalls : v \notin {w} => calls[v] = call[v]
    BY <2>c, <1>0, <2>3
  <2>5. /\ call' \in [FileCalls -> CallStates] /\ call'[w] = g
        /\ \A v \in FileCalls : v # w => CallInv(call[v])'
    <3>1. UNCHANGED blobs /\ call' = Overtaken(calls, {w})
      BY <2>1
    <3>2. QED BY ONLY UndoInv, <2>4, <3>1, OvertakenKept
  <2>6. CallInv(call[w])'
    BY <2>3, <2>5 DEF CallInv, SnapGood, Good, SnapCurrent, SnapBefore, SnapUndoing, SnapBack
  <2>7. QED BY <1>0, <2>1, <2>2, <2>5, <2>6, OutsideTyped DEF UndoInv, UndoTyped
<1>5. QED BY <1>1, <1>2, <1>3, <1>4

\* What hits the store marks every call whose snapshot it hits.
LEMMA HarmKept ==
  ASSUME UndoInv, NEW hit, call' = Harmed(hit), UNCHANGED content,
         blobs' \in [Contents -> BlobStates],
         \A c \in Contents \ hit : Good(c) => Good(c)',
         outside' \in 0..MaxOutside
  PROVE  UndoInv'
<1>1. ASSUME NEW w \in FileCalls PROVE call'[w] \in CallStates /\ CallInv(call[w])'
  <2>1. /\ call'[w] = IF call[w].snap \in hit /\ call[w].at \notin {"idle", "store"}
                      THEN [call[w] EXCEPT !.harmed = TRUE] ELSE call[w]
        /\ call[w] \in CallStates /\ CallInv(call[w])
    BY DEF Harmed, UndoInv, UndoTyped
  <2>2. CASE call[w].snap \in hit /\ call[w].at \notin {"idle", "store"}
    <3>1. /\ call'[w] = [call[w] EXCEPT !.harmed = TRUE]
      BY <2>1, <2>2
    <3>2. /\ call'[w] \in CallStates
          /\ call'[w].harmed /\ call'[w].at = call[w].at /\ call'[w].snap = call[w].snap
          /\ call'[w].raced = call[w].raced /\ call'[w].before = call[w].before
          /\ call'[w].wrote = call[w].wrote /\ call'[w].over = call[w].over
          /\ call'[w].after = call[w].after
      BY <2>1, <3>1 DEF CallStates
    <3>3. QED
      BY <2>1, <3>2 DEF CallInv, SnapGood, SnapCurrent, SnapBefore, SnapUndoing, SnapBack
  <2>3. CASE ~(call[w].snap \in hit /\ call[w].at \notin {"idle", "store"})
    <3>1. call'[w] = call[w] /\ call[w].snap \in FileStates
      BY <2>1, <2>3 DEF CallStates
    <3>2. SnapGood(call[w])'
      BY <2>1, <2>3, <3>1 DEF CallInv, SnapGood, FileStates
    <3>3. QED
      BY <2>1, <3>1, <3>2 DEF CallInv, SnapCurrent, SnapBefore, SnapUndoing, SnapBack
  <2>4. QED BY <2>2, <2>3
<1>2. call' \in [FileCalls -> CallStates]
  BY <1>1 DEF Harmed
<1>3. QED BY <1>1, <1>2 DEF UndoInv, UndoTyped

\* Another program, the clock, a prune and damage to the store.
LEMMA OutsideKept ==
  ASSUME UndoInv,
         \/ \E c \in Contents \cup {NoFile} : EditorWrites(c)
         \/ BlobsAge
         \/ Prunes
         \/ \E c \in Contents : BlobCorrupts(c)
  PROVE  UndoInv'
<1>0. /\ content \in FileStates
      /\ blobs \in [Contents -> BlobStates] /\ call \in [FileCalls -> CallStates]
      /\ outside \in 0..MaxOutside
  BY DEF UndoInv, UndoTyped
<1>1. ASSUME NEW c \in Contents \cup {NoFile}, EditorWrites(c) PROVE UndoInv'
  <2>1. content' \in FileStates /\ UNCHANGED blobs /\ Outside /\ call' = Overtaken(call, {})
    BY <1>1 DEF EditorWrites, FileStates
  <2>2. call' \in [FileCalls -> CallStates] /\ \A v \in FileCalls : CallInv(call[v])'
    BY <1>0, <2>1, OvertakenKept
  <2>3. QED BY <1>0, <2>1, <2>2, OutsideTyped DEF UndoInv, UndoTyped
<1>2. CASE BlobsAge
  <2>1. /\ UNCHANGED <<content, call, outside>>
        /\ blobs' = [c \in Contents |-> IF blobs[c] = "new" THEN "old" ELSE blobs[c]]
    BY <1>2 DEF BlobsAge
  <2>2. blobs' \in [Contents -> BlobStates] /\ \A c \in Contents : Good(c) => Good(c)'
    BY <1>0, <2>1 DEF BlobStates, Good
  <2>3. ASSUME NEW w \in FileCalls PROVE CallInv(call[w])'
    <3>1. CallInv(call[w]) /\ call'[w] = call[w] /\ call[w].snap \in FileStates
      BY <2>1 DEF UndoInv, UndoTyped, CallStates
    <3>2. SnapGood(call[w])'
      BY <2>2, <3>1 DEF CallInv, SnapGood, FileStates
    <3>3. QED
      BY <2>1, <3>1, <3>2 DEF CallInv, SnapCurrent, SnapBefore, SnapUndoing, SnapBack
  <2>4. QED BY <1>0, <2>1, <2>2, <2>3 DEF UndoInv, UndoTyped
<1>3. CASE Prunes
  <2> DEFINE hit == {c \in Contents : blobs[c] = "old"}
  <2>1. /\ UNCHANGED <<content, outside>> /\ call' = Harmed(hit)
        /\ blobs' = [c \in Contents |-> IF blobs[c] = "old" THEN "none" ELSE blobs[c]]
    BY <1>3 DEF Prunes
  <2>2. blobs' \in [Contents -> BlobStates] /\ \A c \in Contents \ hit : Good(c) => Good(c)'
    BY <1>0, <2>1 DEF BlobStates, Good
  <2>3. QED BY <1>0, <2>1, <2>2, HarmKept
<1>4. ASSUME NEW c \in Contents, BlobCorrupts(c) PROVE UndoInv'
  <2>1. /\ UNCHANGED content /\ Outside /\ call' = Harmed({c})
        /\ blobs' = [blobs EXCEPT ![c] = "corrupt"]
    BY <1>4 DEF BlobCorrupts
  <2>2. blobs' \in [Contents -> BlobStates] /\ \A b \in Contents \ {c} : Good(b) => Good(b)'
    BY <1>0, <2>1 DEF BlobStates, Good
  <2>3. QED BY <2>1, <2>2, OutsideTyped, HarmKept
<1>5. QED BY <1>1, <1>2, <1>3, <1>4

\* Every step keeps it.
LEMMA UndoInductive == UndoInv /\ [UndoNext]_undoVars => UndoInv'
<1> SUFFICES ASSUME UndoInv, [UndoNext]_undoVars PROVE UndoInv'
  OBVIOUS
<1>1. ASSUME NEW w \in FileCalls, FileCallStep(w) PROVE UndoInv'
  BY <1>1, CaptureKept, WriteKept, UndoKept DEF FileCallStep
<1>2. CASE UNCHANGED undoVars
  <2>1. content' = content /\ blobs' = blobs /\ call' = call /\ outside' = outside
    BY <1>2 DEF undoVars
  <2>2. QED
    BY <2>1 DEF UndoInv, UndoTyped, CallInv, SnapGood, Good, SnapCurrent, SnapBefore,
                SnapUndoing, SnapBack
<1>3. QED BY <1>1, <1>2, OutsideKept DEF UndoNext

\* Every run of calls, undos, editors and prunes keeps the invariant.
THEOREM UndoInvariant == UndoSpec => []UndoInv
BY UndoStarts, UndoInductive, PTL DEF UndoSpec

\* What a state of the invariant shows of a write and its undo.
LEMMA UndoInvSound == UndoInv => UndoTypeOK /\ UndoSound
<1> SUFFICES ASSUME UndoInv PROVE UndoTypeOK /\ UndoSound
  OBVIOUS
<1>1. ASSUME NEW w \in FileCalls
      PROVE  /\ DOMAIN call[w] = DOMAIN NewCall
             /\ call[w].at \in {"idle", "store", "ready", "refused", "written", "failed",
                                "restoring", "rewriting", "undone", "stale", "lost"}
  <2>1. call[w] \in CallStates
    BY DEF UndoInv, UndoTyped
  <2>2. QED BY <2>1 DEF CallStates, NewCall
<1>2. UndoTypeOK
  BY <1>1 DEF UndoInv, UndoTyped, UndoTypeOK, FileStates, BlobStates
<1>3. UndoSound
  BY DEF UndoInv, UndoSound, CallInv, SnapGood, SnapBefore, SnapBack
<1>4. QED BY <1>2, <1>3

\* A write that nobody raced can be undone to exactly what it replaced, and the
\* undo replaces nothing but the call's own content (snapshot.rs capture and
\* restore_expecting), for any number of calls, chunks and outside events.
THEOREM UndoBringsBack == UndoSpec => []UndoSound
BY UndoInvariant, UndoInvSound, PTL

-----------------------------------------------------------------------------
(* The specification of the run *)

\* A step of the run is a step of each component or leaves it alone.
LEMMA OperatorSteps ==
  ASSUME [OperatorNext]_<<moves, vars, opVars, histVars, readerVars, treeVars, undoVars>>
  PROVE  /\ [Next]_vars /\ [StoreNext]_opVars /\ [HistoryNext]_histVars
         /\ [ReadersNext]_readerVars /\ [TreeNext]_treeVars /\ [UndoNext]_undoVars
BY DEF OperatorNext, Still

\* A behaviour of the run is one of each component.
LEMMA OperatorComponents ==
  OperatorSpec => Spec /\ StoreSpec /\ HistorySpec /\ ReadersSpec /\ TreeSpec /\ UndoSpec
<1>1. OperatorInit => Init /\ StoreInit /\ HistoryInit /\ ReadersInit /\ TreeInit /\ UndoInit
  BY DEF OperatorInit
<1>2. QED
  BY <1>1, OperatorSteps, PTL DEF OperatorSpec, Spec, StoreSpec, HistorySpec, ReadersSpec, TreeSpec,
     UndoSpec

\* Every component keeps its types in every state of the run.
THEOREM OperatorTypes == OperatorSpec => []OperatorTypeOK
<1>1. TypeOK /\ StoreInv /\ SessionInv /\ ReadersInv /\ TreeInv /\ UndoInv => OperatorTypeOK
  BY StoreInvSound, SessionInvSound, ReadersInvSound, TreeInvSound, UndoInvSound DEF OperatorTypeOK
<1>2. QED
  BY <1>1, OperatorComponents, ApprovalsTypeOK, StoreInvariant, SessionInvariant, ReadersInvariant,
     TreeInvariant, UndoInvariant, PTL

\* The state tree that a restore displaces and the content that file.write replaces
\* come back, whatever fails.
THEOREM PriorBack == OperatorSpec => []PriorComesBack
<1>1. PriorStateKept /\ UndoSound => PriorComesBack
  BY DEF PriorComesBack
<1>2. QED
  BY <1>1, OperatorComponents, PriorTreeKept, UndoBringsBack, PTL
=============================================================================
