--------------------------- MODULE WindowsProofs ---------------------------
(***************************************************************************)
(* The components of the Windows run, for any number of processes,         *)
(* schedules, messages, sources, budgets and events, any calendar and any  *)
(* cron expressions: schedule records shared without a lock, the minutes   *)
(* an expression fires at, the replay cache of the webhook, the loop       *)
(* detector, a room message that is sent again and a run's events followed *)
(* over broken windows. Each part has an inductive invariant of its own;   *)
(* the last part puts them together for the specification of the run.      *)
(***************************************************************************)
EXTENDS MCWindows, SumProofs, SequenceTheorems

-----------------------------------------------------------------------------
(* Sequences *)

\* Taking up a minimum of a set of numbers.
LEMMA MinOf ==
  ASSUME NEW S, S \subseteq Nat, S # {}
  PROVE  Min(S) \in S /\ \A k \in S : Min(S) <= k
BY LeastOf DEF Min

\* What stays after a prefix is dropped.
LEMMA DropPrefix ==
  ASSUME NEW S, NEW s \in Seq(S), NEW k \in 0..Len(s)
  PROVE  LET w == SubSeq(s, k + 1, Len(s))
         IN w \in Seq(S) /\ Len(w) = Len(s) - k /\ \A i \in 1..(Len(s) - k) : w[i] = s[k + i]
<1> DEFINE w == SubSeq(s, k + 1, Len(s))
<1>0. Len(s) \in Nat /\ k \in Nat /\ k <= Len(s)
  BY LenProperties
<1>1. \A i \in (k + 1)..Len(s) : s[i] \in S
  BY ElementOfSeq, <1>0
<1>2. w \in Seq(S) /\ Len(w) = (IF k + 1 <= Len(s) THEN Len(s) - (k + 1) + 1 ELSE 0)
      /\ \A i \in 1..(Len(s) - (k + 1) + 1) : w[i] = s[(k + 1) + i - 1]
  BY <1>1, <1>0, SubSeqProperties
<1>3. ASSUME NEW i \in 1..(Len(s) - k) PROVE w[i] = s[k + i]
  <2>1. i \in 1..(Len(s) - (k + 1) + 1) /\ (k + 1) + i - 1 = k + i
    BY <1>0
  <2> QED BY <1>2, <2>1
<1> HIDE DEF w
<1>4. w \in Seq(S) /\ Len(w) = Len(s) - k /\ \A i \in 1..(Len(s) - k) : w[i] = s[k + i]
  BY <1>2, <1>3, <1>0
<1> QED BY <1>4 DEF w

\* Dropping a prefix twice drops their sum.
LEMMA DropTwice ==
  ASSUME NEW S, NEW s \in Seq(S), NEW k \in 0..Len(s), NEW g \in 0..(Len(s) - k)
  PROVE  LET w == SubSeq(s, k + 1, Len(s))
         IN SubSeq(w, g + 1, Len(w)) = SubSeq(s, k + g + 1, Len(s))
<1> DEFINE w == SubSeq(s, k + 1, Len(s))
           u == SubSeq(w, g + 1, Len(w))
           v == SubSeq(s, k + g + 1, Len(s))
<1>0. /\ Len(s) \in Nat /\ k \in Nat /\ g \in Nat /\ k <= Len(s) /\ g <= Len(s) - k
      /\ k + g \in 0..Len(s)
  BY LenProperties
<1>1. w \in Seq(S) /\ Len(w) = Len(s) - k /\ \A i \in 1..(Len(s) - k) : w[i] = s[k + i]
  BY DropPrefix
<1>2. u \in Seq(S) /\ Len(u) = Len(w) - g /\ \A i \in 1..(Len(w) - g) : u[i] = w[g + i]
  <2> HIDE DEF w
  <2> QED BY <1>1, DropPrefix
<1>3. v \in Seq(S) /\ Len(v) = Len(s) - (k + g) /\ \A i \in 1..(Len(s) - (k + g)) : v[i] = s[(k + g) + i]
  BY <1>0, DropPrefix
<1> HIDE DEF u, v, w
<1>4. ASSUME NEW i \in 1..Len(u) PROVE u[i] = v[i]
  <2>1. /\ i \in 1..(Len(w) - g) /\ g + i \in 1..(Len(s) - k) /\ i \in 1..(Len(s) - (k + g))
        /\ k + (g + i) = (k + g) + i
    BY <1>0, <1>1, <1>2
  <2> QED BY <2>1, <1>1, <1>2, <1>3
<1>5. Len(u) = Len(v)
  BY <1>0, <1>1, <1>2, <1>3
<1>6. u = v
  BY <1>2, <1>3, <1>4, <1>5, SeqEqual
<1> QED BY <1>6 DEF u, v, w

\* A prefix dropped and one more at the end.
LEMMA DropAppend ==
  ASSUME NEW S, NEW s \in Seq(S), NEW k \in 0..Len(s), NEW x \in S
  PROVE  Append(SubSeq(s, k + 1, Len(s)), x) = SubSeq(Append(s, x), k + 1, Len(Append(s, x)))
<1> DEFINE w == SubSeq(s, k + 1, Len(s))
           t == Append(s, x)
           v == SubSeq(t, k + 1, Len(t))
           u == Append(w, x)
<1>0. Len(s) \in Nat /\ k \in Nat /\ k <= Len(s)
  BY LenProperties
<1>t. t \in Seq(S) /\ Len(t) = Len(s) + 1 /\ t[Len(s) + 1] = x /\ \A i \in 1..Len(s) : t[i] = s[i]
  BY AppendProperties
<1>1. w \in Seq(S) /\ Len(w) = Len(s) - k /\ \A i \in 1..(Len(s) - k) : w[i] = s[k + i]
  BY DropPrefix
<1>2. v \in Seq(S) /\ Len(v) = Len(t) - k /\ \A i \in 1..(Len(t) - k) : v[i] = t[k + i]
  <2>1. k \in 0..Len(t)
    BY <1>0, <1>t
  <2> HIDE DEF t
  <2> QED BY <2>1, <1>t, DropPrefix
<1>3. /\ u \in Seq(S) /\ Len(u) = Len(w) + 1 /\ u[Len(w) + 1] = x
      /\ \A i \in 1..Len(w) : u[i] = w[i]
  <2> HIDE DEF w
  <2> QED BY <1>1, AppendProperties
<1> HIDE DEF u, v, w, t
<1>4. ASSUME NEW i \in 1..Len(u) PROVE u[i] = v[i]
  <2>1. CASE i \in 1..Len(w)
    <3>1. k + i \in 1..Len(s) /\ i \in 1..(Len(t) - k) /\ i \in 1..(Len(s) - k)
      BY <2>1, <1>0, <1>1, <1>t
    <3> QED BY <3>1, <2>1, <1>1, <1>2, <1>3, <1>t
  <2>2. CASE i = Len(w) + 1
    <3>1. k + i = Len(s) + 1 /\ i \in 1..(Len(t) - k)
      BY <2>2, <1>0, <1>1, <1>t
    <3> QED BY <3>1, <2>2, <1>2, <1>3, <1>t
  <2> QED BY <2>1, <2>2, <1>0, <1>1, <1>3
<1>5. Len(u) = Len(v)
  BY <1>0, <1>1, <1>2, <1>3, <1>t
<1>6. u = v
  BY <1>2, <1>3, <1>4, <1>5, SeqEqual
<1> QED BY <1>6 DEF u, v, w, t

-----------------------------------------------------------------------------
(* Schedules *)

\* Where a process is says what it holds, and no clock reading lies ahead.
ProcInv ==
  /\ \A p \in Runners :
       /\ runPc[p] \in {"idle", "load", "pick", "exited"} => current[p] = NoSid
       /\ runPc[p] \in {"submit", "deliver", "read", "write"} => current[p] \in Sids
       /\ runPc[p] \in {"idle", "load", "exited"} => due[p] = {}
       /\ p \notin Drivers => due[p] = {} /\ runPc[p] \notin {"load", "pick"}
       /\ now[p] <= clock
       /\ current[p] \notin due[p]
  /\ \A s \in Sids : record[s].last # Never => record[s].last <= clock

\* A process has the schedule on its list or under way.
Holds(p, s) == s \in due[p] \/ current[p] = s
Unsettled(p, s) == current[p] = s /\ runPc[p] \in {"read", "write"}
Pending(s) == {p \in Runners : current[p] = s /\ runPc[p] \in {"read", "write"}}

InOneHand(s) == \A p, q \in Runners : Holds(p, s) /\ Holds(q, s) => p = q

\* Whoever holds the schedule took it up after the last fire on record and, a
\* driver, in a later minute; and before any driver that is about to load.
InOrder(s) ==
  /\ \A p \in Runners : Holds(p, s) =>
       /\ record[s].exists
       /\ record[s].last # Never => record[s].last <= now[p]
       /\ p \in Drivers =>
            ~(record[s].last # Never /\ Minute(record[s].last) = Minute(now[p]))
  /\ \A p \in Runners : runPc[p] = "load" =>
       /\ record[s].last # Never => record[s].last <= now[p]
       /\ \A q \in Runners : Holds(q, s) => now[q] <= now[p]

ReadIsRecord(s) ==
  \A p \in Runners : current[p] = s /\ runPc[p] = "write" => read[p] = record[s]

CountExact(s) ==
  record[s].count + unrecorded[s] + Cardinality(Pending(s)) = answers[s]

\* Deliveries in a minute: one that is on record, or one that is about to be, and
\* those that could not be recorded.
Recorded(s, m) == IF record[s].last # Never /\ m <= Minute(record[s].last) THEN 1 ELSE 0
Settling(s, m) ==
  IF \E p \in Drivers : Unsettled(p, s) /\ Minute(now[p]) = m THEN 1 ELSE 0
MinuteExact(s) ==
  \A m \in Minutes : delivered[s][m] <= Recorded(s, m) + Settling(s, m) + unrecorded[s]

HandInv(s) ==
  InOneHand(s) /\ InOrder(s) /\ ReadIsRecord(s) /\ CountExact(s) /\ MinuteExact(s)

SchedInv == SchedTypeOK /\ ProcInv /\ \A s \in Sids \ contested : HandInv(s)

\* A minute is a number, and later ticks lie in no earlier minute.
LEMMA MinuteOrder ==
  ASSUME NEW x \in Nat, NEW y \in Nat
  PROVE  Minute(x) \in Nat /\ (x <= y => Minute(x) <= Minute(y))
BY SchedAssumption DEF Minute

\* Minutes up to the end of the run.
LEMMA MinuteInRange ==
  ASSUME NEW x \in 0..MaxClock
  PROVE  Minute(x) \in Minutes
<1>1. x \in Nat /\ MaxClock \in Nat /\ x <= MaxClock
  BY SchedAssumption
<1>2. Minute(x) \in Nat /\ Minute(MaxClock) \in Nat /\ Minute(x) <= Minute(MaxClock)
  BY <1>1, MinuteOrder
<1> QED BY <1>2 DEF Minutes

-----------------------------------------------------------------------------
(* Types and positions *)

\* The moves of the processes and the directory, by what they touch.
LEMMA SchedTypesStep ==
  ASSUME SchedTypeOK, ProcInv, [SchedNext]_schedVars
  PROVE  SchedTypeOK' /\ ProcInv' /\ contested \subseteq contested'
<1>0. /\ MaxClock \in Nat /\ MaxFaults \in Nat /\ MaxFires \in Nat /\ NoSid \notin Sids
      /\ Drivers \cap Firers = {} /\ Runners = Drivers \cup Firers
      /\ Never = MaxClock + 1
  BY SchedAssumption DEF Runners, Never
<1> USE <1>0
<1>1. CASE TimePasses
  BY <1>1 DEF TimePasses, SchedTypeOK, ProcInv, fireVars, Records
<1>2. ASSUME NEW s \in Sids, CreateSchedule(s)
      PROVE  SchedTypeOK' /\ ProcInv' /\ contested \subseteq contested'
  <2>1. Fresh \in Records /\ Fresh.last = Never
    BY DEF Fresh, Records
  <2>2. /\ record' = [record EXCEPT ![s] = Fresh]
        /\ UNCHANGED <<clock, runPc, now, loadedAt, due, current, read, fireVars, contested, faults, fires>>
    BY <1>2 DEF CreateSchedule
  <2>3. record' \in [Sids -> Records] /\ record'[s] = Fresh /\ \A z \in Sids : z # s => record'[z] = record[z]
    BY <2>1, <2>2 DEF SchedTypeOK
  <2> HIDE DEF Fresh
  <2>4. SchedTypeOK'
    BY <2>2, <2>3 DEF SchedTypeOK, fireVars
  <2>5. ProcInv'
    BY <2>1, <2>2, <2>3 DEF ProcInv
  <2> QED BY <2>2, <2>4, <2>5
<1>3. ASSUME NEW s \in Sids, DeleteSchedule(s)
      PROVE  SchedTypeOK' /\ ProcInv' /\ contested \subseteq contested'
  <2>2. /\ record' = [record EXCEPT ![s].exists = FALSE] /\ contested' \in {contested, contested \cup {s}}
        /\ UNCHANGED <<clock, runPc, now, loadedAt, due, current, read, fireVars, faults, fires>>
    BY <1>3 DEF DeleteSchedule
  <2>3. /\ record' \in [Sids -> Records] /\ record'[s].last = record[s].last
        /\ \A z \in Sids : z # s => record'[z] = record[z]
    <3>1. record[s] \in Records
      BY DEF SchedTypeOK
    <3>2. [record[s] EXCEPT !.exists = FALSE] \in Records
          /\ [record[s] EXCEPT !.exists = FALSE].last = record[s].last
      BY <3>1 DEF Records
    <3> QED BY <2>2, <3>2 DEF SchedTypeOK
  <2>4. SchedTypeOK'
    BY <2>2, <2>3 DEF SchedTypeOK, fireVars
  <2>5. ProcInv'
    BY <2>2, <2>3 DEF ProcInv
  <2> QED BY <2>2, <2>4, <2>5
<1>4. ASSUME NEW p \in Runners, DriverTicks(p)
      PROVE  SchedTypeOK' /\ ProcInv' /\ contested \subseteq contested'
  BY <1>4 DEF DriverTicks, RunStep, SchedTypeOK, ProcInv, fireVars
<1>5. ASSUME NEW p \in Runners, LoadDue(p)
      PROVE  SchedTypeOK' /\ ProcInv' /\ contested \subseteq contested'
  <2>1. /\ p \in Drivers /\ runPc[p] = "load" /\ runPc' = [runPc EXCEPT ![p] = "pick"]
        /\ due' = [due EXCEPT ![p] = {s \in Sids : is_due(s, now[p])}]
        /\ loadedAt' = [loadedAt EXCEPT ![p] = clock]
        /\ contested' = contested \cup {s \in due'[p] : \E q \in Runners \ {p} : s \in InHand(q)}
        /\ UNCHANGED <<clock, record, now, current, read, fireVars, faults, fires>>
    BY <1>5 DEF LoadDue, RunStep
  <2>2. due' \in [Runners -> SUBSET Sids] /\ due'[p] \subseteq Sids
    BY <2>1 DEF SchedTypeOK
  <2>3. contested' \subseteq Sids /\ contested \subseteq contested'
    BY <2>1, <2>2 DEF SchedTypeOK
  <2>4. SchedTypeOK'
    BY <2>1, <2>2, <2>3 DEF SchedTypeOK, fireVars
  <2>5. ProcInv'
    BY <2>1 DEF ProcInv, SchedTypeOK
  <2> QED BY <2>3, <2>4, <2>5
<1>6. ASSUME NEW p \in Runners, NEW s \in Sids, FireNow(p, s)
      PROVE  SchedTypeOK' /\ ProcInv' /\ contested \subseteq contested'
  <2>1. contested' \in {contested, contested \cup {s}}
    BY <1>6 DEF FireNow
  <2> QED BY <1>6, <2>1 DEF FireNow, RunStep, SchedTypeOK, ProcInv, fireVars
<1>7. ASSUME NEW p \in Runners, TakeNext(p)
      PROVE  SchedTypeOK' /\ ProcInv' /\ contested \subseteq contested'
  BY <1>7 DEF TakeNext, RunStep, SchedTypeOK, ProcInv, fireVars
<1>8. ASSUME NEW p \in Runners, AllFired(p) \/ SubmitOk(p)
      PROVE  SchedTypeOK' /\ ProcInv' /\ contested \subseteq contested'
  BY <1>8 DEF AllFired, SubmitOk, RunStep, SchedTypeOK, ProcInv, fireVars
<1>9. ASSUME NEW p \in Runners, SubmitFails(p) \/ DeliveryFails(p)
      PROVE  SchedTypeOK' /\ ProcInv' /\ contested \subseteq contested'
  <2>1. /\ runPc' = [runPc EXCEPT ![p] = IF p \in Drivers THEN "pick" ELSE "exited"]
        /\ current' = [current EXCEPT ![p] = NoSid]
        /\ faults' \in 0..MaxFaults
        /\ UNCHANGED <<clock, record, now, loadedAt, due, read, fireVars, contested, fires>>
    BY <1>9 DEF SubmitFails, DeliveryFails, Returns, RunStep, SchedTypeOK
  <2>2. SchedTypeOK'
    BY <2>1 DEF SchedTypeOK, fireVars
  <2>3. ProcInv'
    BY <2>1 DEF SchedTypeOK, ProcInv
  <2> QED BY <2>1, <2>2, <2>3
<1>10. ASSUME NEW p \in Runners, Deliver(p)
       PROVE  SchedTypeOK' /\ ProcInv' /\ contested \subseteq contested'
  <2>1. /\ runPc[p] = "deliver" /\ runPc' = [runPc EXCEPT ![p] = "read"]
        /\ answers' = [answers EXCEPT ![current[p]] = @ + 1]
        /\ delivered' \in {delivered, [delivered EXCEPT ![current[p]][Minute(now[p])] = @ + 1]}
        /\ UNCHANGED <<clock, record, now, loadedAt, due, current, read, unrecorded, contested, faults, fires>>
    BY <1>10 DEF Deliver, RunStep
  <2>2. current[p] \in Sids /\ now[p] \in 0..MaxClock
    BY <2>1 DEF ProcInv, SchedTypeOK
  <2>3. Minute(now[p]) \in Minutes
    BY <2>2, MinuteInRange
  <2>4. delivered' \in [Sids -> [Minutes -> Nat]]
    <3> DEFINE c == current[p]  m == Minute(now[p])  row == [delivered[c] EXCEPT ![m] = @ + 1]
    <3>1. delivered \in [Sids -> [Minutes -> Nat]] /\ c \in Sids /\ m \in Minutes
      BY <2>2, <2>3 DEF SchedTypeOK
    <3>2. delivered' \in {delivered, [delivered EXCEPT ![c] = row]}
      BY <2>1, <3>1
    <3>3. row \in [Minutes -> Nat]
      BY <3>1
    <3> HIDE DEF c, m, row
    <3> QED BY <3>1, <3>2, <3>3
  <2>5. answers' \in [Sids -> Nat]
    BY <2>1, <2>2 DEF SchedTypeOK
  <2>6. SchedTypeOK'
    BY <2>1, <2>4, <2>5 DEF SchedTypeOK
  <2>7. ProcInv'
    BY <2>1 DEF ProcInv, SchedTypeOK
  <2> QED BY <2>1, <2>6, <2>7
<1>11. ASSUME NEW p \in Runners, RecordReads(p)
       PROVE  SchedTypeOK' /\ ProcInv' /\ contested \subseteq contested'
  BY <1>11 DEF RecordReads, RunStep, SchedTypeOK, ProcInv, fireVars
<1>12. ASSUME NEW p \in Runners, RecordReadFails(p) \/ RecordWriteFails(p)
       PROVE  SchedTypeOK' /\ ProcInv' /\ contested \subseteq contested'
  <2>1. /\ runPc' = [runPc EXCEPT ![p] = IF p \in Drivers THEN "pick" ELSE "exited"]
        /\ runPc[p] \in {"read", "write"}
        /\ current' = [current EXCEPT ![p] = NoSid]
        /\ faults' \in 0..MaxFaults
        /\ unrecorded' = [unrecorded EXCEPT ![current[p]] = @ + 1]
        /\ UNCHANGED <<clock, record, now, loadedAt, due, read, delivered, answers, contested, fires>>
    BY <1>12 DEF RecordReadFails, RecordWriteFails, Forget, Returns, RunStep, SchedTypeOK
  <2>2. current[p] \in Sids
    BY <2>1 DEF ProcInv
  <2>3. unrecorded' \in [Sids -> Nat]
    BY <2>1, <2>2 DEF SchedTypeOK
  <2>4. SchedTypeOK'
    BY <2>1, <2>3 DEF SchedTypeOK
  <2>5. ProcInv'
    BY <2>1 DEF SchedTypeOK, ProcInv
  <2> QED BY <2>1, <2>4, <2>5
<1>13. ASSUME NEW p \in Runners, RecordWrites(p)
       PROVE  SchedTypeOK' /\ ProcInv' /\ contested \subseteq contested'
  <2> DEFINE new == [exists |-> TRUE, last |-> now[p], count |-> read[p].count + 1]
  <2>1. /\ runPc[p] = "write" /\ runPc' = [runPc EXCEPT ![p] = IF p \in Drivers THEN "pick" ELSE "exited"]
        /\ current' = [current EXCEPT ![p] = NoSid]
        /\ record' = [record EXCEPT ![current[p]] = new]
        /\ UNCHANGED <<clock, now, loadedAt, due, read, fireVars, contested, faults, fires>>
    BY <1>13 DEF RecordWrites, Returns, RunStep
  <2>2. current[p] \in Sids /\ now[p] \in 0..MaxClock /\ read[p] \in Records /\ now[p] <= clock
    BY <2>1 DEF ProcInv, SchedTypeOK
  <2>3. new \in Records /\ new.last = now[p]
    BY <2>2 DEF Records
  <2> HIDE DEF new
  <2>4. /\ record' \in [Sids -> Records] /\ record'[current[p]] = new
        /\ \A z \in Sids : z # current[p] => record'[z] = record[z]
    BY <2>1, <2>2, <2>3 DEF SchedTypeOK
  <2>5. SchedTypeOK'
    BY <2>1, <2>4 DEF SchedTypeOK, fireVars
  <2>6. ProcInv'
    BY <2>1, <2>2, <2>3, <2>4 DEF ProcInv, SchedTypeOK
  <2> QED BY <2>1, <2>5, <2>6
<1>14. ASSUME NEW p \in Runners, RunnerDies(p)
       PROVE  SchedTypeOK' /\ ProcInv' /\ contested \subseteq contested'
  BY <1>14 DEF RunnerDies, Forget, SchedTypeOK, ProcInv
<1>15. CASE UNCHANGED schedVars
  BY <1>15 DEF schedVars, SchedTypeOK, ProcInv
<1> QED
  BY <1>1, <1>2, <1>3, <1>4, <1>5, <1>6, <1>7, <1>8, <1>9, <1>10, <1>11, <1>12, <1>13, <1>14, <1>15
  DEF SchedNext, FireStep

-----------------------------------------------------------------------------
(* One schedule *)

\* One process at most has a delivery of the schedule to record.
LEMMA PendingOne ==
  ASSUME NEW s \in Sids, InOneHand(s)
  PROVE  /\ \A p \in Runners : Unsettled(p, s) => Pending(s) = {p} /\ Cardinality(Pending(s)) = 1
         /\ (\A p \in Runners : ~Unsettled(p, s)) => Pending(s) = {} /\ Cardinality(Pending(s)) = 0
<1>1. ASSUME NEW p \in Runners, Unsettled(p, s)
      PROVE  Pending(s) = {p}
  BY <1>1 DEF Unsettled, Pending, InOneHand, Holds
<1>2. ASSUME \A p \in Runners : ~Unsettled(p, s)
      PROVE  Pending(s) = {}
  BY <1>2 DEF Unsettled, Pending
<1>3. Cardinality({}) = 0 /\ \A p \in Runners : Cardinality({p}) = 1
  BY FS_EmptySet, FS_Singleton
<1> QED BY <1>1, <1>2, <1>3

\* A step that takes the schedule up by nobody, records nothing of it and delivers
\* nothing of it keeps what is known of it.
LEMMA HandFrame ==
  ASSUME SchedTypeOK, ProcInv, NEW s \in Sids, HandInv(s),
         record'[s].last = record[s].last, record'[s].count = record[s].count,
         answers'[s] = answers[s], unrecorded'[s] = unrecorded[s],
         delivered'[s] = delivered[s],
         \A q \in Runners :
           /\ Holds(q, s)' => Holds(q, s) /\ now'[q] = now[q] /\ record'[s] = record[s]
           /\ Unsettled(q, s)' <=> Unsettled(q, s)
           /\ current'[q] = s /\ runPc'[q] = "write" => read'[q] = record'[s]
           /\ runPc'[q] = "load" => \/ runPc[q] = "load" /\ now'[q] = now[q]
                                    \/ now'[q] = clock
  PROVE  HandInv(s)'
<1>1. InOneHand(s)'
  BY DEF HandInv, InOneHand
<1>2. InOrder(s)'
  <2>1. \A q \in Runners : now[q] <= clock
    BY DEF ProcInv
  <2>2. record[s].last # Never => record[s].last <= clock
    BY DEF ProcInv
  <2>3. InOrder(s)
    BY DEF HandInv
  <2>4. ASSUME NEW p \in Runners, Holds(p, s)'
        PROVE  /\ record'[s].exists
               /\ record'[s].last # Never => record'[s].last <= now'[p]
               /\ p \in Drivers =>
                    ~(record'[s].last # Never /\ Minute(record'[s].last) = Minute(now'[p]))
    BY <2>3, <2>4 DEF InOrder
  <2>5. ASSUME NEW p \in Runners, runPc'[p] = "load"
        PROVE  /\ record'[s].last # Never => record'[s].last <= now'[p]
               /\ \A q \in Runners : Holds(q, s)' => now'[q] <= now'[p]
    <3>1. CASE runPc[p] = "load" /\ now'[p] = now[p]
      BY <2>3, <3>1 DEF InOrder
    <3>2. CASE now'[p] = clock
      BY <2>1, <2>2, <3>2
    <3> QED BY <2>5, <3>1, <3>2
  <2> QED BY <2>4, <2>5 DEF InOrder, Minute, Never
<1>3. ReadIsRecord(s)'
  BY DEF ReadIsRecord
<1>4. CountExact(s)'
  <2>1. Pending(s)' = Pending(s)
    BY DEF Pending, Unsettled
  <2> QED BY <2>1 DEF HandInv, CountExact
<1>5. MinuteExact(s)'
  <2>1. \A m \in Minutes : Recorded(s, m)' = Recorded(s, m)
    BY DEF Recorded, Minute, Never
  <2>2. \A q \in Runners : Unsettled(q, s)' => now'[q] = now[q]
    BY DEF Unsettled, Holds
  <2>3. Drivers \subseteq Runners
    BY DEF Runners
  <2>4. \A m \in Minutes : Settling(s, m)' = Settling(s, m)
    BY <2>2, <2>3 DEF Settling, Minute
  <2> QED BY <2>1, <2>4 DEF HandInv, MinuteExact, Minutes, Minute
<1> QED BY <1>1, <1>2, <1>3, <1>4, <1>5 DEF HandInv

\* The schedule is taken up by p, for a time after the last fire on record, while
\* no other process has it in hand or is about to load it.
LEMMA HandTaken ==
  ASSUME SchedTypeOK, ProcInv, NEW s \in Sids, HandInv(s), NEW p \in Runners,
         record'[s] = record[s], record[s].exists,
         answers'[s] = answers[s], unrecorded'[s] = unrecorded[s],
         delivered'[s] = delivered[s],
         ~Unsettled(p, s), runPc'[p] \in {"pick", "submit"},
         \A q \in Runners \ {p} :
           /\ runPc'[q] = runPc[q] /\ runPc[q] # "load" /\ ~Holds(q, s)
           /\ current'[q] = current[q] /\ due'[q] = due[q],
         record[s].last # Never => record[s].last <= now'[p],
         p \in Drivers =>
           ~(record[s].last # Never /\ Minute(record[s].last) = Minute(now'[p]))
  PROVE  HandInv(s)'
<1>1. \A q \in Runners : Holds(q, s)' => q = p
  BY DEF Holds
<1>2. \A q \in Runners : ~Unsettled(q, s) /\ ~Unsettled(q, s)'
  BY DEF Unsettled, Holds
<1>3. InOneHand(s)'
  BY <1>1 DEF InOneHand
<1>4. InOrder(s)'
  BY <1>1 DEF InOrder, Minute, Never
<1>5. ReadIsRecord(s)'
  BY <1>2 DEF ReadIsRecord, Unsettled
<1>6. CountExact(s)'
  <2>1. Pending(s)' = Pending(s)
    BY <1>2 DEF Pending, Unsettled
  <2> QED BY <2>1 DEF HandInv, CountExact
<1>7. MinuteExact(s)'
  <2>1. \A m \in Minutes : Recorded(s, m)' = Recorded(s, m)
    BY DEF Recorded, Minute, Never
  <2>2. \A m \in Minutes : Settling(s, m)' = 0 /\ Settling(s, m) = 0
    BY <1>2 DEF Settling, Runners
  <2> QED BY <2>1, <2>2 DEF HandInv, MinuteExact, Minutes, Minute
<1> QED BY <1>3, <1>4, <1>5, <1>6, <1>7 DEF HandInv

\* A delivery: one more to record, in a minute nothing was delivered in since.
LEMMA HandDelivered ==
  ASSUME SchedTypeOK, ProcInv, NEW p \in Runners, Deliver(p),
         NEW s \in Sids, current[p] = s, HandInv(s)
  PROVE  HandInv(s)'
<1>1. /\ runPc[p] = "deliver" /\ runPc' = [runPc EXCEPT ![p] = "read"]
      /\ answers' = [answers EXCEPT ![s] = @ + 1]
      /\ delivered' = IF p \in Drivers THEN [delivered EXCEPT ![s][Minute(now[p])] = @ + 1]
                      ELSE delivered
      /\ UNCHANGED <<clock, record, now, loadedAt, due, current, read, unrecorded, contested, faults, fires>>
  BY DEF Deliver, RunStep
<1>2. \A q \in Runners : Holds(q, s) => q = p
  BY DEF HandInv, InOneHand, Holds
<1>3. \A q \in Runners : ~Unsettled(q, s)
  BY <1>1, <1>2 DEF Unsettled, Holds
<1>4. \A q \in Runners : Unsettled(q, s)' <=> q = p
  BY <1>1, <1>2 DEF Unsettled, Holds, SchedTypeOK
<1>5. InOneHand(s)'
  BY <1>1 DEF HandInv, InOneHand, Holds
<1>6. InOrder(s)'
  BY <1>1 DEF HandInv, InOrder, Holds, SchedTypeOK
<1>7. ReadIsRecord(s)'
  BY <1>1, <1>2 DEF HandInv, ReadIsRecord, Holds, SchedTypeOK
<1>8. CountExact(s)'
  <2>1. Pending(s) = {} /\ Pending(s)' = {p}
    BY <1>3, <1>4 DEF Pending, Unsettled
  <2>2. Cardinality(Pending(s)) = 0 /\ Cardinality(Pending(s)') = 1
    BY <2>1, FS_EmptySet, FS_Singleton
  <2>3. answers'[s] = answers[s] + 1 /\ answers[s] \in Nat /\ unrecorded[s] \in Nat
        /\ record[s].count \in Nat
    BY <1>1 DEF SchedTypeOK, Records
  <2> QED BY <1>1, <2>2, <2>3 DEF HandInv, CountExact
<1>9. MinuteExact(s)'
  <2> DEFINE m0 == Minute(now[p])
  <2>1. now[p] \in 0..MaxClock /\ m0 \in Minutes
    BY MinuteInRange DEF SchedTypeOK
  <2>2. \A m \in Minutes : Recorded(s, m)' = Recorded(s, m) /\ Recorded(s, m) \in {0, 1}
    BY <1>1 DEF Recorded
  <2>3. \A m \in Minutes : Settling(s, m) = 0
    BY <1>3 DEF Settling, Runners
  <2>4. \A m \in Minutes : Settling(s, m)' = IF p \in Drivers /\ m = m0 THEN 1 ELSE 0
    BY <1>1, <1>4 DEF Settling, Runners
  <2>5. delivered \in [Sids -> [Minutes -> Nat]] /\ unrecorded[s] \in Nat
    BY DEF SchedTypeOK
  <2>6. \A m \in Minutes : delivered[s][m] \in Nat /\ delivered[s][m] <= Recorded(s, m) + unrecorded[s]
    BY <2>2, <2>3, <2>5 DEF HandInv, MinuteExact
  <2>7. \A m \in Minutes : delivered'[s][m] =
          IF p \in Drivers /\ m = m0 THEN delivered[s][m] + 1 ELSE delivered[s][m]
    BY <1>1, <2>1, <2>5
  <2> HIDE DEF m0
  <2>8. \A m \in Minutes : delivered'[s][m] <= Recorded(s, m)' + Settling(s, m)' + unrecorded'[s]
    BY <1>1, <2>2, <2>4, <2>5, <2>6, <2>7
  <2> QED BY <2>8 DEF MinuteExact, Minutes, Minute
<1> QED BY <1>5, <1>6, <1>7, <1>8, <1>9 DEF HandInv

\* A delivery that will not be recorded: it is counted as such, and p is done with
\* the schedule.
LEMMA HandForgotten ==
  ASSUME SchedTypeOK, ProcInv, NEW p \in Runners, NEW s \in Sids, HandInv(s),
         Unsettled(p, s),
         record'[s] = record[s], answers'[s] = answers[s], delivered'[s] = delivered[s],
         unrecorded'[s] = unrecorded[s] + 1,
         runPc'[p] # "load", current'[p] = NoSid, due'[p] \subseteq due[p],
         \A q \in Runners \ {p} :
           runPc'[q] = runPc[q] /\ current'[q] = current[q] /\ due'[q] = due[q],
         now' = now
  PROVE  HandInv(s)'
<1>0. NoSid # s
  BY SchedAssumption
<1>1. \A q \in Runners : Holds(q, s) => q = p
  BY DEF HandInv, InOneHand, Holds, Unsettled
<1>2. \A q \in Runners : ~Holds(q, s)'
  BY <1>0, <1>1 DEF Holds, ProcInv, Unsettled
<1>3. InOneHand(s)' /\ ReadIsRecord(s)'
  BY <1>2 DEF InOneHand, ReadIsRecord, Holds
<1>4. InOrder(s)'
  BY <1>2 DEF HandInv, InOrder, Never
<1>5. CountExact(s)'
  <2>1. Cardinality(Pending(s)) = 1
    BY PendingOne DEF HandInv
  <2>2. Pending(s)' = {}
    BY <1>2 DEF Pending, Holds
  <2>3. Cardinality(Pending(s)') = 0
    BY <2>2, FS_EmptySet
  <2>4. answers[s] \in Nat /\ unrecorded[s] \in Nat /\ record[s].count \in Nat
    BY DEF SchedTypeOK, Records
  <2> QED BY <2>1, <2>3, <2>4 DEF HandInv, CountExact
<1>6. MinuteExact(s)'
  <2>1. \A m \in Minutes : Recorded(s, m)' = Recorded(s, m) /\ Recorded(s, m) \in {0, 1}
    BY DEF Recorded, Never, Minute
  <2>2. \A m \in Minutes : Settling(s, m) \in {0, 1} /\ Settling(s, m)' = 0
    BY <1>2 DEF Settling, Runners, Unsettled, Holds
  <2>3. \A m \in Minutes : delivered[s][m] \in Nat /\ unrecorded[s] \in Nat
    BY DEF SchedTypeOK
  <2>4. \A m \in Minutes : delivered'[s][m] <= Recorded(s, m)' + Settling(s, m)' + unrecorded'[s]
    BY <2>1, <2>2, <2>3 DEF HandInv, MinuteExact
  <2> QED BY <2>4 DEF MinuteExact, Minutes, Minute
<1> QED BY <1>3, <1>4, <1>5, <1>6 DEF HandInv

\* The fire is recorded: the record holds the count that was read and one more, and
\* covers the minute of the fire.
LEMMA HandRecorded ==
  ASSUME SchedTypeOK, ProcInv, NEW p \in Runners, RecordWrites(p),
         NEW s \in Sids, current[p] = s, HandInv(s)
  PROVE  HandInv(s)'
<1>0. NoSid # s /\ Drivers \cap Firers = {} /\ Runners = Drivers \cup Firers
      /\ MaxClock \in Nat /\ Never = MaxClock + 1 /\ Never' = Never
  BY SchedAssumption DEF Runners, Never
<1>1. /\ runPc[p] = "write" /\ runPc' = [runPc EXCEPT ![p] = IF p \in Drivers THEN "pick" ELSE "exited"]
      /\ current' = [current EXCEPT ![p] = NoSid]
      /\ record' = [record EXCEPT ![s] = [exists |-> TRUE, last |-> now[p], count |-> read[p].count + 1]]
      /\ UNCHANGED <<clock, now, loadedAt, due, read, fireVars, contested, faults, fires>>
  BY DEF RecordWrites, Returns, RunStep
<1>2. Unsettled(p, s) /\ Holds(p, s) /\ read[p] = record[s]
  BY <1>1 DEF Unsettled, Holds, HandInv, ReadIsRecord
<1>3. /\ now[p] \in 0..MaxClock /\ record[s].count \in Nat /\ record[s].last \in 0..Never
      /\ answers[s] \in Nat /\ unrecorded[s] \in Nat
  BY DEF SchedTypeOK, Records
<1>4. record'[s].exists /\ record'[s].last = now[p] /\ record'[s].count = record[s].count + 1
  BY <1>1, <1>2 DEF SchedTypeOK
<1>5. \A q \in Runners : Holds(q, s) => q = p
  BY <1>2 DEF HandInv, InOneHand
<1>6. \A q \in Runners : ~Holds(q, s)'
  BY <1>0, <1>1, <1>5 DEF Holds, ProcInv, SchedTypeOK
<1>7. InOneHand(s)' /\ ReadIsRecord(s)'
  BY <1>6 DEF InOneHand, ReadIsRecord, Holds
<1>8. InOrder(s)'
  <2>1. \A q \in Runners : runPc'[q] = "load" => runPc[q] = "load"
    BY <1>1 DEF SchedTypeOK
  <2>2. \A q \in Runners : runPc[q] = "load" => now[p] <= now[q]
    BY <1>2 DEF HandInv, InOrder
  <2> QED BY <1>1, <1>4, <1>6, <2>1, <2>2 DEF InOrder
<1>9. CountExact(s)'
  <2>1. Cardinality(Pending(s)) = 1
    BY <1>2, PendingOne DEF HandInv
  <2>2. Pending(s)' = {}
    BY <1>6 DEF Pending, Holds
  <2>3. Cardinality(Pending(s)') = 0
    BY <2>2, FS_EmptySet
  <2>4. answers' = answers /\ unrecorded' = unrecorded
    BY <1>1 DEF fireVars
  <2> QED BY <1>3, <1>4, <2>1, <2>3, <2>4 DEF HandInv, CountExact
<1>10. MinuteExact(s)'
  <2> DEFINE m0 == Minute(now[p])  l == record[s].last
  <2>1. m0 \in Nat /\ now[p] \in Nat /\ now[p] # Never
    BY <1>0, <1>3, MinuteOrder
  <2>2. \A m \in Minutes : m \in Nat
    BY DEF Minutes
  <2>3. \A m \in Minutes : Settling(s, m) = IF p \in Drivers /\ m = m0 THEN 1 ELSE 0
    BY <1>0, <1>2, <1>5 DEF Settling, Unsettled, Holds
  <2>4. \A m \in Minutes : Settling(s, m)' = 0
    BY <1>0, <1>6 DEF Settling, Unsettled, Holds
  <2>5. \A m \in Minutes : Recorded(s, m)' = IF m <= m0 THEN 1 ELSE 0
    BY <1>0, <1>4, <2>1 DEF Recorded, Minute
  <2>6. l # Never => Minute(l) \in Nat /\ Minute(l) <= m0
    <3>1. l # Never => l <= now[p] /\ l \in Nat
      BY <1>0, <1>2, <1>3 DEF HandInv, InOrder
    <3> QED BY <3>1, <2>1, MinuteOrder
  <2>7. p \in Drivers => ~(l # Never /\ Minute(l) = m0)
    BY <1>2 DEF HandInv, InOrder
  <2>8. \A m \in Minutes : Recorded(s, m) = IF l # Never /\ m <= Minute(l) THEN 1 ELSE 0
    BY DEF Recorded
  <2>9. \A m \in Minutes : delivered[s][m] \in Nat /\ delivered' = delivered /\ unrecorded' = unrecorded
    BY <1>1 DEF SchedTypeOK, fireVars
  <2>10. \A m \in Minutes : delivered[s][m] <= Recorded(s, m) + Settling(s, m) + unrecorded[s]
    BY DEF HandInv, MinuteExact
  <2> DEFINE ml == Minute(l)
  <2> HIDE DEF m0, ml, l
  <2>11. \A m \in Minutes : Recorded(s, m) + Settling(s, m) <= Recorded(s, m)' + Settling(s, m)'
    BY <2>1, <2>2, <2>3, <2>4, <2>5, <2>6, <2>7, <2>8 DEF ml
  <2>12. \A m \in Minutes : delivered'[s][m] <= Recorded(s, m)' + Settling(s, m)' + unrecorded'[s]
    <3>1. \A m \in Minutes : Recorded(s, m) \in Nat /\ Settling(s, m) \in Nat
                             /\ Recorded(s, m)' \in Nat /\ Settling(s, m)' \in Nat
      BY <2>3, <2>4, <2>5, <2>8
    <3> QED BY <1>3, <2>9, <2>10, <2>11, <3>1
  <2> QED BY <2>12 DEF MinuteExact, Minutes, Minute
<1> QED BY <1>7, <1>8, <1>9, <1>10 DEF HandInv

\* Every step keeps what is known of a schedule nobody contests.
LEMMA HandStep ==
  ASSUME SchedInv, [SchedNext]_schedVars, NEW s \in Sids \ contested'
  PROVE  HandInv(s)'
<1>0. /\ NoSid \notin Sids /\ Drivers \cap Firers = {} /\ Runners = Drivers \cup Firers
      /\ SchedTypeOK /\ ProcInv /\ s \in Sids /\ NoSid # s
  BY SchedAssumption DEF Runners, SchedInv
<1>00. s \notin contested /\ HandInv(s)
  BY SchedTypesStep DEF SchedInv
<1> USE <1>0, <1>00
<1>1. CASE TimePasses \/ UNCHANGED schedVars
  BY <1>1, HandFrame DEF TimePasses, schedVars, fireVars, Holds, Unsettled, HandInv, ReadIsRecord
<1>2. ASSUME NEW z \in Sids, CreateSchedule(z)
      PROVE  HandInv(s)'
  <2>1. /\ record[z] = Absent /\ record' = [record EXCEPT ![z] = Fresh]
        /\ UNCHANGED <<clock, runPc, now, loadedAt, due, current, read, fireVars, contested, faults, fires>>
    BY <1>2 DEF CreateSchedule
  <2>2. CASE z # s
    <3>1. record'[s] = record[s]
      BY <2>1, <2>2 DEF SchedTypeOK
    <3> QED BY <2>1, <3>1, HandFrame DEF fireVars, Holds, Unsettled, HandInv, ReadIsRecord
  <2>3. CASE z = s
    <3>1. record'[s].last = record[s].last /\ record'[s].count = record[s].count /\ ~record[s].exists
      BY <2>1, <2>3 DEF SchedTypeOK, Fresh, Absent
    <3>2. \A q \in Runners : ~Holds(q, s)
      BY <3>1 DEF HandInv, InOrder
    <3> QED BY <2>1, <3>1, <3>2, HandFrame DEF fireVars, Holds, Unsettled
  <2> QED BY <2>2, <2>3
<1>3. ASSUME NEW z \in Sids, DeleteSchedule(z)
      PROVE  HandInv(s)'
  <2>1. /\ record' = [record EXCEPT ![z].exists = FALSE]
        /\ contested' = IF \E p \in Runners : z \in InHand(p) THEN contested \cup {z} ELSE contested
        /\ UNCHANGED <<clock, runPc, now, loadedAt, due, current, read, fireVars, faults, fires>>
    BY <1>3 DEF DeleteSchedule
  <2>2. CASE z # s
    <3>1. record'[s] = record[s]
      BY <2>1, <2>2 DEF SchedTypeOK
    <3> QED BY <2>1, <3>1, HandFrame DEF fireVars, Holds, Unsettled, HandInv, ReadIsRecord
  <2>3. CASE z = s
    <3>1. record'[s].last = record[s].last /\ record'[s].count = record[s].count
      <4>1. record[s] \in Records /\ record \in [Sids -> Records]
        BY DEF SchedTypeOK
      <4>2. record'[s] = [record[s] EXCEPT !.exists = FALSE]
        BY <2>1, <2>3, <4>1
      <4> QED BY <4>1, <4>2 DEF Records
    <3>2. \A q \in Runners : s \notin InHand(q)
      BY <2>1, <2>3
    <3>3. \A q \in Runners : ~Holds(q, s)
      BY <3>2 DEF InHand, Holds
    <3> QED BY <2>1, <3>1, <3>3, HandFrame DEF fireVars, Holds, Unsettled
  <2> QED BY <2>2, <2>3
<1>4. ASSUME NEW p \in Runners, DriverTicks(p)
      PROVE  HandInv(s)'
  <2>1. ~Holds(p, s) /\ runPc[p] = "idle"
    BY <1>4 DEF DriverTicks, RunStep, ProcInv, Holds
  <2>2. /\ runPc' = [runPc EXCEPT ![p] = "load"] /\ now' = [now EXCEPT ![p] = clock]
        /\ UNCHANGED <<clock, record, loadedAt, due, current, read, fireVars, contested, faults>>
    BY <1>4 DEF DriverTicks, RunStep
  <2> QED BY <2>1, <2>2, HandFrame DEF fireVars, Holds, Unsettled, HandInv, ReadIsRecord, SchedTypeOK
<1>5. ASSUME NEW p \in Runners, LoadDue(p)
      PROVE  HandInv(s)'
  <2>1. /\ p \in Drivers /\ runPc[p] = "load" /\ runPc' = [runPc EXCEPT ![p] = "pick"]
        /\ due' = [due EXCEPT ![p] = {z \in Sids : is_due(z, now[p])}]
        /\ contested' = contested \cup {z \in due'[p] : \E q \in Runners \ {p} : z \in InHand(q)}
        /\ UNCHANGED <<clock, record, now, current, read, fireVars, faults, fires>>
    BY <1>5 DEF LoadDue, RunStep
  <2>2. ~Holds(p, s) /\ ~Unsettled(p, s) /\ current[p] = NoSid
    BY <2>1 DEF ProcInv, Holds, Unsettled
  <2>3. CASE is_due(s, now[p])
    <3>1. s \in due'[p]
      BY <2>1, <2>3 DEF SchedTypeOK
    <3>2. \A q \in Runners \ {p} : s \notin InHand(q)
      BY <2>1, <3>1
    <3>3. \A q \in Runners \ {p} : /\ runPc'[q] = runPc[q] /\ runPc[q] # "load" /\ ~Holds(q, s)
                                   /\ current'[q] = current[q] /\ due'[q] = due[q]
      BY <2>1, <3>2 DEF InHand, Holds, SchedTypeOK
    <3>4. record[s].last # Never => record[s].last <= now'[p]
      BY <2>1 DEF HandInv, InOrder
    <3>5. record[s].exists /\ ~(record[s].last # Never /\ Minute(record[s].last) = Minute(now'[p]))
      BY <2>1, <2>3 DEF is_due
    <3>6. runPc'[p] = "pick"
      BY <2>1 DEF SchedTypeOK
    <3> QED BY <2>1, <2>2, <3>3, <3>4, <3>5, <3>6, HandTaken DEF fireVars
  <2>4. CASE ~is_due(s, now[p])
    <3>1. s \notin due'[p]
      BY <2>1, <2>4 DEF SchedTypeOK
    <3> QED BY <2>1, <2>2, <3>1, HandFrame DEF fireVars, Holds, Unsettled, HandInv, ReadIsRecord, SchedTypeOK
  <2> QED BY <2>3, <2>4
<1>6. ASSUME NEW p \in Runners, NEW z \in Sids, FireNow(p, z)
      PROVE  HandInv(s)'
  <2>1. /\ p \in Firers /\ record[z].exists /\ runPc[p] = "idle" /\ runPc' = [runPc EXCEPT ![p] = "submit"]
        /\ current' = [current EXCEPT ![p] = z] /\ now' = [now EXCEPT ![p] = clock]
        /\ contested' = IF \E q \in Runners \ {p} : z \in InHand(q) THEN contested \cup {z} ELSE contested
        /\ UNCHANGED <<clock, record, due, read, fireVars, faults>>
    BY <1>6 DEF FireNow, RunStep
  <2>2. ~Holds(p, s) /\ ~Unsettled(p, s)
    BY <2>1 DEF ProcInv, Holds, Unsettled
  <2>3. CASE z = s
    <3>2. \A q \in Runners \ {p} : s \notin InHand(q)
      BY <2>1, <2>3
    <3>3. \A q \in Runners \ {p} : /\ runPc'[q] = runPc[q] /\ runPc[q] # "load" /\ ~Holds(q, s)
                                   /\ current'[q] = current[q] /\ due'[q] = due[q]
      BY <2>1, <3>2 DEF InHand, Holds, SchedTypeOK
    <3>4. record[s].last # Never => record[s].last <= now'[p]
      BY <2>1 DEF ProcInv, SchedTypeOK
    <3>6. runPc'[p] = "submit" /\ p \notin Drivers
      BY <2>1 DEF SchedTypeOK
    <3> QED BY <2>1, <2>2, <2>3, <3>3, <3>4, <3>6, HandTaken DEF fireVars
  <2>4. CASE z # s
    BY <2>1, <2>2, <2>4, HandFrame DEF fireVars, Holds, Unsettled, HandInv, ReadIsRecord, SchedTypeOK
  <2> QED BY <2>3, <2>4
<1>7. ASSUME NEW p \in Runners, TakeNext(p)
      PROVE  HandInv(s)'
  <2>1. /\ runPc[p] = "pick" /\ runPc' = [runPc EXCEPT ![p] = "submit"]
        /\ UNCHANGED <<clock, record, now, loadedAt, read, fireVars, contested, faults, fires>>
    BY <1>7 DEF TakeNext, RunStep
  <2>2. PICK z \in due[p] : current' = [current EXCEPT ![p] = z] /\ due' = [due EXCEPT ![p] = @ \ {z}]
    BY <1>7 DEF TakeNext
  <2>3. current[p] = NoSid
    BY <2>1 DEF ProcInv
  <2> QED BY <2>1, <2>2, <2>3, HandFrame DEF fireVars, Holds, Unsettled, HandInv, ReadIsRecord, SchedTypeOK
<1>8. ASSUME NEW p \in Runners, AllFired(p) \/ SubmitOk(p)
      PROVE  HandInv(s)'
  BY <1>8, HandFrame DEF AllFired, SubmitOk, RunStep, fireVars, Holds, Unsettled, HandInv,
     ReadIsRecord, SchedTypeOK
<1>9. ASSUME NEW p \in Runners, SubmitFails(p) \/ DeliveryFails(p)
      PROVE  HandInv(s)'
  <2>1. /\ runPc' = [runPc EXCEPT ![p] = IF p \in Drivers THEN "pick" ELSE "exited"]
        /\ runPc[p] \in {"submit", "deliver"} /\ current' = [current EXCEPT ![p] = NoSid]
        /\ UNCHANGED <<clock, record, now, loadedAt, due, read, fireVars, contested, fires>>
    BY <1>9 DEF SubmitFails, DeliveryFails, Returns, RunStep
  <2> QED BY <2>1, HandFrame DEF fireVars, Holds, Unsettled, HandInv, ReadIsRecord, SchedTypeOK
<1>10. ASSUME NEW p \in Runners, Deliver(p)
       PROVE  HandInv(s)'
  <2>1. CASE current[p] = s
    BY <1>10, <2>1, HandDelivered
  <2>2. CASE current[p] # s
    <3>1. /\ runPc' = [runPc EXCEPT ![p] = "read"]
          /\ UNCHANGED <<clock, record, now, loadedAt, due, current, read, unrecorded, contested, faults, fires>>
      BY <1>10 DEF Deliver, RunStep
    <3>2. answers'[s] = answers[s] /\ delivered'[s] = delivered[s]
      BY <1>10, <2>2 DEF Deliver, SchedTypeOK
    <3> QED BY <2>2, <3>1, <3>2, HandFrame DEF Holds, Unsettled, HandInv, ReadIsRecord, SchedTypeOK
  <2> QED BY <2>1, <2>2
<1>11. ASSUME NEW p \in Runners, RecordReads(p)
       PROVE  HandInv(s)'
  BY <1>11, HandFrame DEF RecordReads, RunStep, fireVars, Holds, Unsettled, HandInv,
     ReadIsRecord, SchedTypeOK
<1>12. ASSUME NEW p \in Runners, RecordReadFails(p) \/ RecordWriteFails(p)
       PROVE  HandInv(s)'
  <2>1. /\ runPc' = [runPc EXCEPT ![p] = IF p \in Drivers THEN "pick" ELSE "exited"]
        /\ runPc[p] \in {"read", "write"} /\ current' = [current EXCEPT ![p] = NoSid]
        /\ unrecorded' = [unrecorded EXCEPT ![current[p]] = @ + 1]
        /\ UNCHANGED <<clock, record, now, loadedAt, due, read, delivered, answers, contested, fires>>
    BY <1>12 DEF RecordReadFails, RecordWriteFails, Forget, Returns, RunStep
  <2>2. CASE current[p] = s
    <3>1. unrecorded'[s] = unrecorded[s] + 1
      BY <2>1, <2>2 DEF SchedTypeOK
    <3> QED BY <2>1, <2>2, <3>1, HandForgotten DEF Unsettled, SchedTypeOK
  <2>3. CASE current[p] # s
    BY <2>1, <2>3, HandFrame DEF Holds, Unsettled, HandInv, ReadIsRecord, SchedTypeOK
  <2> QED BY <2>2, <2>3
<1>13. ASSUME NEW p \in Runners, RecordWrites(p)
       PROVE  HandInv(s)'
  <2>1. CASE current[p] = s
    BY <1>13, <2>1, HandRecorded
  <2>2. CASE current[p] # s
    BY <1>13, <2>2, HandFrame DEF RecordWrites, Returns, RunStep, fireVars, Holds, Unsettled,
       HandInv, ReadIsRecord, SchedTypeOK
  <2> QED BY <2>1, <2>2
<1>14. ASSUME NEW p \in Runners, RunnerDies(p)
       PROVE  HandInv(s)'
  <2>1. /\ runPc' = [runPc EXCEPT ![p] = IF p \in Drivers THEN "idle" ELSE "exited"]
        /\ current' = [current EXCEPT ![p] = NoSid] /\ due' = [due EXCEPT ![p] = {}]
        /\ UNCHANGED <<clock, record, now, loadedAt, read, delivered, answers, contested, fires>>
    BY <1>14 DEF RunnerDies
  <2>2. CASE runPc[p] \in {"read", "write"} /\ current[p] = s
    <3>1. unrecorded'[s] = unrecorded[s] + 1
      BY <1>14, <2>2 DEF RunnerDies, Forget, SchedTypeOK
    <3> QED BY <2>1, <2>2, <3>1, HandForgotten DEF Unsettled, SchedTypeOK
  <2>3. CASE ~(runPc[p] \in {"read", "write"} /\ current[p] = s)
    <3>1. unrecorded'[s] = unrecorded[s]
      BY <1>14, <2>3 DEF RunnerDies, Forget, SchedTypeOK
    <3> QED BY <2>1, <2>3, <3>1, HandFrame DEF Holds, Unsettled, HandInv, ReadIsRecord, SchedTypeOK
  <2> QED BY <2>2, <2>3
<1> QED
  BY <1>1, <1>2, <1>3, <1>4, <1>5, <1>6, <1>7, <1>8, <1>9, <1>10, <1>11, <1>12, <1>13, <1>14
  DEF SchedNext, FireStep

\* Nothing was fired and nobody holds anything at the start.
LEMMA SchedInitInv ==
  ASSUME SchedInit
  PROVE  SchedInv
<1>0. /\ MaxClock \in Nat /\ MaxFaults \in Nat /\ MaxFires \in Nat /\ NoSid \notin Sids
      /\ Never = MaxClock + 1 /\ Runners = Drivers \cup Firers
  BY SchedAssumption DEF Never, Runners
<1>1. Absent \in Records /\ Absent.last = Never /\ Absent.count = 0
  BY <1>0 DEF Absent, Records
<1>2. SchedTypeOK
  BY <1>0, <1>1 DEF SchedInit, SchedTypeOK
<1>3. ProcInv
  BY <1>0, <1>1 DEF SchedInit, ProcInv
<1>4. ASSUME NEW s \in Sids
      PROVE  HandInv(s)
  <2>1. \A p \in Runners : ~Holds(p, s) /\ runPc[p] = "idle" /\ ~Unsettled(p, s)
    BY <1>0 DEF SchedInit, Holds, Unsettled
  <2>2. record[s].last = Never /\ record[s].count = 0 /\ unrecorded[s] = 0 /\ answers[s] = 0
    BY <1>1 DEF SchedInit
  <2>3. Pending(s) = {}
    BY <2>1 DEF Pending
  <2>4. Cardinality(Pending(s)) = 0
    BY <2>3, FS_EmptySet
  <2>5. InOneHand(s) /\ InOrder(s) /\ ReadIsRecord(s)
    BY <2>1 DEF InOneHand, InOrder, ReadIsRecord
  <2>6. CountExact(s)
    BY <2>2, <2>4 DEF CountExact
  <2>7. \A m \in Minutes : Recorded(s, m) = 0 /\ Settling(s, m) = 0 /\ delivered[s][m] = 0
    BY <1>0, <2>1, <2>2 DEF Recorded, Settling, SchedInit
  <2>8. MinuteExact(s)
    BY <2>2, <2>7 DEF MinuteExact
  <2> QED BY <2>5, <2>6, <2>8 DEF HandInv
<1> QED BY <1>2, <1>3, <1>4 DEF SchedInv

\* The invariant says what is promised of the deliveries.
LEMMA SchedInvSays ==
  ASSUME SchedInv
  PROVE  DeliveriesSound
<1>1. OncePerMinute
  <2> SUFFICES ASSUME NEW s \in Sids \ contested, NEW m \in Minutes
               PROVE  delivered[s][m] <= 1 + unrecorded[s]
    BY DEF OncePerMinute
  <2>1. HandInv(s) /\ s \in Sids /\ SchedTypeOK
    BY DEF SchedInv
  <2>2. /\ delivered[s][m] \in Nat /\ unrecorded[s] \in Nat
        /\ record[s].last \in Nat /\ m \in Nat
    <3>1. record[s] \in Records /\ unrecorded[s] \in Nat /\ delivered[s] \in [Minutes -> Nat]
      BY <2>1 DEF SchedTypeOK
    <3>2. m \in Nat
      BY DEF Minutes
    <3> QED BY <3>1, <3>2 DEF Records
  <2>3. delivered[s][m] <= Recorded(s, m) + Settling(s, m) + unrecorded[s]
    BY <2>1 DEF HandInv, MinuteExact
  <2>4. Recorded(s, m) \in {0, 1} /\ Settling(s, m) \in {0, 1}
    BY DEF Recorded, Settling
  <2>5. ASSUME Settling(s, m) = 1
        PROVE  Recorded(s, m) = 0
    <3>1. PICK p \in Drivers : Unsettled(p, s) /\ Minute(now[p]) = m
      BY <2>5 DEF Settling
    <3>2. p \in Runners /\ Holds(p, s) /\ now[p] \in Nat
      BY <2>1, <3>1 DEF Runners, Unsettled, Holds, SchedTypeOK
    <3>3. record[s].last # Never => record[s].last <= now[p] /\ Minute(record[s].last) # m
      BY <2>1, <3>1, <3>2 DEF HandInv, InOrder
    <3>4. record[s].last # Never => Minute(record[s].last) <= m /\ Minute(record[s].last) \in Nat
      BY <2>2, <3>1, <3>2, <3>3, MinuteOrder
    <3> QED BY <2>2, <3>3, <3>4 DEF Recorded
  <2> QED BY <2>2, <2>3, <2>4, <2>5
<1>2. CountIsDeliveries
  BY DEF SchedInv, HandInv, CountExact, Pending, CountIsDeliveries
<1> QED BY <1>1, <1>2 DEF DeliveriesSound

\* A schedule that does not exist is in nobody's hand, so nothing of it happens but
\* its creation.
LEMMA OverStep ==
  ASSUME SchedInv, [SchedNext]_schedVars
  PROVE  \A s \in Sids \ contested' :
           ~record[s].exists =>
             /\ answers'[s] = answers[s]
             /\ record'[s].exists => record[s] = Absent /\ answers[s] = 0
<1> SUFFICES ASSUME NEW s \in Sids \ contested', ~record[s].exists
             PROVE  /\ answers'[s] = answers[s]
                    /\ record'[s].exists => record[s] = Absent /\ answers[s] = 0
  OBVIOUS
<1>1. s \in Sids /\ s \notin contested /\ HandInv(s) /\ SchedTypeOK /\ ProcInv
  BY SchedTypesStep DEF SchedInv
<1>2. \A p \in Runners : current[p] # s
  BY <1>1 DEF HandInv, InOrder, Holds
<1>3. answers \in [Sids -> Nat] /\ record \in [Sids -> Records]
  BY <1>1 DEF SchedTypeOK
<1>4. ASSUME NEW p \in Runners, Deliver(p)
      PROVE  answers'[s] = answers[s] /\ record' = record
  BY <1>2, <1>3, <1>4 DEF Deliver
<1>5. ASSUME NEW p \in Runners, RecordWrites(p)
      PROVE  answers' = answers /\ record'[s] = record[s]
  BY <1>2, <1>3, <1>5 DEF RecordWrites, fireVars
<1>6. ASSUME NEW z \in Sids, CreateSchedule(z)
      PROVE  answers' = answers /\ (record'[s] = record[s] \/ (record[s] = Absent /\ answers[s] = 0))
  <2>1. record[z] = Absent /\ answers[z] = 0 /\ answers' = answers
        /\ record' = [record EXCEPT ![z] = Fresh]
    BY <1>6 DEF CreateSchedule, fireVars
  <2>2. CASE z # s
    BY <1>1, <1>3, <2>1, <2>2
  <2>3. CASE z = s
    BY <2>1, <2>3
  <2> QED BY <2>2, <2>3
<1>7. ASSUME NEW z \in Sids, DeleteSchedule(z)
      PROVE  answers' = answers /\ ~record'[s].exists
  <2>1. answers' = answers /\ record' = [record EXCEPT ![z].exists = FALSE]
    BY <1>7 DEF DeleteSchedule, fireVars
  <2>2. CASE z = s
    <3>1. record'[s] = [record[s] EXCEPT !.exists = FALSE] /\ record[s] \in Records
      BY <1>1, <1>3, <2>1, <2>2
    <3> QED BY <2>1, <3>1 DEF Records
  <2>3. CASE z # s
    BY <1>1, <1>3, <2>1, <2>3
  <2> QED BY <2>2, <2>3
<1>8. CASE TimePasses \/ UNCHANGED schedVars
  BY <1>8 DEF TimePasses, schedVars, fireVars
<1>9. ASSUME NEW p \in Runners,
             \/ LoadDue(p) \/ TakeNext(p) \/ AllFired(p) \/ SubmitOk(p) \/ SubmitFails(p)
             \/ DeliveryFails(p) \/ RecordReads(p) \/ RecordReadFails(p) \/ RecordWriteFails(p)
             \/ DriverTicks(p) \/ RunnerDies(p) \/ \E z \in Sids : FireNow(p, z)
      PROVE  answers' = answers /\ record' = record
  BY <1>9 DEF LoadDue, TakeNext, AllFired, SubmitOk, SubmitFails, DeliveryFails, RecordReads,
     RecordReadFails, RecordWriteFails, DriverTicks, RunnerDies, FireNow, fireVars
<1> QED
  BY <1>4, <1>5, <1>6, <1>7, <1>8, <1>9 DEF SchedNext, FireStep

\* The invariant holds in every state of the schedule runners.
THEOREM SchedInvariant == SchedSpec => []SchedInv
<1>1. SchedInv /\ [SchedNext]_schedVars => SchedInv'
  BY SchedTypesStep, HandStep DEF SchedInv
<1> QED BY <1>1, SchedInitInv, PTL DEF SchedSpec

\* With nobody else's hand on it, a schedule is delivered by drivers once in a cron
\* minute, and its fire_count is the number of its recorded deliveries.
THEOREM ScheduleDeliveries == SchedSpec => [](SchedTypeOK /\ DeliveriesSound)
<1>1. SchedInv => SchedTypeOK /\ DeliveriesSound
  BY SchedInvSays DEF SchedInv
<1> QED BY <1>1, SchedInvariant, PTL

\* A deleted schedule neither fires nor comes back, unless a process held it.
THEOREM ScheduleDeleted == SchedSpec => DeletedIsOver
<1>1. SchedInv /\ [SchedNext]_schedVars =>
        [\A s \in Sids \ contested' :
           ~record[s].exists =>
             /\ answers'[s] = answers[s]
             /\ record'[s].exists => record[s] = Absent /\ answers[s] = 0]_schedVars
  BY OverStep
<1> QED BY <1>1, SchedInvariant, PTL DEF SchedSpec, DeletedIsOver

-----------------------------------------------------------------------------
(* The replay cache *)

Stored == [sig : Signatures, expires : Nat]

\* The map and the insertion order hold the same entries, each once.
Mirrored(cache) ==
  /\ cache.order \in Seq(Stored)
  /\ DOMAIN cache.map \subseteq Signatures /\ \A s \in DOMAIN cache.map : cache.map[s] \in Nat
  /\ \A i \in 1..Len(cache.order) :
       cache.order[i].sig \in DOMAIN cache.map /\ cache.map[cache.order[i].sig] = cache.order[i].expires
  /\ \A s \in DOMAIN cache.map : \E i \in 1..Len(cache.order) : cache.order[i].sig = s
  /\ \A i, j \in 1..Len(cache.order) : cache.order[i].sig = cache.order[j].sig => i = j

\* Such a cache has as many keys as insertions.
LEMMA MirroredCount ==
  ASSUME NEW cache, Mirrored(cache)
  PROVE  IsFiniteSet(DOMAIN cache.map) /\ Cardinality(DOMAIN cache.map) = Len(cache.order)
<1> DEFINE n == Len(cache.order)
           D == DOMAIN cache.map
           f == [i \in 1..n |-> cache.order[i].sig]
<1>0. n \in Nat
  BY LenProperties DEF Mirrored
<1>1. f \in [1..n -> D]
  BY DEF Mirrored
<1>2. \A i, j \in 1..n : f[i] = f[j] => i = j
  BY DEF Mirrored
<1>3. \A s \in D : \E i \in 1..n : f[i] = s
  BY DEF Mirrored
<1> HIDE DEF f, n, D
<1>4. f \in Bijection(1..n, D)
  BY <1>1, <1>2, <1>3 DEF Bijection, Injection, IsInjective, Surjection
<1>5. ExistsBijection(1..n, D)
  BY <1>4 DEF ExistsBijection
<1> QED BY <1>0, <1>5, FS_CountingElements, FS_NatBijection DEF D, n

\* Popping the oldest insertions removes their keys and nothing else.
LEMMA PopKeeps ==
  ASSUME NEW cache, Mirrored(cache), NEW n \in 0..Len(cache.order)
  PROVE  LET p == PopFront(cache, n)
         IN /\ Mirrored(p) /\ DOMAIN p.map \subseteq DOMAIN cache.map
            /\ \A s \in DOMAIN p.map : p.map[s] = cache.map[s]
            /\ \A s \in DOMAIN cache.map \ DOMAIN p.map :
                 \E i \in 1..n : cache.order[i].sig = s /\ cache.order[i].expires = cache.map[s]
            /\ n = Len(cache.order) => DOMAIN p.map = {}
<1> DEFINE p == PopFront(cache, n)
           ord == cache.order
           map == cache.map
           popped == {ord[i] : i \in 1..n}
           gone == {s \in DOMAIN map : [sig |-> s, expires |-> map[s]] \in popped}
           kept == SubSeq(ord, n + 1, Len(ord))
<1>0. /\ ord \in Seq(Stored) /\ Len(ord) \in Nat /\ n \in Nat /\ n <= Len(ord)
      /\ \A i \in 1..Len(ord) : ord[i] \in Stored
  BY LenProperties, ElementOfSeq DEF Mirrored
<1>1. /\ p.map = [s \in DOMAIN map \ gone |-> map[s]] /\ p.order = kept
      /\ DOMAIN p.map = DOMAIN map \ gone /\ \A s \in DOMAIN map \ gone : p.map[s] = map[s]
  BY DEF PopFront
<1>2. kept \in Seq(Stored) /\ Len(kept) = Len(ord) - n /\ \A i \in 1..(Len(ord) - n) : kept[i] = ord[n + i]
  BY <1>0, DropPrefix
<1>3. \A i \in 1..Len(ord) : ord[i] = [sig |-> ord[i].sig, expires |-> ord[i].expires]
  BY <1>0 DEF Stored
<1>4. ASSUME NEW i \in 1..Len(ord) PROVE ord[i].sig \in gone <=> i <= n
  <2>1. ord[i].sig \in DOMAIN map /\ map[ord[i].sig] = ord[i].expires
    BY DEF Mirrored
  <2>2. [sig |-> ord[i].sig, expires |-> map[ord[i].sig]] = ord[i]
    BY <1>3, <2>1
  <2>3. ord[i].sig \in gone <=> ord[i] \in popped
    BY <2>1, <2>2
  <2>4. ASSUME NEW j \in 1..n, ord[j] = ord[i] PROVE i <= n
    <3>1. j \in 1..Len(ord) /\ ord[j].sig = ord[i].sig
      BY <2>4, <1>0
    <3>2. j = i
      BY <3>1 DEF Mirrored
    <3> QED BY <3>2, <1>0
  <2>5. i <= n => i \in 1..n
    BY <1>0
  <2> QED BY <2>3, <2>4, <2>5
<1>5. \A s \in gone : \E i \in 1..n : ord[i].sig = s /\ ord[i].expires = map[s]
  <2> SUFFICES ASSUME NEW s \in gone PROVE \E i \in 1..n : ord[i].sig = s /\ ord[i].expires = map[s]
    OBVIOUS
  <2>1. PICK i \in 1..n : [sig |-> s, expires |-> map[s]] = ord[i]
    OBVIOUS
  <2>2. ord[i].sig = s /\ ord[i].expires = map[s]
    BY <2>1
  <2> QED BY <2>2
<1>6. n = Len(ord) => DOMAIN p.map = {}
  <2> SUFFICES ASSUME n = Len(ord), NEW s \in DOMAIN map PROVE s \in gone
    BY <1>1
  <2>1. PICK i \in 1..Len(ord) : ord[i].sig = s
    BY DEF Mirrored
  <2> HIDE DEF gone
  <2> QED BY <2>1, <1>4, <1>0
<1> HIDE DEF gone, popped, kept, p
<1>7. Mirrored(p)
  <2>1. \A s \in DOMAIN p.map : s \in DOMAIN map /\ p.map[s] = map[s]
    BY <1>1
  <2>2. ASSUME NEW i \in 1..Len(kept)
        PROVE  kept[i].sig \in DOMAIN p.map /\ p.map[kept[i].sig] = kept[i].expires
    <3>1. n + i \in 1..Len(ord) /\ ~(n + i <= n) /\ kept[i] = ord[n + i]
      BY <1>0, <1>2
    <3>2. kept[i].sig \in DOMAIN map /\ map[kept[i].sig] = kept[i].expires
      BY <3>1 DEF Mirrored
    <3>3. kept[i].sig \notin gone
      BY <3>1, <1>4
    <3> QED BY <3>2, <3>3, <1>1
  <2>3. ASSUME NEW s \in DOMAIN p.map PROVE \E i \in 1..Len(kept) : kept[i].sig = s
    <3>1. s \in DOMAIN map /\ s \notin gone
      BY <1>1
    <3>2. PICK i \in 1..Len(ord) : ord[i].sig = s
      BY <3>1 DEF Mirrored
    <3>3. i > n
      BY <3>1, <3>2, <1>4, <1>0
    <3>4. i - n \in 1..(Len(ord) - n) /\ n + (i - n) = i
      BY <3>3, <1>0
    <3>5. kept[i - n].sig = s
      BY <3>2, <3>4, <1>2
    <3> QED BY <3>4, <3>5, <1>2
  <2>4. ASSUME NEW i \in 1..Len(kept), NEW j \in 1..Len(kept), kept[i].sig = kept[j].sig PROVE i = j
    <3>1. n + i \in 1..Len(ord) /\ n + j \in 1..Len(ord) /\ kept[i] = ord[n + i] /\ kept[j] = ord[n + j]
      BY <1>0, <1>2
    <3>2. n + i = n + j
      BY <3>1, <2>4 DEF Mirrored
    <3> QED BY <3>2, <1>0
  <2>5. DOMAIN p.map \subseteq Signatures /\ \A s \in DOMAIN p.map : p.map[s] \in Nat
    BY <2>1 DEF Mirrored
  <2> QED BY <1>1, <1>2, <2>2, <2>3, <2>4, <2>5 DEF Mirrored
<1> QED BY <1>1, <1>5, <1>6, <1>7 DEF p

\* prune_expired drops only what has expired.
LEMMA PruneExpiredKeeps ==
  ASSUME NEW cache, Mirrored(cache), NEW t \in Nat
  PROVE  LET p == prune_expired(cache, t)
         IN /\ Mirrored(p) /\ DOMAIN p.map \subseteq DOMAIN cache.map
            /\ \A s \in DOMAIN p.map : p.map[s] = cache.map[s]
            /\ \A s \in DOMAIN cache.map \ DOMAIN p.map : cache.map[s] <= t
<1> DEFINE ord == cache.order
           S == {n \in 0..Len(ord) : n < Len(ord) => ord[n + 1].expires > t}
           m == Min(S)
<1>0. Len(ord) \in Nat /\ \A i \in 1..Len(ord) : ord[i].expires \in Nat
  <2>1. Len(ord) \in Nat /\ \A i \in 1..Len(ord) : ord[i] \in Stored
    BY LenProperties, ElementOfSeq DEF Mirrored
  <2> QED BY <2>1 DEF Stored
<1>1. Len(ord) \in S /\ S \subseteq Nat
  BY <1>0
<1>2. m \in S /\ \A k \in S : m <= k
  <2> HIDE DEF S
  <2> QED BY <1>1, MinOf
<1>3. m \in 0..Len(ord)
  BY <1>2
<1>4. ASSUME NEW i \in 1..m PROVE ord[i].expires <= t
  <2>1. i - 1 < m /\ i - 1 \in 0..Len(ord) /\ (i - 1) + 1 = i /\ i \in 1..Len(ord) /\ i - 1 < Len(ord)
    <3> HIDE DEF m
    <3> QED BY <1>3, <1>0
  <2>2. i - 1 \notin S
    <3> HIDE DEF S, m
    <3> QED BY <2>1, <1>2, <1>3, <1>0
  <2>3. ~(ord[(i - 1) + 1].expires > t)
    BY <2>1, <2>2
  <2> QED BY <2>1, <2>3, <1>0
<1>5. prune_expired(cache, t) = PopFront(cache, m)
  BY DEF prune_expired
<1> HIDE DEF S, m
<1>6. LET p == PopFront(cache, m)
      IN /\ Mirrored(p) /\ DOMAIN p.map \subseteq DOMAIN cache.map
         /\ \A s \in DOMAIN p.map : p.map[s] = cache.map[s]
         /\ \A s \in DOMAIN cache.map \ DOMAIN p.map :
              \E i \in 1..m : cache.order[i].sig = s /\ cache.order[i].expires = cache.map[s]
  BY <1>3, PopKeeps
<1> QED BY <1>4, <1>5, <1>6

\* prune_overflow leaves at most MaxEntries keys.
LEMMA PruneOverflowKeeps ==
  ASSUME NEW cache, Mirrored(cache)
  PROVE  LET p == prune_overflow(cache)
         IN /\ Mirrored(p) /\ DOMAIN p.map \subseteq DOMAIN cache.map
            /\ \A s \in DOMAIN p.map : p.map[s] = cache.map[s]
            /\ Cardinality(DOMAIN p.map) <= MaxEntries
<1> DEFINE ord == cache.order
           S == {n \in 0..Len(ord) : \/ Cardinality(DOMAIN PopFront(cache, n).map) <= MaxEntries
                                     \/ n = Len(ord)}
           m == Min(S)
<1>0. Len(ord) \in Nat
  BY LenProperties DEF Mirrored
<1>1. Len(ord) \in S /\ S \subseteq Nat
  BY <1>0
<1>2. m \in S
  <2> HIDE DEF S
  <2> QED BY <1>1, MinOf
<1>3. /\ m \in 0..Len(ord)
      /\ Cardinality(DOMAIN PopFront(cache, m).map) <= MaxEntries \/ m = Len(ord)
  BY <1>2
<1>4. prune_overflow(cache) = PopFront(cache, m)
  BY DEF prune_overflow
<1> HIDE DEF S, m
<1>5. LET p == PopFront(cache, m)
      IN /\ Mirrored(p) /\ DOMAIN p.map \subseteq DOMAIN cache.map
         /\ \A s \in DOMAIN p.map : p.map[s] = cache.map[s]
         /\ m = Len(cache.order) => DOMAIN p.map = {}
  BY <1>3, PopKeeps
<1>6. Cardinality({}) = 0 /\ 0 <= MaxEntries
  BY FS_EmptySet, InboundAssumption
<1>7. Cardinality(DOMAIN PopFront(cache, m).map) <= MaxEntries
  BY <1>3, <1>5, <1>6
<1> QED BY <1>4, <1>5, <1>7

\* A key that was not there is inserted.
LEMMA InsertKeeps ==
  ASSUME NEW cache, Mirrored(cache), NEW s \in Signatures, s \notin DOMAIN cache.map, NEW x \in Nat
  PROVE  LET p == Insert(cache, s, x)
         IN /\ Mirrored(p) /\ DOMAIN p.map = DOMAIN cache.map \cup {s}
            /\ p.map[s] = x /\ \A k \in DOMAIN cache.map : p.map[k] = cache.map[k]
<1> DEFINE p == Insert(cache, s, x)
           ord == cache.order
           new == [sig |-> s, expires |-> x]
           more == Append(ord, new)
<1>0. ord \in Seq(Stored) /\ Len(ord) \in Nat /\ new \in Stored /\ new.sig = s /\ new.expires = x
  BY LenProperties DEF Mirrored, Stored
<1>1. /\ DOMAIN p.map = DOMAIN cache.map \cup {s} /\ p.order = more
      /\ p.map[s] = x /\ \A k \in DOMAIN cache.map : p.map[k] = cache.map[k]
  BY DEF Insert
<1>2. more \in Seq(Stored) /\ Len(more) = Len(ord) + 1 /\ more[Len(ord) + 1] = new
      /\ \A i \in 1..Len(ord) : more[i] = ord[i]
  BY <1>0, AppendProperties
<1> HIDE DEF p, more, new
<1>3. \A i \in 1..Len(ord) : ord[i].sig \in DOMAIN cache.map /\ cache.map[ord[i].sig] = ord[i].expires
                             /\ ord[i].sig # s
  <2>1. \A i \in 1..Len(ord) : ord[i].sig \in DOMAIN cache.map /\ cache.map[ord[i].sig] = ord[i].expires
    BY DEF Mirrored
  <2> QED BY <2>1
<1>4. \A i \in 1..Len(more) : i \in 1..Len(ord) \/ i = Len(ord) + 1
  BY <1>0, <1>2
<1>5. \A i \in 1..Len(more) : more[i].sig \in DOMAIN p.map /\ p.map[more[i].sig] = more[i].expires
  BY <1>0, <1>1, <1>2, <1>3, <1>4
<1>6. ASSUME NEW k \in DOMAIN p.map PROVE \E i \in 1..Len(more) : more[i].sig = k
  <2>1. CASE k = s
    <3>1. Len(ord) + 1 \in 1..Len(more) /\ more[Len(ord) + 1].sig = k
      BY <2>1, <1>0, <1>2
    <3> QED BY <3>1
  <2>2. CASE k \in DOMAIN cache.map
    <3>1. PICK i \in 1..Len(ord) : ord[i].sig = k
      BY <2>2 DEF Mirrored
    <3>2. i \in 1..Len(more) /\ more[i].sig = k
      BY <3>1, <1>0, <1>2
    <3> QED BY <3>2
  <2> QED BY <2>1, <2>2, <1>1
<1>7. ASSUME NEW i \in 1..Len(more), NEW j \in 1..Len(more), more[i].sig = more[j].sig PROVE i = j
  <2>1. CASE i \in 1..Len(ord) /\ j \in 1..Len(ord)
    BY <2>1, <1>2, <1>7 DEF Mirrored
  <2>2. CASE i = Len(ord) + 1 \/ j = Len(ord) + 1
    BY <2>2, <1>0, <1>2, <1>3, <1>4, <1>7
  <2> QED BY <2>1, <2>2, <1>4
<1>8. DOMAIN p.map \subseteq Signatures /\ \A k \in DOMAIN p.map : p.map[k] \in Nat
  BY <1>1 DEF Mirrored
<1>9. Mirrored(p)
  BY <1>1, <1>2, <1>5, <1>6, <1>7, <1>8 DEF Mirrored
<1> QED BY <1>1, <1>9 DEF p

-----------------------------------------------------------------------------
(* Receiving a webhook *)

HeldNow == [map |-> entries, order |-> insertion]

\* A message that was admitted, and not crowded out, is in the cache until the
\* lifetime its own source asked for is over.
Remembered(s) ==
  admissions[s] > 0 /\ s \notin crowdedOut =>
    \/ s \in DOMAIN entries /\ entries[s] = admittedAt[s] + Ttl(s)
    \/ instant >= admittedAt[s] + Ttl(s)

InboundInv ==
  /\ InboundTypeOK /\ Mirrored(HeldNow) /\ Cardinality(DOMAIN entries) <= MaxEntries
  /\ \A s \in Signatures : admissions[s] > 0 => admittedAt[s] \in Nat
  /\ \A s \in Signatures : Remembered(s)

\* A lifetime is at least the window of the source.
LEMMA TtlCovers ==
  ASSUME NEW s \in Signatures
  PROVE  /\ Ttl(s) \in Nat /\ SourceWindow[s] \in Nat /\ TicksPerSecond \in Nat
         /\ TicksPerSecond * SourceWindow[s] \in Nat /\ TicksPerSecond * SourceWindow[s] <= Ttl(s)
<1>1. SourceWindow[s] \in Nat /\ TicksPerSecond \in Nat
  BY InboundAssumption
<1>2. TicksPerSecond * 0 = 0 /\ TicksPerSecond * 1 = TicksPerSecond
  BY <1>1
<1>3. TicksPerSecond * SourceWindow[s] \in Nat
  BY <1>1
<1>4. CASE SourceWindow[s] = 0
  BY <1>1, <1>2, <1>4 DEF Ttl
<1>5. CASE SourceWindow[s] # 0
  <2>1. Ttl(s) = TicksPerSecond * SourceWindow[s]
    BY <1>5 DEF Ttl
  <2> QED BY <2>1, <1>1, <1>3
<1> QED BY <1>4, <1>5

\* What the cache holds once the expired have left.
LEMMA CacheKeeps ==
  ASSUME InboundInv
  PROVE  /\ Mirrored(Cache) /\ DOMAIN Cache.map \subseteq DOMAIN entries
         /\ \A s \in DOMAIN Cache.map : Cache.map[s] = entries[s]
         /\ \A s \in DOMAIN entries \ DOMAIN Cache.map : entries[s] <= instant
         /\ Cardinality(DOMAIN Cache.map) <= MaxEntries
         /\ [map |-> Cache.map, order |-> Cache.order] = Cache
<1>0. Mirrored(HeldNow) /\ instant \in Nat /\ HeldNow.map = entries /\ HeldNow.order = insertion
  BY DEF InboundInv, InboundTypeOK, HeldNow
<1>1. Cache = prune_expired(HeldNow, instant)
  BY DEF Cache, HeldNow
<1>2. /\ Mirrored(Cache) /\ DOMAIN Cache.map \subseteq DOMAIN HeldNow.map
      /\ \A s \in DOMAIN Cache.map : Cache.map[s] = HeldNow.map[s]
      /\ \A s \in DOMAIN HeldNow.map \ DOMAIN Cache.map : HeldNow.map[s] <= instant
  BY <1>0, <1>1, PruneExpiredKeeps
<1>3. Cardinality(DOMAIN Cache.map) <= Cardinality(DOMAIN entries)
  BY <1>0, <1>2, MirroredCount, FS_Subset
<1>4. /\ Cardinality(DOMAIN Cache.map) \in Nat /\ Cardinality(DOMAIN entries) \in Nat /\ MaxEntries \in Nat
  BY <1>0, <1>2, MirroredCount, FS_CardinalityType, InboundAssumption
<1>5. Cardinality(DOMAIN Cache.map) <= MaxEntries
  BY <1>3, <1>4 DEF InboundInv
<1>6. [map |-> Cache.map, order |-> Cache.order] = Cache
  BY DEF Cache, prune_expired, PopFront
<1> QED BY <1>0, <1>2, <1>5, <1>6

\* A message is admitted again only when its source's window is over.
LEMMA AdmitsLate ==
  ASSUME InboundInv, NEW s \in Signatures, Admits(s), Readmitted(s)
  PROVE  instant - admittedAt[s] >= TicksPerSecond * SourceWindow[s]
<1>1. admissions[s] > 0 /\ s \notin crowdedOut /\ s \notin DOMAIN Cache.map
  BY DEF Readmitted, Admits
<1>2. instant \in Nat /\ admittedAt[s] \in Nat
  BY <1>1 DEF InboundInv, InboundTypeOK
<1>3. instant >= admittedAt[s] + Ttl(s)
  <2>1. CASE s \in DOMAIN entries /\ entries[s] = admittedAt[s] + Ttl(s)
    <3>1. entries[s] <= instant
      BY <1>1, <2>1, CacheKeeps
    <3> QED BY <2>1, <3>1, <1>2, TtlCovers
  <2> QED BY <2>1, <1>1 DEF InboundInv, Remembered
<1> QED BY <1>2, <1>3, TtlCovers

\* Admitting a message keeps the invariant.
LEMMA AdmitsKeeps ==
  ASSUME InboundInv, NEW s \in Signatures, Admits(s)
  PROVE  InboundInv'
<1> DEFINE filled == Insert(Cache, s, instant + Ttl(s))
           kept == prune_overflow(filled)
<1>0. /\ s \notin DOMAIN Cache.map /\ admissions[s] < MaxAdmissions
      /\ entries' = kept.map /\ insertion' = kept.order
      /\ crowdedOut' = (crowdedOut \ {s}) \cup (DOMAIN filled.map \ DOMAIN kept.map)
      /\ admittedAt' = [admittedAt EXCEPT ![s] = instant]
      /\ admissions' = [admissions EXCEPT ![s] = @ + 1]
      /\ instant' = instant /\ stamp' = stamp
  BY DEF Admits
<1>1. /\ instant \in 0..MaxTicks /\ MaxTicks \in Nat /\ instant \in Nat /\ instant + Ttl(s) \in Nat
      /\ admittedAt \in [Signatures -> {NotYet} \cup 0..MaxTicks]
      /\ admissions \in [Signatures -> 0..MaxAdmissions] /\ MaxAdmissions \in Nat
      /\ crowdedOut \subseteq Signatures
  BY TtlCovers, InboundAssumption DEF InboundInv, InboundTypeOK
<1>2. /\ Mirrored(filled) /\ DOMAIN filled.map = DOMAIN Cache.map \cup {s}
      /\ filled.map[s] = instant + Ttl(s) /\ \A k \in DOMAIN Cache.map : filled.map[k] = Cache.map[k]
  BY <1>0, <1>1, CacheKeeps, InsertKeeps
<1>3. /\ Mirrored(kept) /\ DOMAIN kept.map \subseteq DOMAIN filled.map
      /\ \A k \in DOMAIN kept.map : kept.map[k] = filled.map[k]
      /\ Cardinality(DOMAIN kept.map) <= MaxEntries
  <2> HIDE DEF filled
  <2> QED BY <1>2, PruneOverflowKeeps
<1> HIDE DEF filled, kept
<1>4. /\ HeldNow'.map = kept.map /\ HeldNow'.order = kept.order
  BY <1>0 DEF HeldNow
<1>5. Mirrored(HeldNow)'
  BY <1>3, <1>4 DEF Mirrored
<1>6. /\ admissions'[s] = admissions[s] + 1 /\ admittedAt'[s] = instant
      /\ \A k \in Signatures \ {s} : admissions'[k] = admissions[k] /\ admittedAt'[k] = admittedAt[k]
      /\ admissions' \in [Signatures -> 0..MaxAdmissions]
      /\ admittedAt' \in [Signatures -> {NotYet} \cup 0..MaxTicks]
  BY <1>0, <1>1
<1>7. InboundTypeOK'
  <2>1. DOMAIN entries' \subseteq Signatures /\ \A k \in DOMAIN entries' : entries'[k] \in Nat
    BY <1>0, <1>3 DEF Mirrored
  <2>2. insertion' \in Seq([sig : Signatures, expires : Nat])
    BY <1>0, <1>3 DEF Mirrored, Stored
  <2>3. crowdedOut' \subseteq Signatures
    BY <1>0, <1>1, <1>2 DEF Mirrored
  <2>4. stamp' \in [Signatures -> {Unsent} \cup -1..Second(MaxTicks) + 1]
    BY <1>0 DEF InboundInv, InboundTypeOK
  <2> QED BY <1>0, <1>1, <1>6, <2>1, <2>2, <2>3, <2>4 DEF InboundTypeOK
<1>8. Remembered(s)'
  <2>1. CASE s \in DOMAIN kept.map
    <3>1. entries'[s] = instant + Ttl(s)
      BY <2>1, <1>0, <1>2, <1>3
    <3> QED BY <2>1, <3>1, <1>0, <1>6 DEF Remembered, Ttl
  <2>2. CASE s \notin DOMAIN kept.map
    BY <2>2, <1>0, <1>2 DEF Remembered
  <2> QED BY <2>1, <2>2
<1>9. ASSUME NEW k \in Signatures, k # s PROVE Remembered(k)'
  <2> SUFFICES ASSUME admissions[k] > 0, k \notin crowdedOut'
               PROVE  \/ k \in DOMAIN entries' /\ entries'[k] = admittedAt[k] + Ttl(k)
                      \/ instant >= admittedAt[k] + Ttl(k)
    BY <1>0, <1>6, <1>9 DEF Remembered, Ttl
  <2>1. k \notin crowdedOut
    BY <1>0, <1>9
  <2>2. \/ k \in DOMAIN entries /\ entries[k] = admittedAt[k] + Ttl(k)
        \/ instant >= admittedAt[k] + Ttl(k)
    BY <2>1 DEF InboundInv, Remembered
  <2>3. CASE k \in DOMAIN entries /\ entries[k] = admittedAt[k] + Ttl(k)
    <3>1. CASE k \in DOMAIN Cache.map
      <4>1. k \in DOMAIN filled.map /\ filled.map[k] = entries[k]
        BY <3>1, <1>2, CacheKeeps
      <4>2. k \in DOMAIN kept.map
        BY <4>1, <1>0
      <4> QED BY <4>1, <4>2, <2>3, <1>0, <1>3
    <3>2. CASE k \notin DOMAIN Cache.map
      <4>1. entries[k] <= instant
        BY <2>3, <3>2, CacheKeeps
      <4>2. admittedAt[k] \in Nat /\ Ttl(k) \in Nat
        BY TtlCovers DEF InboundInv
      <4> QED BY <4>1, <4>2, <2>3, <1>1
    <3> QED BY <3>1, <3>2
  <2> QED BY <2>2, <2>3
<1>10. \A k \in Signatures : admissions'[k] > 0 => admittedAt'[k] \in Nat
  BY <1>1, <1>6 DEF InboundInv
<1>11. Cardinality(DOMAIN entries') <= MaxEntries
  BY <1>0, <1>3
<1> QED BY <1>5, <1>7, <1>8, <1>9, <1>10, <1>11 DEF InboundInv

\* Every step keeps it.
LEMMA InboundInvStep ==
  ASSUME InboundInv, [InboundNext]_inboundVars
  PROVE  InboundInv'
<1>0. instant \in 0..MaxTicks /\ MaxTicks \in Nat /\ TicksPerSecond \in Nat \ {0}
      /\ \A k \in Signatures : Ttl(k) \in Nat /\ Ttl(k)' = Ttl(k)
  BY InboundAssumption, TtlCovers DEF InboundInv, InboundTypeOK, Ttl
<1>1. CASE InstantPasses
  <2>1. /\ instant' = instant + 1 /\ instant < MaxTicks
        /\ UNCHANGED <<stamp, entries, insertion, admittedAt, admissions, crowdedOut>>
    BY <1>1 DEF InstantPasses
  <2>2. InboundTypeOK'
    BY <2>1, <1>0 DEF InboundInv, InboundTypeOK
  <2>3. Mirrored(HeldNow)'
    BY <2>1 DEF InboundInv, HeldNow, Mirrored
  <2>4. \A k \in Signatures : Remembered(k)'
    BY <2>1, <1>0 DEF InboundInv, Remembered
  <2> QED BY <2>1, <2>2, <2>3, <2>4 DEF InboundInv
<1>2. CASE UNCHANGED inboundVars
  <2>1. InboundTypeOK' /\ Mirrored(HeldNow)'
    BY <1>2 DEF InboundInv, InboundTypeOK, inboundVars, HeldNow, Mirrored
  <2> QED BY <1>0, <1>2, <2>1 DEF InboundInv, Remembered, inboundVars
<1>3. ASSUME NEW s \in Signatures, RefusesReplay(s) PROVE InboundInv'
  <2>1. entries' = Cache.map /\ insertion' = Cache.order
        /\ UNCHANGED <<instant, stamp, admittedAt, admissions, crowdedOut>>
    BY <1>3 DEF RefusesReplay
  <2>2. HeldNow'.map = Cache.map /\ HeldNow'.order = Cache.order
    BY <2>1 DEF HeldNow
  <2>3. Mirrored(HeldNow)'
    BY <2>2, CacheKeeps DEF Mirrored
  <2>4. DOMAIN entries' \subseteq Signatures /\ (\A k \in DOMAIN entries' : entries'[k] \in Nat)
        /\ insertion' \in Seq([sig : Signatures, expires : Nat])
    BY <2>1, CacheKeeps DEF Mirrored, Stored
  <2>5. InboundTypeOK'
    BY <2>1, <2>4 DEF InboundInv, InboundTypeOK
  <2>6. ASSUME NEW k \in Signatures, admissions[k] > 0, k \notin crowdedOut
        PROVE  \/ k \in DOMAIN Cache.map /\ Cache.map[k] = admittedAt[k] + Ttl(k)
               \/ instant >= admittedAt[k] + Ttl(k)
    <3>1. admittedAt[k] \in Nat /\ Ttl(k) \in Nat
      BY <1>0, <2>6 DEF InboundInv
    <3>2. \/ k \in DOMAIN entries /\ entries[k] = admittedAt[k] + Ttl(k)
          \/ instant >= admittedAt[k] + Ttl(k)
      BY <2>6 DEF InboundInv, Remembered
    <3>3. CASE k \in DOMAIN entries \ DOMAIN Cache.map /\ entries[k] = admittedAt[k] + Ttl(k)
      BY <3>1, <3>3, <1>0, CacheKeeps
    <3>4. CASE k \in DOMAIN Cache.map /\ entries[k] = admittedAt[k] + Ttl(k)
      BY <3>4, CacheKeeps
    <3> QED BY <3>2, <3>3, <3>4
  <2>7. \A k \in Signatures : Remembered(k)'
    BY <2>1, <2>6, <1>0 DEF Remembered
  <2>8. Cardinality(DOMAIN entries') <= MaxEntries
    BY <2>1, CacheKeeps
  <2> QED BY <2>1, <2>3, <2>5, <2>7, <2>8 DEF InboundInv
<1>4. ASSUME NEW s \in Signatures, NEW skew \in -1..1, Signs(s, skew) PROVE InboundInv'
  <2>1. /\ stamp' = [stamp EXCEPT ![s] = Second(instant) + skew]
        /\ UNCHANGED <<instant, entries, insertion, admittedAt, admissions, crowdedOut>>
    BY <1>4 DEF Signs
  <2>2. Second(instant) + skew \in -1..Second(MaxTicks) + 1
    <3>1. Second(instant) \in Nat /\ Second(MaxTicks) \in Nat /\ Second(instant) <= Second(MaxTicks)
      BY <1>0 DEF Second
    <3> QED BY <3>1
  <2>3. InboundTypeOK'
    BY <2>1, <2>2 DEF InboundInv, InboundTypeOK
  <2>4. Mirrored(HeldNow)'
    BY <2>1 DEF InboundInv, HeldNow, Mirrored
  <2> QED BY <1>0, <2>1, <2>3, <2>4 DEF InboundInv, Remembered
<1>5. ASSUME NEW s \in Signatures, RefusesStale(s) PROVE InboundInv'
  BY <1>5, <1>2 DEF RefusesStale
<1> QED BY <1>1, <1>2, <1>3, <1>4, <1>5, AdmitsKeeps DEF InboundNext

\* Nothing was signed, stored or admitted.
LEMMA InboundInvInit == InboundInit => InboundInv
<1> SUFFICES ASSUME InboundInit PROVE InboundInv
  OBVIOUS
<1>1. entries = [s \in {} |-> 0] /\ DOMAIN entries = {} /\ insertion = <<>> /\ Cardinality({}) = 0
  BY FS_EmptySet DEF InboundInit
<1>2. Len(<<>>) = 0 /\ 1..0 = {} /\ <<>> \in Seq(Stored)
  OBVIOUS
<1>3. Mirrored(HeldNow)
  BY <1>1, <1>2 DEF Mirrored, HeldNow
<1>4. InboundTypeOK
  BY <1>1, InboundAssumption DEF InboundTypeOK, InboundInit
<1> QED BY <1>1, <1>3, <1>4, InboundAssumption DEF InboundInv, InboundInit, Remembered

\* The types and both halves of the replay cache are kept (inbound.rs:202 and
\* :220): no entry is stuck and none leaves early.
THEOREM InboundCacheConsistent == InboundSpec => [](InboundTypeOK /\ CacheConsistent)
<1>1. InboundInv /\ [InboundNext]_inboundVars => InboundInv'
  BY InboundInvStep
<1>2. InboundInv => InboundTypeOK /\ CacheConsistent
  <2> SUFFICES ASSUME InboundInv PROVE CacheConsistent
    BY DEF InboundInv
  <2>1. HeldNow.map = entries /\ HeldNow.order = insertion /\ Mirrored(HeldNow)
    BY DEF InboundInv, HeldNow
  <2>2. Len(insertion) = Cardinality(DOMAIN entries)
    BY <2>1, MirroredCount
  <2> QED BY <2>1, <2>2 DEF CacheConsistent, InboundInv, Mirrored
<1> QED BY <1>1, <1>2, InboundInvInit, PTL DEF InboundSpec

\* A message is not admitted again for the window of its own source, counted from
\* its admission, whatever windows the sources that share the cache have, unless
\* the cache overflowed (inbound.rs:247).
THEOREM InboundNotAgain == InboundSpec => NotAgainWithinWindow
<1>1. InboundInv /\ [InboundNext]_inboundVars => InboundInv'
  BY InboundInvStep
<1>2. InboundInv /\ [InboundNext]_inboundVars =>
        [\A s \in Signatures : Readmitted(s) =>
           instant - admittedAt[s] >= TicksPerSecond * SourceWindow[s]]_inboundVars
  <2> SUFFICES ASSUME InboundInv, InboundNext, NEW s \in Signatures, Readmitted(s)
               PROVE  instant - admittedAt[s] >= TicksPerSecond * SourceWindow[s]
    OBVIOUS
  <2>0. admissions \in [Signatures -> 0..MaxAdmissions] /\ MaxAdmissions \in Nat
    BY InboundAssumption DEF InboundInv, InboundTypeOK
  <2>1. admissions' # admissions
    BY <2>0 DEF Readmitted
  <2>2. PICK k \in Signatures : Admits(k)
    BY <2>1 DEF InboundNext, InstantPasses, RefusesStale, RefusesReplay, Signs, inboundVars
  <2>3. k = s
    BY <2>0, <2>2 DEF Admits, Readmitted
  <2> QED BY <2>2, <2>3, AdmitsLate
<1> QED BY <1>1, <1>2, InboundInvInit, PTL DEF InboundSpec, NotAgainWithinWindow

-----------------------------------------------------------------------------
(* The loop detector *)

LoopEntries == [call : CallKinds, turn : Nat]
Halts == [is : {"Healthy", "Detected", "Halted", "Killed"}, by : Signals \cup {"none"}, since : Nat]
Detectors ==
  [budget : LoopBudgets, window : Seq(LoopEntries), costs : Seq(Nat), idle : Nat, accel : Nat,
   trips : SUBSET Signals, last : Nat, halt : Halts, tripped : Nat]

\* What holds of a detector whatever it observes: an open grace window began with
\* the latest trip, and two active signals have killed the run.
DetectorOK(d) ==
  /\ d \in Detectors /\ Len(d.costs) <= 4
  /\ d.halt.is = "Detected" => d.halt.since = d.tripped
  /\ Cardinality(d.trips) >= 2 /\ d.budget.action # "Warn" => d.halt.is = "Killed"
  /\ d.budget.action = "Warn" => d.halt = Healthy

\* Fewer signals are no more than before.
LEMMA FewerTrips ==
  ASSUME NEW T, T \subseteq Signals, NEW U, U \subseteq T
  PROVE  Cardinality(U) \in Nat /\ Cardinality(T) \in Nat /\ Cardinality(U) <= Cardinality(T)
<1>1. IsFiniteSet(Signals)
  <2>1. IsFiniteSet({} \cup {"SameToolSameArgs"})
    BY FS_EmptySet, FS_AddElement
  <2>2. IsFiniteSet(({} \cup {"SameToolSameArgs"}) \cup {"NoProgress"})
    BY <2>1, FS_AddElement
  <2>3. IsFiniteSet((({} \cup {"SameToolSameArgs"}) \cup {"NoProgress"}) \cup {"CostAcceleration"})
    BY <2>2, FS_AddElement
  <2>4. Signals = (({} \cup {"SameToolSameArgs"}) \cup {"NoProgress"}) \cup {"CostAcceleration"}
    BY DEF Signals
  <2> QED BY <2>3, <2>4
<1>2. IsFiniteSet(T)
  BY <1>1, FS_Subset
<1>3. IsFiniteSet(U)
  BY <1>2, FS_Subset
<1> QED
  BY <1>2, <1>3, FS_Subset, FS_CardinalityType

\* A trip: a Warn profile only notes it, a second signal kills, else the grace
\* window opens at this turn.
LEMMA TripKeeps ==
  ASSUME NEW d, DetectorOK(d), NEW sig \in Signals, NEW doubled \in BOOLEAN, NEW turn \in Nat,
         turn >= d.last
  PROVE  LET e == on_trip(d, sig, doubled, turn)
         IN /\ DetectorOK(e) /\ e.budget = d.budget /\ e.last = d.last /\ e.window = d.window
            /\ e.tripped = turn /\ e.halt.since \in {0, turn, d.halt.since} /\ e.halt.is # "Halted"
<1> DEFINE hit == [d EXCEPT !.trips = @ \cup {sig}, !.tripped = turn]
           e == on_trip(d, sig, doubled, turn)
           open == [hit EXCEPT !.halt = [is |-> "Detected", by |-> sig, since |-> turn]]
<1>0. d \in Detectors /\ Len(d.costs) <= 4 /\ d.trips \subseteq Signals /\ d.halt \in Halts
  BY DEF DetectorOK, Detectors
<1>1. /\ hit \in Detectors /\ hit.trips = d.trips \cup {sig} /\ hit.tripped = turn
      /\ hit.budget = d.budget /\ hit.last = d.last /\ hit.window = d.window
      /\ hit.costs = d.costs /\ hit.halt = d.halt
  BY <1>0 DEF Detectors
<1>2. Cardinality(hit.trips) \in Nat
  BY <1>1, FewerTrips DEF Detectors
<1>3. CASE d.budget.action = "Warn"
  <2>1. e = hit
    BY <1>3 DEF on_trip
  <2>2. hit.halt = Healthy /\ Healthy.is = "Healthy"
    BY <1>1, <1>3 DEF DetectorOK, Healthy
  <2> QED BY <2>1, <2>2, <1>1, <1>0, <1>3 DEF DetectorOK
<1>4. CASE d.budget.action # "Warn" /\ (doubled \/ Cardinality(hit.trips) >= 2 \/ d.budget.action = "Kill")
  <2>1. e = Kill(hit)
    BY <1>4 DEF on_trip
  <2>2. /\ Kill(hit) \in Detectors /\ Kill(hit).halt.is = "Killed" /\ Kill(hit).halt.since = 0
        /\ Kill(hit).budget = d.budget /\ Kill(hit).last = d.last /\ Kill(hit).window = d.window
        /\ Kill(hit).costs = d.costs /\ Kill(hit).tripped = turn
    BY <1>1 DEF Kill, Detectors, Halts
  <2> QED BY <2>1, <2>2, <1>4, <1>0 DEF DetectorOK
<1>5. CASE d.budget.action # "Warn" /\ ~(doubled \/ Cardinality(hit.trips) >= 2 \/ d.budget.action = "Kill")
  <2>1. e = open
    BY <1>5 DEF on_trip
  <2>2. /\ open \in Detectors /\ open.halt.is = "Detected" /\ open.halt.since = turn
        /\ open.budget = d.budget /\ open.last = d.last /\ open.window = d.window
        /\ open.costs = d.costs /\ open.tripped = turn /\ open.trips = hit.trips
    BY <1>1 DEF Detectors, Halts
  <2> QED BY <2>1, <2>2, <1>5, <1>0, <1>2 DEF DetectorOK
<1> QED BY <1>3, <1>4, <1>5

\* The eviction loop drops a prefix: what it dropped had left the window, and the
\* first entry it kept, if any, had not.
LEMMA EvictPrefix ==
  ASSUME NEW w \in Seq(LoopEntries), NEW span \in Nat, NEW turn \in Nat
  PROVE  \E g \in 0..Len(w) :
           /\ Evict(w, span, turn) = SubSeq(w, g + 1, Len(w))
           /\ \A i \in 1..g : turn - w[i].turn >= span
           /\ g < Len(w) => turn - w[g + 1].turn < span
<1> DEFINE S == {n \in 0..Len(w) : n < Len(w) => turn - w[n + 1].turn < span}
<1>a. Len(w) \in Nat /\ \A i \in 1..Len(w) : w[i] \in LoopEntries
  BY LenProperties, ElementOfSeq
<1>0. Len(w) \in Nat /\ \A i \in 1..Len(w) : w[i].turn \in Nat
  BY <1>a DEF LoopEntries
<1>1. Len(w) \in S /\ S \subseteq Nat
  BY <1>0
<1>2. Min(S) \in S /\ \A k \in S : Min(S) <= k
  <2> HIDE DEF S
  <2> QED BY <1>1, MinOf
<1>3. ASSUME NEW i \in 1..Min(S) PROVE turn - w[i].turn >= span
  <2>a. Min(S) \in 0..Len(w)
    BY <1>2
  <2>b. i - 1 < Min(S) /\ i - 1 \in 0..Len(w)
    BY <2>a, <1>0
  <2>1. i - 1 \notin S /\ i - 1 \in 0..Len(w)
    <3> HIDE DEF S
    <3> QED BY <1>2, <2>b, <2>a, <1>0
  <2>2. i - 1 < Len(w) /\ ~(turn - w[(i - 1) + 1].turn < span)
    BY <2>1
  <2>3. w[(i - 1) + 1] = w[i] /\ i \in 1..Len(w)
    BY <2>2, <1>0
  <2> QED BY <2>2, <2>3, <1>0
<1>4. Evict(w, span, turn) = SubSeq(w, Min(S) + 1, Len(w))
  BY DEF Evict
<1> QED BY <1>2, <1>3, <1>4

\* What is left of a window is a window.
LEMMA EvictType ==
  ASSUME NEW w \in Seq(LoopEntries), NEW span \in Nat, NEW turn \in Nat
  PROVE  Evict(w, span, turn) \in Seq(LoopEntries)
<1>1. PICK g \in 0..Len(w) : Evict(w, span, turn) = SubSeq(w, g + 1, Len(w))
  BY EvictPrefix
<1>2. \A i \in (g + 1)..Len(w) : w[i] \in LoopEntries
  OBVIOUS
<1>3. SubSeq(w, g + 1, Len(w)) \in Seq(LoopEntries)
  BY <1>2, SubSeqProperties
<1> QED BY <1>1, <1>3

\* The occurrences of a call in a window are counted by a number.
LEMMA RepeatsType ==
  ASSUME NEW w \in Seq(LoopEntries), NEW call
  PROVE  Repeats(w, call) \in Nat
<1>1. IsFiniteSet(1..Len(w))
  BY FS_Interval
<1>2. IsFiniteSet({i \in 1..Len(w) : w[i].call = call})
  BY <1>1, FS_Subset
<1> QED BY <1>2, FS_CardinalityType DEF Repeats

\* What an observed call does to a detector.
LEMMA CallKeeps ==
  ASSUME NEW d, DetectorOK(d), NEW call \in CallKinds, NEW turn \in Nat
  PROVE  LET e == observe_admission(d, call, turn)
         IN /\ DetectorOK(e) /\ e.budget = d.budget
            /\ e.last \in {d.last, turn} /\ e.halt.since \in {0, turn, d.halt.since}
            /\ e.halt.is = "Halted" => d.halt.is = "Halted"
            /\ e.tripped \in {d.tripped, turn}
            /\ d.last <= e.last /\ (Counts(d, call, turn) => e.last = turn)
            /\ e.window = IF Counts(d, call, turn)
                          THEN Append(Evict(d.window, d.budget.span, turn), [call |-> call, turn |-> turn])
                          ELSE d.window
<1> DEFINE e == observe_admission(d, call, turn)
           at == [d EXCEPT !.last = turn]
           kept == Evict(d.window, d.budget.span, turn)
           grown == [at EXCEPT !.window = Append(kept, [call |-> call, turn |-> turn])]
<1>0. /\ d \in Detectors /\ d.trips \subseteq Signals /\ d.halt \in Halts /\ d.budget \in LoopBudgets
      /\ d.window \in Seq(LoopEntries) /\ d.budget.span \in Nat /\ d.last \in Nat
  BY DEF DetectorOK, Detectors, LoopBudgets
<1>1. kept \in Seq(LoopEntries)
  BY <1>0, EvictType
<1>2. Append(kept, [call |-> call, turn |-> turn]) \in Seq(LoopEntries)
  BY <1>1 DEF LoopEntries
<1>3. /\ at \in Detectors /\ at.last = turn /\ at.budget = d.budget /\ at.halt = d.halt
      /\ at.tripped = d.tripped /\ at.trips = d.trips /\ at.costs = d.costs
      /\ at.window = d.window
  BY <1>0 DEF Detectors
<1>4. /\ grown \in Detectors /\ grown.last = turn /\ grown.budget = d.budget /\ grown.halt = d.halt
      /\ grown.tripped = d.tripped /\ grown.trips = d.trips /\ grown.costs = d.costs
      /\ grown.window = Append(kept, [call |-> call, turn |-> turn])
  <2> HIDE DEF at, kept
  <2> QED BY <1>2, <1>3 DEF Detectors
<1>5. DetectorOK(at) /\ DetectorOK(grown)
  <2> HIDE DEF at, grown
  <2> QED BY <1>3, <1>4 DEF DetectorOK
<1>6. CASE turn < d.last
  BY <1>6, <1>0 DEF observe_admission, Counts
<1>7. CASE turn >= d.last /\ d.halt.is = "Halted"
  <2>1. e = Kill(at)
    BY <1>7, <1>0 DEF observe_admission
  <2>2. /\ Kill(at) \in Detectors /\ Kill(at).halt.is = "Killed" /\ Kill(at).halt.since = 0
        /\ Kill(at).budget = d.budget /\ Kill(at).last = turn /\ Kill(at).costs = d.costs
        /\ Kill(at).tripped = d.tripped /\ Kill(at).window = d.window
    <3> HIDE DEF at
    <3> QED BY <1>3 DEF Kill, Detectors, Halts
  <2>3. d.budget.action # "Warn"
    BY <1>7 DEF DetectorOK, Healthy
  <2>4. DetectorOK(Kill(at))
    <3> HIDE DEF at
    <3> QED BY <2>2, <2>3 DEF DetectorOK
  <2> QED BY <2>1, <2>2, <2>4, <1>7, <1>0 DEF Counts
<1>8. CASE turn >= d.last /\ d.halt.is # "Halted" /\ ~Counts(d, call, turn)
  <2>1. e = at
    BY <1>8, <1>0 DEF observe_admission
  <2> QED BY <2>1, <1>3, <1>5, <1>8, <1>0
<1>9. CASE turn >= d.last /\ d.halt.is # "Halted" /\ Counts(d, call, turn)
           /\ Repeats(grown.window, call) >= d.budget.repeats
  <2>a. ~(turn < d.last)
    BY <1>9, <1>0
  <2>1. e = on_trip(grown, "SameToolSameArgs", FALSE, turn)
    BY <2>a, <1>9, Zenon DEF observe_admission
  <2>2. "SameToolSameArgs" \in Signals /\ FALSE \in BOOLEAN /\ turn >= grown.last
    BY <1>4 DEF Signals
  <2>3. /\ DetectorOK(e) /\ e.budget = grown.budget /\ e.last = grown.last
        /\ e.halt.since \in {0, turn, grown.halt.since} /\ e.halt.is # "Halted"
        /\ e.tripped = turn /\ e.window = grown.window
    <3> HIDE DEF grown, e
    <3> QED BY <2>1, <2>2, <1>5, TripKeeps, Zenon
  <2> HIDE DEF grown
  <2> QED BY <2>3, <1>4, <1>9, <1>0
<1>10. CASE turn >= d.last /\ d.halt.is # "Halted" /\ Counts(d, call, turn)
            /\ ~(Repeats(grown.window, call) >= d.budget.repeats)
  <2>1. e = grown
    BY <1>10, <1>0 DEF observe_admission
  <2> QED BY <2>1, <1>4, <1>5, <1>10, <1>0
<1> QED BY <1>0, <1>6, <1>7, <1>8, <1>9, <1>10

\* Signal 2 and the start of a turn's observation.
LEMMA ProgressKeeps ==
  ASSUME NEW d, DetectorOK(d), NEW made \in BOOLEAN
  PROVE  LET e == Progress(d, made)
         IN /\ DetectorOK(e) /\ e.budget = d.budget /\ e.last = d.last /\ e.tripped = d.tripped
            /\ e.halt.since \in {0, d.halt.since} /\ e.costs = d.costs /\ e.accel = d.accel
            /\ e.halt.is = "Halted" => d.halt.is = "Halted"
            /\ e.window = d.window /\ e.idle = (IF made THEN 0 ELSE d.idle + 1)
            /\ d.halt = Healthy => e.halt = Healthy
            /\ d.trips = {} => e.trips = {}
<1> DEFINE idled == [d EXCEPT !.idle = @ + 1]
           h == IF "NoProgress" \in d.trips /\ d.trips = {"NoProgress"} /\ d.halt.is = "Detected"
                THEN Healthy ELSE d.halt
           cleared == [d EXCEPT !.idle = 0, !.trips = @ \ {"NoProgress"}, !.halt = h]
<1>0. /\ d \in Detectors /\ d.trips \subseteq Signals /\ d.halt \in Halts /\ d.idle \in Nat
  BY DEF DetectorOK, Detectors
<1>1. CASE ~made
  <2>1. Progress(d, made) = idled
    BY <1>1 DEF Progress
  <2>2. /\ idled \in Detectors /\ idled.budget = d.budget /\ idled.last = d.last
        /\ idled.tripped = d.tripped /\ idled.halt = d.halt /\ idled.trips = d.trips
        /\ idled.costs = d.costs /\ idled.accel = d.accel /\ idled.window = d.window
        /\ idled.idle = d.idle + 1
    <3> DEFINE n == d.idle + 1
    <3>1. n \in Nat /\ idled = [d EXCEPT !.idle = n]
      BY <1>0
    <3> HIDE DEF n, idled
    <3>2. [d EXCEPT !.idle = n] \in Detectors
      BY <1>0, <3>1 DEF Detectors
    <3> QED BY <1>0, <3>1, <3>2 DEF Detectors, n
  <2>3. DetectorOK(idled)
    <3> HIDE DEF idled
    <3> QED BY <2>2 DEF DetectorOK
  <2> HIDE DEF idled
  <2> QED BY <2>1, <2>2, <2>3, <1>0, <1>1
<1>2. CASE made
  <2>1. Progress(d, made) = cleared
    BY <1>2 DEF Progress
  <2>2. h \in Halts /\ (h = d.halt \/ (h = Healthy /\ d.halt.is = "Detected"))
    BY <1>0 DEF Healthy, Halts
  <2>3. /\ cleared \in Detectors /\ cleared.budget = d.budget /\ cleared.last = d.last
        /\ cleared.tripped = d.tripped /\ cleared.halt = h /\ cleared.trips = d.trips \ {"NoProgress"}
        /\ cleared.costs = d.costs /\ cleared.accel = d.accel /\ cleared.window = d.window
        /\ cleared.idle = 0
    <3> HIDE DEF h
    <3> QED BY <2>2, <1>0 DEF Detectors
  <2>4. Cardinality(d.trips \ {"NoProgress"}) >= 2 => Cardinality(d.trips) >= 2
    BY <1>0, FewerTrips
  <2>5. Healthy.is = "Healthy" /\ Healthy.since = 0
    BY DEF Healthy
  <2>6. /\ Cardinality(cleared.trips) >= 2 /\ d.budget.action # "Warn" => cleared.halt.is = "Killed"
        /\ cleared.halt.is = "Detected" => cleared.halt.since = d.tripped
        /\ d.budget.action = "Warn" => cleared.halt = Healthy
    <3> HIDE DEF h, cleared
    <3> QED BY <2>2, <2>3, <2>4, <2>5 DEF DetectorOK
  <2>7. DetectorOK(cleared)
    <3> HIDE DEF h, cleared
    <3> QED BY <2>3, <2>6 DEF DetectorOK
  <2> HIDE DEF h, cleared
  <2> QED BY <2>1, <2>2, <2>3, <2>5, <2>7, <1>2
<1> QED BY <1>1, <1>2

\* Signal 3's window of costs.
LEMMA CostKeeps ==
  ASSUME NEW d, DetectorOK(d), NEW cost \in Nat
  PROVE  LET e == Cost(d, cost)
         IN /\ DetectorOK(e) /\ e.budget = d.budget /\ e.last = d.last /\ e.tripped = d.tripped
            /\ e.halt = d.halt /\ e.trips = d.trips /\ e.window = d.window /\ e.idle = d.idle
            /\ e.costs = Recent(Append(d.costs, cost))
            /\ e.accel = IF Len(e.costs) < 4 THEN d.accel
                         ELSE IF Accelerates(e.costs, d.budget.ratio) THEN d.accel + 1 ELSE 0
<1> DEFINE cs == Recent(Append(d.costs, cost))
           ac == IF Len(cs) < 4 THEN d.accel
                 ELSE IF Accelerates(cs, d.budget.ratio) THEN d.accel + 1 ELSE 0
           new == [d EXCEPT !.costs = cs, !.accel = ac]
<1>0. d \in Detectors /\ d.costs \in Seq(Nat) /\ Len(d.costs) <= 4 /\ d.accel \in Nat
  BY DEF DetectorOK, Detectors
<1>1. cs \in Seq(Nat) /\ Len(cs) <= 4
  <2>1. Append(d.costs, cost) \in Seq(Nat) /\ Len(Append(d.costs, cost)) = Len(d.costs) + 1
    BY <1>0
  <2>2. Append(d.costs, cost) # <<>>
    BY <1>0, AppendProperties
  <2>3. Tail(Append(d.costs, cost)) \in Seq(Nat) /\ Len(Tail(Append(d.costs, cost))) = Len(d.costs)
    BY <2>1, <2>2, <1>0, HeadTailProperties
  <2> QED BY <2>1, <2>3, <1>0 DEF Recent
<1>2. ac \in Nat
  BY <1>0
<1>3. Cost(d, cost) = new
  BY DEF Cost
<1>4. /\ new \in Detectors /\ new.budget = d.budget /\ new.last = d.last /\ new.tripped = d.tripped
      /\ new.halt = d.halt /\ new.trips = d.trips /\ new.window = d.window /\ new.idle = d.idle
      /\ new.costs = cs /\ new.accel = ac
  <2> HIDE DEF cs, ac
  <2> QED BY <1>0, <1>1, <1>2 DEF Detectors
<1>5. DetectorOK(new)
  <2> HIDE DEF cs, ac, new
  <2> QED BY <1>1, <1>4 DEF DetectorOK
<1>6. DetectorOK(Cost(d, cost)) /\ Cost(d, cost).costs = cs /\ Cost(d, cost).accel = ac
  BY <1>3, <1>4, <1>5
<1> QED BY <1>3, <1>4, <1>5

\* A detector whose turn has been noted is the same detector.
LEMMA LastKeeps ==
  ASSUME NEW d, DetectorOK(d), NEW turn \in Nat
  PROVE  LET e == [d EXCEPT !.last = turn]
         IN /\ DetectorOK(e) /\ e.budget = d.budget /\ e.last = turn /\ e.tripped = d.tripped
            /\ e.halt = d.halt /\ e.trips = d.trips /\ e.window = d.window /\ e.idle = d.idle
            /\ e.costs = d.costs /\ e.accel = d.accel
<1> DEFINE e == [d EXCEPT !.last = turn]
<1>1. /\ e \in Detectors /\ e.budget = d.budget /\ e.last = turn /\ e.tripped = d.tripped
      /\ e.halt = d.halt /\ e.trips = d.trips /\ e.window = d.window /\ e.idle = d.idle
      /\ e.costs = d.costs /\ e.accel = d.accel
  BY DEF DetectorOK, Detectors
<1>2. DetectorOK(e)
  <2> HIDE DEF e
  <2> QED BY <1>1 DEF DetectorOK
<1> QED BY <1>1, <1>2

\* Whether the growth ratio doubled is a truth value.
LEMMA DoublesType == ASSUME NEW c, NEW r PROVE Doubles(c, r) \in BOOLEAN
<1>1. CASE c[1] = 0
  BY <1>1 DEF Doubles
<1>2. CASE c[1] # 0
  BY <1>2 DEF Doubles
<1> QED BY <1>1, <1>2

\* What the end of a turn does to a detector that is not killed ...
LEMMA LiveKeeps ==
  ASSUME NEW d, DetectorOK(d), NEW turn \in Nat, NEW made \in BOOLEAN, NEW cost \in Nat
  PROVE  LET e == ObserveLive(d, turn, made, cost)
         IN /\ DetectorOK(e) /\ e.budget = d.budget /\ e.last = turn
            /\ e.halt.since \in {0, turn, d.halt.since}
            /\ e.halt.is = "Halted" => d.halt.is = "Halted"
            /\ e.tripped \in {d.tripped, turn} /\ e.window = d.window
<1> DEFINE at == [d EXCEPT !.last = turn]
           pr == Progress(at, made)
           full == Cost(pr, cost)
           dbl == Doubles(full.costs, d.budget.ratio)
           e == ObserveLive(d, turn, made, cost)
<1>1. DetectorOK(at) /\ at.budget = d.budget /\ at.last = turn /\ at.halt = d.halt
      /\ at.tripped = d.tripped /\ at.window = d.window
  BY LastKeeps
<1>2. /\ DetectorOK(pr) /\ pr.budget = d.budget /\ pr.last = turn
      /\ pr.halt.since \in {0, d.halt.since} /\ (pr.halt.is = "Halted" => d.halt.is = "Halted")
      /\ pr.tripped = d.tripped /\ pr.window = d.window
  <2> HIDE DEF at
  <2> QED BY <1>1, ProgressKeeps
<1>3. /\ DetectorOK(full) /\ full.budget = d.budget /\ full.last = turn
      /\ full.halt.since \in {0, d.halt.since} /\ (full.halt.is = "Halted" => d.halt.is = "Halted")
      /\ full.tripped = d.tripped /\ full.window = d.window
  <2> HIDE DEF pr
  <2> QED BY <1>2, CostKeeps
<1>4. CASE Len(full.costs) = 4 /\ full.accel >= d.budget.windows
  <2>1. e = on_trip(full, "CostAcceleration", dbl, turn)
    BY <1>4, Zenon DEF ObserveLive
  <2>2. dbl \in BOOLEAN
    BY DoublesType
  <2>3. "CostAcceleration" \in Signals /\ turn >= full.last
    BY <1>3 DEF Signals
  <2>b. PICK b \in BOOLEAN : e = on_trip(full, "CostAcceleration", b, turn)
    BY <2>1, <2>2, Zenon
  <2>4. /\ DetectorOK(e) /\ e.budget = full.budget /\ e.last = full.last
        /\ e.halt.since \in {0, turn, full.halt.since} /\ e.halt.is # "Halted"
        /\ e.tripped = turn /\ e.window = full.window
    <3> HIDE DEF full, dbl, e
    <3> QED BY <2>b, <2>3, <1>3, TripKeeps
  <2> HIDE DEF full
  <2> QED BY <2>4, <1>3
<1>5. CASE ~(Len(full.costs) = 4 /\ full.accel >= d.budget.windows) /\ full.idle >= d.budget.idle
  <2>1. e = on_trip(full, "NoProgress", FALSE, turn)
    BY <1>5, Zenon DEF ObserveLive
  <2>3. "NoProgress" \in Signals /\ FALSE \in BOOLEAN /\ turn >= full.last
    BY <1>3 DEF Signals
  <2>b. PICK b \in BOOLEAN : e = on_trip(full, "NoProgress", b, turn)
    BY <2>1, <2>3, Zenon
  <2>4. /\ DetectorOK(e) /\ e.budget = full.budget /\ e.last = full.last
        /\ e.halt.since \in {0, turn, full.halt.since} /\ e.halt.is # "Halted"
        /\ e.tripped = turn /\ e.window = full.window
    <3> HIDE DEF full, e
    <3> QED BY <2>b, <2>3, <1>3, TripKeeps
  <2> HIDE DEF full
  <2> QED BY <2>4, <1>3
<1>6. CASE ~(Len(full.costs) = 4 /\ full.accel >= d.budget.windows) /\ ~(full.idle >= d.budget.idle)
  <2>1. e = full
    BY <1>6, Zenon DEF ObserveLive
  <2> HIDE DEF full, e
  <2>2. DetectorOK(e) /\ e.budget = d.budget /\ e.last = turn
      /\ e.halt.since \in {0, d.halt.since} /\ (e.halt.is = "Halted" => d.halt.is = "Halted")
      /\ e.tripped = d.tripped /\ e.window = d.window
    BY <2>1, <1>3
  <2> QED BY <2>2 DEF e
<1> QED BY <1>4, <1>5, <1>6

\* ... and to any detector.
LEMMA TurnKeeps ==
  ASSUME NEW d, DetectorOK(d), NEW turn \in Nat, NEW made \in BOOLEAN, NEW cost \in Nat
  PROVE  LET e == observe_turn(d, turn, made, cost)
         IN /\ DetectorOK(e) /\ e.budget = d.budget /\ e.last \in {d.last, turn} /\ d.last <= e.last
            /\ e.halt.since \in {0, turn, d.halt.since}
            /\ e.halt.is = "Halted" => d.halt.is = "Halted"
            /\ e.tripped \in {d.tripped, turn} /\ e.window = d.window
<1>0. d.last \in Nat
  BY DEF DetectorOK, Detectors
<1>1. CASE turn < d.last
  <2>1. observe_turn(d, turn, made, cost) = d
    BY <1>1 DEF observe_turn
  <2> QED BY <2>1, <1>0
<1>2. CASE ~(turn < d.last) /\ d.halt.is = "Killed"
  <2>1. observe_turn(d, turn, made, cost) = [d EXCEPT !.last = turn]
    BY <1>2 DEF observe_turn
  <2>2. LET e == [d EXCEPT !.last = turn]
        IN DetectorOK(e) /\ e.budget = d.budget /\ e.last = turn /\ e.halt = d.halt
           /\ e.tripped = d.tripped /\ e.window = d.window
    BY LastKeeps
  <2> QED BY <2>1, <2>2, <1>0, <1>2
<1>3. CASE ~(turn < d.last) /\ d.halt.is # "Killed"
  <2>1. observe_turn(d, turn, made, cost) = ObserveLive(d, turn, made, cost)
    BY <1>3 DEF observe_turn
  <2>2. LET e == ObserveLive(d, turn, made, cost)
        IN /\ DetectorOK(e) /\ e.budget = d.budget /\ e.last = turn
           /\ e.halt.since \in {0, turn, d.halt.since}
           /\ e.halt.is = "Halted" => d.halt.is = "Halted"
           /\ e.tripped \in {d.tripped, turn} /\ e.window = d.window
    BY LiveKeeps
  <2>3. d.last <= turn
    BY <1>0, <1>3
  <2> QED BY <2>1, <2>2, <2>3, Zenon
<1> QED BY <1>1, <1>2, <1>3

\* The grace window: it halts only a detector whose latest trip lies further back
\* than the grace, and closes when its signal was cleared.
LEMMA GraceKeeps ==
  ASSUME NEW d, DetectorOK(d), NEW turn \in Nat
  PROVE  LET e == check_grace_expiry(d, turn)
         IN /\ DetectorOK(e) /\ e.budget = d.budget /\ e.last = d.last /\ e.tripped = d.tripped
            /\ e.halt.since \in {0, d.halt.since}
            /\ e.halt.is = "Halted" /\ d.halt.is # "Halted" => turn - d.tripped > d.budget.grace
            /\ d.halt = Healthy => e = d
            /\ e.window = d.window
<1> DEFINE healed == [d EXCEPT !.halt = Healthy]
           halted == [d EXCEPT !.halt = [is |-> "Halted", by |-> d.halt.by, since |-> 0]]
           e == check_grace_expiry(d, turn)
<1>0. d \in Detectors /\ d.halt \in Halts /\ d.halt.by \in Signals \cup {"none"}
  BY DEF DetectorOK, Detectors, Halts
<1>h. Healthy \in Halts /\ Healthy.is = "Healthy" /\ Healthy.since = 0
  BY DEF Healthy, Halts
<1>1. CASE d.halt.is # "Detected"
  BY <1>1 DEF check_grace_expiry
<1>2. ASSUME d.halt.is = "Detected" PROVE d.budget.action # "Warn" /\ d.halt.since = d.tripped
  BY <1>2, <1>h DEF DetectorOK
<1>3. CASE d.halt.is = "Detected" /\ d.halt.by \notin d.trips
  <2>1. e = healed
    BY <1>3 DEF check_grace_expiry
  <2>2. /\ healed \in Detectors /\ healed.budget = d.budget /\ healed.last = d.last
        /\ healed.tripped = d.tripped /\ healed.halt = Healthy /\ healed.trips = d.trips
        /\ healed.costs = d.costs /\ healed.window = d.window
    BY <1>0, <1>h DEF Detectors
  <2>3. DetectorOK(healed)
    <3> HIDE DEF healed
    <3> QED BY <2>2, <1>h, <1>3 DEF DetectorOK
  <2> HIDE DEF healed
  <2> QED BY <2>1, <2>2, <2>3, <1>h, <1>3
<1>4. CASE d.halt.is = "Detected" /\ d.halt.by \in d.trips /\ turn - d.halt.since > d.budget.grace
  <2>1. e = halted
    BY <1>4 DEF check_grace_expiry
  <2>2. /\ halted \in Detectors /\ halted.budget = d.budget /\ halted.last = d.last
        /\ halted.tripped = d.tripped /\ halted.halt.is = "Halted" /\ halted.halt.since = 0
        /\ halted.trips = d.trips /\ halted.costs = d.costs /\ halted.window = d.window
    BY <1>0 DEF Detectors, Halts
  <2>3. DetectorOK(halted)
    <3> HIDE DEF halted
    <3> QED BY <2>2, <1>2, <1>4 DEF DetectorOK
  <2> HIDE DEF halted
  <2> QED BY <2>1, <2>2, <2>3, <1>2, <1>4, <1>h
<1>5. CASE d.halt.is = "Detected" /\ d.halt.by \in d.trips /\ ~(turn - d.halt.since > d.budget.grace)
  BY <1>5 DEF check_grace_expiry
<1> QED BY <1>1, <1>3, <1>4, <1>5

\* An override clears the trips and the halt.
LEMMA OverrideKeeps ==
  ASSUME NEW d, DetectorOK(d)
  PROVE  LET e == override_halt(d)
         IN /\ DetectorOK(e) /\ e.budget = d.budget /\ e.last = d.last /\ e.tripped = d.tripped
            /\ e.halt = Healthy /\ e.window = d.window
<1> DEFINE e == [d EXCEPT !.halt = Healthy, !.trips = {}]
<1>0. d \in Detectors /\ Healthy \in Halts /\ Healthy.is = "Healthy" /\ Healthy.since = 0
  BY DEF DetectorOK, Detectors, Healthy, Halts
<1>1. override_halt(d) = e
  BY DEF override_halt
<1>2. /\ e \in Detectors /\ e.budget = d.budget /\ e.last = d.last /\ e.tripped = d.tripped
      /\ e.halt = Healthy /\ e.window = d.window /\ e.trips = {} /\ e.costs = d.costs
  BY <1>0 DEF Detectors
<1>3. Cardinality(e.trips) = 0
  BY <1>2, FS_EmptySet
<1>4. DetectorOK(e)
  <2> HIDE DEF e
  <2> QED BY <1>0, <1>2, <1>3 DEF DetectorOK
<1> QED BY <1>0, <1>1, <1>2, <1>4

\* A detector has seen no turn after the one in progress.
InTime(d) == d.last <= turnNow /\ d.halt.since <= turnNow

LoopInv ==
  /\ turnNow \in 1..MaxLoopTurns + 1 /\ calls \in 0..MaxCalls /\ overrides \in 0..MaxOverrides
  /\ DetectorOK(run) /\ DetectorOK(child) /\ InTime(run) /\ InTime(child)

\* A budget derived from another one is one, with no field raised.
LEMMA DerivedBudget ==
  ASSUME NEW b \in Budgets, NEW req \in Requests, ~Relaxes(b, req)
  PROVE  /\ b \in LoopBudgets /\ derive_for_loop_budget(b, req) \in LoopBudgets
         /\ \A f \in Fields : derive_for_loop_budget(b, req)[f] \in Nat /\ b[f] \in Nat
                              /\ derive_for_loop_budget(b, req)[f] <= b[f]
<1> DEFINE c == derive_for_loop_budget(b, req)
<1>0. b \in LoopBudgets
  BY BudgetAssumption
<1>1. DOMAIN b = Fields \cup {"action"} /\ \A f \in Fields : b[f] \in Nat
  BY <1>0 DEF LoopBudgets, Fields
<1>2. /\ DOMAIN c = Fields \cup {"action"}
      /\ \A f \in Fields \cup {"action"} : c[f] = IF f \in DOMAIN req THEN req[f] ELSE b[f]
  BY <1>1 DEF derive_for_loop_budget
<1>3. ASSUME NEW f \in Fields PROVE c[f] \in Nat /\ b[f] \in Nat /\ c[f] <= b[f]
  <2>1. b[f] \in Nat /\ (f \in DOMAIN req => req[f] \in Nat)
    BY <1>1, BudgetAssumption
  <2>2. f \in DOMAIN req => ~(req[f] > b[f])
    BY DEF Relaxes
  <2> HIDE DEF c
  <2> QED BY <2>1, <2>2, <1>2
<1>4. c["action"] \in OverrideActions
  <2>1. b["action"] \in OverrideActions
    BY <1>0 DEF LoopBudgets
  <2>2. "action" \in DOMAIN req => req["action"] \in OverrideActions
    BY BudgetAssumption
  <2> HIDE DEF c
  <2> QED BY <2>1, <2>2, <1>2
<1>5. c \in LoopBudgets
  <2>1. c = [f \in Fields \cup {"action"} |-> c[f]]
    BY <1>1 DEF derive_for_loop_budget
  <2> HIDE DEF c
  <2>2. /\ c["repeats"] \in Nat /\ c["span"] \in Nat /\ c["idle"] \in Nat /\ c["ratio"] \in Nat
        /\ c["windows"] \in Nat /\ c["grace"] \in Nat
    BY <1>3 DEF Fields
  <2>3. c = [repeats |-> c["repeats"], span |-> c["span"], idle |-> c["idle"], ratio |-> c["ratio"],
             windows |-> c["windows"], grace |-> c["grace"], action |-> c["action"]]
    BY <2>1 DEF Fields
  <2> QED BY <2>2, <2>3, <1>4 DEF LoopBudgets
<1> QED BY <1>0, <1>3, <1>5

\* A new detector.
LEMMA NewDetector ==
  ASSUME NEW b \in LoopBudgets
  PROVE  /\ DetectorOK(NewState(b)) /\ NewState(b).budget = b /\ NewState(b).halt = Healthy
         /\ NewState(b).last = 0 /\ NewState(b).tripped = 0 /\ NewState(b).window = <<>>
         /\ NewState(b).costs = <<>> /\ NewState(b).idle = 0 /\ NewState(b).accel = 0
         /\ NewState(b).trips = {}
<1>0. Healthy \in Halts /\ Healthy.is = "Healthy" /\ Cardinality({}) = 0
  BY FS_EmptySet DEF Healthy, Halts
<1>1. NewState(b) \in Detectors /\ Len(NewState(b).costs) = 0
  BY <1>0 DEF NewState, Detectors
<1>2. /\ NewState(b).budget = b /\ NewState(b).halt = Healthy
      /\ NewState(b).last = 0 /\ NewState(b).tripped = 0 /\ NewState(b).window = <<>>
      /\ NewState(b).costs = <<>> /\ NewState(b).idle = 0 /\ NewState(b).accel = 0
      /\ NewState(b).trips = {}
  BY DEF NewState
<1> QED BY <1>0, <1>1, <1>2 DEF DetectorOK

\* The first state satisfies the invariant.
LEMMA LoopInvInit == LoopInit => LoopInv
<1> SUFFICES ASSUME LoopInit PROVE LoopInv
  OBVIOUS
<1>1. PICK b \in Budgets, req \in Requests :
        ~Relaxes(b, req) /\ run = NewState(b) /\ child = NewState(derive_for_loop_budget(b, req))
  BY DEF LoopInit
<1>2. b \in LoopBudgets /\ derive_for_loop_budget(b, req) \in LoopBudgets
  BY <1>1, DerivedBudget
<1>3. DetectorOK(run) /\ DetectorOK(child) /\ run.halt = Healthy /\ child.halt = Healthy
      /\ run.last = 0 /\ child.last = 0
  BY <1>1, <1>2, NewDetector
<1>4. turnNow = 1 /\ calls = 0 /\ overrides = 0 /\ Healthy.since = 0
  BY DEF LoopInit, Healthy
<1> QED BY <1>3, <1>4, LoopAssumption DEF LoopInv, InTime

\* Every step keeps it, keeps the budgets, and halts only after the grace.
LEMMA LoopInvStep ==
  ASSUME LoopInv, [LoopNext]_loopVars
  PROVE  /\ LoopInv' /\ run'.budget = run.budget /\ child'.budget = child.budget
         /\ run.halt.is # "Halted" /\ run'.halt.is = "Halted"
              => turnNow - run.tripped > run.budget.grace
         /\ child.halt.is # "Halted" /\ child'.halt.is = "Halted"
              => turnNow - child.tripped > child.budget.grace
<1>0. /\ turnNow \in Nat /\ turnNow >= 1 /\ turnNow <= MaxLoopTurns + 1 /\ MaxLoopTurns \in Nat
      /\ calls \in 0..MaxCalls /\ MaxCalls \in Nat /\ overrides \in 0..MaxOverrides /\ MaxOverrides \in Nat
      /\ Costs \subseteq Nat
      /\ run.last \in Nat /\ child.last \in Nat /\ run.halt.since \in Nat /\ child.halt.since \in Nat
  BY LoopAssumption DEF LoopInv, DetectorOK, Detectors, Halts
<1>1. ASSUME NEW call \in CallKinds, NEW turn \in {turnNow, turnNow - 1} \ {0}, ToolCall(call, turn)
      PROVE  /\ LoopInv' /\ run'.budget = run.budget /\ child'.budget = child.budget
             /\ run'.halt.is = "Halted" => run.halt.is = "Halted"
             /\ child'.halt.is = "Halted" => child.halt.is = "Halted"
  <2>1. turn \in Nat /\ turn <= turnNow
    BY <1>0
  <2>2. /\ run' = observe_admission(run, call, turn) /\ child' = observe_admission(child, call, turn)
        /\ turnNow' = turnNow /\ overrides' = overrides /\ calls' = calls + 1 /\ calls < MaxCalls
    BY <1>1 DEF ToolCall
  <2>3. /\ DetectorOK(run') /\ run'.budget = run.budget /\ run'.last \in {run.last, turn}
        /\ run'.halt.since \in {0, turn, run.halt.since}
        /\ run'.halt.is = "Halted" => run.halt.is = "Halted"
    BY <2>1, <2>2, CallKeeps DEF LoopInv
  <2>4. /\ DetectorOK(child') /\ child'.budget = child.budget /\ child'.last \in {child.last, turn}
        /\ child'.halt.since \in {0, turn, child.halt.since}
        /\ child'.halt.is = "Halted" => child.halt.is = "Halted"
    BY <2>1, <2>2, CallKeeps DEF LoopInv
  <2>5. DetectorOK(run)' /\ DetectorOK(child)'
    BY <2>3, <2>4
  <2> QED BY <2>1, <2>2, <2>3, <2>4, <2>5, <1>0 DEF LoopInv, InTime
<1>2. ASSUME NEW made \in BOOLEAN, NEW cost \in Costs, LoopTurnEnds(made, cost)
      PROVE  /\ LoopInv' /\ run'.budget = run.budget /\ child'.budget = child.budget
             /\ run'.halt.is = "Halted" => run.halt.is = "Halted"
             /\ child'.halt.is = "Halted" => child.halt.is = "Halted"
  <2>1. cost \in Nat /\ turnNow \in Nat /\ DetectorOK(run) /\ DetectorOK(child)
    BY <1>0 DEF LoopInv
  <2>2. /\ run' = observe_turn(run, turnNow, made, cost) /\ child' = observe_turn(child, turnNow, made, cost)
        /\ turnNow' = turnNow + 1 /\ turnNow <= MaxLoopTurns /\ overrides' = overrides /\ calls' = calls
    BY <1>2 DEF LoopTurnEnds
  <2>3. /\ DetectorOK(run') /\ run'.budget = run.budget /\ run'.last \in {run.last, turnNow}
        /\ run'.halt.since \in {0, turnNow, run.halt.since}
        /\ run'.halt.is = "Halted" => run.halt.is = "Halted"
    BY <2>1, <2>2, TurnKeeps, Zenon
  <2>4. /\ DetectorOK(child') /\ child'.budget = child.budget /\ child'.last \in {child.last, turnNow}
        /\ child'.halt.since \in {0, turnNow, child.halt.since}
        /\ child'.halt.is = "Halted" => child.halt.is = "Halted"
    BY <2>1, <2>2, TurnKeeps, Zenon
  <2>5. DetectorOK(run)' /\ DetectorOK(child)'
    BY <2>3, <2>4
  <2> QED BY <2>2, <2>3, <2>4, <2>5, <1>0 DEF LoopInv, InTime
<1>3. CASE GraceChecked
  <2>2. /\ run' = check_grace_expiry(run, turnNow) /\ child' = check_grace_expiry(child, turnNow)
        /\ turnNow' = turnNow /\ overrides' = overrides /\ calls' = calls
    BY <1>3 DEF GraceChecked
  <2>3. /\ DetectorOK(run') /\ run'.budget = run.budget /\ run'.last = run.last
        /\ run'.halt.since \in {0, run.halt.since}
        /\ run'.halt.is = "Halted" /\ run.halt.is # "Halted" => turnNow - run.tripped > run.budget.grace
    BY <2>2, <1>0, GraceKeeps DEF LoopInv
  <2>4. /\ DetectorOK(child') /\ child'.budget = child.budget /\ child'.last = child.last
        /\ child'.halt.since \in {0, child.halt.since}
        /\ child'.halt.is = "Halted" /\ child.halt.is # "Halted" => turnNow - child.tripped > child.budget.grace
    BY <2>2, <1>0, GraceKeeps DEF LoopInv
  <2>5. DetectorOK(run)' /\ DetectorOK(child)'
    BY <2>3, <2>4
  <2> QED BY <2>2, <2>3, <2>4, <2>5, <1>0 DEF LoopInv, InTime
<1>4. CASE Overridden
  <2>2. /\ run' = override_halt(run) /\ child' = child /\ turnNow' = turnNow
        /\ overrides' = overrides + 1 /\ overrides < MaxOverrides /\ calls' = calls
    BY <1>4 DEF Overridden
  <2>3. /\ DetectorOK(run') /\ run'.budget = run.budget /\ run'.last = run.last /\ run'.halt = Healthy
    BY <2>2, OverrideKeeps DEF LoopInv
  <2>4. Healthy.is = "Healthy" /\ Healthy.since = 0
    BY DEF Healthy
  <2>5. DetectorOK(run)' /\ DetectorOK(child)'
    BY <2>2, <2>3 DEF LoopInv
  <2> QED BY <2>2, <2>3, <2>4, <2>5, <1>0 DEF LoopInv, InTime
<1>5. CASE UNCHANGED loopVars
  BY <1>5 DEF loopVars, LoopInv, InTime, DetectorOK
<1> QED BY <1>1, <1>2, <1>3, <1>4, <1>5 DEF LoopNext

\* Two signals that are active together have killed a run (detector.rs:211), and
\* the budgets never change.
THEOREM LoopInvariant == LoopSpec => []LoopInv
<1>1. LoopInv /\ [LoopNext]_loopVars => LoopInv'
  BY LoopInvStep
<1> QED BY <1>1, LoopInvInit, PTL DEF LoopSpec

\* A halt comes only after more than grace turns without another trip
\* (detector.rs:402), whatever the budgets, the calls and their order.
THEOREM LoopHaltAfterQuietGrace == LoopSpec => HaltAfterQuietGrace
<1>1. LoopInv /\ [LoopNext]_loopVars =>
        [\A d \in {<<run, run'>>, <<child, child'>>} :
           d[1].halt.is # "Halted" /\ d[2].halt.is = "Halted" =>
             turnNow - d[1].tripped > d[1].budget.grace]_loopVars
  BY LoopInvStep
<1> QED BY <1>1, LoopInvariant, PTL DEF LoopSpec, HaltAfterQuietGrace

-----------------------------------------------------------------------------
(* A run and its child *)

\* As long as the child has not tripped, a child with the run's own window has
\* seen what the run has, and its count of accelerating windows is no lower.
Twins(d, c) ==
  /\ d.tripped = 0 /\ c.tripped = 0 /\ d.halt = Healthy /\ c.halt = Healthy
  /\ d.window = c.window /\ d.costs = c.costs /\ d.idle = c.idle /\ d.last = c.last
  /\ d.accel <= c.accel

\* A derived budget is no looser than its parent's, field by field.
Tighter(b, c) == \A f \in Fields : c[f] <= b[f]

ChildInv ==
  /\ Tighter(run.budget, child.budget)
  /\ child.budget.span = run.budget.span => child.tripped > 0 \/ Twins(run, child)

\* A call that does not trip the child does not trip the run.
LEMMA TwinsCall ==
  ASSUME NEW d, NEW c, DetectorOK(d), DetectorOK(c), Tighter(d.budget, c.budget),
         d.budget.span = c.budget.span, Twins(d, c),
         NEW call \in CallKinds, NEW turn \in Nat, turn > 0
  PROVE  LET d2 == observe_admission(d, call, turn)
             c2 == observe_admission(c, call, turn)
         IN c2.tripped > 0 \/ Twins(d2, c2)
<1> DEFINE kept == Evict(d.window, d.budget.span, turn)
           row == Append(kept, [call |-> call, turn |-> turn])
           dAt == [d EXCEPT !.last = turn]
           cAt == [c EXCEPT !.last = turn]
           dGrown == [dAt EXCEPT !.window = row]
           cGrown == [cAt EXCEPT !.window = row]
           n == Repeats(row, call)
<1>0. /\ d \in Detectors /\ c \in Detectors /\ d.budget \in LoopBudgets /\ c.budget \in LoopBudgets
      /\ d.window \in Seq(LoopEntries) /\ d.last \in Nat /\ c.last \in Nat
      /\ d.budget.span \in Nat /\ d.budget.repeats \in Nat /\ c.budget.repeats \in Nat
  BY DEF DetectorOK, Detectors, LoopBudgets
<1>1. Healthy.is = "Healthy"
  BY DEF Healthy
<1>2. c.budget.repeats <= d.budget.repeats
  BY DEF Tighter, Fields
<1>3. row \in Seq(LoopEntries)
  <2>1. kept \in Seq(LoopEntries) /\ [call |-> call, turn |-> turn] \in LoopEntries
    BY <1>0, EvictType DEF LoopEntries
  <2> HIDE DEF kept
  <2> QED BY <2>1, AppendProperties
<1>4. n \in Nat
  BY <1>3, RepeatsType
<1>5. /\ Evict(c.window, c.budget.span, turn) = kept
  BY DEF Twins
<1>6. /\ dAt.tripped = 0 /\ cAt.tripped = 0 /\ dAt.halt = Healthy /\ cAt.halt = Healthy
      /\ dAt.window = cAt.window /\ dAt.costs = cAt.costs /\ dAt.idle = cAt.idle
      /\ dAt.last = cAt.last /\ dAt.accel <= cAt.accel
  BY <1>0 DEF Twins, Detectors
<1>7. /\ dGrown.tripped = 0 /\ cGrown.tripped = 0 /\ dGrown.halt = Healthy /\ cGrown.halt = Healthy
      /\ dGrown.window = row /\ cGrown.window = row /\ dGrown.costs = cGrown.costs
      /\ dGrown.idle = cGrown.idle /\ dGrown.last = cGrown.last /\ dGrown.accel <= cGrown.accel
  BY <1>0 DEF Twins, Detectors
<1>8. Twins(dAt, cAt) /\ Twins(dGrown, cGrown)
  <2> HIDE DEF dAt, cAt, dGrown, cGrown
  <2> QED BY <1>6, <1>7 DEF Twins
<1>9. CASE turn < d.last
  BY <1>9 DEF observe_admission, Twins
<1>10. CASE ~(turn < d.last) /\ ~Counts(d, call, turn)
  <2>1. observe_admission(d, call, turn) = dAt
    BY <1>10, <1>1 DEF observe_admission, Twins
  <2>2. ~Counts(c, call, turn) /\ c.halt.is # "Halted" /\ ~(turn < c.last)
    BY <1>10, <1>1 DEF Counts, Twins
  <2>3. observe_admission(c, call, turn) = cAt
    BY <2>2 DEF observe_admission
  <2> QED BY <2>1, <2>3, <1>8
<1>11. CASE ~(turn < d.last) /\ Counts(d, call, turn)
  <2>2. /\ Counts(c, call, turn) /\ c.halt.is # "Halted" /\ ~(turn < c.last)
        /\ d.halt.is # "Halted"
    BY <1>11, <1>1 DEF Counts, Twins
  <2>3. CASE n >= c.budget.repeats
    <3>1. observe_admission(c, call, turn) = on_trip(cGrown, "SameToolSameArgs", FALSE, turn)
      <4>1. cGrown = [cAt EXCEPT !.window = Append(Evict(c.window, c.budget.span, turn), [call |-> call, turn |-> turn])]
        BY <1>5
      <4>2. Repeats(cGrown.window, call) >= c.budget.repeats
        BY <2>3, <1>7
      <4> QED BY <2>2, <4>1, <4>2, Zenon DEF observe_admission
    <3>2. observe_admission(c, call, turn).tripped \in {c.tripped, turn}
      BY CallKeeps
    <3>3. on_trip(cGrown, "SameToolSameArgs", FALSE, turn).tripped = turn
      <4>1. cGrown.last = turn /\ DetectorOK(cGrown)
        <5>1. DetectorOK(cAt) /\ cAt.last = turn
          BY LastKeeps
        <5>2. cAt \in Detectors
          BY <5>1 DEF DetectorOK
        <5> HIDE DEF cAt, row
        <5>3. /\ cGrown \in Detectors /\ cGrown.costs = cAt.costs /\ cGrown.halt = cAt.halt
              /\ cGrown.trips = cAt.trips /\ cGrown.budget = cAt.budget /\ cGrown.tripped = cAt.tripped
              /\ cGrown.last = turn
          BY <5>1, <5>2, <1>3 DEF Detectors
        <5> HIDE DEF cGrown
        <5> QED BY <5>1, <5>3 DEF DetectorOK
      <4>2. "SameToolSameArgs" \in Signals /\ FALSE \in BOOLEAN /\ turn >= cGrown.last
        BY <4>1 DEF Signals
      <4> HIDE DEF cGrown
      <4> QED BY <4>1, <4>2, TripKeeps, Zenon
    <3>4. observe_admission(c, call, turn).tripped = turn
      BY <3>1, <3>3, Zenon
    <3> QED BY <3>4
  <2>4. CASE ~(n >= c.budget.repeats)
    <3>1. ~(n >= d.budget.repeats)
      BY <2>4, <1>0, <1>2, <1>4
    <3>2. observe_admission(d, call, turn) = dGrown
      <4>1. ~(Repeats(dGrown.window, call) >= d.budget.repeats)
        BY <3>1, <1>7
      <4> QED BY <2>2, <4>1, <1>11, Zenon DEF observe_admission
    <3>3. observe_admission(c, call, turn) = cGrown
      <4>1. cGrown = [cAt EXCEPT !.window = Append(Evict(c.window, c.budget.span, turn), [call |-> call, turn |-> turn])]
        BY <1>5
      <4>2. ~(Repeats(cGrown.window, call) >= c.budget.repeats)
        BY <2>4, <1>7
      <4> QED BY <2>2, <4>1, <4>2, Zenon DEF observe_admission
    <3> QED BY <3>2, <3>3, <1>8
  <2> QED BY <2>3, <2>4
<1> QED BY <1>9, <1>10, <1>11

\* A lower ratio is exceeded sooner.
LEMMA LowerRatio ==
  ASSUME NEW x \in Nat, NEW y \in Nat, y <= x, NEW cs \in Seq(Nat), Len(cs) = 4, Accelerates(cs, x)
  PROVE  Accelerates(cs, y)
<1>1. cs[1] \in Nat /\ cs[4] \in Nat
  <2>1. 1 \in 1..Len(cs) /\ 4 \in 1..Len(cs)
    OBVIOUS
  <2> QED BY <2>1, ElementOfSeq
<1>2. \E z \in Nat : x = y + z
  <2>1. x - y \in Nat /\ x = y + (x - y)
    OBVIOUS
  <2> QED BY <2>1
<1>3. PICK z \in Nat : x = y + z
  BY <1>2
<1>4. x * cs[1] = y * cs[1] + z * cs[1] /\ z * cs[1] \in Nat /\ y * cs[1] \in Nat
  BY <1>1, <1>3
<1>5. y * cs[1] <= x * cs[1] /\ x * cs[1] \in Nat
  BY <1>4
<1>6. CASE cs[1] = 0
  BY <1>6, <1>1 DEF Accelerates
<1>7. CASE cs[1] # 0
  <2>1. cs[4] > x * cs[1]
    BY <1>7 DEF Accelerates
  <2>2. cs[4] > y * cs[1]
    BY <2>1, <1>1, <1>4, <1>5
  <2> QED BY <2>2, <1>7 DEF Accelerates
<1> QED BY <1>6, <1>7

\* The same turn, seen by a run and by its untripped child, is not counted as
\* accelerating by the run alone.
LEMMA TwinsCost ==
  ASSUME NEW d, NEW c, DetectorOK(d), DetectorOK(c), Tighter(d.budget, c.budget),
         Twins(d, c), NEW cost \in Nat
  PROVE  Twins(Cost(d, cost), Cost(c, cost))
<1> DEFINE d2 == Cost(d, cost)
           c2 == Cost(c, cost)
           cs == Recent(Append(d.costs, cost))
<1>1. /\ DetectorOK(d2) /\ d2.tripped = d.tripped /\ d2.halt = d.halt /\ d2.window = d.window
      /\ d2.idle = d.idle /\ d2.last = d.last /\ d2.costs = cs
      /\ d2.accel = IF Len(d2.costs) < 4 THEN d.accel
                    ELSE IF Accelerates(d2.costs, d.budget.ratio) THEN d.accel + 1 ELSE 0
  BY CostKeeps
<1>2. /\ DetectorOK(c2) /\ c2.tripped = c.tripped /\ c2.halt = c.halt /\ c2.window = c.window
      /\ c2.idle = c.idle /\ c2.last = c.last /\ c2.costs = cs
      /\ c2.accel = IF Len(c2.costs) < 4 THEN c.accel
                    ELSE IF Accelerates(c2.costs, c.budget.ratio) THEN c.accel + 1 ELSE 0
  <2>1. Recent(Append(c.costs, cost)) = cs
    BY DEF Twins
  <2> QED BY <2>1, CostKeeps
<1>3. /\ d.accel \in Nat /\ c.accel \in Nat /\ d.budget.ratio \in Nat /\ c.budget.ratio \in Nat
      /\ cs \in Seq(Nat) /\ Len(cs) <= 4 /\ Len(cs) \in Nat
  <2> HIDE DEF d2, c2, cs
  <2>1. cs \in Seq(Nat) /\ Len(cs) <= 4
    BY <1>1 DEF DetectorOK, Detectors
  <2>2. d.budget \in LoopBudgets /\ c.budget \in LoopBudgets /\ d.accel \in Nat /\ c.accel \in Nat
    BY DEF DetectorOK, Detectors
  <2>3. d.budget.ratio \in Nat /\ c.budget.ratio \in Nat
    BY <2>2 DEF LoopBudgets
  <2>4. Len(cs) \in Nat
    BY <2>1, LenProperties
  <2> QED BY <2>1, <2>2, <2>3, <2>4
<1>4. c.budget.ratio <= d.budget.ratio
  BY DEF Tighter, Fields
<1>5. d2.accel <= c2.accel
  <2> HIDE DEF d2, c2, cs
  <2>1. CASE Len(cs) < 4
    BY <2>1, <1>1, <1>2 DEF Twins
  <2>2. CASE ~(Len(cs) < 4)
    <3>1. Accelerates(cs, d.budget.ratio) => Accelerates(cs, c.budget.ratio)
      <4>a. Len(cs) <= 4 /\ Len(cs) \in Nat
        BY <1>3
      <4>1. Len(cs) = 4
        <5> DEFINE k == Len(cs)
        <5>1. k <= 4 /\ k \in Nat /\ ~(k < 4)
          BY <4>a, <2>2
        <5> HIDE DEF k
        <5>2. k = 4
          BY <5>1
        <5> QED BY <5>2 DEF k
      <4> QED BY <4>1, <1>3, <1>4, LowerRatio
    <3>2. d.accel <= c.accel
      BY DEF Twins
    <3> QED BY <3>1, <3>2, <2>2, <1>1, <1>2, <1>3
  <2> QED BY <2>1, <2>2
<1> HIDE DEF d2, c2, cs
<1>6. Twins(d2, c2)
  BY <1>1, <1>2, <1>5 DEF Twins
<1> QED BY <1>6 DEF d2, c2

\* The end of a turn that does not trip the child does not trip the run.
LEMMA TwinsTurn ==
  ASSUME NEW d, NEW c, DetectorOK(d), DetectorOK(c), Tighter(d.budget, c.budget), Twins(d, c),
         NEW turn \in Nat, turn > 0, NEW made \in BOOLEAN, NEW cost \in Nat
  PROVE  LET d2 == observe_turn(d, turn, made, cost)
             c2 == observe_turn(c, turn, made, cost)
         IN c2.tripped > 0 \/ Twins(d2, c2)
<1> DEFINE dAt == [d EXCEPT !.last = turn]
           cAt == [c EXCEPT !.last = turn]
           dPr == Progress(dAt, made)
           cPr == Progress(cAt, made)
           dFull == Cost(dPr, cost)
           cFull == Cost(cPr, cost)
           d2 == observe_turn(d, turn, made, cost)
           c2 == observe_turn(c, turn, made, cost)
<1>0. d.last \in Nat /\ c.last = d.last /\ d.halt.is # "Killed" /\ c.halt.is # "Killed"
  BY DEF DetectorOK, Detectors, Twins, Healthy
<1>1. /\ DetectorOK(dAt) /\ dAt.budget = d.budget /\ dAt.last = turn /\ dAt.tripped = d.tripped
      /\ dAt.halt = d.halt /\ dAt.trips = d.trips /\ dAt.window = d.window /\ dAt.idle = d.idle
      /\ dAt.costs = d.costs /\ dAt.accel = d.accel
  BY LastKeeps
<1>2. /\ DetectorOK(cAt) /\ cAt.budget = c.budget /\ cAt.last = turn /\ cAt.tripped = c.tripped
      /\ cAt.halt = c.halt /\ cAt.trips = c.trips /\ cAt.window = c.window /\ cAt.idle = c.idle
      /\ cAt.costs = c.costs /\ cAt.accel = c.accel
  BY LastKeeps
<1>3. /\ DetectorOK(dPr) /\ dPr.budget = d.budget /\ dPr.last = turn /\ dPr.tripped = d.tripped
      /\ dPr.costs = d.costs /\ dPr.accel = d.accel /\ dPr.window = d.window
      /\ dPr.idle = (IF made THEN 0 ELSE d.idle + 1) /\ (d.halt = Healthy => dPr.halt = Healthy)
  <2> HIDE DEF dAt
  <2> QED BY <1>1, ProgressKeeps
<1>4. /\ DetectorOK(cPr) /\ cPr.budget = c.budget /\ cPr.last = turn /\ cPr.tripped = c.tripped
      /\ cPr.costs = c.costs /\ cPr.accel = c.accel /\ cPr.window = c.window
      /\ cPr.idle = (IF made THEN 0 ELSE c.idle + 1) /\ (c.halt = Healthy => cPr.halt = Healthy)
  <2> HIDE DEF cAt
  <2> QED BY <1>2, ProgressKeeps
<1>5. Twins(dPr, cPr) /\ Tighter(dPr.budget, cPr.budget)
  <2> HIDE DEF dPr, cPr
  <2> QED BY <1>3, <1>4 DEF Twins
<1>6. Twins(dFull, cFull)
  <2> HIDE DEF dPr, cPr
  <2> QED BY <1>3, <1>4, <1>5, TwinsCost
<1>7. /\ DetectorOK(dFull) /\ DetectorOK(cFull) /\ dFull.budget = d.budget /\ cFull.budget = c.budget
      /\ cFull.last = turn
  <2> HIDE DEF dPr, cPr
  <2> QED BY <1>3, <1>4, CostKeeps
<1>8. CASE turn < d.last
  BY <1>8, <1>0 DEF observe_turn
<1>9. CASE ~(turn < d.last)
  <2>1. d2 = ObserveLive(d, turn, made, cost) /\ c2 = ObserveLive(c, turn, made, cost)
    BY <1>9, <1>0 DEF observe_turn
  <2>2. /\ d.budget.windows \in Nat /\ c.budget.windows \in Nat /\ c.budget.windows <= d.budget.windows
        /\ d.budget.idle \in Nat /\ c.budget.idle \in Nat /\ c.budget.idle <= d.budget.idle
    BY DEF DetectorOK, Detectors, LoopBudgets, Tighter, Fields
  <2>3. /\ dFull.accel \in Nat /\ cFull.accel \in Nat /\ dFull.accel <= cFull.accel
        /\ dFull.idle \in Nat /\ dFull.idle = cFull.idle /\ dFull.costs = cFull.costs
    <3> HIDE DEF dFull, cFull
    <3> QED BY <1>6, <1>7 DEF Twins, DetectorOK, Detectors
  <2>4. CASE \/ Len(cFull.costs) = 4 /\ cFull.accel >= c.budget.windows
             \/ cFull.idle >= c.budget.idle
    <3>1. PICK sig \in Signals, b \in BOOLEAN : c2 = on_trip(cFull, sig, b, turn)
      <4>1. CASE Len(cFull.costs) = 4 /\ cFull.accel >= c.budget.windows
        <5>1. c2 = on_trip(cFull, "CostAcceleration", Doubles(cFull.costs, c.budget.ratio), turn)
          BY <4>1, <2>1, Zenon DEF ObserveLive
        <5>2. Doubles(cFull.costs, c.budget.ratio) \in BOOLEAN
          BY DoublesType
        <5>3. "CostAcceleration" \in Signals
          BY DEF Signals
        <5> QED BY <5>1, <5>2, <5>3, Zenon
      <4>2. CASE ~(Len(cFull.costs) = 4 /\ cFull.accel >= c.budget.windows) /\ cFull.idle >= c.budget.idle
        <5>1. c2 = on_trip(cFull, "NoProgress", FALSE, turn)
          BY <4>2, <2>1, Zenon DEF ObserveLive
        <5>3. "NoProgress" \in Signals /\ FALSE \in BOOLEAN
          BY DEF Signals
        <5> QED BY <5>1, <5>3, Zenon
      <4> QED BY <2>4, <4>1, <4>2
    <3>2. c2.tripped = turn
      <4> HIDE DEF cFull, c2
      <4>1. turn >= cFull.last
        BY <1>7
      <4> QED BY <3>1, <4>1, <1>7, TripKeeps
    <3> QED BY <3>2
  <2>5. CASE ~(Len(cFull.costs) = 4 /\ cFull.accel >= c.budget.windows) /\ ~(cFull.idle >= c.budget.idle)
    <3>1. c2 = cFull
      BY <2>1, <2>5, Zenon DEF ObserveLive
    <3>2. ~(Len(dFull.costs) = 4 /\ dFull.accel >= d.budget.windows) /\ ~(dFull.idle >= d.budget.idle)
      <4> HIDE DEF dFull, cFull
      <4> QED BY <2>2, <2>3, <2>5
    <3>3. d2 = dFull
      BY <2>1, <3>2, Zenon DEF ObserveLive
    <3> QED BY <3>1, <3>3, <1>6
  <2> QED BY <2>4, <2>5
<1> QED BY <1>8, <1>9

\* The child's lead is kept by every step.
LEMMA ChildInvStep ==
  ASSUME LoopInv, ChildInv, [LoopNext]_loopVars
  PROVE  ChildInv'
<1>0. /\ turnNow \in Nat /\ turnNow >= 1 /\ Costs \subseteq Nat
      /\ DetectorOK(run) /\ DetectorOK(child) /\ run.tripped \in Nat /\ child.tripped \in Nat
  BY LoopAssumption DEF LoopInv, DetectorOK, Detectors
<1>1. run'.budget = run.budget /\ child'.budget = child.budget
  BY LoopInvStep
<1>2. Tighter(run.budget, child.budget)'
  BY <1>1 DEF ChildInv, Tighter
<1> SUFFICES ASSUME child.budget.span = run.budget.span
             PROVE  child'.tripped > 0 \/ Twins(run', child')
  BY <1>1, <1>2 DEF ChildInv, Twins
<1>3. Tighter(run.budget, child.budget) /\ (child.tripped > 0 \/ Twins(run, child))
  BY DEF ChildInv
<1>4. ASSUME NEW call \in CallKinds, NEW turn \in {turnNow, turnNow - 1} \ {0}, ToolCall(call, turn)
      PROVE  child'.tripped > 0 \/ Twins(run', child')
  <2>1. turn \in Nat /\ turn > 0
    BY <1>0
  <2>2. /\ run' = observe_admission(run, call, turn) /\ child' = observe_admission(child, call, turn)
    BY <1>4 DEF ToolCall
  <2>3. child'.tripped \in {child.tripped, turn}
    BY <2>1, <2>2, <1>0, CallKeeps
  <2>4. Twins(run, child) => child'.tripped > 0 \/ Twins(run', child')
    BY <2>1, <2>2, <1>0, <1>3, TwinsCall
  <2> QED BY <2>1, <2>3, <2>4, <1>3
<1>5. ASSUME NEW made \in BOOLEAN, NEW cost \in Costs, LoopTurnEnds(made, cost)
      PROVE  child'.tripped > 0 \/ Twins(run', child')
  <2>1. cost \in Nat /\ turnNow > 0
    BY <1>0
  <2>2. /\ run' = observe_turn(run, turnNow, made, cost) /\ child' = observe_turn(child, turnNow, made, cost)
    BY <1>5 DEF LoopTurnEnds
  <2>3. child'.tripped \in {child.tripped, turnNow}
    BY <2>1, <2>2, <1>0, TurnKeeps, Zenon
  <2>4. Twins(run, child) => child'.tripped > 0 \/ Twins(run', child')
    BY <2>1, <2>2, <1>0, <1>3, TwinsTurn, Zenon
  <2> QED BY <2>1, <2>3, <2>4, <1>3
<1>6. CASE GraceChecked
  <2>2. /\ run' = check_grace_expiry(run, turnNow) /\ child' = check_grace_expiry(child, turnNow)
    BY <1>6 DEF GraceChecked
  <2>3. child'.tripped = child.tripped
    BY <2>2, <1>0, GraceKeeps
  <2>4. Twins(run, child) => run' = run /\ child' = child
    BY <2>2, <1>0, GraceKeeps DEF Twins
  <2> QED BY <2>3, <2>4, <1>3
<1>7. CASE Overridden
  <2>1. child' = child /\ run.halt.is = "Halted"
    BY <1>7 DEF Overridden
  <2>2. ~Twins(run, child)
    BY <2>1 DEF Twins, Healthy
  <2> QED BY <2>1, <2>2, <1>3
<1>8. CASE UNCHANGED loopVars
  BY <1>8, <1>3 DEF loopVars
<1> QED BY <1>4, <1>5, <1>6, <1>7, <1>8 DEF LoopNext

\* A run and a child that have just started are twins.
LEMMA ChildInvInit == LoopInit => ChildInv
<1> SUFFICES ASSUME LoopInit PROVE ChildInv
  OBVIOUS
<1>1. PICK b \in Budgets, req \in Requests :
        ~Relaxes(b, req) /\ run = NewState(b) /\ child = NewState(derive_for_loop_budget(b, req))
  BY DEF LoopInit
<1>2. /\ b \in LoopBudgets /\ derive_for_loop_budget(b, req) \in LoopBudgets
      /\ Tighter(b, derive_for_loop_budget(b, req))
  BY <1>1, DerivedBudget DEF Tighter
<1>3. /\ run.budget = b /\ run.halt = Healthy /\ run.last = 0 /\ run.tripped = 0 /\ run.window = <<>>
      /\ run.costs = <<>> /\ run.idle = 0 /\ run.accel = 0
  BY <1>1, <1>2, NewDetector
<1>4. /\ child.budget = derive_for_loop_budget(b, req) /\ child.halt = Healthy /\ child.last = 0
      /\ child.tripped = 0 /\ child.window = <<>> /\ child.costs = <<>> /\ child.idle = 0
      /\ child.accel = 0
  BY <1>1, <1>2, NewDetector
<1> QED BY <1>2, <1>3, <1>4 DEF ChildInv, Twins

\* Two signals that are active together kill a run, a Warn profile stops nothing
\* (detector.rs:189 and :211), and a child whose window was not shortened trips no
\* later than the run its budget comes from (budget.rs:70).
THEOREM LoopDetectorSound == LoopSpec => []DetectorSound
<1>1. LoopInv /\ ChildInv /\ [LoopNext]_loopVars => ChildInv'
  BY ChildInvStep
<1>2. LoopInv /\ ChildInv => DetectorSound
  <2> SUFFICES ASSUME LoopInv, ChildInv PROVE TwoSignalsKill /\ ChildTripsFirst
    BY DEF DetectorSound
  <2>1. TwoSignalsKill
    BY DEF LoopInv, DetectorOK, TwoSignalsKill
  <2>2. ChildTripsFirst
    BY DEF ChildInv, Twins, ChildTripsFirst
  <2> QED BY <2>1, <2>2
<1> QED BY <1>1, <1>2, LoopInvariant, ChildInvInit, PTL DEF LoopSpec

-----------------------------------------------------------------------------
(* The detector's window *)

\* What was recorded, oldest first, and nothing after the detector's last turn.
SeenInv ==
  /\ seen \in Seq(LoopEntries)
  /\ \A i \in 1..Len(seen) :
       seen[i].turn <= run.last /\ \A j \in 1..i : seen[j].turn <= seen[i].turn
  /\ WindowIsRecent

\* Evicting by the next call's turn and recording that call leaves the calls of
\* the window that ends with it.
LEMMA WindowMoves ==
  ASSUME SeenInv, DetectorOK(run), NEW call \in CallKinds, NEW turn \in Nat, turn >= run.last
  PROVE  LET new == [call |-> call, turn |-> turn]
             more == Append(seen, new)
             moved == Append(Evict(run.window, run.budget.span, turn), new)
         IN \E k \in 0..Len(more) :
              /\ moved = SubSeq(more, k + 1, Len(more))
              /\ \A i \in 1..Len(more) :
                   i > k <=> i = Len(more) \/ more[Len(more)].turn - more[i].turn < run.budget.span
<1> DEFINE new == [call |-> call, turn |-> turn]
           more == Append(seen, new)
           span == run.budget.span
           moved == Append(Evict(run.window, span, turn), new)
           L == Len(seen)
<1>0. /\ seen \in Seq(LoopEntries) /\ L \in Nat /\ span \in Nat /\ run.last \in Nat
      /\ new \in LoopEntries /\ new.turn = turn /\ run.window \in Seq(LoopEntries)
  BY LenProperties DEF SeenInv, DetectorOK, Detectors, LoopBudgets, LoopEntries
<1>1. PICK k \in 0..L :
        /\ run.window = SubSeq(seen, k + 1, L)
        /\ \A i \in 1..L : i > k <=> i = L \/ seen[L].turn - seen[i].turn < span
  BY DEF SeenInv, WindowIsRecent
<1>2. /\ Len(run.window) = L - k /\ \A i \in 1..(L - k) : run.window[i] = seen[k + i]
  BY <1>0, <1>1, DropPrefix
<1>3. PICK g \in 0..Len(run.window) :
        /\ Evict(run.window, span, turn) = SubSeq(run.window, g + 1, Len(run.window))
        /\ \A i \in 1..g : turn - run.window[i].turn >= span
        /\ g < Len(run.window) => turn - run.window[g + 1].turn < span
  BY <1>0, EvictPrefix
<1>4. /\ k \in Nat /\ g \in Nat /\ k + g \in 0..L /\ g \in 0..(L - k) /\ k + g \in 0..Len(more)
      /\ Len(more) = L + 1 /\ more[L + 1] = new /\ \A i \in 1..L : more[i] = seen[i]
  BY <1>0, <1>2, AppendProperties
<1>5. Evict(run.window, span, turn) = SubSeq(seen, (k + g) + 1, L)
  BY <1>0, <1>1, <1>3, <1>4, DropTwice
<1>6. moved = SubSeq(more, (k + g) + 1, Len(more))
  BY <1>0, <1>4, <1>5, DropAppend
<1>7. ASSUME NEW i \in 1..Len(more)
      PROVE  i > k + g <=> i = Len(more) \/ more[Len(more)].turn - more[i].turn < span
  <2>1. CASE i = L + 1
    BY <2>1, <1>4, <1>0
  <2>2. CASE i \in 1..L
    <3>1. more[i] = seen[i] /\ more[Len(more)].turn = turn /\ i # Len(more)
      BY <2>2, <1>0, <1>4
    <3>2. seen[i].turn \in Nat /\ seen[L].turn \in Nat /\ seen[L].turn <= turn /\ seen[i].turn <= turn
      <4>1. L \in 1..L /\ seen[i] \in LoopEntries /\ seen[L] \in LoopEntries
        BY <2>2, <1>0, ElementOfSeq
      <4>2. seen[i].turn \in Nat /\ seen[L].turn \in Nat
        BY <4>1 DEF LoopEntries
      <4>3. seen[i].turn <= run.last /\ seen[L].turn <= run.last
        BY <4>1, <2>2 DEF SeenInv
      <4> QED BY <4>2, <4>3, <1>0
    <3>3. CASE i <= k
      <4>1. ~(seen[L].turn - seen[i].turn < span)
        BY <2>2, <3>3, <1>1, <1>4, <1>0
      <4>2. ~(turn - seen[i].turn < span)
        BY <4>1, <3>2, <1>0
      <4>3. ~(i > k + g)
        BY <3>3, <1>4, <2>2, <1>0
      <4> QED BY <4>2, <4>3, <3>1
    <3>4. CASE i > k /\ i <= k + g
      <4>1. i - k \in 1..g /\ i - k \in 1..(L - k) /\ k + (i - k) = i
        BY <3>4, <2>2, <1>4, <1>0
      <4>2. run.window[i - k] = seen[i]
        BY <4>1, <1>2
      <4>3. turn - seen[i].turn >= span
        BY <4>1, <4>2, <1>3
      <4>4. ~(turn - seen[i].turn < span) /\ ~(i > k + g)
        BY <4>3, <3>2, <3>4, <1>0, <1>4, <2>2
      <4> QED BY <4>4, <3>1
    <3>5. CASE i > k + g
      <4>1. g < L - k /\ g + 1 \in 1..(L - k) /\ k + (g + 1) \in 1..i
        BY <3>5, <2>2, <1>4, <1>0
      <4>2. turn - seen[k + (g + 1)].turn < span
        BY <4>1, <1>2, <1>3
      <4>3. seen[k + (g + 1)].turn <= seen[i].turn
        BY <4>1, <2>2 DEF SeenInv
      <4>4. seen[k + (g + 1)].turn \in Nat
        <5>1. k + (g + 1) \in 1..L
          BY <4>1, <2>2, <1>4, <1>0
        <5>2. seen[k + (g + 1)] \in LoopEntries
          BY <5>1, <1>0, ElementOfSeq
        <5> QED BY <5>2 DEF LoopEntries
      <4>5. turn - seen[i].turn < span
        <5> DEFINE a == seen[k + (g + 1)].turn
                   c == seen[i].turn
        <5>1. turn - a < span /\ a <= c /\ a \in Nat /\ c \in Nat
          BY <4>2, <4>3, <4>4, <3>2
        <5>2. span \in Nat
          BY <1>0
        <5> HIDE DEF a, c, span
        <5>3. turn - c < span
          BY <5>1, <5>2
        <5> QED BY <5>3 DEF c
      <4> QED BY <4>5, <3>1, <3>5
    <3> QED BY <3>3, <3>4, <3>5, <2>2, <1>4, <1>0
  <2> QED BY <2>1, <2>2, <1>4, <1>0
<1> QED BY <1>4, <1>6, <1>7

\* The window and the record of what was counted move together.
LEMMA SeenInvStep ==
  ASSUME LoopInv, SeenInv, [LoopNext]_loopVars
  PROVE  SeenInv'
<1>0. /\ turnNow \in Nat /\ turnNow >= 1 /\ Costs \subseteq Nat /\ DetectorOK(run) /\ run.last \in Nat
      /\ seen \in Seq(LoopEntries) /\ Len(seen) \in Nat
      /\ \A i \in 1..Len(seen) : seen[i].turn \in Nat
  <2>1. seen \in Seq(LoopEntries) /\ Len(seen) \in Nat /\ \A i \in 1..Len(seen) : seen[i] \in LoopEntries
    BY LenProperties, ElementOfSeq DEF SeenInv
  <2>2. \A i \in 1..Len(seen) : seen[i].turn \in Nat
    BY <2>1 DEF LoopEntries
  <2> QED BY <2>1, <2>2, LoopAssumption DEF LoopInv, DetectorOK, Detectors
<1>1. run'.budget = run.budget /\ run'.last \in Nat
  <2>1. run'.budget = run.budget /\ LoopInv'
    BY LoopInvStep
  <2> QED BY <2>1 DEF LoopInv, DetectorOK, Detectors
<1>2. ASSUME run'.window = run.window, seen' = seen, run.last <= run'.last PROVE SeenInv'
  <2>1. WindowIsRecent'
    BY <1>1, <1>2 DEF SeenInv, WindowIsRecent
  <2>2. \A i \in 1..Len(seen) : seen[i].turn <= run'.last /\ \A j \in 1..i : seen[j].turn <= seen[i].turn
    BY <1>0, <1>1, <1>2 DEF SeenInv
  <2> QED BY <1>0, <1>2, <2>1, <2>2 DEF SeenInv
<1>3. ASSUME NEW call \in CallKinds, NEW turn \in {turnNow, turnNow - 1} \ {0}, ToolCall(call, turn)
      PROVE  SeenInv'
  <2>1. turn \in Nat
    BY <1>0
  <2>2. /\ run' = observe_admission(run, call, turn)
        /\ seen' = IF Counts(run, call, turn) THEN Append(seen, [call |-> call, turn |-> turn]) ELSE seen
    BY <1>3 DEF ToolCall
  <2>3. /\ run.last <= run'.last /\ (Counts(run, call, turn) => run'.last = turn)
        /\ run'.window = IF Counts(run, call, turn)
                         THEN Append(Evict(run.window, run.budget.span, turn), [call |-> call, turn |-> turn])
                         ELSE run.window
    BY <2>1, <2>2, <1>0, CallKeeps
  <2>4. CASE ~Counts(run, call, turn)
    BY <2>2, <2>3, <2>4, <1>2
  <2>5. CASE Counts(run, call, turn)
    <3> DEFINE new == [call |-> call, turn |-> turn]
    <3>1. /\ seen' = Append(seen, new) /\ run'.last = turn
          /\ run'.window = Append(Evict(run.window, run.budget.span, turn), new)
      BY <2>2, <2>3, <2>5
    <3>2. turn >= run.last /\ new \in LoopEntries /\ new.turn = turn
      BY <2>5, <2>1 DEF Counts, LoopEntries
    <3>3. WindowIsRecent'
      <4> DEFINE more == Append(seen, new)
                 moved == Append(Evict(run.window, run.budget.span, turn), new)
      <4>1. \E k \in 0..Len(more) :
              /\ moved = SubSeq(more, k + 1, Len(more))
              /\ \A i \in 1..Len(more) :
                   i > k <=> i = Len(more) \/ more[Len(more)].turn - more[i].turn < run.budget.span
        BY <3>2, <2>1, <1>0, WindowMoves
      <4>2. seen' = more /\ run'.window = moved
        BY <3>1
      <4> HIDE DEF more, moved
      <4> QED BY <4>1, <4>2, <1>1 DEF WindowIsRecent
    <3>4. /\ seen' \in Seq(LoopEntries) /\ Len(seen') = Len(seen) + 1 /\ seen'[Len(seen) + 1] = new
          /\ \A i \in 1..Len(seen) : seen'[i] = seen[i]
      BY <3>1, <3>2, <1>0, AppendProperties
    <3>5. ASSUME NEW i \in 1..Len(seen')
          PROVE  seen'[i].turn <= run'.last /\ \A j \in 1..i : seen'[j].turn <= seen'[i].turn
      <4>1. CASE i = Len(seen) + 1
        <5>1. \A j \in 1..Len(seen) : seen[j].turn <= turn
          BY <1>0, <2>1, <3>2 DEF SeenInv
        <5>2. seen'[i].turn = turn
          BY <4>1, <3>4, <3>2
        <5>3. ASSUME NEW j \in 1..i PROVE seen'[j].turn <= turn
          <6>1. CASE j \in 1..Len(seen)
            BY <6>1, <5>1, <3>4
          <6>2. CASE j = Len(seen) + 1
            BY <6>2, <5>2, <4>1, <2>1
          <6> QED BY <6>1, <6>2, <4>1, <1>0
        <5> QED BY <5>2, <5>3, <3>1, <2>1
      <4>2. CASE i \in 1..Len(seen)
        <5>1. seen[i].turn <= run.last /\ \A j \in 1..i : seen[j].turn <= seen[i].turn
          BY <4>2 DEF SeenInv
        <5>2. \A j \in 1..i : j \in 1..Len(seen)
          BY <4>2, <1>0
        <5>3. seen[i].turn <= turn
          BY <5>1, <4>2, <1>0, <2>1, <3>2
        <5> QED BY <5>1, <5>2, <5>3, <4>2, <3>1, <3>4
      <4> QED BY <4>1, <4>2, <3>4, <1>0
    <3> QED BY <3>3, <3>4, <3>5 DEF SeenInv
  <2> QED BY <2>4, <2>5
<1>4. ASSUME NEW made \in BOOLEAN, NEW cost \in Costs, LoopTurnEnds(made, cost)
      PROVE  SeenInv'
  <2>1. cost \in Nat /\ run' = observe_turn(run, turnNow, made, cost) /\ seen' = seen
    BY <1>0, <1>4 DEF LoopTurnEnds
  <2>2. run'.window = run.window /\ run.last <= run'.last
    BY <2>1, <1>0, TurnKeeps, Zenon
  <2> QED BY <2>1, <2>2, <1>2
<1>5. CASE GraceChecked
  <2>1. run' = check_grace_expiry(run, turnNow) /\ seen' = seen
    BY <1>5 DEF GraceChecked
  <2>2. run'.window = run.window /\ run.last = run'.last
    BY <2>1, <1>0, GraceKeeps
  <2> QED BY <2>1, <2>2, <1>0, <1>2
<1>6. CASE Overridden
  <2>1. run' = override_halt(run) /\ seen' = seen
    BY <1>6 DEF Overridden
  <2>2. run'.window = run.window /\ run.last = run'.last
    BY <2>1, <1>0, OverrideKeeps
  <2> QED BY <2>1, <2>2, <1>0, <1>2
<1>7. CASE UNCHANGED loopVars
  <2>1. run' = run /\ seen' = seen
    BY <1>7 DEF loopVars
  <2> QED BY <2>1, <1>0, <1>2
<1> QED BY <1>3, <1>4, <1>5, <1>6, <1>7 DEF LoopNext

\* Nothing has been seen and the window is empty.
LEMMA SeenInvInit == LoopInit => SeenInv
<1> SUFFICES ASSUME LoopInit PROVE SeenInv
  OBVIOUS
<1>1. PICK b \in Budgets, req \in Requests :
        ~Relaxes(b, req) /\ run = NewState(b) /\ child = NewState(derive_for_loop_budget(b, req))
  BY DEF LoopInit
<1>2. run.window = <<>> /\ seen = <<>>
  BY <1>1, DerivedBudget, NewDetector DEF LoopInit
<1>3. SubSeq(<<>>, 1, 0) = <<>> /\ Len(<<>>) = 0 /\ <<>> \in Seq(LoopEntries) /\ 1..0 = {}
  OBVIOUS
<1>4. WindowIsRecent
  <2>1. 0 \in 0..Len(seen) /\ run.window = SubSeq(seen, 0 + 1, Len(seen)) /\ 1..Len(seen) = {}
    BY <1>2, <1>3
  <2> QED BY <2>1 DEF WindowIsRecent
<1> QED BY <1>2, <1>3, <1>4 DEF SeenInv

\* The detectors keep their types, and the window holds exactly the counted calls
\* of the last span turns (detector.rs:288).
THEOREM LoopTypesAndWindow == LoopSpec => [](LoopTypeOK /\ WindowIsRecent)
<1>1. LoopInv /\ SeenInv /\ [LoopNext]_loopVars => SeenInv'
  BY SeenInvStep
<1>2. LoopInv /\ SeenInv => LoopTypeOK /\ WindowIsRecent
  <2> SUFFICES ASSUME LoopInv, SeenInv PROVE LoopTypeOK
    BY DEF SeenInv
  <2>1. ASSUME NEW d \in {run, child}
        PROVE  /\ d.halt.is \in {"Healthy", "Detected", "Halted", "Killed"}
               /\ d.trips \subseteq Signals /\ Len(d.costs) <= 4
               /\ d.last \in 0..MaxLoopTurns + 1 /\ d.halt.since \in 0..MaxLoopTurns + 1
    <3>1. DetectorOK(d) /\ d.last <= turnNow /\ d.halt.since <= turnNow /\ turnNow \in 1..MaxLoopTurns + 1
      BY DEF LoopInv, InTime
    <3>2. d.last \in Nat /\ d.halt.since \in Nat /\ d.trips \subseteq Signals /\ Len(d.costs) <= 4
          /\ d.halt.is \in {"Healthy", "Detected", "Halted", "Killed"}
      BY <3>1 DEF DetectorOK, Detectors, Halts
    <3> QED BY <3>1, <3>2, LoopAssumption
  <2> QED BY <2>1 DEF LoopTypeOK, LoopInv
<1> QED BY <1>1, <1>2, LoopInvariant, SeenInvInit, PTL DEF LoopSpec

-----------------------------------------------------------------------------
(* RoomSend *)

\* A nonce goes with a message wherever the two are written down together.
Uses(n, m) ==
  \/ \E r \in wire : r.nonce = n /\ r.msg = m
  \/ \E a \in admitted : a.nonce = n /\ a.msg = m
  \/ pending # Unsaved /\ pending.nonce = n /\ pending.msg = m
  \/ \E s \in Sends : Waiting(s) /\ sendNonce[s] = n /\ sendMsg[s] = m

\* A nonce means one message, and an invocation that has not begun made none.
NonceInv ==
  \A n \in Sends : \A m \in RoomMessages : Uses(n, m) =>
    /\ sendPc[n] # "idle"
    /\ \A other \in RoomMessages : Uses(n, other) => other = m

\* What an invocation and its request say of each other; no home is ahead.
SendsInv ==
  /\ paired \in 0..MaxPairings /\ sendHome \in [Sends -> 0..MaxPairings]
  /\ completed \in [RoomMessages -> Nat] /\ IsFiniteSet(admitted)
  /\ \A a \in admitted : a.home <= paired
  /\ \A r \in wire :
       /\ r.home <= paired /\ sendPc[r.send] # "idle"
       /\ Waiting(r.send) => /\ r.nonce = sendNonce[r.send] /\ r.msg = sendMsg[r.send]
                             /\ r.home = sendHome[r.send]
  /\ \A s \in Sends :
       /\ IF Waiting(s) THEN sendMsg[s] \in RoomMessages ELSE reply[s] = "none"
       /\ sendPc[s] = "idle" => sendNonce[s] = s

OnIt(s, m) == Waiting(s) /\ sendMsg[s] = m

\* The nonce a retry of the message would carry, or carries.
Live(m) ==
  {n \in Sends : \/ \E s \in Sends : OnIt(s, m) /\ sendNonce[s] = n
                 \/ pending # Unsaved /\ pending.msg = m /\ pending.nonce = n}
Closed(m) == {a \in Started(m) : a.nonce \notin Live(m)}

OneLive(m) ==
  /\ \A s, t \in Sends : OnIt(s, m) /\ OnIt(t, m) => s = t
  /\ \A n1, n2 \in Live(m) : n1 = n2
AtHome(m) ==
  \A s \in Sends : OnIt(s, m) =>
    /\ sendHome[s] = paired
    /\ reply[s] = "admitted" => \E a \in Started(m) : a.nonce = sendNonce[s]
WireKnown(m) ==
  \A r \in wire : r.home = paired /\ r.msg = m =>
    r.nonce \in Live(m) \/ \E a \in Started(m) : a.nonce = r.nonce
CompletedExact(m) == completed[m] = Cardinality(Closed(m))

MessageInv(m) == OneLive(m) /\ AtHome(m) /\ WireKnown(m) /\ CompletedExact(m)

RoomInv ==
  RoomTypeOK /\ SendsInv /\ NonceInv /\ \A m \in RoomMessages \ forfeited : MessageInv(m)

\* What an invocation was doing is known from its records.
LEMMA PendingFields ==
  ASSUME RoomTypeOK, pending # Unsaved
  PROVE  pending \in [msg : RoomMessages, nonce : Sends] /\ pending.msg \in RoomMessages
         /\ pending.nonce \in Sends
BY DEF RoomTypeOK

\* A nonce is one of the record or the invocation's own.
LEMMA NonceForType ==
  ASSUME RoomTypeOK, NEW s \in Sends, NEW m
  PROVE  NonceFor(s, m) \in Sends
BY PendingFields DEF NonceFor

-----------------------------------------------------------------------------
(* Types and positions *)

\* A send under way: its nonce, and its request beside the others.
LEMMA LoadAndSendFacts ==
  ASSUME RoomTypeOK, SendsInv, NEW s \in Sends, NEW m \in RoomMessages, LoadAndSend(s, m)
  PROVE  /\ sendPc[s] = "idle"
         /\ sendPc' = [sendPc EXCEPT ![s] = "waiting"] /\ sendMsg' = [sendMsg EXCEPT ![s] = m]
         /\ sendHome' = [sendHome EXCEPT ![s] = paired]
         /\ sendNonce'[s] \in {s, NonceFor(s, m)} /\ sendNonce'[s] \in Sends
         /\ sendNonce' \in [Sends -> Sends]
         /\ \A t \in Sends : t # s => sendNonce'[t] = sendNonce[t]
         /\ m \notin forfeited' => sendNonce'[s] = NonceFor(s, m)
         /\ wire' = wire \cup {[send |-> s, home |-> paired, nonce |-> sendNonce'[s], msg |-> m]}
         /\ storeFaults' \in 0..MaxStoreFaults
         /\ forfeited' \in {forfeited, forfeited \cup {m}}
         /\ m \notin forfeited' => \A t \in Sends : ~OnIt(t, m)
         /\ UNCHANGED <<pending, reply, paired, admitted, completed>>
<1>1. sendNonce \in [Sends -> Sends] /\ storeFaults \in 0..MaxStoreFaults /\ sendNonce[s] = s
      /\ MaxStoreFaults \in Nat
  BY RoomSendAssumption DEF RoomTypeOK, SendsInv, LoadAndSend
<1>2. NonceFor(s, m) \in Sends
  BY NonceForType
<1>3. \/ storeFaults' = storeFaults /\ sendNonce' = [sendNonce EXCEPT ![s] = NonceFor(s, m)]
      \/ storeFaults < MaxStoreFaults /\ storeFaults' = storeFaults + 1 /\ sendNonce' = sendNonce
  BY DEF LoadAndSend, StoreWorks, StoreFault
<1>4. forfeited' = IF storeFaults' # storeFaults \/ \E t \in Sends : Waiting(t) /\ sendMsg[t] = m
                   THEN forfeited \cup {m} ELSE forfeited
  BY DEF LoadAndSend
<1>5. /\ sendNonce'[s] \in {s, NonceFor(s, m)} /\ sendNonce' \in [Sends -> Sends]
      /\ \A t \in Sends : t # s => sendNonce'[t] = sendNonce[t]
      /\ storeFaults' = storeFaults => sendNonce'[s] = NonceFor(s, m)
      /\ storeFaults' \in 0..MaxStoreFaults
  BY <1>1, <1>2, <1>3
<1> QED BY <1>2, <1>4, <1>5 DEF LoadAndSend, OnIt

\* What an invocation that ends leaves behind.
LEMMA EndsFacts ==
  ASSUME RoomTypeOK, SendsInv, NEW s \in Sends, Waiting(s), Ends(s)
  PROVE  /\ sendPc' \in [Sends -> {"idle", "waiting", "done"}]
         /\ sendMsg' \in [Sends -> RoomMessages \cup {NoMessage}] /\ sendNonce' \in [Sends -> Sends]
         /\ sendHome' \in [Sends -> 0..MaxPairings]
         /\ reply' \in [Sends -> {"none", "admitted", "refused"}]
         /\ sendPc'[s] = "done" /\ reply'[s] = "none" /\ ~Waiting(s)'
         /\ sendMsg[s] \in RoomMessages /\ sendNonce[s] \in Sends
         /\ \A t \in Sends : t # s =>
              /\ sendPc'[t] = sendPc[t] /\ sendMsg'[t] = sendMsg[t] /\ sendNonce'[t] = sendNonce[t]
              /\ sendHome'[t] = sendHome[t] /\ reply'[t] = reply[t]
         /\ \A t \in Sends : sendPc'[t] = "idle" <=> sendPc[t] = "idle"
<1>1. 0 \in 0..MaxPairings
  BY RoomSendAssumption
<1> QED BY <1>1 DEF RoomTypeOK, SendsInv, Ends, Waiting

\* When one ends, what the invocations and the requests say of each other stays.
LEMMA EndsKeeps ==
  ASSUME RoomTypeOK, SendsInv, NEW s \in Sends, Waiting(s), Ends(s),
         wire' = wire, paired' = paired, admitted' = admitted,
         completed' \in [RoomMessages -> Nat]
  PROVE  SendsInv'
<1>1. \A r \in wire : r.send \in Sends
  BY DEF RoomTypeOK
<1>2. \A t \in Sends : Waiting(t)' => t # s /\ Waiting(t)
  BY EndsFacts DEF Waiting
<1>3. \A r \in wire' :
       /\ r.home <= paired' /\ sendPc'[r.send] # "idle"
       /\ Waiting(r.send)' => /\ r.nonce = sendNonce'[r.send] /\ r.msg = sendMsg'[r.send]
                              /\ r.home = sendHome'[r.send]
  BY <1>1, <1>2, EndsFacts DEF SendsInv
<1>4. \A t \in Sends :
       /\ IF Waiting(t)' THEN sendMsg'[t] \in RoomMessages ELSE reply'[t] = "none"
       /\ sendPc'[t] = "idle" => sendNonce'[t] = t
  BY EndsFacts DEF SendsInv, Waiting
<1> QED BY <1>3, <1>4, EndsFacts DEF SendsInv

\* Every step keeps the types and what the invocations and requests say.
LEMMA RoomTypesStep ==
  ASSUME RoomTypeOK, SendsInv, [RoomNext]_roomVars
  PROVE  RoomTypeOK' /\ SendsInv' /\ forfeited \subseteq forfeited'
<1>0. MaxStoreFaults \in Nat /\ MaxPairings \in Nat /\ storeFaults \in 0..MaxStoreFaults
      /\ paired \in 0..MaxPairings
  BY RoomSendAssumption DEF RoomTypeOK, SendsInv
<1>1. ASSUME NEW s \in Sends, NEW m \in RoomMessages, LoadAndSend(s, m)
      PROVE  RoomTypeOK' /\ SendsInv' /\ forfeited \subseteq forfeited'
  <2> DEFINE new == [send |-> s, home |-> paired, nonce |-> sendNonce'[s], msg |-> m]
  <2>1. /\ new \in [send : Sends, home : 0..MaxPairings, nonce : Sends, msg : RoomMessages]
        /\ new.send = s /\ new.home = paired /\ new.nonce = sendNonce'[s] /\ new.msg = m
    BY <1>0, <1>1, LoadAndSendFacts
  <2>2. wire' = wire \cup {new}
    BY <1>1, LoadAndSendFacts
  <2> HIDE DEF new
  <2>3. RoomTypeOK'
    BY <1>1, <2>1, <2>2, LoadAndSendFacts DEF RoomTypeOK
  <2>4. \A t \in Sends : Waiting(t)' <=> t = s \/ Waiting(t)
    BY <1>1, LoadAndSendFacts DEF Waiting, RoomTypeOK
  <2>5. sendPc[s] = "idle" /\ sendPc'[s] = "waiting" /\ sendMsg'[s] = m /\ sendHome'[s] = paired
    BY <1>1, LoadAndSendFacts DEF RoomTypeOK, SendsInv
  <2>6. \A t \in Sends : t # s => /\ sendPc'[t] = sendPc[t] /\ sendMsg'[t] = sendMsg[t]
                                  /\ sendHome'[t] = sendHome[t] /\ sendNonce'[t] = sendNonce[t]
    BY <1>1, LoadAndSendFacts DEF RoomTypeOK, SendsInv
  <2>7. \A r \in wire : r.send \in Sends /\ r.send # s
    BY <2>5 DEF RoomTypeOK, SendsInv
  <2>8. \A r \in wire' :
       /\ r.home <= paired' /\ sendPc'[r.send] # "idle"
       /\ Waiting(r.send)' => /\ r.nonce = sendNonce'[r.send] /\ r.msg = sendMsg'[r.send]
                              /\ r.home = sendHome'[r.send]
    <3>1. ASSUME NEW r \in wire
          PROVE  /\ r.home <= paired' /\ sendPc'[r.send] # "idle"
                 /\ Waiting(r.send)' => /\ r.nonce = sendNonce'[r.send] /\ r.msg = sendMsg'[r.send]
                                        /\ r.home = sendHome'[r.send]
      BY <1>1, <2>4, <2>6, <2>7, LoadAndSendFacts DEF SendsInv
    <3>2. paired' = paired /\ paired <= paired
      BY <1>0, <1>1, LoadAndSendFacts
    <3> QED BY <2>1, <2>2, <2>5, <3>1, <3>2
  <2>9. \A t \in Sends :
       /\ IF Waiting(t)' THEN sendMsg'[t] \in RoomMessages ELSE reply'[t] = "none"
       /\ sendPc'[t] = "idle" => sendNonce'[t] = t
    BY <1>1, <2>4, <2>5, <2>6, LoadAndSendFacts DEF SendsInv
  <2>10. sendHome' \in [Sends -> 0..MaxPairings]
    BY <1>0, <1>1, LoadAndSendFacts DEF SendsInv
  <2>11. paired' = paired /\ completed' = completed /\ admitted' = admitted
    BY <1>1, LoadAndSendFacts
  <2>12. SendsInv'
    BY <2>8, <2>9, <2>10, <2>11 DEF SendsInv
  <2> QED BY <1>1, <2>3, <2>12, LoadAndSendFacts
<1>2. ASSUME NEW s \in Sends, SendCompletes(s)
      PROVE  RoomTypeOK' /\ SendsInv' /\ forfeited \subseteq forfeited'
  <2>1. Waiting(s) /\ Ends(s) /\ wire' = wire /\ paired' = paired /\ admitted' = admitted
    BY <1>2 DEF SendCompletes
  <2>2. completed' \in [RoomMessages -> Nat]
    BY <1>2, <2>1 DEF SendCompletes, SendsInv
  <2>3. Displaced(sendMsg[s]) \subseteq RoomMessages /\ sendMsg[s] \in RoomMessages
    BY <2>1, EndsFacts, PendingFields DEF Displaced
  <2>4. /\ pending' \in {pending, Unsaved} /\ storeFaults' \in 0..MaxStoreFaults
        /\ forfeited \subseteq forfeited' /\ forfeited' \subseteq RoomMessages
    BY <1>0, <1>2, <2>3 DEF SendCompletes, StoreWorks, StoreFault, RoomTypeOK
  <2>5. RoomTypeOK'
    BY <2>1, <2>4, EndsFacts DEF RoomTypeOK
  <2> QED BY <2>1, <2>2, <2>4, <2>5, EndsKeeps
<1>3. ASSUME NEW s \in Sends, SendFails(s)
      PROVE  RoomTypeOK' /\ SendsInv' /\ forfeited \subseteq forfeited'
  <2> DEFINE new == [msg |-> sendMsg[s], nonce |-> sendNonce[s]]
  <2>1. /\ Waiting(s) /\ Ends(s) /\ wire' = wire /\ paired' = paired /\ admitted' = admitted
        /\ completed' = completed
    BY <1>3 DEF SendFails
  <2>2. completed' \in [RoomMessages -> Nat]
    BY <2>1 DEF SendsInv
  <2>3. Displaced(sendMsg[s]) \subseteq RoomMessages /\ sendMsg[s] \in RoomMessages
        /\ new \in [msg : RoomMessages, nonce : Sends]
    BY <2>1, EndsFacts, PendingFields DEF Displaced
  <2>4. pending' \in {pending, new}
    BY <1>3 DEF SendFails
  <2>5. /\ storeFaults' \in 0..MaxStoreFaults
        /\ forfeited \subseteq forfeited' /\ forfeited' \subseteq RoomMessages
    BY <1>0, <1>3, <2>3 DEF SendFails, StoreWorks, StoreFault, RoomTypeOK
  <2> HIDE DEF new
  <2>6. RoomTypeOK'
    BY <2>1, <2>3, <2>4, <2>5, EndsFacts DEF RoomTypeOK
  <2> QED BY <2>1, <2>2, <2>5, <2>6, EndsKeeps
<1>4. ASSUME NEW s \in Sends, SendKilled(s)
      PROVE  RoomTypeOK' /\ SendsInv' /\ forfeited \subseteq forfeited'
  <2>1. /\ Waiting(s) /\ Ends(s) /\ wire' = wire /\ paired' = paired /\ admitted' = admitted
        /\ completed' = completed /\ pending' = pending /\ storeFaults' = storeFaults
        /\ forfeited' = forfeited \cup {sendMsg[s]}
    BY <1>4 DEF SendKilled
  <2>2. completed' \in [RoomMessages -> Nat]
    BY <2>1 DEF SendsInv
  <2>3. RoomTypeOK'
    BY <2>1, EndsFacts DEF RoomTypeOK
  <2> QED BY <2>1, <2>2, <2>3, EndsKeeps
<1>5. ASSUME NEW req \in wire, HomeAnswers(req)
      PROVE  RoomTypeOK' /\ SendsInv' /\ forfeited \subseteq forfeited'
  <2> DEFINE new == [home |-> req.home, nonce |-> req.nonce, msg |-> req.msg]
  <2>1. /\ req.send \in Sends /\ req.home <= paired /\ new.home = req.home
        /\ new \in [home : 0..MaxPairings, nonce : Sends, msg : RoomMessages]
    BY DEF RoomTypeOK, SendsInv
  <2>2. /\ wire' = wire \ {req} /\ admitted' \in {admitted, admitted \cup {new}}
        /\ UNCHANGED <<pending, sendPc, sendMsg, sendNonce, sendHome, paired, completed, forfeited, storeFaults>>
    BY <1>5 DEF HomeAnswers, sendVars
  <2>3. PICK what \in {"admitted", "refused"} :
          reply' = [reply EXCEPT ![req.send] = IF Waiting(req.send) THEN what ELSE "none"]
    BY <1>5 DEF HomeAnswers
  <2> HIDE DEF new
  <2>4. reply' \in [Sends -> {"none", "admitted", "refused"}]
        /\ \A t \in Sends : ~Waiting(t) /\ reply[t] = "none" => reply'[t] = "none"
    BY <2>1, <2>3 DEF RoomTypeOK
  <2>5. IsFiniteSet(admitted')
    BY <2>2, FS_AddElement DEF SendsInv
  <2>6. RoomTypeOK'
    BY <2>1, <2>2, <2>4 DEF RoomTypeOK
  <2>7. SendsInv'
    BY <2>1, <2>2, <2>4, <2>5 DEF SendsInv, Waiting
  <2> QED BY <2>2, <2>6, <2>7
<1>6. ASSUME PairAgain
      PROVE  RoomTypeOK' /\ SendsInv' /\ forfeited \subseteq forfeited'
  <2>1. /\ paired' = paired + 1 /\ paired' \in 0..MaxPairings /\ pending' \in {pending, Unsaved}
        /\ storeFaults' \in 0..MaxStoreFaults /\ completed' = [m \in RoomMessages |-> 0]
        /\ forfeited' = forfeited \cup {sendMsg[s] : s \in {t \in Sends : Waiting(t)}}
        /\ UNCHANGED <<sendPc, sendMsg, sendNonce, sendHome, wire, reply, admitted>>
    BY <1>0, <1>6 DEF PairAgain, StoreWorks, StoreFault, sendVars
  <2>2. \A s \in Sends : Waiting(s) => sendMsg[s] \in RoomMessages
    BY DEF SendsInv
  <2>3. RoomTypeOK'
    BY <2>1, <2>2 DEF RoomTypeOK
  <2>4. \A h \in 0..MaxPairings : h <= paired => h <= paired'
    BY <1>0, <2>1
  <2>5. (\A r \in wire : r.home \in 0..MaxPairings) /\ (\A a \in admitted : a.home \in 0..MaxPairings)
    BY DEF RoomTypeOK
  <2>6. SendsInv'
    BY <2>1, <2>4, <2>5 DEF SendsInv, Waiting
  <2> QED BY <2>1, <2>3, <2>6
<1>7. ASSUME UNCHANGED roomVars
      PROVE  RoomTypeOK' /\ SendsInv' /\ forfeited \subseteq forfeited'
  BY <1>7 DEF roomVars, sendVars, RoomTypeOK, SendsInv, Waiting
<1> QED BY <1>1, <1>2, <1>3, <1>4, <1>5, <1>6, <1>7 DEF RoomNext

-----------------------------------------------------------------------------
(* A nonce means one message *)

\* A step that writes down no pair of nonce and message that was not written down.
LEMMA NonceFrame ==
  ASSUME NonceInv,
         \A n \in Sends : \A m \in RoomMessages : Uses(n, m)' => Uses(n, m),
         \A n \in Sends : sendPc'[n] = "idle" => sendPc[n] = "idle"
  PROVE  NonceInv'
BY DEF NonceInv

\* Every step keeps the meaning of the nonces: a new one is its maker's own.
LEMMA NonceStep ==
  ASSUME RoomTypeOK, SendsInv, NonceInv, [RoomNext]_roomVars
  PROVE  NonceInv'
<1>1. ASSUME NEW s \in Sends, NEW m \in RoomMessages, LoadAndSend(s, m)
      PROVE  NonceInv'
  <2> DEFINE new == [send |-> s, home |-> paired, nonce |-> sendNonce'[s], msg |-> m]
             k == sendNonce'[s]
  <2>1. /\ sendPc[s] = "idle" /\ k \in {s, NonceFor(s, m)} /\ k \in Sends
        /\ wire' = wire \cup {new} /\ pending' = pending /\ admitted' = admitted
    BY <1>1, LoadAndSendFacts
  <2>2. new.nonce = k /\ new.msg = m
    OBVIOUS
  <2>3. sendPc'[s] = "waiting" /\ sendMsg'[s] = m
    BY <1>1, LoadAndSendFacts DEF RoomTypeOK
  <2>4. \A t \in Sends : t # s => /\ sendPc'[t] = sendPc[t] /\ sendMsg'[t] = sendMsg[t]
                                  /\ sendNonce'[t] = sendNonce[t]
    BY <1>1, LoadAndSendFacts DEF RoomTypeOK
  <2> HIDE DEF new, k
  <2>5. \A n \in Sends : \A o \in RoomMessages : Uses(n, o)' => Uses(n, o) \/ (n = k /\ o = m)
    BY <2>1, <2>2, <2>3, <2>4 DEF Uses, Waiting, k
  <2>6. \A o \in RoomMessages : ~Uses(s, o)
    BY <2>1 DEF NonceInv
  <2>7. k = s \/ Uses(k, m)
    BY <2>1 DEF NonceFor, Uses
  <2>8. \A o \in RoomMessages : Uses(k, o) => o = m
    BY <2>1, <2>6, <2>7 DEF NonceInv
  <2>9. \A n \in Sends : sendPc'[n] = "idle" => sendPc[n] = "idle" /\ n # s
    BY <2>3, <2>4
  <2>10. sendPc'[k] # "idle"
    BY <2>1, <2>7, <2>9 DEF NonceInv
  <2> QED BY <2>5, <2>8, <2>9, <2>10 DEF NonceInv
<1>2. ASSUME NEW s \in Sends, SendCompletes(s) \/ SendKilled(s)
      PROVE  NonceInv'
  <2>1. /\ Waiting(s) /\ Ends(s) /\ wire' = wire /\ admitted' = admitted
        /\ pending' \in {pending, Unsaved}
    BY <1>2 DEF SendCompletes, SendKilled
  <2>2. \A t \in Sends : Waiting(t)' => t # s /\ Waiting(t)
    BY <2>1, EndsFacts DEF Waiting
  <2> QED BY <2>1, <2>2, EndsFacts, NonceFrame DEF Uses
<1>3. ASSUME NEW s \in Sends, SendFails(s)
      PROVE  NonceInv'
  <2> DEFINE new == [msg |-> sendMsg[s], nonce |-> sendNonce[s]]
  <2>1. Waiting(s) /\ Ends(s) /\ wire' = wire /\ admitted' = admitted /\ pending' \in {pending, new}
    BY <1>3 DEF SendFails
  <2>2. \A t \in Sends : Waiting(t)' => t # s /\ Waiting(t)
    BY <2>1, EndsFacts DEF Waiting
  <2>3. new.msg = sendMsg[s] /\ new.nonce = sendNonce[s]
    OBVIOUS
  <2> HIDE DEF new
  <2> QED BY <2>1, <2>2, <2>3, EndsFacts, NonceFrame DEF Uses
<1>4. ASSUME NEW req \in wire, HomeAnswers(req)
      PROVE  NonceInv'
  <2> DEFINE new == [home |-> req.home, nonce |-> req.nonce, msg |-> req.msg]
  <2>1. new.nonce = req.nonce /\ new.msg = req.msg
    OBVIOUS
  <2>2. /\ wire' = wire \ {req} /\ admitted' \in {admitted, admitted \cup {new}}
        /\ UNCHANGED <<pending, sendPc, sendMsg, sendNonce>>
    BY <1>4 DEF HomeAnswers, sendVars
  <2> HIDE DEF new
  <2> QED BY <2>1, <2>2, NonceFrame DEF Uses, Waiting
<1>5. ASSUME PairAgain
      PROVE  NonceInv'
  <2>1. pending' \in {pending, Unsaved} /\ UNCHANGED <<sendPc, sendMsg, sendNonce, wire, admitted>>
    BY <1>5 DEF PairAgain, sendVars
  <2> QED BY <2>1, NonceFrame DEF Uses, Waiting
<1>6. ASSUME UNCHANGED roomVars
      PROVE  NonceInv'
  BY <1>6 DEF roomVars, sendVars, NonceInv, Uses, Waiting
<1> QED BY <1>1, <1>2, <1>3, <1>4, <1>5, <1>6 DEF RoomNext

-----------------------------------------------------------------------------
(* One message *)

\* Steps that neither start, retry nor end the message keep what is known of it.
LEMMA MessageFrame ==
  ASSUME NEW m \in RoomMessages, MessageInv(m), paired' = paired,
         Live(m)' = Live(m), Started(m)' = Started(m), completed'[m] = completed[m],
         \A r \in wire' : r.home = paired /\ r.msg = m => r \in wire,
         \A s \in Sends : OnIt(s, m)' =>
           OnIt(s, m) /\ sendHome'[s] = sendHome[s] /\ sendNonce'[s] = sendNonce[s]
           /\ (reply'[s] = "admitted" =>
                 reply[s] = "admitted" \/ \E a \in Started(m) : a.nonce = sendNonce[s])
  PROVE  MessageInv(m)'
<1>1. OneLive(m)'
  BY DEF MessageInv, OneLive
<1>2. AtHome(m)'
  BY DEF MessageInv, AtHome
<1>3. WireKnown(m)'
  BY DEF MessageInv, WireKnown
<1>4. CompletedExact(m)'
  <2>1. Closed(m)' = Closed(m)
    BY DEF Closed
  <2> QED BY <2>1 DEF MessageInv, CompletedExact
<1> QED BY <1>1, <1>2, <1>3, <1>4 DEF MessageInv

\* An invocation takes the message up: with the nonce on record, or with its own.
LEMMA MessageSent ==
  ASSUME RoomInv, NEW s \in Sends, NEW m \in RoomMessages, LoadAndSend(s, m),
         m \notin forfeited'
  PROVE  MessageInv(m)'
<1>0. RoomTypeOK /\ SendsInv /\ NonceInv /\ MessageInv(m)
  BY RoomTypesStep DEF RoomInv, RoomNext
<1> DEFINE new == [send |-> s, home |-> paired, nonce |-> sendNonce'[s], msg |-> m]
           k == sendNonce'[s]
<1>1. /\ sendPc[s] = "idle" /\ k = NonceFor(s, m) /\ k \in Sends
      /\ wire' = wire \cup {new}
      /\ UNCHANGED <<pending, reply, paired, admitted, completed>>
      /\ \A t \in Sends : ~OnIt(t, m)
  BY <1>0, LoadAndSendFacts
<1>2. new.nonce = k /\ new.msg = m
  OBVIOUS
<1>3. sendPc'[s] = "waiting" /\ sendMsg'[s] = m /\ sendHome'[s] = paired
  BY <1>0, LoadAndSendFacts DEF RoomTypeOK, SendsInv
<1>4. \A t \in Sends : t # s => /\ sendPc'[t] = sendPc[t] /\ sendMsg'[t] = sendMsg[t]
                                /\ sendNonce'[t] = sendNonce[t]
  BY <1>0, LoadAndSendFacts DEF RoomTypeOK
<1>5. reply'[s] = "none"
  BY <1>0, <1>1 DEF SendsInv, Waiting
<1> HIDE DEF new, k
<1>6. \A t \in Sends : OnIt(t, m)' <=> t = s
  BY <1>1, <1>3, <1>4 DEF OnIt, Waiting
<1>7. Live(m)' = {k} /\ Live(m) \subseteq {k}
  BY <1>1, <1>6, PendingFields, <1>0 DEF Live, NonceFor, k
<1>8. Started(m)' = Started(m)
  BY <1>1 DEF Started
<1>9. Closed(m)' = Closed(m)
  <2>1. CASE Live(m) = {k}
    BY <1>7, <1>8, <2>1 DEF Closed
  <2>2. CASE Live(m) = {}
    <3>1. k = s
      <4>1. ~(pending # Unsaved /\ pending.msg = m)
        BY <1>0, <2>2, PendingFields DEF Live
      <4> QED BY <1>1, <4>1 DEF NonceFor
    <3>2. \A a \in Started(m) : a.nonce # s
      BY <1>0, <1>1 DEF Started, NonceInv, Uses
    <3> QED BY <1>7, <1>8, <2>2, <3>1, <3>2 DEF Closed
  <2> QED BY <1>7, <2>1, <2>2
<1>10. OneLive(m)'
  BY <1>6, <1>7 DEF OneLive
<1>11. AtHome(m)'
  BY <1>1, <1>3, <1>5, <1>6 DEF AtHome
<1>12. WireKnown(m)'
  BY <1>0, <1>1, <1>2, <1>7, <1>8 DEF WireKnown, MessageInv
<1>13. CompletedExact(m)'
  BY <1>0, <1>1, <1>9 DEF CompletedExact, MessageInv
<1> QED BY <1>10, <1>11, <1>12, <1>13 DEF MessageInv

\* The home starts a message, or knows it: what it starts is the one nonce a retry
\* would carry.
LEMMA MessageAnswered ==
  ASSUME RoomInv, NEW req \in wire, HomeAnswers(req), NEW m \in RoomMessages \ forfeited'
  PROVE  MessageInv(m)'
<1>0. RoomTypeOK /\ SendsInv /\ NonceInv /\ MessageInv(m) /\ m \in RoomMessages
  BY RoomTypesStep DEF RoomInv, RoomNext
<1> DEFINE new == [home |-> req.home, nonce |-> req.nonce, msg |-> req.msg]
           same == {a \in admitted : a.home = req.home /\ a.nonce = req.nonce}
<1>1. /\ req.send \in Sends /\ req.nonce \in Sends /\ req.msg \in RoomMessages
      /\ new.home = req.home /\ new.nonce = req.nonce /\ new.msg = req.msg
  BY <1>0 DEF RoomTypeOK
<1>2. /\ wire' = wire \ {req}
      /\ UNCHANGED <<pending, sendPc, sendMsg, sendNonce, sendHome, paired, completed, forfeited, storeFaults>>
  BY DEF HomeAnswers, sendVars
<1>3. \/ /\ admitted' = IF same # {} THEN admitted ELSE admitted \cup {new}
         /\ reply' = [reply EXCEPT ![req.send] = IF Waiting(req.send) THEN "admitted" ELSE "none"]
      \/ /\ same = {} /\ admitted' = admitted
         /\ reply' = [reply EXCEPT ![req.send] = IF Waiting(req.send) THEN "refused" ELSE "none"]
  BY DEF HomeAnswers
<1>4. Live(m)' = Live(m)
  BY <1>2 DEF Live, OnIt, Waiting
<1>5. \A t \in Sends : OnIt(t, m)' <=> OnIt(t, m)
  BY <1>2 DEF OnIt, Waiting
<1>6. \A a \in same : a.msg = req.msg /\ a \in admitted /\ a.nonce = req.nonce /\ a.home = req.home
  BY <1>0, <1>1 DEF NonceInv, Uses, RoomTypeOK
<1>7. admitted \subseteq admitted'
  BY <1>3
<1>8. Started(m) \subseteq Started(m)' /\ Started(m)' \subseteq Started(m) \cup {new}
  BY <1>2, <1>3, <1>7 DEF Started
<1>9. ASSUME new \in Started(m)', new \notin Started(m)
      PROVE  new.nonce \in Live(m)
  <2>1. req.home = paired /\ req.msg = m /\ same = {}
    BY <1>1, <1>2, <1>3, <1>9 DEF Started
  <2>2. ~\E a \in Started(m) : a.nonce = req.nonce
    BY <2>1 DEF Started
  <2> QED BY <1>0, <1>1, <2>1, <2>2 DEF MessageInv, WireKnown
<1>10. Closed(m)' = Closed(m)
  BY <1>4, <1>8, <1>9 DEF Closed
<1>11. OneLive(m)'
  BY <1>0, <1>4, <1>5 DEF OneLive, MessageInv
<1>12. AtHome(m)'
  <2> SUFFICES ASSUME NEW s \in Sends, OnIt(s, m)
               PROVE  /\ sendHome[s] = paired
                      /\ reply'[s] = "admitted" => \E a \in Started(m)' : a.nonce = sendNonce[s]
    BY <1>2, <1>5 DEF AtHome
  <2>1. sendHome[s] = paired
        /\ (reply[s] = "admitted" => \E a \in Started(m) : a.nonce = sendNonce[s])
    BY <1>0 DEF MessageInv, AtHome
  <2>2. CASE s # req.send
    <3>1. reply'[s] = reply[s]
      BY <1>0, <1>1, <1>3, <2>2 DEF RoomTypeOK
    <3> QED BY <1>8, <2>1, <3>1
  <2>3. CASE s = req.send /\ reply'[s] = "admitted"
    <3>1. req.nonce = sendNonce[s] /\ req.msg = m /\ req.home = paired
      BY <1>0, <2>1, <2>3 DEF SendsInv, OnIt
    <3>2. admitted' = IF same # {} THEN admitted ELSE admitted \cup {new}
      BY <1>0, <1>1, <1>3, <2>3 DEF RoomTypeOK
    <3>3. \E a \in admitted' : a.msg = m /\ a.home = paired /\ a.nonce = sendNonce[s]
      BY <1>1, <1>6, <3>1, <3>2
    <3> QED BY <1>2, <2>1, <3>3 DEF Started
  <2> QED BY <2>1, <2>2, <2>3
<1>13. WireKnown(m)'
  BY <1>0, <1>2, <1>4, <1>8 DEF WireKnown, MessageInv
<1>14. CompletedExact(m)'
  BY <1>0, <1>2, <1>10 DEF CompletedExact, MessageInv
<1> QED BY <1>11, <1>12, <1>13, <1>14 DEF MessageInv

\* A response completes: the one started message that was not counted now is.
LEMMA MessageCompleted ==
  ASSUME RoomInv, NEW s \in Sends, SendCompletes(s), NEW m \in RoomMessages \ forfeited',
         sendMsg[s] = m
  PROVE  MessageInv(m)'
<1>0. RoomTypeOK /\ SendsInv /\ NonceInv /\ MessageInv(m) /\ m \in RoomMessages
  BY RoomTypesStep DEF RoomInv, RoomNext
<1>1. /\ Waiting(s) /\ reply[s] = "admitted" /\ Ends(s) /\ OnIt(s, m)
      /\ wire' = wire /\ paired' = paired /\ admitted' = admitted
  BY DEF SendCompletes, OnIt
<1>2. sendHome[s] = paired /\ \E a \in Started(m) : a.nonce = sendNonce[s]
  BY <1>0, <1>1 DEF MessageInv, AtHome
<1>3. completed[m] \in Nat /\ completed'[m] = completed[m] + 1
  BY <1>0, <1>2 DEF SendCompletes, SendsInv
<1>4. ~(pending' # Unsaved /\ pending'.msg = m)
  BY DEF SendCompletes
<1>5. \A t \in Sends : ~OnIt(t, m)'
  <2>1. \A t \in Sends : OnIt(t, m) => t = s
    BY <1>0, <1>1 DEF MessageInv, OneLive
  <2> QED BY <1>0, <1>1, <2>1, EndsFacts DEF OnIt, Waiting
<1>6. Live(m)' = {}
  BY <1>4, <1>5 DEF Live
<1>7. Started(m)' = Started(m)
  BY <1>1 DEF Started
<1>8. \A n \in Live(m) : n = sendNonce[s]
  BY <1>0, <1>1, EndsFacts DEF MessageInv, OneLive, Live
<1>9. sendNonce[s] \in Live(m)
  BY <1>0, <1>1, EndsFacts DEF Live
<1>10. PICK a \in Started(m) : a.nonce = sendNonce[s]
  BY <1>2
<1>11. \A b \in Started(m) : b.nonce = sendNonce[s] => b = a
  <2>1. \A b \in Started(m) : b = [home |-> b.home, nonce |-> b.nonce, msg |-> b.msg]
                              /\ b.home = paired /\ b.msg = m
    BY <1>0 DEF Started, RoomTypeOK
  <2> QED BY <1>10, <2>1
<1>12. Closed(m)' = Closed(m) \cup {a} /\ a \notin Closed(m)
  BY <1>6, <1>7, <1>8, <1>9, <1>10, <1>11 DEF Closed
<1>13. IsFiniteSet(Closed(m))
  BY <1>0, FS_Subset DEF SendsInv, Closed, Started
<1>14. CompletedExact(m)'
  <2>1. Cardinality(Closed(m) \cup {a}) = Cardinality(Closed(m)) + 1
    BY <1>12, <1>13, FS_AddElement
  <2>2. completed[m] = Cardinality(Closed(m))
    BY <1>0 DEF CompletedExact, MessageInv
  <2>3. Cardinality(Closed(m)') = completed[m] + 1
    BY <1>12, <2>1, <2>2
  <2> QED BY <1>3, <2>3 DEF CompletedExact
<1>15. WireKnown(m)'
  BY <1>0, <1>1, <1>7, <1>8, <1>10 DEF WireKnown, MessageInv
<1>16. OneLive(m)' /\ AtHome(m)'
  BY <1>5, <1>6 DEF OneLive, AtHome
<1> QED BY <1>14, <1>15, <1>16 DEF MessageInv

\* A send ends without a response: its nonce is on record for the next.
LEMMA MessageKept ==
  ASSUME RoomInv, NEW s \in Sends, SendFails(s), NEW m \in RoomMessages \ forfeited',
         sendMsg[s] = m
  PROVE  MessageInv(m)'
<1>0. RoomTypeOK /\ SendsInv /\ NonceInv /\ MessageInv(m) /\ m \in RoomMessages
  BY RoomTypesStep DEF RoomInv, RoomNext
<1>1. /\ Waiting(s) /\ Ends(s) /\ OnIt(s, m) /\ wire' = wire /\ paired' = paired
      /\ admitted' = admitted /\ completed' = completed
      /\ pending' = [msg |-> m, nonce |-> sendNonce[s]]
  BY DEF SendFails, OnIt
<1>2. pending' # Unsaved /\ pending'.msg = m /\ pending'.nonce = sendNonce[s] /\ sendNonce[s] \in Sends
  BY <1>0, <1>1, EndsFacts, RoomSendAssumption
<1>3. \A t \in Sends : OnIt(t, m) => t = s
  BY <1>0, <1>1 DEF MessageInv, OneLive
<1>4. \A t \in Sends : ~OnIt(t, m)'
  BY <1>0, <1>1, <1>3, EndsFacts DEF OnIt, Waiting
<1>5. Live(m)' = {sendNonce[s]}
  BY <1>2, <1>4 DEF Live
<1>6. sendNonce[s] \in Live(m)
  BY <1>1, <1>2 DEF Live
<1>7. Live(m) = {sendNonce[s]}
  BY <1>0, <1>6 DEF MessageInv, OneLive
<1>8. Started(m)' = Started(m)
  BY <1>1 DEF Started
<1> QED BY <1>0, <1>1, <1>4, <1>5, <1>7, <1>8, MessageFrame

\* A send of another message ends: it takes this one's record away only where that
\* gives its recovery up.
LEMMA MessageElsewhere ==
  ASSUME RoomInv, NEW s \in Sends, Waiting(s), Ends(s), NEW m \in RoomMessages,
         MessageInv(m), sendMsg[s] # m,
         wire' = wire, paired' = paired, admitted' = admitted, completed'[m] = completed[m],
         \/ pending' = pending
         \/ /\ pending # Unsaved => pending.msg # m
            /\ pending' # Unsaved => pending'.msg # m
  PROVE  MessageInv(m)'
<1>0. RoomTypeOK /\ SendsInv
  BY DEF RoomInv
<1>1. \A t \in Sends : OnIt(t, m)' <=> OnIt(t, m)
  BY <1>0, EndsFacts DEF OnIt, Waiting
<1>2. \A t \in Sends : OnIt(t, m) => /\ sendHome'[t] = sendHome[t] /\ sendNonce'[t] = sendNonce[t]
                                     /\ reply'[t] = reply[t]
  BY <1>0, EndsFacts DEF OnIt
<1>3. Live(m)' = Live(m)
  BY <1>1, <1>2 DEF Live
<1>4. Started(m)' = Started(m)
  BY DEF Started
<1> QED BY <1>1, <1>2, <1>3, <1>4, MessageFrame

\* A new pairing: the new home has started nothing and nobody waits for it.
LEMMA MessagePaired ==
  ASSUME RoomInv, PairAgain, NEW m \in RoomMessages \ forfeited'
  PROVE  MessageInv(m)'
<1>0. RoomTypeOK /\ SendsInv /\ NonceInv /\ MessageInv(m) /\ m \in RoomMessages
  BY RoomTypesStep DEF RoomInv, RoomNext
<1>1. /\ paired' = paired + 1 /\ paired \in Nat /\ pending' \in {pending, Unsaved}
      /\ completed'[m] = 0
      /\ forfeited' = forfeited \cup {sendMsg[s] : s \in {t \in Sends : Waiting(t)}}
      /\ UNCHANGED <<sendPc, sendMsg, sendNonce, sendHome, wire, reply, admitted>>
  BY <1>0 DEF PairAgain, sendVars, SendsInv
<1>2. \A t \in Sends : ~OnIt(t, m) /\ ~OnIt(t, m)'
  BY <1>1 DEF OnIt, Waiting
<1>3. \A n1, n2 \in Live(m)' : n1 = n2
  BY <1>1, <1>2 DEF Live
<1>4. (\A r \in wire : r.home # paired') /\ (\A a \in admitted : a.home # paired')
  <2>1. \A h \in 0..MaxPairings : h <= paired => h # paired'
    BY <1>1
  <2>2. (\A r \in wire : r.home \in 0..MaxPairings) /\ (\A a \in admitted : a.home \in 0..MaxPairings)
    BY <1>0 DEF RoomTypeOK
  <2> QED BY <1>0, <2>1, <2>2 DEF SendsInv
<1>5. Started(m)' = {}
  BY <1>1, <1>4 DEF Started
<1>6. Closed(m)' = {}
  BY <1>5 DEF Closed
<1>7. CompletedExact(m)'
  BY <1>1, <1>6, FS_EmptySet DEF CompletedExact
<1>8. OneLive(m)' /\ AtHome(m)'
  BY <1>2, <1>3 DEF OneLive, AtHome
<1>9. WireKnown(m)'
  BY <1>1, <1>4 DEF WireKnown
<1> QED BY <1>7, <1>8, <1>9 DEF MessageInv

\* Every step keeps what is known of a message whose recovery nothing gave up.
LEMMA MessageStep ==
  ASSUME RoomInv, [RoomNext]_roomVars, NEW m \in RoomMessages \ forfeited'
  PROVE  MessageInv(m)'
<1>0. RoomTypeOK /\ SendsInv /\ NonceInv /\ MessageInv(m) /\ m \in RoomMessages
  BY RoomTypesStep DEF RoomInv
<1>1. ASSUME NEW s \in Sends, NEW o \in RoomMessages, LoadAndSend(s, o)
      PROVE  MessageInv(m)'
  <2>1. CASE o = m
    BY <1>1, <2>1, MessageSent
  <2>2. CASE o # m
    <3> DEFINE new == [send |-> s, home |-> paired, nonce |-> sendNonce'[s], msg |-> o]
    <3>1. /\ sendPc[s] = "idle" /\ wire' = wire \cup {new}
          /\ UNCHANGED <<pending, reply, paired, admitted, completed>>
      BY <1>0, <1>1, LoadAndSendFacts
    <3>2. sendPc'[s] = "waiting" /\ sendMsg'[s] = o /\ new.msg = o
      BY <1>0, <1>1, LoadAndSendFacts DEF RoomTypeOK
    <3>3. \A t \in Sends : t # s =>
            /\ sendPc'[t] = sendPc[t] /\ sendMsg'[t] = sendMsg[t]
            /\ sendHome'[t] = sendHome[t] /\ sendNonce'[t] = sendNonce[t]
      BY <1>0, <1>1, LoadAndSendFacts DEF RoomTypeOK, SendsInv
    <3> HIDE DEF new
    <3>4. \A t \in Sends : OnIt(t, m)' <=> OnIt(t, m) /\ t # s
      BY <2>2, <3>1, <3>2, <3>3 DEF OnIt, Waiting
    <3>5. \A t \in Sends : OnIt(t, m) => t # s
      BY <3>1 DEF OnIt, Waiting
    <3>6. Live(m)' = Live(m)
      BY <3>1, <3>3, <3>4, <3>5 DEF Live
    <3>7. Started(m)' = Started(m)
      BY <3>1 DEF Started
    <3> QED BY <1>0, <2>2, <3>1, <3>2, <3>3, <3>4, <3>6, <3>7, MessageFrame
  <2> QED BY <2>1, <2>2
<1>2. ASSUME NEW s \in Sends, SendCompletes(s)
      PROVE  MessageInv(m)'
  <2>1. CASE sendMsg[s] # m
    <3>1. /\ Waiting(s) /\ Ends(s) /\ wire' = wire /\ paired' = paired /\ admitted' = admitted
      BY <1>2 DEF SendCompletes
    <3>2. completed'[m] = completed[m]
      BY <1>0, <1>2, <2>1 DEF SendCompletes, SendsInv
    <3>3. \/ pending' = pending
          \/ pending' = Unsaved /\ forfeited' = forfeited \cup Displaced(sendMsg[s])
      BY <1>2 DEF SendCompletes
    <3>4. pending' = pending \/ (pending' = Unsaved /\ (pending # Unsaved => pending.msg # m))
      BY <2>1, <3>3 DEF Displaced
    <3> QED BY <1>0, <2>1, <3>1, <3>2, <3>4, MessageElsewhere
  <2> QED BY <1>2, <2>1, MessageCompleted
<1>3. ASSUME NEW s \in Sends, SendFails(s)
      PROVE  MessageInv(m)'
  <2>1. CASE sendMsg[s] # m
    <3>1. /\ Waiting(s) /\ Ends(s) /\ wire' = wire /\ paired' = paired /\ admitted' = admitted
          /\ completed' = completed
          /\ pending' = pending \/ pending' = [msg |-> sendMsg[s], nonce |-> sendNonce[s]]
          /\ Displaced(sendMsg[s]) \subseteq forfeited'
      BY <1>3 DEF SendFails
    <3>2. pending # Unsaved => pending.msg # m
      BY <2>1, <3>1 DEF Displaced
    <3>3. pending' = pending \/ pending'.msg # m
      BY <2>1, <3>1
    <3> QED BY <1>0, <2>1, <3>1, <3>2, <3>3, MessageElsewhere
  <2> QED BY <1>3, <2>1, MessageKept
<1>4. ASSUME NEW s \in Sends, SendKilled(s)
      PROVE  MessageInv(m)'
  <2>1. /\ Waiting(s) /\ Ends(s) /\ wire' = wire /\ paired' = paired /\ admitted' = admitted
        /\ completed' = completed /\ pending' = pending /\ sendMsg[s] # m
    BY <1>4 DEF SendKilled
  <2> QED BY <1>0, <2>1, MessageElsewhere
<1>5. ASSUME NEW req \in wire, HomeAnswers(req)
      PROVE  MessageInv(m)'
  BY <1>5, MessageAnswered
<1>6. ASSUME PairAgain
      PROVE  MessageInv(m)'
  BY <1>6, MessagePaired
<1>7. ASSUME UNCHANGED roomVars
      PROVE  MessageInv(m)'
  <2>1. Live(m)' = Live(m) /\ Started(m)' = Started(m)
    BY <1>7 DEF roomVars, sendVars, Live, Started, OnIt, Waiting
  <2> QED BY <1>0, <1>7, <2>1, MessageFrame DEF roomVars, sendVars, OnIt, Waiting
<1> QED BY <1>1, <1>2, <1>3, <1>4, <1>5, <1>6, <1>7 DEF RoomNext

\* Nothing was sent at the start.
LEMMA RoomInitInv ==
  ASSUME RoomInit
  PROVE  RoomInv
<1>0. MaxStoreFaults \in Nat /\ MaxPairings \in Nat
  BY RoomSendAssumption
<1>1. RoomTypeOK
  BY <1>0 DEF RoomInit, RoomTypeOK
<1>2. IsFiniteSet(admitted)
  BY FS_EmptySet DEF RoomInit
<1>3. SendsInv
  BY <1>0, <1>2 DEF RoomInit, SendsInv, Waiting
<1>4. NonceInv
  BY DEF RoomInit, NonceInv, Uses, Waiting
<1>5. ASSUME NEW m \in RoomMessages
      PROVE  MessageInv(m)
  <2>1. \A s \in Sends : ~OnIt(s, m)
    BY DEF RoomInit, OnIt, Waiting
  <2>2. Live(m) = {} /\ Closed(m) = {} /\ Cardinality({}) = 0
    BY <2>1, FS_EmptySet DEF RoomInit, Live, Closed, Started
  <2>3. OneLive(m) /\ AtHome(m) /\ WireKnown(m)
    BY <2>1, <2>2 DEF RoomInit, OneLive, AtHome, WireKnown
  <2>4. CompletedExact(m)
    BY <2>2 DEF RoomInit, CompletedExact
  <2> QED BY <2>3, <2>4 DEF MessageInv
<1> QED BY <1>1, <1>3, <1>4, <1>5 DEF RoomInv

\* The starts that were counted, and at most one that a retry would find again.
LEMMA RoomInvSays ==
  ASSUME RoomInv
  PROVE  RoomSendSound
<1> SUFFICES ASSUME NEW m \in RoomMessages \ forfeited
             PROVE  Cardinality(Started(m)) \in {completed[m], completed[m] + 1}
  BY DEF RoomSendSound
<1>0. RoomTypeOK /\ SendsInv /\ MessageInv(m)
  BY DEF RoomInv
<1>1. IsFiniteSet(Closed(m)) /\ Closed(m) \subseteq Started(m)
  BY <1>0, FS_Subset DEF SendsInv, Closed, Started
<1>2. completed[m] = Cardinality(Closed(m))
  BY <1>0 DEF MessageInv, CompletedExact
<1>3. CASE Started(m) = Closed(m)
  BY <1>2, <1>3
<1>4. CASE Started(m) # Closed(m)
  <2>1. PICK a \in Started(m) : a \notin Closed(m)
    BY <1>1, <1>4
  <2>2. \A b \in Started(m) : b \notin Closed(m) => b.nonce = a.nonce
    BY <1>0, <2>1 DEF Closed, MessageInv, OneLive
  <2>3. \A b \in Started(m) : b = [home |-> b.home, nonce |-> b.nonce, msg |-> b.msg]
                              /\ b.home = paired /\ b.msg = m
    BY <1>0 DEF Started, RoomTypeOK
  <2>4. Started(m) = Closed(m) \cup {a}
    BY <1>1, <2>1, <2>2, <2>3
  <2> QED BY <1>1, <1>2, <2>1, <2>4, FS_AddElement
<1> QED BY <1>3, <1>4

\* The invariant holds in every state of the senders and the homes.
THEOREM RoomInvariant == RoomSpec => []RoomInv
<1>1. RoomInv /\ [RoomNext]_roomVars => RoomInv'
  BY RoomTypesStep, NonceStep, MessageStep DEF RoomInv
<1> QED BY <1>1, RoomInitInv, PTL DEF RoomSpec

\* A message is started once for each completed response, and at most once more.
THEOREM RoomSendOnce == RoomSpec => [](RoomTypeOK /\ RoomSendSound)
<1>1. RoomInv => RoomTypeOK /\ RoomSendSound
  BY RoomInvSays DEF RoomInv
<1> QED BY <1>1, RoomInvariant, PTL

-----------------------------------------------------------------------------
(* RunEvents *)

\* No cursor is past the thread's end, and the home sends a window from no later
\* than the reader's cursor.
CursorInv ==
  /\ printed \in Seq(Nat)
  /\ cursor \in 0..top /\ reader \in 0..top /\ sent \in 0..top /\ saved \in 0..top
  /\ evPc = "stream" => sent <= reader

EventsInv == EventsTypeOK /\ CursorInv /\ EventsExact

UpTo(n) == {e \in mine : e <= n}

\* What is known of the home's side of a step that leaves it alone.
LEMMA SameHome ==
  ASSUME top' = top, mine' = mine, printed' = printed
  PROVE  /\ \A n : UpTo(n)' = UpTo(n)
         /\ \A S : InOrderOf(S)' <=> InOrderOf(S)
BY DEF UpTo, InOrderOf

\* The exactness of the output, by cursor.
LEMMA ExactByCursor ==
  EventsExact <=> InOrderOf(UpTo(saved)) /\ (evPc # "done" => InOrderOf(UpTo(Position)))
BY DEF EventsExact, UpTo

\* The same of the next state, for a step that leaves the home and the output alone.
LEMMA ExactStays ==
  ASSUME top' = top, mine' = mine, printed' = printed, EventsInv,
         UpTo(saved') = UpTo(saved) \/ InOrderOf(UpTo(saved')),
         evPc' # "done" => InOrderOf(UpTo(Position'))
  PROVE  EventsExact'
<1>1. InOrderOf(UpTo(saved'))
  BY ExactByCursor DEF EventsInv
<1> QED BY <1>1 DEF EventsExact, InOrderOf, UpTo

\* Printing the next event: one more, above all the others.
LEMMA PrintedNext ==
  ASSUME NEW e \in Nat, printed \in Seq(Nat), NEW S, InOrderOf(S), \A x \in S : x < e,
         printed' = Append(printed, e)
  PROVE  printed' \in Seq(Nat) /\ InOrderOf(S \cup {e})'
<1>1. /\ printed' \in Seq(Nat) /\ Len(printed') = Len(printed) + 1 /\ Len(printed) \in Nat
      /\ printed'[Len(printed) + 1] = e
      /\ \A i \in 1..Len(printed) : printed'[i] = printed[i] /\ printed[i] \in Nat
  BY AppendProperties, LenProperties, ElementOfSeq
<1>2. DOMAIN printed = 1..Len(printed) /\ DOMAIN printed' = 1..(Len(printed) + 1)
  BY <1>1, LenProperties
<1>3. S = {printed[i] : i \in 1..Len(printed)}
  BY <1>2 DEF InOrderOf, Range
<1>4. 1..(Len(printed) + 1) = 1..Len(printed) \cup {Len(printed) + 1}
  BY <1>1
<1>5. S \cup {e} = {printed'[i] : i \in 1..(Len(printed) + 1)}
  BY <1>1, <1>3, <1>4
<1>6. ASSUME NEW i \in 1..Len(printed'), NEW j \in 1..Len(printed'), i < j
      PROVE  printed'[i] < printed'[j]
  <2>1. i \in 1..Len(printed)
    BY <1>1, <1>6
  <2>2. CASE j = Len(printed) + 1
    BY <1>1, <1>3, <2>1, <2>2
  <2>3. CASE j # Len(printed) + 1
    <3>1. j \in 1..Len(printed)
      BY <1>1, <2>3
    <3> QED BY <1>1, <1>6, <2>1, <3>1 DEF InOrderOf
  <2> QED BY <2>2, <2>3
<1> QED BY <1>1, <1>2, <1>5, <1>6 DEF InOrderOf, Range

\* Types and bounds, with the events of the window still to come.
LEMMA EventFacts ==
  ASSUME EventsInv
  PROVE  /\ top \in Nat /\ MaxSeq \in Nat /\ MaxRetries \in Nat /\ top <= MaxSeq
         /\ \A e \in mine : e \in Nat /\ e >= 1 /\ e <= top
         /\ cursor \in Nat /\ reader \in Nat /\ sent \in Nat /\ saved \in Nat
         /\ cursor <= top /\ reader <= top /\ sent <= top /\ saved <= top
         /\ retries \in 0..MaxRetries
         /\ Position \in Nat /\ Position <= top
BY EventsAssumption DEF EventsInv, EventsTypeOK, CursorInv, Position

\* With nothing of the run left up to n, the reader is as good as at n.
LEMMA NothingLeft ==
  ASSUME EventsInv, evPc = "stream", NEW n \in Nat, reader <= n,
         \A e \in EventsLeft : e > n
  PROVE  UpTo(n) = UpTo(reader)
<1>1. \A e \in mine : e \in Nat
  BY EventFacts
<1>2. sent <= reader /\ sent \in Nat /\ reader \in Nat
  BY EventFacts DEF EventsInv, CursorInv
<1>3. \A e \in mine : e > sent => e > n
  BY DEF EventsLeft
<1> QED BY <1>1, <1>2, <1>3 DEF UpTo

\* Every step keeps the output exact.
LEMMA EventsStep ==
  ASSUME EventsInv, [EventsNext]_eventVars
  PROVE  EventsInv'
<1>0. /\ EventsTypeOK /\ CursorInv /\ EventsExact
      /\ InOrderOf(UpTo(saved)) /\ (evPc # "done" => InOrderOf(UpTo(Position)))
  BY ExactByCursor DEF EventsInv
<1>1. CASE RunAppends
  <2>1. /\ top' = top + 1 /\ top < MaxSeq /\ mine' \in {mine, mine \cup {top + 1}}
        /\ UNCHANGED <<runEnded, follow, evPc, cursor, reader, sent, retries, printed, saved, ending>>
    BY <1>1 DEF RunAppends
  <2>2. EventsTypeOK'
    <3>1. mine' \subseteq 1..top' /\ top' \in 0..MaxSeq
      BY <2>1, EventFacts
    <3> QED BY <1>0, <2>1, <3>1 DEF EventsTypeOK
  <2>3. CursorInv'
    BY <1>0, <2>1, EventFacts DEF CursorInv
  <2>4. \A n \in Nat : n <= top => {e \in mine' : e <= n} = UpTo(n)
    BY <2>1, EventFacts DEF UpTo
  <2>5. EventsExact'
    BY <1>0, <2>1, <2>4, EventFacts DEF EventsExact, InOrderOf, UpTo, Position
  <2> QED BY <2>2, <2>3, <2>5 DEF EventsInv
<1>2. CASE RunEnds
  <2>1. /\ runEnded' = TRUE
        /\ UNCHANGED <<top, mine, follow, evPc, cursor, reader, sent, retries, printed, saved, ending>>
    BY <1>2 DEF RunEnds
  <2> QED BY <1>0, <2>1 DEF EventsInv, EventsTypeOK, CursorInv, EventsExact, InOrderOf, Position
<1>3. CASE FirstCheck \/ PauseEnds \/ CtrlC
  <2>1. /\ UNCHANGED <<top, mine, runEnded, follow, cursor, reader, sent, retries, printed, saved>>
        /\ evPc' \in {"open", "done"} /\ ending' \in {ending, "error", "interrupted"}
        /\ evPc' # "done" => evPc \in {"start", "pause"}
    BY <1>3 DEF FirstCheck, PauseEnds, CtrlC, homeVars
  <2>2. EventsTypeOK' /\ CursorInv'
    BY <1>0, <2>1 DEF EventsTypeOK, CursorInv, StopReasons
  <2>3. EventsExact'
    BY <1>0, <2>1, ExactStays DEF Position
  <2> QED BY <2>2, <2>3 DEF EventsInv
<1>4. CASE OpenWindow
  <2>1. /\ UNCHANGED <<top, mine, runEnded, follow, cursor, retries, printed, saved, ending>>
        /\ evPc = "open" /\ evPc' = "stream" /\ reader' = cursor /\ sent' \in {0, cursor}
    BY <1>4 DEF OpenWindow, homeVars
  <2>2. EventsTypeOK' /\ CursorInv'
    BY <1>0, <2>1, EventFacts DEF EventsTypeOK, CursorInv
  <2>3. EventsExact'
    BY <1>0, <2>1, ExactStays DEF Position
  <2> QED BY <2>2, <2>3 DEF EventsInv
<1>5. CASE WindowBreaks \/ \E e \in 1..MaxSeq : PrintFails(e)
  <2>1. /\ UNCHANGED <<top, mine, runEnded, follow, reader, sent, printed, saved>>
        /\ cursor' = Position /\ evPc' \in {"pause", "done"} /\ evPc \in {"open", "stream"}
        /\ ending' \in {ending, "error"} /\ retries' \in 0..MaxRetries
    BY <1>5, EventFacts DEF WindowBreaks, PrintFails, Retry, NextFrame, Position, homeVars
  <2>2. EventsTypeOK' /\ CursorInv'
    BY <1>0, <2>1, EventFacts DEF EventsTypeOK, CursorInv, StopReasons
  <2>3. EventsExact'
    BY <1>0, <2>1, ExactStays DEF Position
  <2> QED BY <2>2, <2>3 DEF EventsInv
<1>6. CASE FrameRefused
  <2>1. /\ UNCHANGED <<top, mine, runEnded, follow, reader, sent, retries, printed, saved>>
        /\ cursor' = Position /\ evPc' = "done" /\ ending' = "error"
    BY <1>6 DEF FrameRefused, Position, homeVars
  <2>2. EventsTypeOK' /\ CursorInv'
    BY <1>0, <2>1, EventFacts DEF EventsTypeOK, CursorInv, StopReasons
  <2>3. EventsExact'
    BY <1>0, <2>1, ExactStays
  <2> QED BY <2>2, <2>3 DEF EventsInv
<1>7. ASSUME NEW reason \in StopReasons \cup {"timeout", "limit"}, NEW next \in 0..MaxSeq,
             WindowEnds(reason, next) \/ WindowUnprinted(reason, next)
      PROVE  EventsInv'
  <2>1. /\ UNCHANGED <<top, mine, runEnded, follow, sent, printed>>
        /\ evPc = "stream" /\ next \in WindowCursors(reason)
        /\ cursor' = next /\ reader' = next /\ saved' \in {saved, next}
        /\ evPc' \in {"check", "pause", "done"} /\ retries' \in 0..MaxRetries
        /\ ending' \in {ending, reason, "error"}
    BY <1>7, EventFacts DEF WindowEnds, WindowUnprinted, homeVars
  <2>2. next \in 0..top /\ reader <= next /\ \A e \in EventsLeft : e > next
    BY <2>1, EventFacts DEF WindowCursors
  <2>3. EventsTypeOK' /\ CursorInv'
    BY <1>0, <2>1, <2>2, EventFacts DEF EventsTypeOK, CursorInv, StopReasons
  <2>4. UpTo(next) = UpTo(reader) /\ InOrderOf(UpTo(reader))
    BY <1>0, <2>1, <2>2, NothingLeft DEF Position
  <2>5. EventsExact'
    BY <1>0, <2>1, <2>4, ExactStays DEF Position
  <2> QED BY <2>3, <2>5 DEF EventsInv
<1>8. CASE CheckRun
  <2>1. /\ UNCHANGED <<top, mine, runEnded, follow, cursor, reader, sent, retries, printed>>
        /\ evPc = "check" /\ evPc' \in {"pause", "done"} /\ saved' \in {saved, cursor}
        /\ ending' \in {ending, "completed", "error"}
    BY <1>8 DEF CheckRun, homeVars
  <2>2. EventsTypeOK' /\ CursorInv'
    BY <1>0, <2>1, EventFacts DEF EventsTypeOK, CursorInv, StopReasons
  <2>3. EventsExact'
    BY <1>0, <2>1, ExactStays DEF Position
  <2> QED BY <2>2, <2>3 DEF EventsInv
<1>9. CASE Rerun
  <2>1. /\ UNCHANGED <<top, mine, runEnded, follow, reader, sent, printed, saved>>
        /\ evPc' = "start" /\ cursor' = saved /\ retries' = 0 /\ ending' = "none"
    BY <1>9 DEF Rerun, homeVars
  <2>2. EventsTypeOK' /\ CursorInv'
    BY <1>0, <2>1, EventFacts DEF EventsTypeOK, CursorInv, StopReasons
  <2>3. EventsExact'
    BY <1>0, <2>1, ExactStays DEF Position
  <2> QED BY <2>2, <2>3 DEF EventsInv
<1>10. ASSUME NEW e \in 1..MaxSeq, SkipFrame(e)
       PROVE  EventsInv'
  <2>1. /\ UNCHANGED <<top, mine, runEnded, follow, evPc, cursor, reader, retries, printed, saved, ending>>
        /\ sent' = e /\ e \in mine /\ e <= reader /\ evPc = "stream"
    BY <1>10 DEF SkipFrame, NextFrame, EventsLeft, homeVars
  <2>2. EventsTypeOK' /\ CursorInv'
    BY <1>0, <2>1, EventFacts DEF EventsTypeOK, CursorInv
  <2>3. EventsExact'
    BY <1>0, <2>1, ExactStays DEF Position
  <2> QED BY <2>2, <2>3 DEF EventsInv
<1>11. ASSUME NEW e \in 1..MaxSeq, PrintFrame(e)
       PROVE  EventsInv'
  <2>1. /\ UNCHANGED <<top, mine, runEnded, follow, evPc, cursor, retries, ending>>
        /\ sent' = e /\ reader' = e /\ saved' = e /\ printed' = Append(printed, e)
        /\ evPc = "stream" /\ e > reader /\ e \in EventsLeft /\ \A f \in EventsLeft : e <= f
    BY <1>11 DEF PrintFrame, NextFrame, homeVars
  <2>2. e \in Nat /\ e \in mine /\ e <= top /\ e \in 0..top
    BY <2>1, EventFacts DEF EventsLeft
  <2>3. \A x \in UpTo(reader) : x < e
    BY <2>1, <2>2, EventFacts DEF UpTo
  <2>4. UpTo(reader) \cup {e} = UpTo(e)
    <3>1. sent <= reader
      BY <1>0, <2>1 DEF CursorInv
    <3>2. \A x \in mine : x > sent => e <= x
      BY <2>1 DEF EventsLeft
    <3>3. \A x \in mine : x <= e => x = e \/ x <= reader
      BY <2>2, <3>1, <3>2, EventFacts
    <3>4. \A x \in mine : x <= reader => x <= e
      BY <2>1, <2>2, EventFacts
    <3>5. e <= e
      BY <2>2
    <3> QED BY <2>2, <3>3, <3>4, <3>5 DEF UpTo
  <2>5. printed \in Seq(Nat) /\ InOrderOf(UpTo(reader))
    BY <1>0, <2>1 DEF CursorInv, Position
  <2> DEFINE before == UpTo(reader)
  <2>6. printed' \in Seq(Nat) /\ Range(printed') = before \cup {e}
        /\ \A i, j \in 1..Len(printed') : i < j => printed'[i] < printed'[j]
    BY <2>1, <2>2, <2>3, <2>5, PrintedNext DEF InOrderOf
  <2>7. EventsTypeOK' /\ CursorInv'
    BY <1>0, <2>1, <2>2, <2>6, EventFacts DEF EventsTypeOK, CursorInv
  <2>8. EventsExact'
    BY <2>1, <2>4, <2>6 DEF EventsExact, InOrderOf, Position, UpTo
  <2> QED BY <2>7, <2>8 DEF EventsInv
<1>12. CASE UNCHANGED eventVars
  BY <1>0, <1>12 DEF eventVars, homeVars, EventsInv, EventsTypeOK, CursorInv, EventsExact,
     InOrderOf, Position
<1> QED
  BY <1>1, <1>2, <1>3, <1>4, <1>5, <1>6, <1>7, <1>8, <1>9, <1>10, <1>11, <1>12 DEF EventsNext

\* Nothing is printed and nothing has happened at the start.
LEMMA EventsInitInv ==
  ASSUME EventsInit
  PROVE  EventsInv
<1>1. EventsTypeOK
  <2>1. MaxSeq \in Nat /\ MaxRetries \in Nat
    BY EventsAssumption
  <2>2. 0 \in 0..MaxSeq /\ 0 \in 0..MaxRetries
    BY <2>1
  <2>3. ending \in StopReasons \cup {"none", "timeout", "limit", "completed", "interrupted"}
    BY DEF EventsInit
  <2> QED BY <2>2, <2>3 DEF EventsInit, EventsTypeOK
<1>2. printed = <<>> /\ printed \in Seq(Nat) /\ Len(printed) = 0 /\ mine = {}
  BY EmptySeq DEF EventsInit
<1>3. CursorInv
  BY <1>2 DEF EventsInit, CursorInv
<1>4. DOMAIN printed = {}
  BY <1>2
<1>5. Range(printed) = {}
  BY <1>4 DEF Range
<1>6. EventsExact
  BY <1>2, <1>5 DEF EventsExact, InOrderOf
<1> QED BY <1>1, <1>3, <1>6 DEF EventsInv

\* Every event of the run is printed once and in order, whatever breaks.
THEOREM EventsPrintedOnce == EventsSpec => [](EventsTypeOK /\ EventsExact)
<1>1. EventsInv /\ [EventsNext]_eventVars => EventsInv'
  BY EventsStep
<1>2. EventsInv => EventsTypeOK /\ EventsExact
  BY DEF EventsInv
<1> QED BY <1>1, <1>2, EventsInitInv, PTL DEF EventsSpec

-----------------------------------------------------------------------------
(* Cron expressions *)

\* What a quotient and a remainder are.
LEMMA Division ==
  ASSUME NEW a \in Nat, NEW s \in Nat \ {0}
  PROVE  a \div s \in Nat /\ a % s \in 0..(s - 1) /\ a = (s * (a \div s)) + (a % s)
OBVIOUS

\* There is one of each.
LEMMA DivisionIsOne ==
  ASSUME NEW s \in Nat \ {0}, NEW q \in Nat, NEW r \in 0..(s - 1),
         NEW p \in Nat, NEW t \in 0..(s - 1), s * q + r = s * p + t
  PROVE  q = p /\ r = t
OBVIOUS

\* What a step divides: nothing below it but zero, and above it what it divides a
\* step earlier.
LEMMA StepsDivide ==
  ASSUME NEW a \in Nat, NEW s \in Nat \ {0}
  PROVE  /\ a < s => (a % s = 0 <=> a = 0)
         /\ a >= s => (a % s = 0 <=> (a - s) % s = 0)
<1>1. ASSUME a < s PROVE a % s = a
  <2> DEFINE q == a \div s
             r == a % s
  <2>1. q \in Nat /\ r \in 0..(s - 1) /\ a = (s * q) + r
    BY Division
  <2> HIDE DEF q, r
  <2>2. a \in 0..(s - 1) /\ 0 \in Nat /\ s * q + r = s * 0 + a
    BY <1>1, <2>1
  <2>3. r = a
    BY <2>1, <2>2, DivisionIsOne
  <2> QED BY <2>3 DEF r
<1>2. ASSUME a >= s PROVE a % s = (a - s) % s
  <2> DEFINE b == a - s
             q == a \div s
             r == a % s
             p == b \div s
             t == b % s
  <2>1. b \in Nat
    BY <1>2
  <2>2. q \in Nat /\ r \in 0..(s - 1) /\ a = (s * q) + r
    BY Division
  <2>3. p \in Nat /\ t \in 0..(s - 1) /\ b = (s * p) + t
    BY <2>1, Division
  <2> HIDE DEF q, r, p, t
  <2>4. s * q + r = s * (p + 1) + t /\ p + 1 \in Nat
    BY <2>2, <2>3 DEF b
  <2>5. r = t
    BY <2>2, <2>3, <2>4, DivisionIsOne
  <2> QED BY <2>5 DEF r, t, b
<1> QED BY <1>1, <1>2

\* The loop of parse_field: where it goes next, and where it stops.
NextValue(v, step) == IF v + step > U8Max THEN U8Max ELSE v + step
Stops(v, end, step, max) ==
  v > max \/ NextValue(v, step) <= v \/ NextValue(v, step) > end
IsWalk(w, low, end, step, max) ==
  w = [v \in low..U8Max |->
         {v} \cup (IF Stops(v, end, step, max) THEN {} ELSE w[NextValue(v, step)])]

\* There is such a walk, from every value on.
LEMMA WalkExists ==
  ASSUME NEW end \in Nat, NEW step \in Nat \ {0}, NEW max \in Nat, U8Max \in Nat
  PROVE  \E w : IsWalk(w, 0, end, step, max)
<1> DEFINE G == {n \in Nat : n <= U8Max => \E w : IsWalk(w, U8Max - n, end, step, max)}
<1>1. 0 \in G
  <2> DEFINE w == [v \in U8Max..U8Max |-> {v}]
  <2>1. \A v \in U8Max..U8Max : Stops(v, end, step, max)
    BY DEF Stops, NextValue
  <2>2. IsWalk(w, U8Max, end, step, max)
    BY <2>1 DEF IsWalk
  <2>3. U8Max - 0 = U8Max
    OBVIOUS
  <2> HIDE DEF w
  <2> QED BY <2>2, <2>3
<1>2. ASSUME NEW n \in Nat, n \in G PROVE n + 1 \in G
  <2> SUFFICES ASSUME n + 1 <= U8Max PROVE \E w : IsWalk(w, U8Max - (n + 1), end, step, max)
    OBVIOUS
  <2>1. n <= U8Max
    OBVIOUS
  <2>2. PICK w : IsWalk(w, U8Max - n, end, step, max)
    BY <1>2, <2>1
  <2> DEFINE l == U8Max - (n + 1)
             x == [v \in l..U8Max |->
                     IF v = l
                     THEN {v} \cup (IF Stops(v, end, step, max) THEN {} ELSE w[NextValue(v, step)])
                     ELSE w[v]]
  <2>3. l \in Nat /\ l + 1 = U8Max - n
    OBVIOUS
  <2> HIDE DEF l
  <2>4. \A v \in l..U8Max : /\ v = l \/ v \in (l + 1)..U8Max
                            /\ ~Stops(v, end, step, max) => NextValue(v, step) \in (l + 1)..U8Max
    BY <2>3 DEF Stops, NextValue
  <2>5. \A u \in (l + 1)..U8Max : u \in l..U8Max /\ u # l /\ x[u] = w[u]
    BY <2>3
  <2>6. ASSUME NEW v \in l..U8Max
        PROVE x[v] = {v} \cup (IF Stops(v, end, step, max) THEN {} ELSE x[NextValue(v, step)])
    <3>1. CASE v = l
      <4>1. x[v] = {v} \cup (IF Stops(v, end, step, max) THEN {} ELSE w[NextValue(v, step)])
        BY <3>1
      <4>2. ~Stops(v, end, step, max) => x[NextValue(v, step)] = w[NextValue(v, step)]
        BY <2>4, <2>5
      <4> HIDE DEF x
      <4> QED BY <4>1, <4>2
    <3>2. CASE v # l
      <4>0. v \in (l + 1)..U8Max
        BY <2>4, <3>2
      <4>1. w[v] = {v} \cup (IF Stops(v, end, step, max) THEN {} ELSE w[NextValue(v, step)])
        BY <2>2, <2>3, <4>0 DEF IsWalk
      <4>2. ~Stops(v, end, step, max) => x[NextValue(v, step)] = w[NextValue(v, step)]
        BY <2>4, <2>5
      <4>3. x[v] = w[v]
        BY <4>0, <2>5
      <4> HIDE DEF x
      <4> QED BY <4>1, <4>2, <4>3
    <3> QED BY <3>1, <3>2
  <2>7. IsWalk(x, l, end, step, max)
    <3>1. x = [v \in l..U8Max |-> x[v]]
      OBVIOUS
    <3> HIDE DEF x
    <3> QED BY <2>6, <3>1 DEF IsWalk
  <2> HIDE DEF x
  <2> QED BY <2>7 DEF l
<1>3. U8Max \in G
  <2> HIDE DEF G
  <2> QED BY <1>1, <1>2, NaturalInduction
<1>4. U8Max - U8Max = 0
  OBVIOUS
<1> QED BY <1>3, <1>4

\* Up to max, a walk is every step-th value up to the end: where the u8 saturates the
\* walk is past max, and where it stops early so is every later value.
LEMMA WalkValues ==
  ASSUME NEW end \in Nat, NEW step \in Nat \ {0}, NEW max \in Nat, U8Max \in Nat, max < U8Max,
         NEW w, IsWalk(w, 0, end, step, max), NEW start \in 0..U8Max, start <= end
  PROVE  \A u \in 0..max :
           u \in w[start] <=> start <= u /\ u <= end /\ (u - start) % step = 0
<1> DEFINE Right(v) == v <= end => \A u \in 0..max :
                         u \in w[v] <=> v <= u /\ u <= end /\ (u - v) % step = 0
           G == {n \in Nat : \A v \in 0..U8Max : v + n >= U8Max => Right(v)}
<1>0. ASSUME NEW v \in 0..U8Max, NEW u \in 0..max, v <= u
      PROVE /\ u - v \in Nat
            /\ u < v + step => ((u - v) % step = 0 <=> u = v)
            /\ u >= v + step => ((u - v) % step = 0 <=> (u - (v + step)) % step = 0)
  <2>1. u - v \in Nat /\ (u - v) - step = u - (v + step)
    BY <1>0
  <2>2. /\ u - v < step => ((u - v) % step = 0 <=> u - v = 0)
        /\ u - v >= step => ((u - v) % step = 0 <=> ((u - v) - step) % step = 0)
    BY <2>1, StepsDivide
  <2>3. ASSUME u >= v + step PROVE (u - v) % step = 0 <=> (u - (v + step)) % step = 0
    <3>1. u - v >= step
      BY <2>3
    <3> QED BY <3>1, <2>1, <2>2
  <2>4. ASSUME u < v + step PROVE (u - v) % step = 0 <=> u = v
    <3>1. u - v < step /\ (u - v = 0 <=> u = v)
      BY <2>4
    <3> QED BY <3>1, <2>2
  <2> QED BY <2>1, <2>3, <2>4
<1>1. ASSUME NEW v \in 0..U8Max, v <= end,
             \A x \in 0..U8Max : x > v => Right(x)
      PROVE \A u \in 0..max : u \in w[v] <=> v <= u /\ u <= end /\ (u - v) % step = 0
  <2> TAKE u \in 0..max
  <2> DEFINE x == NextValue(v, step)
  <2>1. w[v] = {v} \cup (IF Stops(v, end, step, max) THEN {} ELSE w[x])
    BY DEF IsWalk
  <2>2. CASE v > max
    BY <2>1, <2>2 DEF Stops
  <2>3. CASE v <= max /\ x > end
    <3>1. w[v] = {v}
      BY <2>1, <2>3 DEF Stops
    <3>2. u <= end => u < v + step
      BY <2>3 DEF NextValue
    <3> QED BY <3>1, <3>2, <1>0, <1>1
  <2>4. CASE v <= max /\ x <= end
    <3>1. x \in 0..U8Max /\ x > v
      BY <2>4 DEF NextValue
    <3>2. w[v] = {v} \cup w[x]
      BY <2>1, <2>4, <3>1 DEF Stops
    <3>3. u \in w[x] <=> x <= u /\ u <= end /\ (u - x) % step = 0
      BY <1>1, <3>1, <2>4
    <3>4. CASE x = v + step
      <4>1. CASE u < v
        BY <4>1, <3>1, <3>2, <3>3
      <4>2. CASE v <= u /\ u < v + step
        BY <4>2, <3>2, <3>3, <3>4, <1>0, <1>1
      <4>3. CASE u >= v + step
        <5>1. v <= u /\ u # v
          BY <4>3
        <5> HIDE DEF x
        <5> QED BY <4>3, <5>1, <3>2, <3>3, <3>4, <1>0
      <4> QED BY <4>1, <4>2, <4>3
    <3>5. CASE x # v + step
      <4>1. x = U8Max /\ u < v + step /\ ~(x <= u)
        BY <3>5, <2>4 DEF NextValue
      <4> QED BY <4>1, <3>2, <3>3, <1>0, <1>1
    <3> QED BY <3>4, <3>5
  <2> QED BY <2>2, <2>3, <2>4 DEF NextValue
<1>2. 0 \in G
  <2> SUFFICES ASSUME NEW v \in 0..U8Max, v >= U8Max PROVE Right(v)
    OBVIOUS
  <2>1. \A x \in 0..U8Max : x > v => Right(x)
    OBVIOUS
  <2> QED BY <2>1, <1>1
<1>3. ASSUME NEW n \in Nat, n \in G PROVE n + 1 \in G
  <2> SUFFICES ASSUME NEW v \in 0..U8Max, v + (n + 1) >= U8Max PROVE Right(v)
    OBVIOUS
  <2>1. ASSUME NEW x \in 0..U8Max, x > v PROVE Right(x)
    <3>1. x + n >= U8Max
      BY <2>1
    <3> QED BY <3>1, <1>3
  <2> QED BY <2>1, <1>1
<1>4. U8Max \in G
  <2> HIDE DEF G
  <2> QED BY <1>2, <1>3, NaturalInduction
<1>5. start + U8Max >= U8Max
  OBVIOUS
<1>6. Right(start)
  BY <1>4, <1>5
<1> QED BY <1>6

\* What the parser's loop collects.
LEMMA Expanded ==
  ASSUME NEW start \in 0..U8Max, NEW end \in Nat, NEW step \in Nat \ {0}, NEW max \in Nat,
         U8Max \in Nat, max < U8Max, start <= end
  PROVE  \A u \in 0..max : u \in Expand(start, end, step, max)
           <=> start <= u /\ u <= end /\ (u - start) % step = 0
<1>1. \E w : IsWalk(w, 0, end, step, max)
  BY WalkExists
<1>2. PICK w : IsWalk(w, 0, end, step, max) /\ Expand(start, end, step, max) = w[start]
  BY <1>1, Zenon DEF Expand, IsWalk, Stops, NextValue
<1> QED BY <1>2, WalkValues

\* What a part of a field asks of a value.
Low(part, min) == IF part.from = Star THEN min ELSE part.from.v
High(part, max) == IF part.from = Star THEN max ELSE part.to.v
Asks(part, u, min, max) ==
  Low(part, min) <= u /\ u <= High(part, max) /\ (u - Low(part, min)) % part.step = 0

\* A part that is accepted is expanded to what it asks for.
LEMMA PartParsed ==
  ASSUME NEW part \in CronParts, NEW min \in Nat, NEW max \in Nat, NEW names \in BOOLEAN,
         U8Max \in Nat, min <= max, max < U8Max,
         parse_part(part, min, max, names).ok,
         part.from = Star \/ part.from.v <= part.to.v
  PROVE  \A u \in 0..max :
           u \in parse_part(part, min, max, names).values <=> Asks(part, u, min, max)
<1> DEFINE s == parse_value(part.from, names, min, max)
           e == parse_value(part.to, names, min, max)
<1>0. /\ part.step \in Nat /\ part.from \in CronValues /\ part.to \in CronValues
      /\ part.from.v \in 0..U8Max /\ part.to.v \in 0..U8Max
      /\ s.v = part.from.v /\ e.v = part.to.v
  BY DEF CronParts, CronValues, Star, parse_value
<1>1. part.step # 0
  BY DEF parse_part
<1>2. CASE part.from = Star
  <2>1. parse_part(part, min, max, names).values = Expand(min, max, part.step, max)
    BY <1>1, <1>2 DEF parse_part
  <2>2. min \in 0..U8Max
    OBVIOUS
  <2>3. \A u \in 0..max : u \in Expand(min, max, part.step, max)
          <=> min <= u /\ u <= max /\ (u - min) % part.step = 0
    BY <1>0, <1>1, <2>2, Expanded
  <2> QED BY <2>1, <2>3, <1>2 DEF Asks, Low, High
<1>3. CASE part.from # Star
  <2>1. s.ok /\ e.ok
    BY <1>1, <1>3 DEF parse_part
  <2>2. parse_part(part, min, max, names).values = Expand(s.v, e.v, part.step, max)
    BY <1>1, <1>3, <2>1 DEF parse_part
  <2> HIDE DEF s, e
  <2> DEFINE a == part.from.v
             b == part.to.v
             d == part.step
  <2>3. a \in 0..U8Max /\ b \in Nat /\ d \in Nat \ {0} /\ a <= b
    BY <1>0, <1>1, <1>3
  <2> HIDE DEF a, b, d
  <2>a. \A u \in 0..max : u \in Expand(a, b, d, max) <=> a <= u /\ u <= b /\ (u - a) % d = 0
    BY <2>3, Expanded
  <2>4. \A u \in 0..max : u \in Expand(part.from.v, part.to.v, part.step, max)
          <=> part.from.v <= u /\ u <= part.to.v /\ (u - part.from.v) % part.step = 0
    BY <2>a DEF a, b, d
  <2> QED BY <2>2, <2>4, <1>0, <1>3 DEF Asks, Low, High
<1> QED BY <1>2, <1>3

\* A field that is accepted, before the clamp.
Ordered(field) == \A i \in DOMAIN field : field[i].from = Star \/ field[i].from.v <= field[i].to.v
FieldAsks(field, u, min, max) == \E i \in DOMAIN field : Asks(field[i], u, min, max)
Union(field, min, max, names) ==
  UNION {[j \in DOMAIN field |-> parse_part(field[j], min, max, names)][i].values : i \in DOMAIN field}

LEMMA FieldUnion ==
  ASSUME NEW field \in Seq(CronParts), NEW min \in Nat, NEW max \in Nat, NEW names \in BOOLEAN,
         U8Max \in Nat, min <= max, max < U8Max,
         parse_field(field, min, max, names).ok, Ordered(field)
  PROVE  /\ \A u \in 0..max :
              u \in Union(field, min, max, names) <=> FieldAsks(field, u, min, max)
         /\ parse_field(field, min, max, names).star <=> field = AnyValue
         /\ parse_field(field, min, max, names).values =
              IF names /\ max = WeekdayMax THEN ClampWeekday(Union(field, min, max, names))
              ELSE Union(field, min, max, names)
<1> DEFINE parsed == [i \in DOMAIN field |-> parse_part(field[i], min, max, names)]
<1>1. \A i \in DOMAIN field : parsed[i].ok
  BY DEF parse_field, ParseError
<1>2. /\ parse_field(field, min, max, names).star <=> field = AnyValue
      /\ parse_field(field, min, max, names).values =
           IF names /\ max = WeekdayMax THEN ClampWeekday(Union(field, min, max, names))
           ELSE Union(field, min, max, names)
  BY <1>1 DEF parse_field, Union
<1>3. \A i \in DOMAIN field : field[i] \in CronParts
  BY ElementOfSeq, LenProperties
<1>4. ASSUME NEW u \in 0..max, NEW i \in DOMAIN field
      PROVE u \in parse_part(field[i], min, max, names).values <=> Asks(field[i], u, min, max)
  <2>1. parse_part(field[i], min, max, names).ok
    BY <1>1
  <2> QED BY <2>1, <1>3, PartParsed DEF Ordered
<1>5. ASSUME NEW u \in 0..max
      PROVE u \in Union(field, min, max, names) <=> FieldAsks(field, u, min, max)
  <2>1. u \in Union(field, min, max, names)
          <=> \E i \in DOMAIN field : u \in parse_part(field[i], min, max, names).values
    BY DEF Union
  <2> QED BY <2>1, <1>4 DEF FieldAsks
<1> QED BY <1>2, <1>5

\* A field that is not clamped.
LEMMA FieldValues ==
  ASSUME NEW field \in Seq(CronParts), NEW min \in Nat, NEW max \in Nat, NEW names \in BOOLEAN,
         U8Max \in Nat, min <= max, max < U8Max, ~(names /\ max = WeekdayMax),
         parse_field(field, min, max, names).ok, Ordered(field)
  PROVE  /\ \A u \in 0..max : u \in parse_field(field, min, max, names).values
                                <=> FieldAsks(field, u, min, max)
         /\ parse_field(field, min, max, names).star <=> field = AnyValue
<1>1. /\ \A u \in 0..max :
              u \in Union(field, min, max, names) <=> FieldAsks(field, u, min, max)
      /\ parse_field(field, min, max, names).star <=> field = AnyValue
      /\ parse_field(field, min, max, names).values =
              IF names /\ max = WeekdayMax THEN ClampWeekday(Union(field, min, max, names))
              ELSE Union(field, min, max, names)
  BY FieldUnion
<1> QED BY <1>1

\* The field of weekdays, where the last is the first again.
LEMMA WeekdayValues ==
  ASSUME NEW field \in Seq(CronParts), U8Max \in Nat, WeekdayMax \in Nat \ {0}, WeekdayMax < U8Max,
         parse_field(field, 0, WeekdayMax, TRUE).ok, Ordered(field)
  PROVE  /\ \A d \in 0..(WeekdayMax - 1) : d \in parse_field(field, 0, WeekdayMax, TRUE).values
              <=> \E v \in 0..WeekdayMax : v % WeekdayMax = d /\ FieldAsks(field, v, 0, WeekdayMax)
         /\ parse_field(field, 0, WeekdayMax, TRUE).star <=> field = AnyValue
<1> DEFINE U == Union(field, 0, WeekdayMax, TRUE)
<1>1. /\ \A u \in 0..WeekdayMax : u \in U <=> FieldAsks(field, u, 0, WeekdayMax)
      /\ parse_field(field, 0, WeekdayMax, TRUE).star <=> field = AnyValue
      /\ parse_field(field, 0, WeekdayMax, TRUE).values = ClampWeekday(U)
  <2> DEFINE yes == TRUE
  <2>1. yes \in BOOLEAN /\ yes /\ 0 \in Nat /\ 0 <= WeekdayMax /\ WeekdayMax \in Nat
    OBVIOUS
  <2>2. parse_field(field, 0, WeekdayMax, yes).ok /\ U = Union(field, 0, WeekdayMax, yes)
    OBVIOUS
  <2> HIDE DEF yes, U
  <2>3. /\ \A u \in 0..WeekdayMax :
              u \in Union(field, 0, WeekdayMax, yes) <=> FieldAsks(field, u, 0, WeekdayMax)
        /\ parse_field(field, 0, WeekdayMax, yes).star <=> field = AnyValue
        /\ parse_field(field, 0, WeekdayMax, yes).values = ClampWeekday(Union(field, 0, WeekdayMax, yes))
    BY <2>1, <2>2, FieldUnion
  <2> QED BY <2>2, <2>3 DEF yes
<1>2. ASSUME NEW v \in 0..WeekdayMax
      PROVE v % WeekdayMax = IF v = WeekdayMax THEN 0 ELSE v
  OBVIOUS
<1> HIDE DEF U
<1>3. ASSUME NEW d \in 0..(WeekdayMax - 1)
      PROVE d \in ClampWeekday(U)
              <=> \E v \in 0..WeekdayMax : v % WeekdayMax = d /\ FieldAsks(field, v, 0, WeekdayMax)
  <2>1. d \in ClampWeekday(U) <=> d \in U \/ (d = 0 /\ WeekdayMax \in U)
    BY DEF ClampWeekday
  <2>2. d \in 0..WeekdayMax /\ WeekdayMax \in 0..WeekdayMax /\ d # WeekdayMax
    OBVIOUS
  <2>3. ASSUME NEW v \in 0..WeekdayMax
        PROVE v % WeekdayMax = d <=> v = d \/ (d = 0 /\ v = WeekdayMax)
    BY <1>2
  <2> QED BY <2>1, <2>2, <2>3, <1>1
<1> QED BY <1>1, <1>3

\* The bounds of the fields are counts.
LEMMA CronNumbers ==
  /\ MinuteMax \in Nat /\ 0 < MinuteMax
  /\ HourMax \in Nat /\ 0 < HourMax
  /\ WeekdayMax \in Nat /\ 0 < WeekdayMax
<1>1. MinuteMax \in Nat /\ HourMax \in Nat /\ WeekdayMax \in Nat
  BY CronAssumption
<1>2. \A n \in {MinuteMax, HourMax, DayMax, MonthMax, WeekdayMax} : 0 < n
  BY CronAssumption
<1> QED BY <1>1, <1>2

\* There is a last minute.
LEMMA CalendarTypes ==
  Len(Calendar) \in Nat \ {0} /\ MinutesPerDay \in Nat \ {0} /\ LastMinute \in Nat
<1>1. Len(Calendar) \in Nat \ {0}
  BY CronAssumption, LenProperties, EmptySeq
<1> DEFINE m == MinuteMax + 1
           h == HourMax + 1
           L == Len(Calendar)
           M == MinutesPerDay
<1>2. m \in Nat \ {0} /\ h \in Nat \ {0} /\ M = h * m
  BY CronNumbers DEF MinutesPerDay
<1>3. LastMinute = L * M - 1
  BY DEF LastMinute
<1> HIDE DEF m, h, L, M
<1>4. M \in Nat \ {0}
  BY <1>2
<1>5. L \in Nat \ {0}
  BY <1>1 DEF L
<1>6. L * M - 1 \in Nat
  BY <1>4, <1>5
<1> QED BY <1>3, <1>4, <1>5, <1>6 DEF L, M

\* Every minute of the calendar has a day in it.
LEMMA MinuteOfCalendar ==
  ASSUME NEW t \in Nat, t <= LastMinute
  PROVE  /\ t % (MinuteMax + 1) \in 0..MinuteMax
         /\ (t \div (MinuteMax + 1)) % (HourMax + 1) \in 0..HourMax
         /\ Calendar[DayOf(t) + 1][1] \in 0..MonthMax /\ Calendar[DayOf(t) + 1][2] \in 0..DayMax
         /\ DayOf(t) % WeekdayMax \in 0..(WeekdayMax - 1)
<1> DEFINE m == MinuteMax + 1
           h == HourMax + 1
           M == MinutesPerDay
           L == Len(Calendar)
           q == DayOf(t)
<1>1. m \in Nat \ {0} /\ h \in Nat \ {0} /\ WeekdayMax \in Nat \ {0}
  BY CronNumbers
<1>2. M = h * m /\ M \in Nat \ {0} /\ L \in Nat /\ t <= L * M - 1
  <2>1. M = h * m /\ L \in Nat /\ t <= L * M - 1
    BY CronAssumption, LenProperties DEF MinutesPerDay, LastMinute
  <2> HIDE DEF m, h, M, L
  <2> QED BY <1>1, <2>1
<1>3. t % m \in 0..(m - 1) /\ t \div m \in Nat
  <2> HIDE DEF m
  <2> QED BY <1>1, Division
<1>4. (t \div m) % h \in 0..(h - 1)
  <2> HIDE DEF h, m
  <2> QED BY <1>1, <1>3, Division
<1>5. q \in Nat /\ t % M \in 0..(M - 1) /\ t = (M * q) + (t % M)
  <2>1. q = t \div M
    BY DEF DayOf
  <2> HIDE DEF M, q
  <2> QED BY <2>1, <1>2, Division
<1>6. q < L
  <2> HIDE DEF M, L, q
  <2> DEFINE r == t % M
  <2>1. r \in 0..(M - 1) /\ t = (M * q) + r
    BY <1>5
  <2> HIDE DEF r
  <2> SUFFICES ASSUME q >= L PROVE FALSE
    BY <1>2, <1>5
  <2>2. q - L \in Nat /\ M * (q - L) >= 0
    BY <1>2, <1>5
  <2>3. M * q = M * L + M * (q - L) /\ L * M = M * L
    BY <1>2, <1>5
  <2> QED BY <2>1, <2>2, <2>3, <1>2
<1>7. q % WeekdayMax \in 0..(WeekdayMax - 1)
  <2> HIDE DEF q
  <2> QED BY <1>1, <1>5, Division
<1>8. Calendar[q + 1] \in (1..MonthMax) \X (1..DayMax)
  <2>1. q + 1 \in 1..L
    <3> HIDE DEF q, L, M
    <3> QED BY <1>2, <1>5, <1>6
  <2> HIDE DEF q
  <2> QED BY <2>1, CronAssumption, ElementOfSeq
<1>9. Calendar[q + 1][1] \in 0..MonthMax /\ Calendar[q + 1][2] \in 0..DayMax
  <2> HIDE DEF q
  <2>1. MonthMax \in Nat /\ DayMax \in Nat
    BY CronAssumption
  <2> QED BY <1>8, <2>1
<1>10. m - 1 = MinuteMax /\ h - 1 = HourMax
  BY CronNumbers
<1>11. t % m \in 0..MinuteMax /\ (t \div m) % h \in 0..HourMax
  <2> HIDE DEF m, h
  <2> QED BY <1>3, <1>4, <1>10
<1> QED BY <1>11, <1>7, <1>9

\* The compiled fields of an expression that is kept, against what its parts ask for.
LEMMA FieldsParsed ==
  ASSUME NEW input \in CronInputs, compile(input).ok, WellFormed(input)
  PROVE  LET expr == compile(input).expr IN
         /\ \A u \in 0..MinuteMax : u \in expr.minute.values <=> FieldAsks(input.minute, u, 0, MinuteMax)
         /\ \A u \in 0..HourMax : u \in expr.hour.values <=> FieldAsks(input.hour, u, 0, HourMax)
         /\ \A u \in 0..DayMax : u \in expr.day.values <=> FieldAsks(input.day, u, 1, DayMax)
         /\ \A u \in 0..MonthMax : u \in expr.month.values <=> FieldAsks(input.month, u, 1, MonthMax)
         /\ \A d \in 0..(WeekdayMax - 1) : d \in expr.weekday.values
              <=> \E v \in 0..WeekdayMax :
                    v % WeekdayMax = d /\ FieldAsks(input.weekday, v, 0, WeekdayMax)
         /\ expr.day.star <=> input.day = AnyValue
         /\ expr.weekday.star <=> input.weekday = AnyValue
<1> DEFINE expr == compile(input).expr
<1>1. /\ input.minute \in Seq(CronParts) /\ input.hour \in Seq(CronParts)
      /\ input.day \in Seq(CronParts) /\ input.month \in Seq(CronParts)
      /\ input.weekday \in Seq(CronParts) /\ DOMAIN input = CronFields
  BY CronAssumption DEF CronFields
<1>2. \A f \in CronFields : Ordered(input[f])
  <2> SUFFICES ASSUME NEW f \in CronFields, NEW i \in DOMAIN input[f]
               PROVE input[f][i].from = Star \/ input[f][i].from.v <= input[f][i].to.v
    BY DEF Ordered
  <2>1. input[f][i] \in AllParts(input)[f]
    BY <1>1 DEF AllParts
  <2> QED BY <1>1, <2>1 DEF WellFormed
<1>3. /\ Ordered(input.minute) /\ Ordered(input.hour) /\ Ordered(input.day)
      /\ Ordered(input.month) /\ Ordered(input.weekday)
  BY <1>2 DEF CronFields
<1> DEFINE no == FALSE
           yes == TRUE
<1>4. /\ expr.minute = parse_field(input.minute, 0, MinuteMax, no)
      /\ expr.hour = parse_field(input.hour, 0, HourMax, no)
      /\ expr.day = parse_field(input.day, 1, DayMax, no)
      /\ expr.month = parse_field(input.month, 1, MonthMax, yes)
      /\ expr.weekday = parse_field(input.weekday, 0, WeekdayMax, TRUE)
  BY DEF compile
<1>5. expr.minute.ok /\ expr.hour.ok /\ expr.day.ok /\ expr.month.ok /\ expr.weekday.ok
  BY DEF compile
<1>6. /\ MinuteMax \in Nat /\ HourMax \in Nat /\ DayMax \in Nat /\ MonthMax \in Nat
      /\ WeekdayMax \in Nat \ {0} /\ U8Max \in Nat /\ 0 <= MinuteMax /\ 0 <= HourMax
      /\ 1 <= DayMax /\ 1 <= MonthMax /\ MinuteMax < U8Max /\ HourMax < U8Max /\ DayMax < U8Max
      /\ MonthMax < U8Max /\ WeekdayMax < U8Max /\ MonthMax # WeekdayMax
      /\ 0 \in Nat /\ 1 \in Nat /\ no \in BOOLEAN /\ yes \in BOOLEAN /\ ~no
  BY CronAssumption
<1> HIDE DEF expr, no, yes
<1>7. \A u \in 0..MinuteMax : u \in expr.minute.values <=> FieldAsks(input.minute, u, 0, MinuteMax)
  <2>1. parse_field(input.minute, 0, MinuteMax, no).ok
    BY <1>4, <1>5
  <2>2. \A u \in 0..MinuteMax : u \in parse_field(input.minute, 0, MinuteMax, no).values
                                 <=> FieldAsks(input.minute, u, 0, MinuteMax)
    BY <1>1, <1>3, <1>6, <2>1, FieldValues
  <2> QED BY <1>4, <2>2
<1>8. \A u \in 0..HourMax : u \in expr.hour.values <=> FieldAsks(input.hour, u, 0, HourMax)
  <2>1. parse_field(input.hour, 0, HourMax, no).ok
    BY <1>4, <1>5
  <2>2. \A u \in 0..HourMax : u \in parse_field(input.hour, 0, HourMax, no).values
                                 <=> FieldAsks(input.hour, u, 0, HourMax)
    BY <1>1, <1>3, <1>6, <2>1, FieldValues
  <2> QED BY <1>4, <2>2
<1>9. /\ \A u \in 0..DayMax : u \in expr.day.values <=> FieldAsks(input.day, u, 1, DayMax)
      /\ expr.day.star <=> input.day = AnyValue
  <2>1. parse_field(input.day, 1, DayMax, no).ok
    BY <1>4, <1>5
  <2>2. /\ \A u \in 0..DayMax : u \in parse_field(input.day, 1, DayMax, no).values
                                  <=> FieldAsks(input.day, u, 1, DayMax)
        /\ parse_field(input.day, 1, DayMax, no).star <=> input.day = AnyValue
    BY <1>1, <1>3, <1>6, <2>1, FieldValues
  <2> QED BY <1>4, <2>2
<1>10. \A u \in 0..MonthMax : u \in expr.month.values <=> FieldAsks(input.month, u, 1, MonthMax)
  <2>1. parse_field(input.month, 1, MonthMax, yes).ok
    BY <1>4, <1>5
  <2>2. \A u \in 0..MonthMax : u \in parse_field(input.month, 1, MonthMax, yes).values
                                 <=> FieldAsks(input.month, u, 1, MonthMax)
    BY <1>1, <1>3, <1>6, <2>1, FieldValues
  <2> QED BY <1>4, <2>2
<1>11. /\ \A d \in 0..(WeekdayMax - 1) : d \in expr.weekday.values
            <=> \E v \in 0..WeekdayMax :
                  v % WeekdayMax = d /\ FieldAsks(input.weekday, v, 0, WeekdayMax)
       /\ expr.weekday.star <=> input.weekday = AnyValue
  BY <1>1, <1>3, <1>4, <1>5, <1>6, WeekdayValues
<1> QED BY <1>7, <1>8, <1>9, <1>10, <1>11 DEF expr

\* What the property asks of a value is what the parts ask.
WantedBy(input, f, v, min, max) ==
  \E part \in AllParts(input)[f] :
    LET lo == IF part.from = Star THEN min ELSE part.from.v
        hi == IF part.from = Star THEN max ELSE part.to.v
    IN lo <= v /\ v <= hi /\ (v - lo) % part.step = 0
LEMMA WantedIsAsked ==
  ASSUME NEW input \in CronInputs, NEW f \in CronFields, NEW v, NEW min, NEW max
  PROVE  WantedBy(input, f, v, min, max) <=> FieldAsks(input[f], v, min, max)
<1>1. AllParts(input)[f] = {input[f][i] : i \in DOMAIN input[f]}
  BY CronAssumption DEF AllParts
<1> QED BY <1>1 DEF WantedBy, FieldAsks, Asks, Low, High

\* An expression that is kept matches exactly the minutes of a crontab.
LEMMA MatchesParts ==
  ASSUME cronInput \in CronInputs, compiled = "kept" => compile(cronInput).ok,
         minuteNow \in Nat, minuteNow <= LastMinute
  PROVE  MatchesCrontab
<1> SUFFICES ASSUME compile(cronInput).ok, WellFormed(cronInput)
             PROVE  MatchesCrontab
  BY DEF MatchesCrontab
<1> DEFINE expr == compile(cronInput).expr
           date == Calendar[DayOf(minuteNow) + 1]
           minute == minuteNow % (MinuteMax + 1)
           hour == (minuteNow \div (MinuteMax + 1)) % (HourMax + 1)
           wday == DayOf(minuteNow) % WeekdayMax
           W(f, v, min, max) == WantedBy(cronInput, f, v, min, max)
           DayFits == W("day", date[2], 1, DayMax)
           WeekdayFits == \E v \in 0..WeekdayMax : v % WeekdayMax = wday /\ W("weekday", v, 0, WeekdayMax)
<1>1. /\ minute \in 0..MinuteMax /\ hour \in 0..HourMax /\ date[1] \in 0..MonthMax
      /\ date[2] \in 0..DayMax /\ wday \in 0..(WeekdayMax - 1)
  BY MinuteOfCalendar
<1>2. /\ cronInput.minute = cronInput["minute"] /\ cronInput.hour = cronInput["hour"]
      /\ cronInput.day = cronInput["day"] /\ cronInput.month = cronInput["month"]
      /\ cronInput.weekday = cronInput["weekday"]
  OBVIOUS
<1>3. "minute" \in CronFields /\ "hour" \in CronFields /\ "day" \in CronFields
      /\ "month" \in CronFields /\ "weekday" \in CronFields
  BY DEF CronFields
<1> HIDE DEF expr, date, minute, hour, wday
<1>4. /\ W("minute", minute, 0, MinuteMax) <=> minute \in expr.minute.values
      /\ W("hour", hour, 0, HourMax) <=> hour \in expr.hour.values
      /\ W("month", date[1], 1, MonthMax) <=> date[1] \in expr.month.values
      /\ DayFits <=> date[2] \in expr.day.values
      /\ WeekdayFits <=> wday \in expr.weekday.values
      /\ expr.day.star <=> cronInput["day"] = AnyValue
      /\ expr.weekday.star <=> cronInput["weekday"] = AnyValue
  BY <1>1, <1>2, <1>3, FieldsParsed, WantedIsAsked DEF expr
<1>5. matches(expr, minuteNow)
        <=> /\ minute \in expr.minute.values /\ hour \in expr.hour.values
            /\ date[1] \in expr.month.values
            /\ IF ~expr.day.star /\ ~expr.weekday.star
               THEN date[2] \in expr.day.values \/ wday \in expr.weekday.values
               ELSE date[2] \in expr.day.values /\ wday \in expr.weekday.values
  BY DEF matches, date, minute, hour, wday
<1>6. (matches(expr, minuteNow)
         <=> /\ W("minute", minute, 0, MinuteMax) /\ W("hour", hour, 0, HourMax)
             /\ W("month", date[1], 1, MonthMax)
             /\ \/ DayFits /\ WeekdayFits
                \/ ~(cronInput["day"] = AnyValue) /\ ~(cronInput["weekday"] = AnyValue)
                   /\ (DayFits \/ WeekdayFits))
      => MatchesCrontab
  BY Zenon DEF MatchesCrontab, WantedBy, expr, date, minute, hour, wday
<1> HIDE DEF W, DayFits, WeekdayFits
<1> QED BY <1>4, <1>5, <1>6

\* The search for the next execution: a function over minutes that is its own next.
IsSearch(g, expr, from) ==
  g = [t \in Nat |-> IF t > from + SearchMinutes \/ t > LastMinute THEN NoNextExecution
                     ELSE IF matches(expr, t) THEN t ELSE g[t + 1]]
Searched(from) == {t \in Nat : t <= from + SearchMinutes /\ t <= LastMinute}
\* The first match from t on.
FirstMatch(m, t, expr, from) ==
  /\ m # NoNextExecution => m \in Searched(from) /\ m >= t /\ matches(expr, m)
  /\ \A u \in Searched(from) : t <= u /\ u < m => ~matches(expr, u)

\* There is one at every minute.
LEMMA SearchExists == ASSUME NEW expr, NEW from \in Nat PROVE \E g : IsSearch(g, expr, from)
<1> DEFINE Hits(t) == {u \in Searched(from) : t <= u /\ matches(expr, u)}
           Least(S) == CHOOSE n \in S : \A k \in S : n <= k
           g == [t \in Nat |-> IF Hits(t) = {} THEN NoNextExecution ELSE Least(Hits(t))]
<1>0. SearchMinutes \in Nat /\ LastMinute \in Int
  BY CronAssumption, CalendarTypes
<1>1. ASSUME NEW t \in Nat
      PROVE g[t] = IF t > from + SearchMinutes \/ t > LastMinute THEN NoNextExecution
                   ELSE IF matches(expr, t) THEN t ELSE g[t + 1]
  <2>1. t + 1 \in Nat /\ g[t] = (IF Hits(t) = {} THEN NoNextExecution ELSE Least(Hits(t)))
    OBVIOUS
  <2>2. g[t + 1] = IF Hits(t + 1) = {} THEN NoNextExecution ELSE Least(Hits(t + 1))
    OBVIOUS
  <2> HIDE DEF g
  <2>3. CASE t > from + SearchMinutes \/ t > LastMinute
    <3>1. Hits(t) = {}
      BY <1>0, <2>3 DEF Searched
    <3> QED BY <2>1, <2>3, <3>1
  <2>4. CASE ~(t > from + SearchMinutes \/ t > LastMinute) /\ matches(expr, t)
    <3>1. t \in Hits(t) /\ (\A k \in Hits(t) : t <= k) /\ Hits(t) \subseteq Nat
      BY <1>0, <2>4 DEF Searched
    <3> HIDE DEF Hits
    <3>2. Least(Hits(t)) = t
      BY <3>1
    <3> QED BY <2>1, <2>4, <3>1, <3>2
  <2>5. CASE ~(t > from + SearchMinutes \/ t > LastMinute) /\ ~matches(expr, t)
    <3>1. Hits(t) = Hits(t + 1)
      BY <2>5 DEF Searched
    <3> HIDE DEF Hits, Least
    <3> QED BY <2>1, <2>2, <2>5, <3>1
  <2> QED BY <2>3, <2>4, <2>5
<1>2. g = [t \in Nat |-> g[t]]
  OBVIOUS
<1> HIDE DEF g
<1>3. IsSearch(g, expr, from)
  BY <1>1, <1>2 DEF IsSearch
<1> QED BY <1>3

\* The search finds the first match, or that there is none, whichever function the
\* recursion chooses.
LEMMA SearchFinds ==
  ASSUME NEW expr, NEW from \in Nat, NEW g, IsSearch(g, expr, from), NEW start \in Nat
  PROVE  FirstMatch(g[start], start, expr, from)
<1> DEFINE B == from + SearchMinutes
           G == {n \in Nat : \A t \in Nat : t + n > B => FirstMatch(g[t], t, expr, from)}
<1>0. SearchMinutes \in Nat /\ LastMinute \in Int /\ NoNextExecution = LastMinute + 1 /\ B \in Nat
  BY CronAssumption, CalendarTypes DEF NoNextExecution
<1>1. ASSUME NEW t \in Nat
      PROVE g[t] = IF t > B \/ t > LastMinute THEN NoNextExecution
                   ELSE IF matches(expr, t) THEN t ELSE g[t + 1]
  BY DEF IsSearch
<1>2. ASSUME NEW t \in Nat, t > B \/ t > LastMinute PROVE FirstMatch(g[t], t, expr, from)
  BY <1>0, <1>1, <1>2 DEF FirstMatch, Searched
<1>3. 0 \in G
  BY <1>2
<1>4. ASSUME NEW n \in Nat, n \in G PROVE n + 1 \in G
  <2> SUFFICES ASSUME NEW t \in Nat, t + (n + 1) > B, ~(t > B \/ t > LastMinute)
               PROVE FirstMatch(g[t], t, expr, from)
    BY <1>2
  <2>1. CASE matches(expr, t)
    BY <2>1, <1>0, <1>1 DEF FirstMatch, Searched
  <2>2. CASE ~matches(expr, t)
    <3>1. g[t] = g[t + 1] /\ t + 1 \in Nat /\ (t + 1) + n > B
      BY <2>2, <1>0, <1>1
    <3>2. FirstMatch(g[t + 1], t + 1, expr, from)
      BY <3>1, <1>4
    <3>3. g[t + 1] # NoNextExecution => g[t + 1] >= t
      BY <3>2 DEF FirstMatch, Searched
    <3>4. \A u \in Searched(from) : t <= u => u = t \/ t + 1 <= u
      BY DEF Searched
    <3> QED BY <2>2, <3>1, <3>2, <3>3, <3>4 DEF FirstMatch
  <2> QED BY <2>1, <2>2
<1>5. B + 1 \in G
  <2> HIDE DEF G
  <2>1. Nat \subseteq G
    BY <1>3, <1>4, NaturalInduction
  <2> QED BY <2>1, <1>0
<1>6. start + (B + 1) > B
  BY <1>0
<1> QED BY <1>5, <1>6

\* What next_execution answers.
LEMMA NextFound ==
  ASSUME NEW expr, NEW from \in Nat
  PROVE  FirstMatch(next_execution(expr, from), from + 1, expr, from)
<1>1. \E g : IsSearch(g, expr, from)
  BY SearchExists
<1>2. PICK g : IsSearch(g, expr, from) /\ next_execution(expr, from) = g[from + 1]
  BY <1>1, Zenon DEF next_execution, IsSearch
<1>3. from + 1 \in Nat
  OBVIOUS
<1> QED BY <1>2, <1>3, SearchFinds

\* The expression in hand is one that may be given, is kept only when it compiles, and
\* what is forecast is the first match after the minute it was asked at.
CronInv ==
  /\ cronInput \in CronInputs /\ compiled \in {"new", "kept", "refused"}
  /\ compiled = "kept" => compile(cronInput).ok
  /\ compiled # "kept" => forecast = 0
  /\ minuteNow \in Nat /\ minuteNow <= LastMinute /\ askedAt \in Nat /\ askedAt <= minuteNow
  /\ compiled = "kept" /\ forecast > minuteNow =>
       FirstMatch(forecast, askedAt + 1, compile(cronInput).expr, askedAt)

\* Nothing compiled yet, at the first minute.
LEMMA CronInitInv == CronInit => CronInv
BY CalendarTypes DEF CronInit, CronInv

\* Compiling, asking and waiting keep it.
LEMMA CronNextInv == CronInv /\ [CronNext]_cronVars => CronInv'
<1> SUFFICES ASSUME CronInv, [CronNext]_cronVars PROVE CronInv'
  OBVIOUS
<1>0. LastMinute \in Int
  BY CalendarTypes
<1>1. CASE CronCompiles
  <2>1. forecast' > minuteNow' => compiled' # "kept"
    BY <1>1 DEF CronCompiles, CronInv
  <2> QED BY <1>1, <2>1 DEF CronCompiles, CronInv
<1>2. CASE CronForecasts
  <2>1. FirstMatch(forecast', askedAt' + 1, compile(cronInput').expr, askedAt')
    BY <1>2, NextFound DEF CronForecasts, CronInv
  <2> QED BY <1>2, <2>1 DEF CronForecasts, CronInv
<1>3. CASE MinutePasses
  BY <1>0, <1>3 DEF MinutePasses, CronInv
<1>4. CASE UNCHANGED cronVars
  BY <1>4 DEF cronVars, CronInv
<1> QED BY <1>1, <1>2, <1>3, <1>4 DEF CronNext

\* The invariant says what the property asks.
LEMMA CronInvExact == CronInv => CronExact
<1> SUFFICES ASSUME CronInv PROVE CronExact
  OBVIOUS
<1>1. MatchesCrontab
  BY MatchesParts DEF CronInv
<1>2. ForecastKept
  <2> DEFINE expr == compile(cronInput).expr
  <2> HIDE DEF expr
  <2> SUFFICES ASSUME compiled = "kept", forecast > minuteNow
               PROVE  /\ forecast # NoNextExecution => matches(expr, forecast)
                      /\ \A t \in (askedAt + 1)..LastMinute :
                           t < forecast /\ t <= askedAt + SearchMinutes => ~matches(expr, t)
    BY DEF ForecastKept, expr
  <2>1. FirstMatch(forecast, askedAt + 1, expr, askedAt)
    BY DEF CronInv, expr
  <2>2. ASSUME NEW t \in (askedAt + 1)..LastMinute, t <= askedAt + SearchMinutes
        PROVE t \in Searched(askedAt) /\ askedAt + 1 <= t
    BY <2>2 DEF Searched, CronInv
  <2> QED BY <2>1, <2>2 DEF FirstMatch
<1> QED BY <1>1, <1>2 DEF CronExact

\* For every calendar, every field width and every expression: an expression whose
\* ranges are in order and whose names are in their field fires at exactly the minutes
\* a crontab would, although its values are collected in a u8 that saturates, and the
\* next execution that was shown comes true (expr.rs, schedule.rs).
THEOREM CronIsExact == CronInit /\ [][CronNext]_cronVars => []CronExact
BY CronInitInv, CronNextInv, CronInvExact, PTL

-----------------------------------------------------------------------------
(* The specification of the run *)

\* A step of the run is a step of each component or leaves it alone.
LEMMA WindowsSteps ==
  ASSUME [WindowsNext]_<<moves, schedVars, cronVars, inboundVars, loopVars, roomVars, eventVars>>
  PROVE  /\ [SchedNext]_schedVars /\ [InboundNext]_inboundVars /\ [LoopNext]_loopVars
         /\ [RoomNext]_roomVars /\ [EventsNext]_eventVars /\ [CronNext]_cronVars
BY DEF WindowsNext, Still

\* A behaviour of the run is one of each component.
LEMMA WindowsComponents ==
  WindowsSpec => SchedSpec /\ InboundSpec /\ LoopSpec /\ RoomSpec /\ EventsSpec
<1>1. WindowsInit => SchedInit /\ InboundInit /\ LoopInit /\ RoomInit /\ EventsInit
  BY DEF WindowsInit
<1> QED
  BY <1>1, WindowsSteps, PTL DEF WindowsSpec, SchedSpec, InboundSpec, LoopSpec, RoomSpec, EventsSpec

\* Types, the replay cache's two halves and the detector's window, in every state.
THEOREM WindowsTypes == WindowsSpec => []WindowsTypeOK
<1>1. SchedTypeOK /\ InboundTypeOK /\ CacheConsistent /\ LoopTypeOK /\ WindowIsRecent
      /\ RoomTypeOK /\ EventsTypeOK => WindowsTypeOK
  BY DEF WindowsTypeOK
<1> QED
  BY <1>1, WindowsComponents, ScheduleDeliveries, InboundCacheConsistent, LoopTypesAndWindow,
     RoomSendOnce, EventsPrintedOnce, PTL

\* What the home client sends again is started once, and what it reads again is
\* printed once.
THEOREM HomeClientOnce == WindowsSpec => []HomeClientSound
<1>1. RoomTypeOK /\ RoomSendSound /\ EventsTypeOK /\ EventsExact => HomeClientSound
  BY DEF HomeClientSound
<1> QED BY <1>1, WindowsComponents, RoomSendOnce, EventsPrintedOnce, PTL

\* The same of the specification the run checks.
THEOREM WindowsCronExact == WindowsSpec => []CronExact
<1>1. WindowsInit => CronInit
  BY DEF WindowsInit
<1> QED BY <1>1, WindowsSteps, CronIsExact, PTL DEF WindowsSpec
=============================================================================
