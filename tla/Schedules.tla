----------------------------- MODULE Schedules -----------------------------
(***************************************************************************)
(* Unattended fires (crates/automation/src/proactive.rs and driver.rs,     *)
(* crates/cli/src/schedule_exec.rs): the directory of schedule records,    *)
(* `ardur schedule run` processes that fire what is due on every tick,     *)
(* `ardur schedule fire` processes that fire one schedule, and             *)
(* `ardur schedule create` and `delete` beside them. A record is replaced  *)
(* by a rename and so never torn, but nothing is held between a load, the  *)
(* turn it starts, and the read and the write that record the fire.        *)
(***************************************************************************)
EXTENDS Naturals, FiniteSets

CONSTANTS
  Sids,         \* schedule ids (uuids: a deleted id is never created again)
  Drivers,      \* processes of `ardur schedule run`
  Firers,       \* processes of `ardur schedule fire`
  DueMinutes,   \* the minutes each schedule's cron expression matches
  MinuteTicks,  \* clock ticks in a minute
  TokenTtl,     \* FIRE_CAP_TTL_SECS, in ticks
  MaxClock, MaxFaults, MaxFires   \* bounds

Runners == Drivers \cup Firers
Minute(t) == t \div MinuteTicks
Never == MaxClock + 1        \* last_fire_at = None
NoSid == "no schedule"

ASSUME SchedAssumption ==
  /\ Drivers \cap Firers = {}
  /\ MinuteTicks \in Nat \ {0} /\ TokenTtl \in Nat
  /\ MaxClock \in Nat /\ MaxFaults \in Nat /\ MaxFires \in Nat
  /\ DueMinutes \in [Sids -> SUBSET Nat]
  /\ NoSid \notin Sids

VARIABLES
  clock,
  record,     \* the file of each schedule: does it exist, last_fire_at, fire_count
  runPc,      \* where a process is
  now,        \* fired_at of its tick
  loadedAt,   \* when load_all minted the tokens of this tick
  due,        \* schedules of the tick still to be fired
  current,    \* the schedule being fired
  read,       \* what record_successful_fire read
  \* history and bounds
  delivered,  \* deliveries by a driver: schedule, minute, how many
  answers,    \* every delivery, by schedule
  unrecorded, \* deliveries of a schedule that were not recorded
  contested,  \* schedules that two processes had in hand at a time
  faults, fires

schedVars == <<clock, record, runPc, now, loadedAt, due, current, read, delivered,
               answers, unrecorded, contested, faults, fires>>
fireVars == <<delivered, answers, unrecorded>>

Absent == [exists |-> FALSE, last |-> Never, count |-> 0]
Fresh == [exists |-> TRUE, last |-> Never, count |-> 0]
Records == [exists : BOOLEAN, last : 0..Never, count : Nat]
Minutes == 0..Minute(MaxClock)

\* The records, the runners' snapshots and the counts keep their types.
SchedTypeOK ==
  /\ clock \in 0..MaxClock
  /\ record \in [Sids -> Records]
  /\ runPc \in [Runners -> {"idle", "load", "pick", "submit", "deliver", "read", "write",
                            "exited"}]
  /\ now \in [Runners -> 0..MaxClock] /\ loadedAt \in [Runners -> 0..MaxClock]
  /\ due \in [Runners -> SUBSET Sids]
  /\ current \in [Runners -> Sids \cup {NoSid}]
  /\ read \in [Runners -> Records]
  /\ delivered \in [Sids -> [Minutes -> Nat]] /\ answers \in [Sids -> Nat]
  /\ unrecorded \in [Sids -> Nat]
  /\ contested \subseteq Sids
  /\ faults \in 0..MaxFaults /\ fires \in 0..MaxFires

SchedInit ==
  /\ clock = 0
  /\ record = [s \in Sids |-> Absent]
  /\ runPc = [p \in Runners |-> "idle"]
  /\ now = [p \in Runners |-> 0] /\ loadedAt = [p \in Runners |-> 0]
  /\ due = [p \in Runners |-> {}]
  /\ current = [p \in Runners |-> NoSid]
  /\ read = [p \in Runners |-> Absent]
  /\ delivered = [s \in Sids |-> [m \in Minutes |-> 0]]
  /\ answers = [s \in Sids |-> 0]
  /\ unrecorded = [s \in Sids |-> 0]
  /\ contested = {} /\ faults = 0 /\ fires = 0

\* What a process has taken up, or is about to load, and has not finished.
InHand(p) == IF runPc[p] = "load" THEN Sids ELSE due[p] \cup ({current[p]} \ {NoSid})

RunStep(p, from, to) ==
  /\ runPc[p] = from
  /\ runPc' = [runPc EXCEPT ![p] = to]

-----------------------------------------------------------------------------
(* The directory *)

\* `ardur schedule create`: a new id, enabled, never fired.
CreateSchedule(s) ==
  /\ record[s] = Absent /\ answers[s] = 0
  /\ record' = [record EXCEPT ![s] = Fresh]
  /\ UNCHANGED <<clock, runPc, now, loadedAt, due, current, read, fireVars, contested,
                 faults, fires>>

\* `ardur schedule delete`. A process that holds the schedule may still write it.
DeleteSchedule(s) ==
  /\ record[s].exists
  /\ record' = [record EXCEPT ![s].exists = FALSE]
  /\ contested' = IF \E p \in Runners : s \in InHand(p) THEN contested \cup {s} ELSE contested
  /\ UNCHANGED <<clock, runPc, now, loadedAt, due, current, read, fireVars, faults, fires>>

-----------------------------------------------------------------------------
(* A process *)

\* Mutant: a schedule that was loaded once stays loaded.
is_dueCached(s, t) ==
  /\ Minute(t) \in DueMinutes[s]
  /\ ~(record[s].last # Never /\ Minute(record[s].last) = Minute(t))

\* AutomationSchedule::is_due with same_cron_minute.
is_due(s, t) ==
  /\ record[s].exists
  /\ Minute(t) \in DueMinutes[s]
  /\ ~(record[s].last # Never /\ Minute(record[s].last) = Minute(t))

\* run_bounded: the ticker fires and Utc::now() is taken.
DriverTicks(p) ==
  /\ p \in Drivers /\ fires < MaxFires
  /\ RunStep(p, "idle", "load")
  /\ now' = [now EXCEPT ![p] = clock]
  /\ fires' = fires + 1
  /\ UNCHANGED <<clock, record, loadedAt, due, current, read, fireVars, contested, faults>>

\* fire_due: load_all materializes the records and mints a token for each of them;
\* the due ones are kept.
LoadDue(p) ==
  /\ p \in Drivers
  /\ RunStep(p, "load", "pick")
  /\ due' = [due EXCEPT ![p] = {s \in Sids : is_due(s, now[p])}]
  /\ loadedAt' = [loadedAt EXCEPT ![p] = clock]
  /\ contested' = contested \cup
       {s \in due'[p] : \E q \in Runners \ {p} : s \in InHand(q)}
  /\ UNCHANGED <<clock, record, now, current, read, fireVars, faults, fires>>

\* run_schedule_fire and fire_now: load, look up, and fire whatever the hour.
FireNow(p, s) ==
  /\ p \in Firers /\ fires < MaxFires
  /\ record[s].exists
  /\ RunStep(p, "idle", "submit")
  /\ current' = [current EXCEPT ![p] = s]
  /\ now' = [now EXCEPT ![p] = clock]
  /\ loadedAt' = [loadedAt EXCEPT ![p] = clock]
  /\ contested' = IF \E q \in Runners \ {p} : s \in InHand(q) THEN contested \cup {s} ELSE contested
  /\ fires' = fires + 1
  /\ UNCHANGED <<clock, record, due, read, fireVars, faults>>

\* fire_due's loop takes the next schedule.
TakeNext(p) ==
  /\ RunStep(p, "pick", "submit")
  /\ \E s \in due[p] :
       /\ current' = [current EXCEPT ![p] = s]
       /\ due' = [due EXCEPT ![p] = @ \ {s}]
  /\ UNCHANGED <<clock, record, now, loadedAt, read, fireVars, contested, faults, fires>>

AllFired(p) ==
  /\ due[p] = {}
  /\ RunStep(p, "pick", "idle")
  /\ UNCHANGED <<clock, record, now, loadedAt, due, current, read, fireVars, contested,
                 faults, fires>>

\* Where a process goes when fire_schedule returns.
Returns(p, from) ==
  /\ RunStep(p, from, IF p \in Drivers THEN "pick" ELSE "exited")
  /\ current' = [current EXCEPT ![p] = NoSid]

\* AutomationRuntime::submit succeeds; the token minted at load_all must not have
\* expired by then.
SubmitOk(p) ==
  /\ clock <= loadedAt[p] + TokenTtl
  /\ RunStep(p, "submit", "deliver")
  /\ UNCHANGED <<clock, record, now, loadedAt, due, current, read, fireVars, contested,
                 faults, fires>>

SubmitFails(p) ==
  /\ clock > loadedAt[p] + TokenTtl \/ faults < MaxFaults
  /\ faults' = IF clock > loadedAt[p] + TokenTtl THEN faults ELSE faults + 1
  /\ Returns(p, "submit")
  /\ UNCHANGED <<clock, record, now, loadedAt, due, read, fireVars, contested, fires>>

\* AutomationChannel::deliver.
Deliver(p) ==
  /\ RunStep(p, "deliver", "read")
  /\ answers' = [answers EXCEPT ![current[p]] = @ + 1]
  /\ delivered' = IF p \in Drivers
                  THEN [delivered EXCEPT ![current[p]][Minute(now[p])] = @ + 1]
                  ELSE delivered
  /\ UNCHANGED <<clock, record, now, loadedAt, due, current, read, unrecorded, contested,
                 faults, fires>>

DeliveryFails(p) ==
  /\ faults < MaxFaults /\ faults' = faults + 1
  /\ Returns(p, "deliver")
  /\ UNCHANGED <<clock, record, now, loadedAt, due, read, fireVars, contested, fires>>

Forget(s) == unrecorded' = [unrecorded EXCEPT ![s] = @ + 1]

\* record_successful_fire: the record is read ...
RecordReads(p) ==
  /\ RunStep(p, "read", "write")
  /\ record[current[p]].exists
  /\ read' = [read EXCEPT ![p] = record[current[p]]]
  /\ UNCHANGED <<clock, record, now, loadedAt, due, current, fireVars, contested, faults,
                 fires>>

\* ... or was deleted meanwhile, or cannot be read: ScheduleNotFound, StoreIo.
RecordReadFails(p) ==
  /\ Returns(p, "read")
  /\ ~record[current[p]].exists \/ faults < MaxFaults
  /\ faults' = IF record[current[p]].exists THEN faults + 1 ELSE faults
  /\ Forget(current[p])
  /\ UNCHANGED <<clock, record, now, loadedAt, due, read, delivered, answers, contested,
                 fires>>

\* Mutant: the count is written back as it was read.
RecordWritesUncounted(p) ==
  /\ Returns(p, "write")
  /\ record' = [record EXCEPT ![current[p]] =
       [exists |-> TRUE, last |-> now[p], count |-> read[p].count]]
  /\ UNCHANGED <<clock, now, loadedAt, due, read, fireVars, contested, faults, fires>>

\* ... and written back with the fire.
RecordWrites(p) ==
  /\ Returns(p, "write")
  /\ record' = [record EXCEPT ![current[p]] =
       [exists |-> TRUE, last |-> now[p], count |-> read[p].count + 1]]
  /\ UNCHANGED <<clock, now, loadedAt, due, read, fireVars, contested, faults, fires>>

RecordWriteFails(p) ==
  /\ faults < MaxFaults /\ faults' = faults + 1
  /\ Returns(p, "write")
  /\ Forget(current[p])
  /\ UNCHANGED <<clock, record, now, loadedAt, due, read, delivered, answers, contested,
                 fires>>

\* Ctrl-C, or the machine: the process is started again later.
RunnerDies(p) ==
  /\ faults < MaxFaults /\ faults' = faults + 1
  /\ runPc[p] \notin {"idle", "exited"}
  /\ runPc' = [runPc EXCEPT ![p] = IF p \in Drivers THEN "idle" ELSE "exited"]
  /\ due' = [due EXCEPT ![p] = {}]
  /\ current' = [current EXCEPT ![p] = NoSid]
  /\ IF runPc[p] \in {"read", "write"} THEN Forget(current[p]) ELSE UNCHANGED unrecorded
  /\ UNCHANGED <<clock, record, now, loadedAt, read, delivered, answers, contested, fires>>

TimePasses ==
  /\ clock < MaxClock /\ clock' = clock + 1
  /\ UNCHANGED <<record, runPc, now, loadedAt, due, current, read, fireVars, contested,
                 faults, fires>>

FireStep(p) ==
  \/ LoadDue(p) \/ TakeNext(p) \/ AllFired(p)
  \/ SubmitOk(p) \/ SubmitFails(p) \/ Deliver(p) \/ DeliveryFails(p)
  \/ RecordReads(p) \/ RecordReadFails(p) \/ RecordWrites(p) \/ RecordWriteFails(p)

SchedNext ==
  \/ TimePasses
  \/ \E s \in Sids : CreateSchedule(s) \/ DeleteSchedule(s)
  \/ \E p \in Runners :
       \/ DriverTicks(p) \/ FireStep(p) \/ RunnerDies(p)
       \/ \E s \in Sids : FireNow(p, s)

SchedSpec == SchedInit /\ [][SchedNext]_schedVars

-----------------------------------------------------------------------------
(* Properties *)

\* A driver's ticks deliver a schedule at most once in a cron minute, and once
\* more for every delivery that could not be recorded, as long as no other
\* process has the schedule in hand (same_cron_minute, proactive.rs:208).
OncePerMinute ==
  \A s \in Sids \ contested : \A m \in Minutes : delivered[s][m] <= 1 + unrecorded[s]

\* fire_count is the number of deliveries that were recorded: none is counted
\* twice and none is lost (proactive.rs:238), for a schedule in one hand at a time.
CountIsDeliveries ==
  \A s \in Sids \ contested :
    record[s].exists =>
      record[s].count + unrecorded[s] +
        Cardinality({p \in Runners : current[p] = s /\ runPc[p] \in {"read", "write"}})
      = answers[s]

\* Nothing is delivered twice, and what was delivered is counted once.
DeliveriesSound == OncePerMinute /\ CountIsDeliveries

\* A deleted schedule is over: it neither fires nor comes back, unless a process
\* had it in hand and writes it back (schedule_exec.rs:359 reads and writes with
\* nothing held between).
DeletedIsOver ==
  [][\A s \in Sids \ contested' :
       ~record[s].exists =>
         /\ answers'[s] = answers[s]
         /\ record'[s].exists => record[s] = Absent /\ answers[s] = 0]_schedVars

=============================================================================
