---------------------------- MODULE LoopDetector ----------------------------
(***************************************************************************)
(* The runaway-agent detector (crates/loop-detector): three signals over   *)
(* sliding windows, a grace window, halt, kill and the operator's          *)
(* override. A run and a child run whose budget was derived from it watch  *)
(* the same tool calls and turns. No crate drives the detector yet: the    *)
(* caller here ends turns, may report a call late, and checks the grace    *)
(* window when it likes.                                                   *)
(***************************************************************************)
EXTENDS Naturals, Sequences, FiniteSetsExt

CONSTANTS
  CallKinds,   \* loop signatures
  Exempt,      \* the ones a whitelist entry exempts
  Costs,       \* what a turn may cost
  Budgets,     \* budgets a run may start with
  Requests,    \* LoopBudgetRequests for the child
  MaxLoopTurns, MaxCalls, MaxOverrides \* bounds of the exploration

ASSUME LoopAssumption ==
  /\ Exempt \subseteq CallKinds /\ Costs \subseteq Nat
  /\ MaxLoopTurns \in Nat /\ MaxCalls \in Nat /\ MaxOverrides \in Nat

\* LoopBudget and LoopBudgetRequest: a request names some of the fields.
OverrideActions == {"Warn", "Halt", "Kill"}
LoopBudgets ==
  [repeats : Nat, span : Nat, idle : Nat, ratio : Nat, windows : Nat, grace : Nat,
   action : OverrideActions]
Fields == {"repeats", "span", "idle", "ratio", "windows", "grace"}

ASSUME BudgetAssumption ==
  /\ Budgets \subseteq LoopBudgets
  /\ \A req \in Requests :
       /\ DOMAIN req \subseteq Fields \cup {"action"}
       /\ \A f \in DOMAIN req \cap Fields : req[f] \in Nat
       /\ "action" \in DOMAIN req => req.action \in OverrideActions

VARIABLES
  run,       \* LoopDetectorState of the run
  child,     \* ... and of the child
  turnNow,   \* the turn in progress
  calls,     \* tool calls observed
  overrides,
  seen       \* every call the run's detector recorded, oldest first

loopVars == <<run, child, turnNow, calls, overrides, seen>>

Severity == [Warn |-> 0, Halt |-> 1, Kill |-> 2]
Signals == {"SameToolSameArgs", "NoProgress", "CostAcceleration"}
Healthy == [is |-> "Healthy", by |-> "none", since |-> 0]

NewState(b) ==
  [budget |-> b, window |-> <<>>, costs |-> <<>>, idle |-> 0, accel |-> 0,
   trips |-> {}, last |-> 0, halt |-> Healthy, tripped |-> 0]

\* Mutant: the comparison is the wrong way round.
RelaxesSwapped(b, req) ==
  \/ \E f \in DOMAIN req \cap Fields : req[f] < b[f]
  \/ "action" \in DOMAIN req /\ Severity[req.action] < Severity[b.action]

\* derive_for_loop_budget: each field is taken over or lowered, the action made
\* no milder; anything else is refused.
Relaxes(b, req) ==
  \/ \E f \in DOMAIN req \cap Fields : req[f] > b[f]
  \/ "action" \in DOMAIN req /\ Severity[req.action] < Severity[b.action]

derive_for_loop_budget(b, req) ==
  [f \in DOMAIN b |-> IF f \in DOMAIN req THEN req[f] ELSE b[f]]

-----------------------------------------------------------------------------
(* LoopDetector: each observation maps a state to the next one *)

Kill(d) == [d EXCEPT !.halt = [is |-> "Killed", by |-> "none", since |-> 0]]

\* on_trip; tripped notes the turn of the latest trip.
on_trip(d, signal, ratioDoubled, turn) ==
  LET hit == [d EXCEPT !.trips = @ \cup {signal}, !.tripped = turn]
  IN IF d.budget.action = "Warn" THEN hit
     ELSE IF ratioDoubled \/ Cardinality(hit.trips) >= 2 \/ d.budget.action = "Kill"
       THEN Kill(hit)
     ELSE [hit EXCEPT !.halt = [is |-> "Detected", by |-> signal, since |-> turn]]

\* The eviction loop drops entries from the front and stops at the first that
\* lies within the window.
Evict(window, span, turn) ==
  LET gone == Min({n \in 0..Len(window) :
                     n < Len(window) => turn - window[n + 1].turn < span})
  IN SubSeq(window, gone + 1, Len(window))

Repeats(window, call) == Cardinality({i \in 1..Len(window) : window[i].call = call})

Counts(d, call, turn) ==
  /\ turn >= d.last /\ d.halt.is \notin {"Halted", "Killed"} /\ call \notin Exempt

\* observe_admission, of a call made in some turn.
observe_admission(d, call, turn) ==
  IF turn < d.last THEN d
  ELSE LET at == [d EXCEPT !.last = turn]
           kept == Evict(d.window, d.budget.span, turn)
           grown == [at EXCEPT !.window = Append(kept, [call |-> call, turn |-> turn])]
       IN IF d.halt.is = "Halted" THEN Kill(at)
          ELSE IF ~Counts(d, call, turn) THEN at
          ELSE IF Repeats(grown.window, call) >= d.budget.repeats
                 THEN on_trip(grown, "SameToolSameArgs", FALSE, turn)
                 ELSE grown

\* Signal 2: progress clears the no-progress trip, and with the last trip an
\* open grace window.
Progress(d, made) ==
  IF ~made THEN [d EXCEPT !.idle = @ + 1]
  ELSE [d EXCEPT
         !.idle = 0, !.trips = @ \ {"NoProgress"},
         !.halt = IF "NoProgress" \in d.trips /\ d.trips = {"NoProgress"} /\ @.is = "Detected"
                    THEN Healthy ELSE @]

\* Signal 3 compares with the cost three turns earlier; the rest of cost_window
\* is evidence only. A cost after nothing is an infinite ratio.
Recent(costs) == IF Len(costs) > 4 THEN Tail(costs) ELSE costs
Accelerates(costs, ratio) ==
  IF costs[1] = 0 THEN costs[4] > 0 \/ ratio = 0 ELSE costs[4] > ratio * costs[1]
Doubles(costs, ratio) ==
  IF costs[1] = 0 THEN costs[4] > 0 \/ ratio = 0 ELSE costs[4] >= 2 * ratio * costs[1]

Cost(d, cost) ==
  LET costs == Recent(Append(d.costs, cost))
  IN [d EXCEPT !.costs = costs,
               !.accel = IF Len(costs) < 4 THEN @
                         ELSE IF Accelerates(costs, d.budget.ratio) THEN @ + 1 ELSE 0]

\* observe_turn prefers the cost signal.
ObserveLive(d, turn, made, cost) ==
  LET full == Cost(Progress([d EXCEPT !.last = turn], made), cost)
      ready == Len(full.costs) = 4
  IN IF ready /\ full.accel >= d.budget.windows
       THEN on_trip(full, "CostAcceleration", Doubles(full.costs, d.budget.ratio), turn)
     ELSE IF full.idle >= d.budget.idle THEN on_trip(full, "NoProgress", FALSE, turn)
     ELSE full

observe_turn(d, turn, made, cost) ==
  IF turn < d.last THEN d
  ELSE IF d.halt.is = "Killed" THEN [d EXCEPT !.last = turn]
  ELSE ObserveLive(d, turn, made, cost)

\* Mutant: the grace window is not waited for.
check_grace_expiryAtOnce(d, turn) ==
  IF d.halt.is # "Detected" THEN d
  ELSE [d EXCEPT !.halt = [is |-> "Halted", by |-> d.halt.by, since |-> 0]]

check_grace_expiry(d, turn) ==
  IF d.halt.is # "Detected" THEN d
  ELSE IF d.halt.by \notin d.trips THEN [d EXCEPT !.halt = Healthy]
  ELSE IF turn - d.halt.since > d.budget.grace
    THEN [d EXCEPT !.halt = [is |-> "Halted", by |-> d.halt.by, since |-> 0]]
  ELSE d

\* override_halt, with a reason.
override_halt(d) == [d EXCEPT !.halt = Healthy, !.trips = {}]

-----------------------------------------------------------------------------
LoopInit ==
  /\ \E b \in Budgets : \E req \in Requests :
       /\ ~Relaxes(b, req)
       /\ run = NewState(b) /\ child = NewState(derive_for_loop_budget(b, req))
  /\ turnNow = 1 /\ calls = 0 /\ overrides = 0 /\ seen = <<>>

ToolCall(call, turn) ==
  /\ turnNow <= MaxLoopTurns /\ calls < MaxCalls
  /\ calls' = calls + 1
  /\ run' = observe_admission(run, call, turn)
  /\ child' = observe_admission(child, call, turn)
  /\ seen' = IF Counts(run, call, turn) THEN Append(seen, [call |-> call, turn |-> turn])
             ELSE seen
  /\ UNCHANGED <<turnNow, overrides>>

LoopTurnEnds(made, cost) ==
  /\ turnNow <= MaxLoopTurns
  /\ run' = observe_turn(run, turnNow, made, cost)
  /\ child' = observe_turn(child, turnNow, made, cost)
  /\ turnNow' = turnNow + 1
  /\ UNCHANGED <<calls, overrides, seen>>

GraceChecked ==
  /\ run' = check_grace_expiry(run, turnNow)
  /\ child' = check_grace_expiry(child, turnNow)
  /\ UNCHANGED <<turnNow, calls, overrides, seen>>

Overridden ==
  /\ run.halt.is = "Halted" /\ overrides < MaxOverrides
  /\ run' = override_halt(run)
  /\ overrides' = overrides + 1
  /\ UNCHANGED <<child, turnNow, calls, seen>>

LoopNext ==
  \/ \E call \in CallKinds : \E turn \in {turnNow, turnNow - 1} \ {0} : ToolCall(call, turn)
  \/ \E made \in BOOLEAN : \E cost \in Costs : LoopTurnEnds(made, cost)
  \/ GraceChecked \/ Overridden

LoopSpec == LoopInit /\ [][LoopNext]_loopVars

-----------------------------------------------------------------------------
(* Properties *)

\* Both detectors' windows, trips and turn counters stay in range.
LoopTypeOK ==
  /\ \A d \in {run, child} :
       /\ d.halt.is \in {"Healthy", "Detected", "Halted", "Killed"}
       /\ d.trips \subseteq Signals /\ Len(d.costs) <= 4
       /\ d.last \in 0..MaxLoopTurns + 1 /\ d.halt.since \in 0..MaxLoopTurns + 1
  /\ turnNow \in 1..MaxLoopTurns + 1
  /\ calls \in 0..MaxCalls /\ overrides \in 0..MaxOverrides

\* The window holds the latest counted call and exactly those before it that lie
\* within span turns of it, also when calls are reported late or span turns apart
\* (detector.rs:288).
WindowIsRecent ==
  \E k \in 0..Len(seen) :
    /\ run.window = SubSeq(seen, k + 1, Len(seen))
    /\ \A i \in 1..Len(seen) :
         i > k <=> i = Len(seen) \/ seen[Len(seen)].turn - seen[i].turn < run.budget.span

\* Two signals that are active together kill the run, whichever came first and
\* whatever was cleared or overridden in between; a Warn profile never stops
\* anything (detector.rs:189 and :211).
TwoSignalsKill ==
  \A d \in {run, child} :
    /\ Cardinality(d.trips) >= 2 /\ d.budget.action # "Warn" => d.halt.is = "Killed"
    /\ d.budget.action = "Warn" => d.halt = Healthy

\* A halt comes only after more than grace turns without another trip, counted
\* from the latest one (detector.rs:231 and :402). It is what the code does and
\* not what docs/loop-detector.md:32, lib.rs:23 and budget.rs:28 say: there the
\* grace counts from the trip that opened it, while here a run that trips each
\* turn is never halted (README, section 4).
HaltAfterQuietGrace ==
  [][\A d \in {<<run, run'>>, <<child, child'>>} :
       d[1].halt.is # "Halted" /\ d[2].halt.is = "Halted" =>
         turnNow - d[1].tripped > d[1].budget.grace]_loopVars

\* A child whose window was not shortened trips no later than the run its
\* budget comes from (budget.rs:70). A shorter window, which the code takes for
\* a tighter one, forgets repetitions the parent still counts.
ChildTripsFirst ==
  child.budget.span = run.budget.span /\ run.tripped > 0 => child.tripped > 0

\* The detector escalates as its signals accumulate, and no later for a child
\* than for its parent.
DetectorSound == TwoSignalsKill /\ ChildTripsFirst
=============================================================================
