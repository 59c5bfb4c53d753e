----------------------------- MODULE MCWindows ------------------------------
(***************************************************************************)
(* Clocks, windows and retries: what starts a turn without a user          *)
(* (Schedules, CronExpr, WebhookInbound), what stops one that runs away    *)
(* (LoopDetector) and how the home client sends and follows one again      *)
(* (RoomSend, RunEvents), on small instances. They share no state, so a    *)
(* behaviour moves one of them and leaves the others at their initial      *)
(* states.                                                                 *)
(***************************************************************************)
EXTENDS Schedules, CronExpr, WebhookInbound, LoopDetector,
        RoomSend, RunEvents, TLC

CONSTANTS k1, k2

VARIABLE moves   \* the component that moves

\* k1 is due in both minutes of the run, k2 only in the second.
MCDueMinutes == k1 :> {0, 1} @@ k2 :> {1}

\* Years of two months of two days; the second year is a leap year, with a third
\* day in its second month.
MCCalendar ==
  <<<<1, 1>>, <<1, 2>>, <<2, 1>>, <<2, 2>>, <<1, 1>>, <<1, 2>>, <<2, 1>>, <<2, 2>>,
    <<2, 3>>, <<1, 1>>, <<1, 2>>>>

One(n) == <<Part(Num(n), Num(n), 1)>>

\* Numbers in and out of range, steps of 0 and past the end, ranges forwards and
\* backwards, lists, names of both kinds in both named fields, Sunday twice.
MCCronInputs ==
  [minute  : {AnyValue, One(1), One(2), Every(0), Every(2)},
   hour    : {AnyValue},
   day     : {AnyValue, One(1), One(3), Every(1), <<Part(Num(1), Num(3), 2)>>,
              <<Part(Num(3), Num(1), 1)>>},
   month   : {AnyValue, One(2), <<Part(Month(2), Month(2), 1)>>,
              <<Part(Weekday(0), Weekday(0), 1)>>},
   weekday : {AnyValue, One(0), One(3), <<Part(Num(1), Num(3), 1)>>,
              <<Part(Num(2), Num(2), 1), Part(Num(3), Num(3), 1)>>,
              <<Part(Month(2), Month(2), 1)>>, <<Part(Num(0), Num(3), 255)>>}]

\* Two sources with a window of one second and one with two.
MCSourceWindow == "a" :> 1 @@ "b" :> 2 @@ "c" :> 1

Budget(repeats, span, idle, ratio, windows, grace, action) ==
  [repeats |-> repeats, span |-> span, idle |-> idle, ratio |-> ratio,
   windows |-> windows, grace |-> grace, action |-> action]

\* Each action, each window at one and at more turns.
MCBudgets ==
  {Budget(2, 2, 2, 1, 1, 1, "Halt"), Budget(2, 3, 2, 1, 2, 0, "Halt"),
   Budget(2, 2, 2, 1, 1, 1, "Warn"), Budget(2, 3, 3, 2, 1, 1, "Kill")}

MCRequests ==
  {[f \in {} |-> 0], [repeats |-> 1], [span |-> 1], [idle |-> 1],
   [action |-> "Kill"], [grace |-> 0], [idle |-> 3], [action |-> "Warn"]}

WindowsInit ==
  /\ moves \in {"schedules", "cron", "inbound", "loops", "rooms", "events"}
  /\ SchedInit /\ CronInit /\ InboundInit /\ LoopInit /\ RoomInit /\ EventsInit
  /\ moves # "cron" => cronInput = CHOOSE input \in CronInputs : TRUE
  /\ moves # "loops" => child = run /\ run.budget = CHOOSE b \in Budgets : TRUE
  /\ moves # "events" => follow

\* Everything but the component that moves stands still.
Still(component) ==
  /\ component # "schedules" => UNCHANGED schedVars
  /\ component # "cron" => UNCHANGED cronVars
  /\ component # "inbound" => UNCHANGED inboundVars
  /\ component # "loops" => UNCHANGED loopVars
  /\ component # "rooms" => UNCHANGED roomVars
  /\ component # "events" => UNCHANGED eventVars

WindowsNext ==
  /\ \/ moves = "schedules" /\ SchedNext /\ Still("schedules")
     \/ moves = "cron" /\ CronNext /\ Still("cron")
     \/ moves = "inbound" /\ InboundNext /\ Still("inbound")
     \/ moves = "loops" /\ LoopNext /\ Still("loops")
     \/ moves = "rooms" /\ RoomNext /\ Still("rooms")
     \/ moves = "events" /\ EventsNext /\ Still("events")
  /\ UNCHANGED moves

WindowsSpec ==
  WindowsInit /\ [][WindowsNext]_<<moves, schedVars, cronVars, inboundVars, loopVars,
                                   roomVars, eventVars>>

\* Every part keeps its types, the replay cache's map and order agree, and the
\* detector's window is what it should have kept.
WindowsTypeOK ==
  /\ SchedTypeOK /\ InboundTypeOK /\ CacheConsistent /\ LoopTypeOK /\ WindowIsRecent
  /\ RoomTypeOK /\ EventsTypeOK

\* What the home client retries or resumes happens once: a message is started
\* once (commands.rs:661), an event is printed once (events.rs:217).
HomeClientSound == RoomSendSound /\ EventsExact
=============================================================================
