------------------------------- MODULE UiTask -------------------------------
(***************************************************************************)
(* main/monitor_app.c: the input queue and ui_task, with                   *)
(* main/power/monitor_power.c, which blanks the screen.                    *)
(*                                                                         *)
(* The button component (external) turns a gesture into events: a press    *)
(* for each time the key goes down, and one event that ends the gesture    *)
(* (click, double click, long press) - none after three presses or more.   *)
(* The UI task takes an event or waits 100 ms, reads the clock once,       *)
(* settles wake-up and timeout, takes its snapshots and draws.  Tasks of   *)
(* higher priority run between its steps.                                  *)
(***************************************************************************)
EXTENDS Integers, Sequences

CONSTANTS
  Gestures,    \* of "click", "double", "long", "triple"
  Depth,       \* xQueueCreate(12, ...)
  Timeout,     \* screen_timeout in ticks, when it is not "never"
  MaxGestures, \* bound: gestures made
  MaxClock     \* bound: ticks

UiAssumption ==
  /\ Gestures \subseteq {"click", "double", "long", "triple"}
  /\ Depth \in Nat \ {0} /\ Timeout \in Nat \ {0} /\ MaxGestures \in Nat /\ MaxClock \in Nat \ {0}

VARIABLES
  clock,   \* esp_timer_get_time
  hand,    \* events the gesture under way has still to give
  made,    \* gestures made
  input,   \* s_input
  screenTimeout, \* of the configuration: 0 is never
  pc,      \* the UI task's place in its loop
  key,     \* the event it took, or NoKey
  now,     \* its reading of the clock
  guard,   \* wake_guard
  ambient, lastKey, \* s_ambient, s_last_key
  woke,    \* history: the gesture that last woke the screen
  verdict  \* history: what became of the last event

world == <<clock, hand, made, input, screenTimeout>>
power == <<guard, ambient, lastKey>>
task == <<pc, key, now, power, woke, verdict>>
vars == <<world, task>>

NoKey == [ev |-> "none", gesture |-> 0]
Ends == {"click", "double", "long"}

\* What the button component reports of a gesture.
Events(g) == CASE g = "click" -> <<"press", "click">>
               [] g = "long" -> <<"press", "long">>
               [] g = "double" -> <<"press", "press", "double">>
               [] OTHER -> <<"press", "press", "press">>

Init ==
  /\ clock = 1 /\ hand = <<>> /\ made = 0 /\ input = <<>> /\ screenTimeout \in {0, Timeout}
  /\ pc = "wait" /\ key = NoKey /\ now = 0 /\ guard = FALSE /\ ambient = FALSE /\ lastKey = 0
  /\ woke = 0 /\ verdict = "none"

-----------------------------------------------------------------------------
Gesture ==
  /\ hand = <<>> /\ made < MaxGestures /\ made' = made + 1
  /\ \E g \in Gestures : hand' = Events(g)
  /\ UNCHANGED <<clock, input, screenTimeout, task>>

\* Mutant: one item too many.
RoomForOneMore == Len(input) <= Depth
Room == Len(input) < Depth

\* on_button, in the timer task: a full queue loses the event.
OnButton ==
  /\ hand # <<>> /\ hand' = Tail(hand)
  /\ input' = IF Room THEN Append(input, [ev |-> Head(hand), gesture |-> made]) ELSE input
  /\ UNCHANGED <<clock, made, screenTimeout, task>>

\* A gesture takes less than a tick.
Tick ==
  /\ clock < MaxClock /\ hand = <<>> /\ clock' = clock + 1
  /\ UNCHANGED <<hand, made, input, screenTimeout, task>>

SetTimeout ==
  /\ screenTimeout' \in {0, Timeout} \ {screenTimeout}
  /\ UNCHANGED <<clock, hand, made, input, task>>

-----------------------------------------------------------------------------
TakeKey ==
  /\ pc = "wait" /\ pc' = "power" /\ now' = clock
  /\ \/ input # <<>> /\ key' = Head(input) /\ input' = Tail(input)
     \/ input = <<>> /\ key' = NoKey /\ UNCHANGED input
  /\ UNCHANGED <<clock, hand, made, screenTimeout, power, woke, verdict>>

\* Mutant: any event ends the guard.
AnyEnds(ev) == TRUE
\* The events that end a gesture end the guard.
GuardEnds(ev) == ev \in Ends

\* monitor_power_tick: the time since the last key, against the timeout.
Blank(last) == screenTimeout # 0 /\ now - last > screenTimeout
(* monitor_power_key, the guard, monitor_power_tick.                       *)
Power ==
  /\ pc = "power" /\ pc' = "snapshot"
  /\ IF key = NoKey
     THEN /\ ambient' = Blank(lastKey) /\ verdict' = "none"
          /\ UNCHANGED <<key, guard, lastKey, woke>>
     ELSE LET caught == guard \/ ambient
              waking == IF ambient THEN key.gesture ELSE woke
          IN /\ lastKey' = now /\ ambient' = Blank(now)
             /\ guard' = (caught /\ ~GuardEnds(key.ev))
             /\ woke' = waking
             /\ key' = IF caught THEN NoKey ELSE key
             /\ verdict' = CASE caught /\ key.gesture # waking -> "swallowed"
                             [] ~caught /\ key.gesture = waking -> "leaked"
                             [] OTHER -> "right"
  /\ UNCHANGED <<world, now>>

(* With a key, when a second has gone by, or when an event has marked the  *)
(* display dirty: the snapshots, and then 50 ms for the LVGL lock.         *)
Snapshot ==
  /\ pc = "snapshot"
  /\ \/ pc' = "draw"
     \/ key = NoKey /\ pc' = "wait"
  /\ UNCHANGED <<world, key, now, power, woke, verdict>>

\* monitor_ui_key and monitor_ui_update, or neither.
Draw ==
  /\ pc = "draw" /\ pc' = "wait"
  /\ key' = NoKey
  /\ UNCHANGED <<world, now, power, woke, verdict>>

Ui == TakeKey \/ Power \/ Snapshot \/ Draw
Next == Gesture \/ OnButton \/ Tick \/ SetTimeout \/ Ui

Spec == Init /\ [][Next]_vars

-----------------------------------------------------------------------------
(* Types; the input queue within its depth; no reading lies ahead of time. *)
TypeOK ==
  /\ clock \in 1 .. MaxClock /\ made \in 0 .. MaxGestures
  /\ hand \in Seq({"press"} \cup Ends) /\ Len(input) <= Depth
  /\ input \in Seq([ev : {"press"} \cup Ends, gesture : 1 .. MaxGestures])
  /\ screenTimeout \in {0, Timeout} /\ pc \in {"wait", "power", "snapshot", "draw"}
  /\ now \in 0 .. clock /\ lastKey \in 0 .. now
  /\ guard \in BOOLEAN /\ ambient \in BOOLEAN

(* README "that first press is consumed": nothing the waking gesture       *)
(* reports, in whatever order and whatever the queue loses of it, reaches  *)
(* the pages behind the dark screen.                                       *)
WakeIsConsumed == verdict # "leaked"

(* README "that first press is consumed", and no other: a gesture made     *)
(* when the screen is lit acts.                                            *)
OnlyWakeIsConsumed == verdict # "swallowed"

(* The input queue and the dark screen as a whole.                         *)
ScreenSafe == TypeOK /\ WakeIsConsumed
=============================================================================
