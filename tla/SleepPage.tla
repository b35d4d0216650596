----------------------------- MODULE SleepPage -----------------------------
(***************************************************************************)
(* The board demonstration's menu (main/main.c, main/demo_navigation.c)    *)
(* and its low-power page (main/demo_low_power.c): the input task enters   *)
(* and leaves the page; a worker of lower priority, told by notification,  *)
(* puts the board to light or deep sleep.  A page is left only when its    *)
(* worker has acknowledged by a semaphore, and is then deleted.            *)
(*                                                                         *)
(* The codec, the backlight and the wake-up timer are what the worker must *)
(* leave as it found them.  Entries of the menu other than the low-power   *)
(* page have no worker and only come and go.                               *)
(***************************************************************************)
EXTENDS Integers

CONSTANTS
  Count,     \* DEMO_COUNT
  Page,      \* the low-power page's place in the menu
  MaxSlept   \* bound: deep sleeps one after the other

PageAssumption == Count \in Nat \ {0} /\ Page \in 0 .. Count - 1 /\ MaxSlept \in Nat

VARIABLES
  ui,         \* what the input task is doing
  selected, active, \* s_navigation
  task,       \* s_task: none, alive, parked (suspended after its last word)
  sem,        \* s_stopped: none, empty, given
  stopRequested, busy, mode, \* s_stop_requested, s_busy, s_selected
  note,       \* the worker's pending notification
  at, command, \* the worker's place, and the command it took
  tried,      \* audio_suspend_attempted
  audio,      \* awake, asleep, or broken: it did not come back
  light, timer, \* backlight on; RTC timer armed
  rtc,        \* s_deep_sleep_magic is valid, s_deep_sleep_count
  cause,      \* esp_sleep_get_wakeup_cause is TIMER
  shown,      \* the number in "DEEP TIMER WAKE", or -1
  slept       \* history: deep sleeps since the board last started but by their timer

nav == <<selected, active>>
shared == <<task, sem, stopRequested, busy, note>>
worker == <<at, command, tried>>
board == <<audio, light, timer>>
sleeps == <<rtc, cause, slept>>
vars == <<ui, nav, mode, shared, worker, board, sleeps, shown>>

LIGHT == 1
DEEP == 2
STOP == 3
None == 0

Booted ==
  /\ ui' = "idle" /\ selected' = 0 /\ active' = -1 /\ task' = "none" /\ sem' = "none"
  /\ stopRequested' = FALSE /\ busy' = FALSE /\ mode' = LIGHT /\ note' = None
  /\ at' = "wait" /\ command' = None /\ tried' = FALSE
  /\ audio' = "awake" /\ light' = TRUE /\ timer' = FALSE /\ shown' = -1

Init ==
  /\ ui = "idle" /\ selected = 0 /\ active = -1 /\ task = "none" /\ sem = "none"
  /\ stopRequested = FALSE /\ busy = FALSE /\ mode = LIGHT /\ note = None
  /\ at = "wait" /\ command = None /\ tried = FALSE
  /\ audio = "awake" /\ light = TRUE /\ timer = FALSE /\ shown = -1
  /\ rtc = [magic |-> FALSE, count |-> 0] /\ cause = FALSE /\ slept = 0

-----------------------------------------------------------------------------
(* process_input: the menu.                                                *)

\* Mutant: the menu does not wrap.
MovedOn(step) == selected + step
Moved(step) == (selected + step) % Count

\* demo_navigation_handle: up and down.
MoveCursor ==
  /\ ui = "idle" /\ active = -1
  /\ \E step \in {1, Count - 1} : selected' = Moved(step)
  /\ UNCHANGED <<ui, active, mode, shared, worker, board, sleeps, shown>>

\* enter, under the LVGL lock, and then start.
Enter ==
  /\ ui = "idle" /\ active = -1 /\ active' = selected
  /\ IF selected = Page
     THEN /\ mode' = LIGHT /\ busy' = FALSE /\ ui' = "start"
          /\ shown' = IF rtc.magic /\ cause THEN rtc.count ELSE -1
     ELSE UNCHANGED <<ui, mode, busy, shown>>
  /\ UNCHANGED <<selected, task, sem, stopRequested, note, worker, board, sleeps>>

\* demo_low_power_start; when it fails the page stays, without a worker.
Start ==
  /\ ui = "start" /\ ui' = "idle"
  /\ \/ task = "none" /\ task' = "alive" /\ sem' = "empty" /\ stopRequested' = FALSE
        /\ note' = None /\ at' = "wait" /\ command' = None /\ tried' = FALSE
     \/ task = "none" /\ sem' = "none" /\ stopRequested' \in {stopRequested, FALSE}
        /\ UNCHANGED <<task, note, worker>>
     \/ task # "none" /\ UNCHANGED <<task, sem, stopRequested, note, worker>>
  /\ UNCHANGED <<nav, mode, busy, board, sleeps, shown>>

(* process_input: a page.  demo_low_power_key.                             *)
KeysCount == active = Page /\ ~busy /\ ~stopRequested /\ task # "none"

OtherMode ==
  /\ ui = "idle" /\ KeysCount /\ mode' = IF mode = LIGHT THEN DEEP ELSE LIGHT
  /\ UNCHANGED <<ui, nav, shared, worker, board, sleeps, shown>>

Run ==
  /\ ui = "idle" /\ KeysCount /\ note' = mode
  /\ UNCHANGED <<ui, nav, mode, task, sem, stopRequested, busy, worker, board, sleeps, shown>>

\* Mutant: the flag alone is to stop the worker.
OnlyFlag == note
Told == STOP

\* demo_low_power_stop, or nothing to stop.
Stop ==
  /\ ui = "idle" /\ active # -1
  /\ IF active = Page /\ task # "none"
     THEN stopRequested' = TRUE /\ note' = Told /\ ui' = "await" /\ UNCHANGED sem
     ELSE ui' = "exit" /\ sem' = (IF active = Page THEN "none" ELSE sem) /\ UNCHANGED <<stopRequested, note>>
  /\ UNCHANGED <<nav, mode, task, busy, worker, board, sleeps, shown>>

\* Mutant: the semaphore is left for the next time.
LeftOver == sem
Deleted == "none"

\* vTaskDelete, vSemaphoreDelete, backlight, timer.
Stopped ==
  /\ ui = "await" /\ sem = "given" /\ ui' = "exit"
  /\ task' = "none" /\ sem' = Deleted /\ light' = TRUE /\ timer' = FALSE
  /\ UNCHANGED <<nav, mode, stopRequested, busy, note, worker, audio, sleeps, shown>>

\* Mutant: the page is left although its worker is still at it.
LeaveAnyway == "exit"
Stays == "idle"

\* SLEEP_STOP_TIMEOUT_MS: a light sleep and two waits for a lock last longer.
TimesOut ==
  /\ ui = "await" /\ sem # "given" /\ ui' = Stays
  /\ UNCHANGED <<nav, mode, shared, worker, board, sleeps, shown>>

\* The LVGL lock, exit and the menu; without the lock the page stays.
Exit ==
  /\ ui = "exit" /\ ui' = "idle"
  /\ \/ /\ active' = -1 /\ shown' = -1
        /\ IF active = Page THEN busy' = FALSE /\ light' = TRUE /\ timer' = FALSE
                            ELSE UNCHANGED <<busy, light, timer>>
     \/ UNCHANGED <<active, busy, light, timer, shown>>
  /\ UNCHANGED <<selected, mode, task, sem, stopRequested, note, worker, audio, sleeps>>

-----------------------------------------------------------------------------
(* sleep_task.                                                             *)

Rest == <<ui, nav, mode, sleeps, shown>>
Step(from, to) == task = "alive" /\ at = from /\ at' = to

Take ==
  /\ note # None /\ note' = None /\ command' = note /\ tried' = FALSE
  /\ IF note = STOP \/ stopRequested THEN Step("wait", "done") /\ UNCHANGED busy
                                     ELSE Step("wait", "delay") /\ busy' = TRUE
  /\ UNCHANGED <<Rest, task, sem, stopRequested, board>>

\* After set_status and the delay: a stop, or the timer.
Arm ==
  /\ IF stopRequested THEN Step("delay", "done") /\ busy' = FALSE /\ UNCHANGED timer
     ELSE /\ UNCHANGED busy
          /\ \/ Step("delay", IF command = DEEP THEN "deep" ELSE "suspend") /\ timer' = TRUE
             \/ Step("delay", "end") /\ timer' = FALSE /\ UNCHANGED busy
  /\ UNCHANGED <<Rest, task, sem, stopRequested, note, command, tried, audio, light>>

\* bsp_audio_sleep, which may report an error and have slept all the same.
Suspend ==
  /\ tried' = TRUE /\ audio' = IF audio = "broken" THEN audio ELSE "asleep"
  /\ \/ audio # "broken" /\ Step("suspend", "light") /\ light' = FALSE
     \/ Step("suspend", "resume") /\ UNCHANGED light
  /\ UNCHANGED <<Rest, shared, command, timer>>

\* A wake from light sleep is by the timer too; one that was refused may not be.
LightSleep ==
  /\ Step("light", "resume") /\ cause' \in BOOLEAN
  /\ UNCHANGED <<ui, nav, mode, rtc, slept, shown, shared, command, tried, board>>

\* Mutant: the codec is woken only if the board has slept.
IfSlept == ~light
Tried == tried

\* bsp_audio_wake, which may fail; backlight, timer.
Resume ==
  /\ Step("resume", "end") /\ timer' = FALSE /\ light' = TRUE
  /\ IF Tried THEN audio' \in {"awake", "broken"} ELSE UNCHANGED audio
  /\ UNCHANGED <<Rest, shared, command, tried>>

EndRun ==
  /\ Step("end", "wait") /\ busy' = FALSE
  /\ UNCHANGED <<Rest, task, sem, stopRequested, note, command, tried, board>>

NextCount == IF rtc.magic THEN rtc.count + 1 ELSE 1

\* Codec, pins and display are given up; the board starts anew by its timer.
DeepSleep ==
  /\ task = "alive" /\ at = "deep" /\ slept < MaxSlept /\ slept' = slept + 1
  /\ rtc' = [magic |-> TRUE, count |-> NextCount] /\ cause' = TRUE
  /\ Booted

\* Mutant: RTC_NOINIT_ATTR, memory that a restart leaves alone.
Survives == rtc
\* RTC_DATA_ATTR: any start but a wake from deep sleep loads it from the image.
Reloaded == [magic |-> FALSE, count |-> 0]

StartsAnew == Booted /\ rtc' = Reloaded /\ cause' = FALSE /\ slept' = 0

\* The LVGL lock is not to be had, or the sleep is refused: esp_restart.
Restart == task = "alive" /\ at = "deep" /\ StartsAnew

\* The acknowledgement comes after all else the worker does.
Done ==
  /\ Step("done", "parked") /\ task' = "parked" /\ sem' = "given" /\ busy' = FALSE
  /\ UNCHANGED <<Rest, stopRequested, note, command, tried, board>>

\* The supply or the reset line.
PowerLost == StartsAnew

Worker == Take \/ Arm \/ Suspend \/ LightSleep \/ Resume \/ EndRun \/ DeepSleep \/ Restart \/ Done
Input == MoveCursor \/ Enter \/ Start \/ OtherMode \/ Run \/ Stop \/ Stopped \/ TimesOut \/ Exit
Next == Input \/ Worker \/ PowerLost

\* The worker is alone at its priority and all its waits have limits.
Spec == Init /\ [][Next]_vars /\ WF_vars(Worker)

-----------------------------------------------------------------------------
(* Types; the cursor stays on the menu.                                    *)
TypeOK ==
  /\ ui \in {"idle", "start", "await", "exit"} /\ selected \in 0 .. Count - 1 /\ active \in -1 .. Count - 1
  /\ task \in {"none", "alive", "parked"} /\ sem \in {"none", "empty", "given"}
  /\ {stopRequested, busy, tried, light, timer, cause} \subseteq BOOLEAN
  /\ mode \in {LIGHT, DEEP} /\ note \in {None, LIGHT, DEEP, STOP} /\ command \in {None, LIGHT, DEEP, STOP}
  /\ at \in {"wait", "delay", "deep", "suspend", "light", "resume", "end", "done", "parked"}
  /\ audio \in {"awake", "asleep", "broken"}
  /\ rtc \in [magic : BOOLEAN, count : Nat] /\ shown \in -1 .. MaxSlept /\ slept \in 0 .. MaxSlept

(* "Acknowledge only after all shared-state/UI work": away from the page   *)
(* there is no worker left to darken the screen, arm the timer or put the  *)
(* board to sleep, however often stopping it timed out before.             *)
GoneIsGone ==
  active # Page => task = "none" /\ light /\ ~timer

(* "Retries never notify a stale handle": the semaphore says the worker is *)
(* parked exactly when it is, and there is one as long as there is a task. *)
AckIsTrue == (sem = "given" <=> task = "parked") /\ (sem = "none" <=> task = "none")

(* "Whenever suspend was tried, resume must be too": between two commands  *)
(* and away from the page the codec is awake, unless waking it failed.     *)
CodecIsBack == audio = "asleep" => task = "alive" /\ at \in {"light", "resume"}

(* The number on the page, kept in RTC memory alone, is how many deep      *)
(* sleeps have followed one another.  Any other start begins it anew, and  *)
(* a wake from light sleep, by the same timer, brings no old number back.  *)
CountsSleeps == shown # -1 => shown = slept /\ slept > 0

(* Once asked to stop the worker does park, whatever it was at and however *)
(* the notification met its commands, or the board starts anew.            *)
WorkerParks == (stopRequested /\ task = "alive") ~> (task # "alive")

(* The low-power page as a whole: gone when it is left, in step with its   *)
(* worker, the codec awake behind it and the count of sleeps right.        *)
PageSafe == TypeOK /\ GoneIsGone /\ AckIsTrue /\ CodecIsBack /\ CountsSleeps
=============================================================================
