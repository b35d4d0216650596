---------------------------- MODULE DisplayPanel ----------------------------
(***************************************************************************)
(* components/bsp/src/bsp_display.c and bsp_display_lvgl.c: the panel on   *)
(* its SPI bus, the LVGL port on top of it, and the way into and out of    *)
(* deep sleep, during which the pins are held at safe levels.              *)
(*                                                                         *)
(* One task brings the display up, first the panel and then LVGL, and may  *)
(* try again (bsp_display.h); the worker of the low-power page parks it.   *)
(* The LVGL task draws whenever it gets the port's lock.  Every call of    *)
(* ESP-IDF (external) may fail.  The vendor's register values, the         *)
(* backlight's duty and the shape of the mask are left out.                *)
(***************************************************************************)
EXTENDS Integers

CONSTANT Pins   \* the pins that are held

PanelAssumption == Pins # {}

VARIABLES
  at,       \* what the caller is doing
  err,      \* it has met an error in this call
  handles,  \* s_bus_ready, s_io, s_panel
  live,     \* what the SPI and panel drivers have open
  orphan,   \* history: something open was opened again
  ready,    \* s_ready
  pad,      \* pad[p]: what the chip drives: reset, safe or bus
  line,     \* line[p]: what the panel sees
  held,     \* pins that keep their level
  deepHold, \* and do so through deep sleep
  port, portFailed, \* s_port_initialized, s_port_init_failed
  screen,   \* the port has the display
  mask,     \* and the display its callback
  disp,     \* s_disp
  lock,     \* who has the port's lock
  asleep,   \* the panel: Sleep In
  quiet,    \* history: parked without an error, and since then neither the bus
            \* started nor the board reset with its holds lifted
  frames    \* history: frames drawn bare, or on a panel asleep

panel == <<handles, live, orphan, ready>>
pins == <<pad, line, held, deepHold, quiet>>
lvgl == <<port, portFailed, screen, mask, disp, lock>>
vars == <<at, err, panel, pins, lvgl, asleep, frames>>

Stack == {"bus", "io", "panel"}

\* What any reset leaves, the timer's included: holds, and the levels they keep.
Reset ==
  /\ at' = "boot" /\ err' = FALSE /\ handles' = {} /\ live' = {} /\ ready' = FALSE
  /\ port' = FALSE /\ portFailed' = FALSE /\ screen' = FALSE /\ mask' = FALSE /\ disp' = FALSE
  /\ lock' = "free"
  /\ pad' = [p \in Pins |-> "reset"]
  /\ line' = [p \in Pins |-> IF p \in held THEN line[p] ELSE "reset"]
  /\ quiet' = (quiet /\ held = Pins)
  /\ UNCHANGED <<orphan, held, deepHold, asleep, frames>>

Init ==
  /\ at = "boot" /\ err = FALSE /\ handles = {} /\ live = {} /\ orphan = FALSE /\ ready = FALSE
  /\ pad = [p \in Pins |-> "reset"] /\ line = pad /\ held = {} /\ deepHold = FALSE
  /\ port = FALSE /\ portFailed = FALSE /\ screen = FALSE /\ mask = FALSE /\ disp = FALSE
  /\ lock = "free" /\ asleep = FALSE /\ quiet = FALSE /\ frames = {}

Step(from, to) == at = from /\ at' = to
Drive(new) ==
  pad' = new /\ line' = [p \in Pins |-> IF p \in held THEN line[p] ELSE new[p]]

-----------------------------------------------------------------------------
(* bsp_display_init.  display_release_deep_sleep_holds: safe levels first, *)
(* then the holds, whatever has failed on the way.                         *)

SafeLevels ==
  /\ Step("boot", "unhold") /\ ~ready
  /\ \E bad \in SUBSET Pins :
       /\ Drive([p \in Pins |-> IF p \in bad THEN pad[p] ELSE "safe"]) /\ err' = (bad # {})
  /\ deepHold' = FALSE
  /\ UNCHANGED <<panel, held, quiet, lvgl, asleep, frames>>

\* Mutant: what a failed rollback has left is overwritten.
AnyTime == TRUE
NothingLeft == handles = {}

ReleaseHolds ==
  /\ at = "unhold"
  /\ \E bad \in SUBSET held :
       /\ held' = bad
       /\ line' = [p \in Pins |-> IF p \in bad THEN line[p] ELSE pad[p]]
       /\ err' = (err \/ bad # {}) /\ quiet' = (quiet /\ ~err')
  /\ at' = IF ~err' /\ NothingLeft THEN "build" ELSE "failed"
  /\ UNCHANGED <<panel, pad, deepHold, lvgl, asleep, frames>>

(* Bus, IO, panel and its registers.  A call that fails leaves what was    *)
(* built before it.                                                        *)
Build ==
  /\ at = "build"
  /\ \E made \in {{}, {"bus"}, {"bus", "io"}, Stack} :
       /\ handles' = handles \cup made /\ live' = live \cup made
       /\ orphan' = (orphan \/ made \cap live # {})
       /\ IF made # {} THEN Drive([p \in Pins |-> "bus"]) /\ quiet' = FALSE
                       ELSE UNCHANGED <<pad, line, quiet>>
       /\ \/ made = Stack /\ at' = "lvgl" /\ ready' = TRUE /\ asleep' = FALSE
          \/ at' = (IF made = {} THEN "failed" ELSE "rollback") /\ ready' = FALSE
             /\ asleep' \in (IF made = Stack THEN {asleep, FALSE} ELSE {asleep})
  /\ UNCHANGED <<err, held, deepHold, lvgl, frames>>

\* Mutant: each of the three is tried whatever became of the others.
Regardless(x, left) == TRUE
\* What still uses x is gone.
Unused(x, left) ==
  CASE x = "io" -> "panel" \notin left [] x = "bus" -> "io" \notin left [] OTHER -> TRUE

Rollback ==
  /\ Step("rollback", "failed")
  /\ \E left \in SUBSET handles :
       /\ \A x \in handles \ left : Unused(x, left)
       /\ handles' = left /\ live' = left
  /\ UNCHANGED <<err, orphan, ready, pins, lvgl, asleep, frames>>

\* The caller tries again: bsp_display_init has nothing to do once it is ready.
Retry ==
  /\ at = "failed" /\ at' = (IF ready THEN "lvgl" ELSE "boot") /\ err' = FALSE
  /\ UNCHANGED <<panel, pins, lvgl, asleep, frames>>

-----------------------------------------------------------------------------
(* bsp_lvgl_init.                                                          *)

\* lvgl_port_init, unless it has succeeded, or failed, before.
StartPort ==
  /\ at = "lvgl" /\ "panel" \in handles
  /\ \/ port /\ at' = "locking" /\ UNCHANGED <<port, portFailed>>
     \/ ~port /\ ~portFailed /\ at' = "locking" /\ port' = TRUE /\ UNCHANGED portFailed
     \/ ~port /\ at' = "failed" /\ portFailed' = TRUE /\ UNCHANGED port
  /\ UNCHANGED <<err, panel, pins, screen, mask, disp, lock, asleep, frames>>

LockPort ==
  /\ \/ Step("locking", "add") /\ lock = "free" /\ lock' = "init"
     \/ Step("locking", "failed") /\ UNCHANGED lock
  /\ UNCHANGED <<err, panel, pins, port, portFailed, screen, mask, disp, asleep, frames>>

AddScreen ==
  /\ \/ Step("add", "mask") /\ screen' = TRUE
     \/ Step("add", "undo") /\ UNCHANGED screen
  /\ UNCHANGED <<err, panel, pins, port, portFailed, mask, disp, lock, asleep, frames>>

\* LVGL returns nothing; the list of callbacks is counted before and after.
AddMask ==
  /\ \/ Step("mask", "publish") /\ mask' = TRUE
     \/ Step("mask", "undo") /\ UNCHANGED mask
  /\ UNCHANGED <<err, panel, pins, port, portFailed, screen, disp, lock, asleep, frames>>

Publish ==
  /\ Step("publish", "up") /\ disp' = TRUE /\ lock' = "free"
  /\ UNCHANGED <<err, panel, pins, port, portFailed, screen, mask, asleep, frames>>

\* Mutant: the display stays with the port.
ScreenStays == screen
ScreenRemoved == FALSE
Undo ==
  /\ Step("undo", "failed") /\ screen' = ScreenRemoved /\ mask' = FALSE /\ lock' = "free"
  /\ UNCHANGED <<err, panel, pins, port, portFailed, disp, asleep, frames>>

\* The LVGL task, of the port, draws a frame.
Draw ==
  /\ at # "sleeping" /\ port /\ screen /\ lock = "free"
  /\ frames' = frames \cup (IF mask THEN {} ELSE {"bare"}) \cup (IF asleep THEN {"asleep"} ELSE {})
  /\ UNCHANGED <<at, err, panel, pins, lvgl, asleep>>

-----------------------------------------------------------------------------
(* Deep sleep: demo_low_power.c takes the lock for good, or restarts.      *)

\* Mutant: nobody asks for the lock.
NoLock == UNCHANGED lock
TakeLock == lock = "free" /\ lock' = "park"
LockForPark ==
  /\ Step("up", "park") /\ disp /\ TakeLock
  /\ UNCHANGED <<err, panel, pins, port, portFailed, screen, mask, disp, asleep, frames>>

\* Mutant: the pins are held before they are safe.
HeldFirst(new) == pad' = new /\ UNCHANGED line
HeldAfter(new) == Drive(new)

(* bsp_display_prepare_deep_sleep: every step is tried, whatever has       *)
(* failed, and the first error returned.                                   *)
Park ==
  /\ Step("park", "parked") /\ asleep' \in BOOLEAN
  /\ \E bad, loose \in SUBSET Pins :
       /\ HeldAfter([p \in Pins |-> IF p \in bad THEN pad[p] ELSE "safe"])
       /\ held' = held \cup (Pins \ loose) /\ deepHold' = TRUE
       /\ err' \in {~asleep' \/ bad # {} \/ loose # {}, TRUE} /\ quiet' = ~err'
  /\ UNCHANGED <<panel, lvgl, frames>>

\* esp_deep_sleep_start, which a failed preparation does not prevent.
DeepSleep ==
  /\ Step("parked", "sleeping")
  /\ held' = IF deepHold THEN held ELSE {}
  /\ pad' = [p \in Pins |-> "reset"]
  /\ line' = [p \in Pins |-> IF p \in held' THEN line[p] ELSE "reset"]
  /\ UNCHANGED <<err, panel, deepHold, quiet, lvgl, asleep, frames>>

Next ==
  \/ SafeLevels \/ ReleaseHolds \/ Build \/ Rollback \/ Retry
  \/ StartPort \/ LockPort \/ AddScreen \/ AddMask \/ Publish \/ Undo \/ Draw
  \/ LockForPark \/ Park \/ DeepSleep \/ Reset

Spec == Init /\ [][Next]_vars

-----------------------------------------------------------------------------
(* Types.                                                                  *)
TypeOK ==
  /\ at \in {"boot", "unhold", "build", "rollback", "failed", "lvgl", "locking", "add", "mask",
             "publish", "undo", "up", "park", "parked", "sleeping"}
  /\ handles \subseteq Stack /\ live \subseteq Stack
  /\ pad \in [Pins -> {"reset", "safe", "bus"}] /\ line \in [Pins -> {"reset", "safe", "bus"}]
  /\ held \subseteq Pins /\ lock \in {"free", "init", "park"} /\ frames \subseteq {"bare", "asleep"}
  /\ \A b \in {err, orphan, ready, deepHold, quiet, port, portFailed, screen, mask, disp, asleep} : b \in BOOLEAN

(* "A failed rollback refuses to overwrite SPI resources that are alive"   *)
(* (translated): nothing open is opened again, and nothing is closed under *)
(* what uses it, through any number of failures and retries.               *)
StackWhole ==
  /\ ~orphan /\ handles = live
  /\ "panel" \in live => "io" \in live
  /\ "io" \in live => "bus" \in live
  /\ ready => live = Stack /\ (~asleep \/ at \in {"parked", "sleeping"})

(* "Before the new display can produce its first flush": no frame is drawn *)
(* without the mask, nor on a panel that has been put to sleep.            *)
FramesGood == frames = {}

(* Pins that were parked without an error show the panel safe levels all   *)
(* through deep sleep and the wake-up, until the bus takes them over.      *)
PinsQuiet ==
  quiet /\ ~err => asleep /\ \A p \in Pins : line[p] = "safe"

(* The display as a whole.                                                 *)
DisplaySafe == TypeOK /\ StackWhole /\ FramesGood /\ PinsQuiet
=============================================================================
