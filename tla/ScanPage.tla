------------------------------ MODULE ScanPage ------------------------------
(***************************************************************************)
(* The Wi-Fi page of the board demonstration (main/demo_wifi.c, with       *)
(* demo_radio.c): the driver (external) is brought up when the page is     *)
(* entered and taken down when it is left; a scan reports its end by an    *)
(* event.  s_state is written by the input task (main/main.c), the event   *)
(* task and LVGL's timer, without a lock.  Every call of the driver may    *)
(* fail, except those that take it down.                                   *)
(***************************************************************************)
EXTENDS Integers

VARIABLES
  ui,        \* the input task
  state,     \* s_state
  owned,     \* s_sta_netif, s_wifi_initialized, s_handler_registered, s_wifi_started
  alive,     \* what the driver and the event loop have
  scanning,  \* the driver scans
  posted,    \* the event that says it has ended is in the loop's queue
  timer,     \* where LVGL's timer is
  overtaken, \* history: the event came before start_scan had set its state
  orphan     \* history: something alive was made again, or outlived what it needs

driver == <<owned, alive, scanning, posted>>
vars == <<ui, state, driver, timer, overtaken, orphan>>

Chain == <<"netif", "wifi", "handler", "started">>
Parts == {Chain[k] : k \in 1 .. 4}

Init ==
  /\ ui = "menu" /\ state = "OFF" /\ owned = {} /\ alive = {} /\ scanning = FALSE
  /\ posted = FALSE /\ timer = "idle" /\ overtaken = FALSE /\ orphan = FALSE

Go(from, to) == ui = from /\ ui' = to

-----------------------------------------------------------------------------
(* The input task.                                                         *)
\* demo_wifi_enter, under the LVGL lock.
Enter ==
  /\ Go("menu", "start") /\ state' = "STARTING"
  /\ UNCHANGED <<driver, timer, overtaken, orphan>>

\* demo_wifi_start up to the scan; a failure has made the parts before it.
Start ==
  /\ ui = "start"
  /\ IF {"netif", "wifi"} \cap owned # {} THEN ui' = "page" /\ UNCHANGED <<state, owned, alive, orphan>>
     ELSE /\ state' = "STARTING"
          /\ \E k \in 0 .. 4 :
               LET made == {Chain[n] : n \in 1 .. k} IN
               /\ owned' = owned \cup made /\ alive' = alive \cup made
               /\ orphan' = (orphan \/ made \cap alive # {})
               /\ ui' \in (IF k = 4 THEN {"scan"} ELSE {"undo1"})
  /\ UNCHANGED <<scanning, posted, timer, overtaken>>

\* start_scan: first the driver, then the state.
Scan(from, failed) ==
  /\ ui = from /\ "started" \in owned
  /\ \/ ui' = "mark" /\ scanning' = TRUE /\ UNCHANGED state
     \/ ui' = failed /\ state' = "FAILED" /\ UNCHANGED scanning
  /\ overtaken' = FALSE
  /\ UNCHANGED <<owned, alive, posted, timer, orphan>>
FirstScan == Scan("scan", "undo1")

Mark ==
  /\ Go("mark", "page") /\ state' = "SCANNING"
  /\ UNCHANGED <<driver, timer, overtaken, orphan>>

\* demo_wifi_key, which waits for the timer's lock.
Key == state = "OFF" /\ timer = "idle" /\ Scan("page", "page")

(* wifi_stack_stop, after a failure and for demo_wifi_stop.  Stopping the  *)
(* scan makes the driver post its event.                                   *)
Stop == Go("page", "stop1") /\ UNCHANGED <<state, driver, timer, overtaken, orphan>>

Halt ==
  /\ Go("stop1", "stop2") \/ Go("undo1", "undo2")
  /\ owned' = owned \ {"started"} /\ alive' = alive \ ({"started"} \cap owned)
  /\ scanning' = FALSE /\ posted' = (posted \/ ("started" \in owned /\ scanning))
  /\ UNCHANGED <<state, timer, overtaken, orphan>>

Unregister ==
  /\ Go("stop2", "stop3") \/ Go("undo2", "undo3")
  /\ owned' = owned \ {"handler"} /\ alive' = alive \ ({"handler"} \cap owned)
  /\ UNCHANGED <<state, scanning, posted, timer, overtaken, orphan>>

\* Mutant: the network interface is left for the next time.
OnlyDriver == {"wifi"}
Released == {"wifi", "netif"}
\* Mutant: the state outlives the driver.
StateKept == state
Stopped == "OFF"
Release ==
  /\ orphan' = (orphan \/ {"handler", "started"} \cap alive # {})
  /\ owned' = owned \ Released /\ alive' = alive \ (Released \cap owned)
  /\ Go("stop3", "exit") \/ Go("undo3", "failed")
  /\ state' = Stopped
  /\ UNCHANGED <<scanning, posted, timer, overtaken>>

Fails ==
  /\ Go("failed", "page") /\ state' = "FAILED"
  /\ UNCHANGED <<driver, timer, overtaken, orphan>>

\* demo_wifi_exit, under the LVGL lock, which may not be to be had.
Exit ==
  /\ ui = "exit" /\ ui' \in {"menu", "page"} /\ (ui' = "menu" => timer = "idle")
  /\ UNCHANGED <<state, driver, timer, overtaken, orphan>>

-----------------------------------------------------------------------------
(* The driver and the event task.                                          *)
ScanEnds ==
  /\ scanning /\ scanning' = FALSE /\ posted' = TRUE
  /\ UNCHANGED <<ui, state, owned, alive, timer, overtaken, orphan>>

ScanDone ==
  /\ posted /\ posted' = FALSE
  /\ state' = IF "handler" \in alive /\ state = "SCANNING" THEN "READY" ELSE state
  /\ overtaken' = (overtaken \/ ui = "mark")
  /\ UNCHANGED <<ui, owned, alive, scanning, timer, orphan>>

-----------------------------------------------------------------------------
(* tick(), under LVGL's lock: reads the state once, and writes it last.    *)
Timed == ui \notin {"menu"}
TimerReads ==
  /\ Timed /\ timer = "idle" /\ state \in {"READY", "FAILED"} /\ timer' = state
  /\ UNCHANGED <<ui, state, driver, overtaken, orphan>>

\* The records may not be had any more.
TimerWrites ==
  /\ timer # "idle" /\ timer' = "idle"
  /\ state' \in (IF timer = "READY" THEN {"OFF", "FAILED"} ELSE {"OFF"})
  /\ UNCHANGED <<ui, driver, overtaken, orphan>>

Next ==
  \/ Enter \/ Start \/ FirstScan \/ Mark \/ Key \/ Stop \/ Halt \/ Unregister \/ Release \/ Fails \/ Exit
  \/ ScanEnds \/ ScanDone \/ TimerReads \/ TimerWrites

Spec == Init /\ [][Next]_vars

-----------------------------------------------------------------------------
(* Types.                                                                  *)
TypeOK ==
  /\ ui \in {"menu", "start", "scan", "mark", "page", "stop1", "stop2", "stop3",
             "undo1", "undo2", "undo3", "failed", "exit"}
  /\ state \in {"OFF", "STARTING", "SCANNING", "READY", "FAILED"}
  /\ owned \subseteq Parts /\ alive \subseteq Parts
  /\ \A b \in {scanning, posted, overtaken, orphan} : b \in BOOLEAN
  /\ timer \in {"idle", "READY", "FAILED"}

(* The menu finds the radio off and nothing of the page alive; the driver  *)
(* goes after its event handler, and is never brought up twice.            *)
RadioReturned == /\ ui = "menu" => alive = {} /\ ~scanning
                 /\ ~orphan /\ owned = alive

(* A page that says it scans does: the driver is at it or its event is on  *)
(* the way, unless the page is being left, or that event came before       *)
(* start_scan could set the state, the one order in which it is lost.      *)
ScanShown ==
  state = "SCANNING" /\ ui = "page" => scanning \/ posted \/ overtaken

ScanSafe == TypeOK /\ RadioReturned /\ ScanShown
=============================================================================
