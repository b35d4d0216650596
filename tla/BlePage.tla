------------------------------- MODULE BlePage -------------------------------
(***************************************************************************)
(* The Bluetooth page of the board demonstration (main/demo_ble.c): NimBLE *)
(* (external) is brought up when the page is entered, advertises, and must *)
(* be gone when the page is left.  Three tasks share s_state without a     *)
(* lock: the input task (main/main.c), the NimBLE host, which this page    *)
(* creates and deletes itself, and LVGL's timer.  Every call of NimBLE may *)
(* fail; the wait for the host has a timeout, and stopping is tried again  *)
(* when the user asks again.                                               *)
(***************************************************************************)
EXTENDS Integers

VARIABLES
  ui,           \* the input task
  state,        \* s_state
  requested,    \* s_start_requested
  initialized,  \* s_initialized
  stopping,     \* s_stop_in_progress
  done,         \* s_host_done
  task,         \* s_host_task: none, alive, or parked after its last word
  sem,          \* s_host_stopped: none, empty or given
  port,         \* of NimBLE: off, on, or stopping
  adv,          \* it advertises
  host,         \* where the host task is
  timer,        \* where LVGL's timer is
  misuse        \* history: the port was stopped twice, or removed from under the host

flags == <<requested, initialized, stopping, done, task, sem>>
nimble == <<port, adv, host>>
vars == <<ui, state, flags, nimble, timer, misuse>>

Init ==
  /\ ui = "menu" /\ state = "OFF" /\ requested = FALSE /\ initialized = FALSE
  /\ stopping = FALSE /\ done = FALSE /\ task = "none" /\ sem = "none"
  /\ port = "off" /\ adv = FALSE /\ host = "loop" /\ timer = "idle" /\ misuse = FALSE

Go(from, to) == ui = from /\ ui' = to

-----------------------------------------------------------------------------
(* The input task.                                                         *)

\* demo_ble_enter, under the LVGL lock.
Enter ==
  /\ Go("menu", "start") /\ state' = "STARTING"
  /\ UNCHANGED <<flags, nimble, timer, misuse>>

(* demo_ble_start.  A failure before nimble_port_init leaves nothing; one  *)
(* after it is undone by demo_ble_stop, which may fail in its turn.        *)
Refused == Go("start", "page") /\ initialized /\ state' = "FAILED" /\ UNCHANGED <<flags, nimble>>

StartFails ==
  /\ Go("start", "page") /\ ~initialized /\ state' = "FAILED"
  /\ stopping' = FALSE /\ done' = FALSE
  /\ \/ UNCHANGED <<requested, initialized, sem, port>>
     \/ /\ requested' = FALSE
        /\ \/ UNCHANGED <<initialized, sem, port>>
           \/ initialized' = TRUE /\ port' = "on" /\ sem' \in {"none", "empty"}
  /\ UNCHANGED <<task, adv, host>>

Starts ==
  /\ Go("start", "page") /\ ~initialized /\ state' = "STARTING"
  /\ stopping' = FALSE /\ done' = FALSE /\ requested' = TRUE /\ initialized' = TRUE
  /\ sem' = "empty" /\ task' = "alive" /\ port' = "on" /\ host' = "loop" /\ UNCHANGED adv

Start == (Refused \/ StartFails \/ Starts) /\ UNCHANGED <<timer, misuse>>

\* demo_ble_key: stop advertising, start again, and say so.
Key ==
  /\ Go("page", "again") /\ initialized /\ state = "ADVERTISING" /\ adv' = FALSE
  /\ UNCHANGED <<state, flags, port, host, timer, misuse>>

KeyStarts ==
  /\ \/ Go("again", "mark") /\ port = "on" /\ ~adv /\ adv' = TRUE /\ UNCHANGED state
     \/ Go("again", "page") /\ state' = "FAILED" /\ UNCHANGED adv
  /\ UNCHANGED <<flags, port, host, timer, misuse>>

KeyMarks ==
  /\ Go("mark", "page") /\ state' = "ADVERTISING"
  /\ UNCHANGED <<flags, nimble, timer, misuse>>

\* Mutant: a stop that is tried again stops the port again.
EveryTime == TRUE
NotYet == ~stopping

(* demo_ble_stop, up to its wait.                                          *)
Stop ==
  /\ ui = "page" /\ requested' = FALSE
  /\ CASE ~initialized ->
            ui' = "exit" /\ UNCHANGED <<state, stopping, port, adv, misuse>>
       [] initialized /\ task = "none" ->
            ui' = "deinit" /\ UNCHANGED <<state, stopping, port, adv, misuse>>
       [] initialized /\ task # "none" /\ ~NotYet ->
            ui' = "await" /\ UNCHANGED <<state, stopping, port, adv, misuse>>
       [] OTHER ->
            /\ adv' = FALSE /\ misuse' = (misuse \/ port # "on")
            /\ \/ ui' = "await" /\ stopping' = TRUE /\ port' = "stopping" /\ UNCHANGED state
               \/ ui' = "page" /\ state' = "FAILED" /\ UNCHANGED <<stopping, port>>
  /\ UNCHANGED <<initialized, done, task, sem, host, timer>>

\* Mutant: a host that does not answer is deleted all the same.
DeletedAnyway == "deinit"
Stays == "page"
TimesOut ==
  /\ ui = "await" /\ sem # "given" /\ ui' = Stays /\ state' = "FAILED"
  /\ UNCHANGED <<flags, nimble, timer, misuse>>

\* The acknowledgement is remembered, for the next step may fail; the task goes.
Stopped ==
  /\ Go("await", "deinit") /\ sem = "given" /\ sem' = "empty" /\ done' = TRUE /\ task' = "none"
  /\ UNCHANGED <<state, requested, initialized, stopping, nimble, timer, misuse>>

\* Mutant: the page gives NimBLE up when it cannot be removed.
GivenUp == FALSE
Retained == initialized
Deinit ==
  /\ misuse' = (misuse \/ task # "none")
  /\ \/ /\ Go("deinit", "exit") /\ initialized' = FALSE /\ stopping' = FALSE /\ done' = FALSE
        /\ sem' = "none" /\ port' = "off" /\ adv' = FALSE /\ state' = "OFF"
     \/ /\ Go("deinit", "page") /\ state' = "FAILED" /\ initialized' = Retained
        /\ UNCHANGED <<stopping, done, sem, port, adv>>
  /\ UNCHANGED <<requested, task, host, timer>>

\* demo_ble_exit, under the LVGL lock, which may not be to be had.
Exit ==
  /\ ui = "exit" /\ \/ ui' = "menu" /\ timer = "idle"
                    \/ ui' = "page"
  /\ UNCHANGED <<state, flags, nimble, timer, misuse>>

-----------------------------------------------------------------------------
(* The host task; its callbacks run one at a time.                         *)
Host(from, to) == task = "alive" /\ host = from /\ host' = to

\* on_sync, or the end of an advertisement: look at s_start_requested.
Callback ==
  /\ port = "on" /\ adv' \in {adv, FALSE}
  /\ \/ Host("loop", "start") /\ requested /\ UNCHANGED state
     \/ Host("loop", "loop") /\ state' \in {state, "FAILED"}
  /\ UNCHANGED <<ui, flags, port, timer, misuse>>

\* advertise(), some time later: a second advertisement is refused.
Advertise ==
  /\ \/ Host("start", "loop") /\ port = "on" /\ ~adv /\ adv' = TRUE /\ state' = "ADVERTISING"
     \/ Host("start", "loop") /\ state' = "FAILED" /\ UNCHANGED adv
  /\ UNCHANGED <<ui, flags, port, timer, misuse>>

\* on_reset
HostReset ==
  /\ port = "on" /\ Host("loop", "loop") /\ adv' = FALSE /\ state' = "FAILED"
  /\ UNCHANGED <<ui, flags, port, timer, misuse>>

\* nimble_port_run returns, and the task says so for good.
Returns ==
  /\ port = "stopping" /\ Host("loop", "loop") /\ adv' = FALSE
  /\ sem' = "given" /\ task' = "parked"
  /\ UNCHANGED <<ui, state, requested, initialized, stopping, done, port, timer, misuse>>

-----------------------------------------------------------------------------
(* tick(): a failure is shown once.                                        *)
OnPage == ui \notin {"menu", "start"}
TimerReads ==
  /\ OnPage /\ timer = "idle" /\ state = "FAILED" /\ timer' = "shown"
  /\ UNCHANGED <<ui, state, flags, nimble, misuse>>
TimerClears ==
  /\ timer = "shown" /\ timer' = "idle" /\ state' = "OFF"
  /\ UNCHANGED <<ui, flags, nimble, misuse>>

Next ==
  \/ Enter \/ Start \/ Key \/ KeyStarts \/ KeyMarks \/ Stop \/ TimesOut \/ Stopped \/ Deinit \/ Exit
  \/ Callback \/ Advertise \/ HostReset \/ Returns \/ TimerReads \/ TimerClears

Spec == Init /\ [][Next]_vars

-----------------------------------------------------------------------------
(* Types.                                                                  *)
TypeOK ==
  /\ ui \in {"menu", "start", "page", "again", "mark", "await", "deinit", "exit"}
  /\ state \in {"OFF", "STARTING", "ADVERTISING", "FAILED"}
  /\ \A b \in {requested, initialized, stopping, done, adv, misuse} : b \in BOOLEAN
  /\ task \in {"none", "alive", "parked"} /\ sem \in {"none", "empty", "given"}
  /\ port \in {"off", "on", "stopping"} /\ host \in {"loop", "start"} /\ timer \in {"idle", "shown"}

(* "This demo owns creation, acknowledgement and deletion": the menu finds *)
(* the radio off and nothing of the page left; a living host has its port  *)
(* and its semaphore; the port is stopped once, and removed behind the     *)
(* host's back never, however steps fail, time out and are tried again.    *)
RadioReturned ==
  /\ ui = "menu" => ~initialized /\ ~requested /\ task = "none" /\ sem = "none" /\ port = "off" /\ ~adv
  /\ task = "alive" => port # "off" /\ sem = "empty"
  /\ sem = "given" => task = "parked"
  /\ ~misuse

BleSafe == TypeOK /\ RadioReturned
=============================================================================
