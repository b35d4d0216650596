------------------------------ MODULE TonePage ------------------------------
(***************************************************************************)
(* The audio page of the board demonstration (main/demo_audio.c): a worker *)
(* told by notification plays a tone, or records and plays back, in chunks *)
(* between which it looks at s_cancel.  The input task (main/main.c) may   *)
(* leave the page only when the worker has acknowledged by a semaphore,    *)
(* and then deletes it; its wait has a timeout and may be tried again.     *)
(***************************************************************************)
EXTENDS Integers

CONSTANTS
  Total   \* chunks of a tone, and of a recording

ToneAssumption == Total \in Nat \ {0}

VARIABLES
  ui,       \* the input task
  task,     \* s_task: none, alive, or parked after its last word
  sem,      \* s_stopped: none, empty or given
  cancel,   \* s_cancel
  note,     \* the worker's pending notification
  at, command, \* the worker's place, and what it was told
  todo,     \* chunks to transfer
  got,      \* chunks recorded
  buffer,   \* it has allocated a buffer
  late      \* history: chunks transferred since it was to stop

owner == <<ui, task, sem, cancel>>
job == <<at, command, todo, got, buffer, late>>
vars == <<owner, note, job>>

TONE == 1
RECORD == 2
STOP == 3
None == 0

Init ==
  /\ ui = "menu" /\ task = "none" /\ sem = "none" /\ cancel = FALSE /\ note = None
  /\ at = "wait" /\ command = None /\ todo = 0 /\ got = 0 /\ buffer = FALSE /\ late = 0

-----------------------------------------------------------------------------
(* The input task.                                                         *)
Go(from, to) == ui = from /\ ui' = to

\* demo_audio_enter, then demo_audio_start; without a worker the page stays.
Enter ==
  /\ Go("menu", "page")
  /\ \/ /\ task = "none" /\ task' = "alive" /\ sem' = "empty" /\ cancel' = FALSE
        /\ note' = None /\ at' = "wait" /\ late' = 0
     \/ task = "none" /\ sem' = "none" /\ cancel' \in {cancel, FALSE} /\ UNCHANGED <<task, note, at, late>>
     \/ task # "none" /\ UNCHANGED <<task, sem, cancel, note, at, late>>
  /\ UNCHANGED <<command, todo, got, buffer>>

\* Mutant: keys count while the page is being stopped.
WithWorker == task # "none"
KeysCount == task # "none" /\ ~cancel
Key ==
  /\ ui = "page" /\ KeysCount /\ note' \in {TONE, RECORD}
  /\ UNCHANGED <<owner, job>>

Stop ==
  /\ ui = "page"
  /\ IF task = "none" THEN ui' = "exit" /\ sem' = "none" /\ UNCHANGED <<cancel, note>>
                      ELSE ui' = "await" /\ cancel' = TRUE /\ note' = STOP /\ UNCHANGED sem
  /\ UNCHANGED <<task, job>>

\* vTaskDelete and vSemaphoreDelete.
Stopped ==
  /\ Go("await", "exit") /\ sem = "given" /\ task' = "none" /\ sem' = "none"
  /\ UNCHANGED <<cancel, note, job>>

\* Mutant: a worker that does not answer is left behind.
LeaveAnyway == "exit"
Stays == "page"
TimesOut == ui = "await" /\ sem # "given" /\ ui' = Stays /\ UNCHANGED <<task, sem, cancel, note, job>>

\* demo_audio_exit under the LVGL lock, or the lock is not to be had.
Exit == ui = "exit" /\ ui' \in {"menu", "page"} /\ UNCHANGED <<task, sem, cancel, note, job>>

-----------------------------------------------------------------------------
(* audio_task.                                                             *)
Step(from, to) == task = "alive" /\ at = from /\ at' = to
Rest == <<owner, note, command>>

Take ==
  /\ note # None /\ command' = note /\ note' = None
  /\ Step("wait", IF note = STOP THEN "done" ELSE "format")
  /\ UNCHANGED <<owner, todo, got, buffer, late>>

\* bsp_audio_set_format, then malloc.
Prepare ==
  /\ \/ Step("format", IF command = TONE THEN "play" ELSE "record") /\ buffer' = TRUE
        /\ todo' = Total /\ got' = 0
     \/ Step("format", "wait") /\ UNCHANGED <<todo, got, buffer>>
  /\ UNCHANGED <<Rest, late>>

\* Mutant: a recording is played back to its end.
WhileLeft == todo > 0
MayGoOn == todo > 0 /\ ~cancel

\* The head of each loop.
Look ==
  /\ task = "alive"
  /\ CASE at = "record" /\ MayGoOn -> at' = "reading" /\ UNCHANGED <<todo, buffer>>
       [] at = "record" /\ ~MayGoOn -> at' = "play" /\ todo' = got /\ UNCHANGED buffer
       [] at = "play" /\ MayGoOn -> at' = "writing" /\ UNCHANGED <<todo, buffer>>
       [] at = "play" /\ ~MayGoOn -> at' = "wait" /\ buffer' = FALSE /\ UNCHANGED todo
       [] OTHER -> FALSE
  /\ UNCHANGED <<Rest, got, late>>

\* Mutant: a recording that fails keeps its buffer.
Kept == buffer
Freed == FALSE

\* bsp_audio_read or bsp_audio_write, which blocks meanwhile.
Transfer ==
  /\ \/ \/ Step("reading", "record") /\ got' = got + 1
        \/ Step("writing", "play") /\ UNCHANGED got
     /\ todo' = todo - 1 /\ late' = (IF cancel THEN late + 1 ELSE late) /\ UNCHANGED buffer
  /\ UNCHANGED Rest

TransferFails ==
  /\ Step("reading", "wait") \/ Step("writing", "wait")
  /\ buffer' = Freed
  /\ UNCHANGED <<Rest, todo, got, late>>

Acknowledge ==
  /\ task = "alive" /\ at = "done" /\ sem' = "given" /\ task' = "parked"
  /\ UNCHANGED <<ui, cancel, note, job>>

Worker == Take \/ Prepare \/ Look \/ Transfer \/ TransferFails \/ Acknowledge
Next == Enter \/ Key \/ Stop \/ Stopped \/ TimesOut \/ Exit \/ Worker

\* A transfer returns (the codec's clock runs, or its call fails).
Spec == Init /\ [][Next]_vars /\ WF_vars(Worker)

-----------------------------------------------------------------------------
(* Types; once told to stop, the worker finishes at most the chunk it is   *)
(* at.                                                                     *)
TypeOK ==
  /\ ui \in {"menu", "page", "await", "exit"} /\ task \in {"none", "alive", "parked"}
  /\ sem \in {"none", "empty", "given"} /\ cancel \in BOOLEAN /\ note \in {None, TONE, RECORD, STOP}
  /\ at \in {"wait", "format", "record", "reading", "play", "writing", "done"}
  /\ todo \in 0 .. Total /\ got \in 0 .. Total /\ buffer \in BOOLEAN /\ late \in 0 .. 1

(* "Only the owner deletes/replaces this task": in the menu no worker, no  *)
(* semaphore and no buffer of the page is left; an acknowledgement is that *)
(* of a worker which has parked and given everything back, though waits    *)
(* have timed out and been tried again.                                    *)
GoneIsGone ==
  /\ ui = "menu" => task = "none" /\ sem = "none"
  /\ sem = "given" => task = "parked"
  /\ task # "alive" \/ at \in {"wait", "format", "done"} => ~buffer

(* The worker does park once it was told to, whatever it was doing.        *)
ToneStops == (cancel /\ task = "alive") ~> (task # "alive")

ToneSafe == TypeOK /\ GoneIsGone
=============================================================================
