------------------------------ MODULE Buttons ------------------------------
(***************************************************************************)
(* components/bsp/src/bsp_button.c: three keys on one ADC pin.  A call of  *)
(* bsp_button_init takes its resources one by one and gives them back when *)
(* one is refused; the button component (external) polls the keys made so  *)
(* far from the esp_timer task, which preempts the caller between any two  *)
(* of its steps.                                                           *)
(***************************************************************************)
EXTENDS Integers, FiniteSets

CONSTANTS
  Owners,     \* callers of bsp_button_init: a callback and its argument
  Nobody,
  Voltages    \* what the divider may give, in mV

ButtonAssumption == Nobody \notin Owners /\ Voltages \subseteq Nat

VARIABLES
  pc,          \* where the caller is in bsp_button_init
  caller,      \* who calls
  adc, cali,   \* s_adc, s_cali
  btn,         \* keys with s_btn[i] set: the component polls them
  registered,  \* keys whose four callbacks are registered
  cb, user,    \* s_cb, s_user, by their owner
  ready,       \* s_ready
  down,        \* keys the component has seen active
  stuck,       \* history: a rollback could not release something
  orphan       \* history: a live handle was overwritten

resources == <<adc, cali, btn, registered>>
vars == <<pc, caller, resources, cb, user, ready, down, stuck, orphan>>

UP == 0
DOWN == 1
OK == 2
Keys == {UP, DOWN, OK}

Init ==
  /\ pc = <<"idle", UP>> /\ caller = Nobody /\ adc = FALSE /\ cali = FALSE /\ btn = {} /\ registered = {}
  /\ cb = Nobody /\ user = Nobody /\ ready = FALSE /\ down = {}
  /\ stuck = FALSE /\ orphan = FALSE

Goto(step, k) == pc' = <<step, k>>
At(step, k) == pc = <<step, k>>
Timer == UNCHANGED down

-----------------------------------------------------------------------------
\* Mutant: the ADC goes whatever is left of the keys.
AtOnce(left) == TRUE
\* Never free the ADC beneath a driver whose deletion failed.
Unused(left) == left = {}

\* Mutant: the loop ends before the first key.
NotTheFirst == btn \ {UP}
Deleted == btn

(* button_cleanup: the keys in reverse, then calibration and unit; each    *)
(* deletion may fail and keeps its handle.                                 *)
Cleanup ==
  /\ cb' = Nobody /\ user' = Nobody /\ ready' = FALSE
  /\ \E kept \in SUBSET btn, keepCali, keepAdc \in BOOLEAN :
       LET left == (btn \ Deleted) \cup kept
       IN /\ btn' = left /\ registered' = registered \cap left
          /\ cali' = (cali /\ (~Unused(left) \/ keepCali))
          /\ adc' = (adc /\ (~Unused(left) \/ keepAdc))
          /\ stuck' = (stuck \/ kept # {} \/ (cali /\ keepCali) \/ (adc /\ keepAdc))

Fails == Goto("idle", UP) /\ Cleanup /\ Timer /\ UNCHANGED <<caller, orphan>>

NothingAlive == ~adc /\ ~cali /\ btn = {}

\* bsp_button_init, up to its first call.
Begin ==
  /\ At("idle", UP) /\ \E o \in Owners : caller' = o
  /\ Timer /\ UNCHANGED <<resources, ready, stuck, orphan>>
  /\ CASE ready -> cb' = caller' /\ Goto("user", UP) /\ UNCHANGED user
       [] ~ready /\ NothingAlive -> cb' = caller' /\ user' = caller' /\ Goto("adc", UP)
       [] OTHER -> UNCHANGED <<pc, cb, user>>

NewUser ==
  /\ At("user", UP) /\ Goto("idle", UP) /\ user' = caller
  /\ Timer /\ UNCHANGED <<caller, resources, cb, ready, stuck, orphan>>

NewUnit ==
  /\ At("adc", UP) /\ Goto("channel", UP)
  /\ adc' = TRUE /\ orphan' = (orphan \/ adc)
  /\ Timer /\ UNCHANGED <<caller, cali, btn, registered, cb, user, ready, stuck>>

ConfigChannel ==
  /\ At("channel", UP) /\ Goto("cali", UP)
  /\ Timer /\ UNCHANGED <<caller, resources, cb, user, ready, stuck, orphan>>

NewScheme ==
  /\ At("cali", UP) /\ Goto("create", UP)
  /\ cali' = TRUE /\ orphan' = (orphan \/ cali)
  /\ Timer /\ UNCHANGED <<caller, adc, btn, registered, cb, user, ready, stuck>>

Create(k) ==
  /\ At("create", k) /\ Goto("register", k)
  /\ btn' = btn \cup {k} /\ orphan' = (orphan \/ k \in btn)
  /\ Timer /\ UNCHANGED <<caller, adc, cali, registered, cb, user, ready, stuck>>

\* Mutant: ready one key too soon.
SecondKey == DOWN
LastKey == OK

\* register_callbacks, and after the last key s_ready.
Register(k) ==
  /\ At("register", k) /\ registered' = registered \cup {k}
  /\ IF k = LastKey THEN Goto("idle", UP) /\ ready' = TRUE ELSE Goto("create", k + 1) /\ UNCHANGED ready
  /\ Timer /\ UNCHANGED <<caller, adc, cali, btn, cb, user, stuck, orphan>>

\* Any of these calls may fail; what it was to make is not there.
Refused == pc[1] \in {"adc", "channel", "cali", "create", "register"} /\ Fails

-----------------------------------------------------------------------------
Window(k) == CASE k = UP -> <<0, 150>> [] k = DOWN -> <<150, 447>> [] OTHER -> <<447, 1900>>

\* Mutant: windows closed at both ends.
Closed(k, mv) == mv >= Window(k)[1] /\ mv <= Window(k)[2]
\* button_level
Active(k, mv) == mv >= Window(k)[1] /\ mv < Window(k)[2]

(* A polling cycle of the timer task: all keys share one averaged reading; *)
(* a reading that fails is -1 and no key's.                                *)
Poll ==
  /\ \E mv \in Voltages \cup {-1} : down' = {k \in btn : ready /\ Active(k, mv)}
  /\ UNCHANGED <<pc, caller, resources, cb, user, ready, stuck, orphan>>

Next == Begin \/ NewUser \/ NewUnit \/ ConfigChannel \/ NewScheme \/ Refused \/ Poll
        \/ \E k \in Keys : Create(k) \/ Register(k)

Spec == Init /\ [][Next]_vars

-----------------------------------------------------------------------------
(* Types; only keys that exist have callbacks.                             *)
TypeOK ==
  /\ pc \in {"idle", "user", "adc", "channel", "cali", "create", "register"} \X Keys
  /\ {adc, cali, ready, stuck, orphan} \subseteq BOOLEAN
  /\ btn \subseteq Keys /\ registered \subseteq btn
  /\ {caller, cb, user} \subseteq Owners \cup {Nobody}

(* Events flow only from a driver that is whole: all keys made, all their  *)
(* callbacks in place, and the ADC they are read with alive.               *)
ReadyIsWhole == ready => adc /\ cali /\ btn = Keys /\ registered = Keys

(* "Never free the ADC beneath a driver": as long as the component polls   *)
(* a key, unit and calibration exist, whatever a rollback failed to free.  *)
AdcOutlivesKeys == btn # {} => adc /\ cali

(* "A failure rolls back what it made, and can be tried again": after a    *)
(* failed call nothing is left, unless a deletion failed; and then no      *)
(* later call overwrites a handle that is alive.                           *)
RollbackIsWhole ==
  /\ pc[1] = "idle" /\ ~ready /\ ~stuck => ~adc /\ ~cali /\ btn = {}
  /\ ~orphan

(* One reading is at most one key's, at the edges of the windows too, and  *)
(* a reading that failed is none's.                                        *)
OneKeyAtATime == Cardinality(down) <= 1

(* The button driver as a whole, through failures of every call it makes.  *)
ButtonsSafe == TypeOK /\ ReadyIsWhole /\ AdcOutlivesKeys /\ RollbackIsWhole /\ OneKeyAtATime
=============================================================================
