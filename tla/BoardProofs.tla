---------------------------- MODULE BoardProofs ----------------------------
(***************************************************************************)
(* Theorems about the drivers of Board.tla: the codec, for any formats and *)
(* volumes; the buttons, for any callers and voltages; the fuel gauge, for *)
(* any length of its profile and of its waits; the display, for any pins.  *)
(* A step of the whole is a step of one part and changes nothing of the    *)
(* others.                                                                 *)
(***************************************************************************)
EXTENDS Board, FiniteSetTheorems, TLAPS

(* The buttons.  What exists at each step of bsp_button_init; a reading    *)
(* is at most one key's.                                                   *)
Below(k) == {j \in Keys!Keys : j < k}
OneDown == down \subseteq Keys!Keys /\ \A a, b \in down : a = b
ButtonStage ==
  /\ call[1] = "idle" /\ ~ready /\ ~stuck => Keys!NothingAlive
  /\ call[1] = "user" => ready
  /\ call[1] = "adc" => ~ready /\ Keys!NothingAlive
  /\ call[1] \in {"channel", "cali"} => ~ready /\ adc /\ ~cali /\ btn = {}
  /\ call[1] = "create" => ~ready /\ adc /\ cali /\ btn = Below(call[2]) /\ registered = Below(call[2])
  /\ call[1] = "register" => ~ready /\ adc /\ cali /\ btn = Below(call[2] + 1) /\ registered = Below(call[2])
ButtonHandles ==
  /\ adc \in BOOLEAN /\ cali \in BOOLEAN /\ ready \in BOOLEAN /\ stuck \in BOOLEAN /\ orphan = FALSE
  /\ btn \subseteq Keys!Keys /\ registered \subseteq btn
ButtonCallers == caller \in Owners \cup {Nobody} /\ cb \in Owners \cup {Nobody} /\ user \in Owners \cup {Nobody}
ButtonInv ==
  /\ call \in {"idle", "user", "adc", "channel", "cali", "create", "register"} \X Keys!Keys
  /\ ButtonHandles /\ ButtonCallers /\ OneDown /\ Keys!ReadyIsWhole /\ Keys!AdcOutlivesKeys /\ ButtonStage

LEMMA ButtonStart == Keys!Init => ButtonInv
<1> SUFFICES ASSUME Keys!Init PROVE ButtonInv
  OBVIOUS
<1>1. call \in {"idle", "user", "adc", "channel", "cali", "create", "register"} \X Keys!Keys
  BY DEF Keys!Init, Keys!Keys, Keys!UP
<1>2. /\ adc = FALSE /\ cali = FALSE /\ btn = {} /\ registered = {} /\ ready = FALSE /\ stuck = FALSE
      /\ orphan = FALSE /\ down = {} /\ call[1] = "idle"
  BY DEF Keys!Init
<1>3. ButtonCallers
  BY DEF Keys!Init, ButtonCallers
<1> QED
  BY <1>1, <1>2, <1>3
     DEF ButtonInv, ButtonHandles, OneDown, Keys!ReadyIsWhole, Keys!AdcOutlivesKeys,
          ButtonStage, Keys!NothingAlive

LEMMA SameCount == ASSUME NEW S PROVE Keys!Cardinality(S) = Cardinality(S)
  BY DEF Keys!Cardinality, Cardinality

LEMMA ButtonEnough == ButtonInv => ButtonsSafe
<1> SUFFICES ASSUME ButtonInv PROVE Keys!ButtonsSafe
  BY DEF ButtonsSafe
<1>1. Keys!TypeOK
  BY DEF ButtonInv, ButtonHandles, ButtonCallers, Keys!TypeOK
<1>2. Keys!RollbackIsWhole
  BY DEF ButtonInv, ButtonHandles, ButtonStage, Keys!RollbackIsWhole, Keys!NothingAlive
<1>3. Keys!OneKeyAtATime
  <2>1. CASE down = {}
    BY <2>1, SameCount, FS_EmptySet DEF Keys!OneKeyAtATime
  <2>2. CASE down # {}
    <3>1. PICK k : down = {k}
      BY <2>2 DEF ButtonInv, OneDown
    <3> QED
      BY <3>1, SameCount, FS_Singleton DEF Keys!OneKeyAtATime
  <2> QED
    BY <2>1, <2>2
<1> QED
  BY <1>1, <1>2, <1>3 DEF ButtonInv, Keys!ButtonsSafe

(* button_cleanup: what it cannot release keeps all that it needs.         *)
LEMMA ButtonFails == ASSUME ButtonInv, Keys!Fails PROVE ButtonInv'
<1>1. /\ call' = <<"idle", Keys!UP>> /\ ready' = FALSE /\ UNCHANGED <<down, caller, orphan>>
      /\ cb' = Nobody /\ user' = Nobody
  BY DEF Keys!Fails, Keys!Goto, Keys!Cleanup, Keys!Timer
<1>2. PICK kept \in SUBSET btn, keepCali \in BOOLEAN, keepAdc \in BOOLEAN :
        /\ btn' = kept /\ registered' = registered \cap kept
        /\ cali' = (cali /\ (kept # {} \/ keepCali))
        /\ adc' = (adc /\ (kept # {} \/ keepAdc))
        /\ stuck' = (stuck \/ kept # {} \/ (cali /\ keepCali) \/ (adc /\ keepAdc))
  <2>1. PICK kept \in SUBSET btn, keepCali \in BOOLEAN, keepAdc \in BOOLEAN :
          LET left == (btn \ Keys!Deleted) \cup kept
          IN /\ btn' = left /\ registered' = registered \cap left
             /\ cali' = (cali /\ (~Keys!Unused(left) \/ keepCali))
             /\ adc' = (adc /\ (~Keys!Unused(left) \/ keepAdc))
             /\ stuck' = (stuck \/ kept # {} \/ (cali /\ keepCali) \/ (adc /\ keepAdc))
    BY DEF Keys!Fails, Keys!Cleanup
  <2>2. (btn \ Keys!Deleted) \cup kept = kept
    BY DEF Keys!Deleted
  <2> QED
    BY <2>1, <2>2 DEF Keys!Unused
<1>3. ButtonHandles' /\ Keys!AdcOutlivesKeys'
  <2>1. btn' \subseteq btn /\ (btn' # {} => adc /\ cali) /\ btn \subseteq Keys!Keys
    BY <1>2 DEF ButtonInv, ButtonHandles, Keys!AdcOutlivesKeys
  <2>2. Keys!AdcOutlivesKeys'
    BY <1>2, <2>1 DEF Keys!AdcOutlivesKeys
  <2>3. adc' \in BOOLEAN /\ cali' \in BOOLEAN /\ stuck' \in BOOLEAN
    BY <1>2
  <2>4. btn' \subseteq Keys!Keys /\ registered' \subseteq btn'
    BY <1>2, <2>1
  <2> QED
    BY <1>1, <2>2, <2>3, <2>4 DEF ButtonInv, ButtonHandles
<1>4. ~stuck' => Keys!NothingAlive'
  BY <1>2 DEF Keys!NothingAlive
<1>5. ButtonCallers' /\ OneDown' /\ Keys!ReadyIsWhole'
  BY <1>1 DEF ButtonInv, ButtonCallers, OneDown, Keys!ReadyIsWhole
<1>6. call' \in {"idle", "user", "adc", "channel", "cali", "create", "register"} \X Keys!Keys
  BY <1>1 DEF Keys!Keys, Keys!UP
<1>7. ButtonStage'
  BY <1>1, <1>4 DEF ButtonStage
<1> QED
  BY <1>3, <1>5, <1>6, <1>7 DEF ButtonInv

LEMMA ButtonBegin == ASSUME ButtonInv, Keys!Begin \/ Keys!NewUser PROVE ButtonInv'
<1>1. /\ UNCHANGED <<adc, cali, btn, registered, ready, stuck, orphan, down>>
      /\ caller' \in Owners \cup {Nobody} /\ cb' \in {cb, caller'} /\ user' \in {user, caller, caller'}
  BY DEF Keys!Begin, Keys!NewUser, Keys!Timer, Keys!resources, ButtonInv, ButtonCallers
<1>2. \/ call' = <<"user", Keys!UP>> /\ ready
      \/ call' = <<"adc", Keys!UP>> /\ ~ready /\ Keys!NothingAlive
      \/ call' = <<"idle", Keys!UP>> /\ call[1] = "user"
      \/ call' = call
  BY DEF Keys!Begin, Keys!NewUser, Keys!Goto, Keys!At
<1>3. ButtonHandles' /\ OneDown' /\ Keys!ReadyIsWhole' /\ Keys!AdcOutlivesKeys'
  BY <1>1 DEF ButtonInv, ButtonHandles, OneDown, Keys!ReadyIsWhole, Keys!AdcOutlivesKeys
<1>4. ButtonCallers'
  BY <1>1 DEF ButtonInv, ButtonCallers
<1>5. call' \in {"idle", "user", "adc", "channel", "cali", "create", "register"} \X Keys!Keys
  BY <1>2 DEF ButtonInv, Keys!Keys, Keys!UP
<1>6. ButtonStage'
  BY <1>1, <1>2 DEF ButtonInv, ButtonStage, Keys!NothingAlive
<1> QED
  BY <1>3, <1>4, <1>5, <1>6 DEF ButtonInv

LEMMA ButtonMake == ASSUME ButtonInv, Keys!NewUnit \/ Keys!ConfigChannel \/ Keys!NewScheme PROVE ButtonInv'
<1> USE DEF Keys!NewUnit, Keys!ConfigChannel, Keys!NewScheme, Keys!Goto, Keys!At, Keys!Timer,
     Keys!resources
<1>1. /\ UNCHANGED <<btn, registered, ready, stuck, down, caller, cb, user>>
      /\ btn = {} /\ ready = FALSE /\ orphan' = FALSE
  BY DEF ButtonInv, ButtonHandles, ButtonStage, Keys!NothingAlive
<1>2. \/ call' = <<"channel", Keys!UP>> /\ adc' = TRUE /\ cali' = FALSE
      \/ call' = <<"cali", Keys!UP>> /\ adc' = TRUE /\ cali' = FALSE
      \/ call' = <<"create", Keys!UP>> /\ adc' = TRUE /\ cali' = TRUE
  BY DEF ButtonInv, ButtonHandles, ButtonStage, Keys!NothingAlive
<1>3. call' \in {"idle", "user", "adc", "channel", "cali", "create", "register"} \X Keys!Keys
  BY <1>2 DEF Keys!Keys, Keys!UP
<1>4. Below(Keys!UP) = {} /\ registered = {}
  BY <1>1 DEF Below, Keys!Keys, Keys!UP, Keys!DOWN, Keys!OK, ButtonInv, ButtonHandles
<1>5. ButtonStage'
  BY <1>1, <1>2, <1>4 DEF ButtonStage
<1>6. ButtonHandles' /\ ButtonCallers' /\ OneDown' /\ Keys!ReadyIsWhole' /\ Keys!AdcOutlivesKeys'
  BY <1>1, <1>2 DEF ButtonInv, ButtonHandles, ButtonCallers, OneDown, Keys!ReadyIsWhole,
     Keys!AdcOutlivesKeys
<1> QED
  BY <1>3, <1>5, <1>6 DEF ButtonInv

LEMMA ButtonKey == ASSUME ButtonInv, NEW k \in Keys!Keys, Keys!Create(k) \/ Keys!Register(k) PROVE ButtonInv'
<1> USE DEF Keys!Create, Keys!Register, Keys!Goto, Keys!At, Keys!Timer
<1>0. /\ UNCHANGED <<adc, cali, stuck, down, caller, cb, user>> /\ k \in {0, 1, 2} /\ Keys!Keys = {0, 1, 2}
      /\ adc = TRUE /\ cali = TRUE /\ registered = Below(k) /\ ready = FALSE
  BY DEF ButtonInv, ButtonHandles, ButtonStage, Keys!Keys, Keys!UP, Keys!DOWN, Keys!OK
<1>1. Below(0) = {} /\ Below(1) = {0} /\ Below(2) = {0, 1} /\ Below(3) = {0, 1, 2}
  BY <1>0 DEF Below
<1>2. CASE Keys!Create(k)
  <2>1. call = <<"create", k>> /\ call' = <<"register", k>> /\ btn' = btn \cup {k} /\ UNCHANGED <<registered, ready>>
    BY <1>2
  <2>2. btn = Below(k) /\ btn' = Below(k + 1) /\ k \notin btn
    BY <1>0, <1>1, <2>1 DEF ButtonInv, ButtonStage
  <2>3. orphan' = FALSE
    BY <1>2, <2>2 DEF ButtonInv, ButtonHandles
  <2>4. ButtonHandles'
    BY <1>0, <1>1, <2>1, <2>2, <2>3 DEF ButtonInv, ButtonHandles
  <2>5. ButtonStage'
    BY <1>0, <2>1, <2>2 DEF ButtonStage
  <2>6. call' \in {"idle", "user", "adc", "channel", "cali", "create", "register"} \X Keys!Keys
    BY <2>1
  <2> QED
    BY <1>0, <2>1, <2>4, <2>5, <2>6 DEF ButtonInv, ButtonCallers, OneDown, Keys!ReadyIsWhole,
       Keys!AdcOutlivesKeys
<1>3. CASE Keys!Register(k)
  <2>1. call = <<"register", k>> /\ registered' = registered \cup {k} /\ UNCHANGED <<btn, orphan>>
    BY <1>3
  <2>2. btn = Below(k + 1) /\ registered' = Below(k + 1)
    BY <1>0, <1>1, <2>1 DEF ButtonInv, ButtonStage
  <2>3. CASE k = 2
    <3>1. call' = <<"idle", Keys!UP>> /\ ready' = TRUE
      BY <1>3, <2>3 DEF Keys!LastKey, Keys!OK
    <3>2. btn' = Keys!Keys /\ registered' = Keys!Keys
      BY <1>0, <1>1, <2>1, <2>2, <2>3
    <3>3. call' \in {"idle", "user", "adc", "channel", "cali", "create", "register"} \X Keys!Keys
      BY <1>0, <3>1 DEF Keys!UP
    <3>4. ButtonHandles' /\ Keys!ReadyIsWhole' /\ Keys!AdcOutlivesKeys'
      BY <1>0, <2>1, <3>1, <3>2 DEF ButtonInv, ButtonHandles, Keys!ReadyIsWhole,
         Keys!AdcOutlivesKeys
    <3>5. ButtonStage'
      BY <3>1 DEF ButtonStage
    <3> QED
      BY <1>0, <3>3, <3>4, <3>5 DEF ButtonInv, ButtonCallers, OneDown
  <2>4. CASE k # 2
    <3>1. call' = <<"create", k + 1>> /\ ready' = ready /\ k + 1 \in Keys!Keys
      BY <1>0, <1>3, <2>4 DEF Keys!LastKey, Keys!OK
    <3>2. call' \in {"idle", "user", "adc", "channel", "cali", "create", "register"} \X Keys!Keys
      BY <3>1
    <3>3. ButtonHandles'
      BY <1>0, <2>1, <2>2, <3>1 DEF ButtonInv, ButtonHandles
    <3>4. ButtonStage'
      BY <1>0, <2>1, <2>2, <3>1 DEF ButtonStage
    <3> QED
      BY <1>0, <3>1, <3>2, <3>3, <3>4 DEF ButtonInv, ButtonCallers, OneDown,
         Keys!ReadyIsWhole, Keys!AdcOutlivesKeys
  <2> QED
    BY <2>3, <2>4
<1> QED
  BY <1>2, <1>3

(* The windows do not overlap, and -1 is in none of them.                  *)
LEMMA OneWindow ==
  ASSUME NEW mv \in Int, NEW a \in Keys!Keys, NEW b \in Keys!Keys, Keys!Active(a, mv), Keys!Active(b, mv) PROVE a = b
  BY DEF Keys!Active, Keys!Window, Keys!Keys, Keys!UP, Keys!DOWN, Keys!OK

LEMMA ButtonPoll == ASSUME ButtonInv, Keys!Poll PROVE ButtonInv'
<1>1. UNCHANGED <<call, caller, adc, cali, btn, registered, cb, user, ready, stuck, orphan>>
  BY DEF Keys!Poll, Keys!resources
<1>2. PICK mv \in Voltages \cup {-1} : down' = {k \in btn : ready /\ Keys!Active(k, mv)}
  BY DEF Keys!Poll
<1>3. mv \in Int
  BY BoardAssumption DEF Keys!ButtonAssumption
<1>4. OneDown'
  BY <1>2, <1>3, OneWindow DEF OneDown, ButtonInv, ButtonHandles
<1> QED
  BY <1>1, <1>4
     DEF ButtonInv, ButtonHandles, ButtonCallers, Keys!ReadyIsWhole, Keys!AdcOutlivesKeys,
          ButtonStage, Keys!NothingAlive

LEMMA ButtonStep == ButtonInv /\ [Keys!Next]_Keys!vars => ButtonInv'
<1> SUFFICES ASSUME ButtonInv, [Keys!Next]_Keys!vars PROVE ButtonInv'
  OBVIOUS
<1>1. CASE UNCHANGED Keys!vars
  BY <1>1 DEF Keys!vars, Keys!resources, ButtonInv, ButtonHandles, ButtonCallers, OneDown,
     Keys!ReadyIsWhole, Keys!AdcOutlivesKeys, ButtonStage,
              Keys!NothingAlive
<1> QED
  BY <1>1, ButtonFails, ButtonBegin, ButtonMake, ButtonKey, ButtonPoll DEF Keys!Next, Keys!Refused

LEMMA ButtonHolds == Keys!Init /\ [][Keys!Next]_Keys!vars => []ButtonInv
  BY ButtonStart, ButtonStep, PTL

-----------------------------------------------------------------------------
(* The fuel gauge.  A gauge that runs with our profile and our flag bases  *)
(* its readings on them, wherever an attempt was cut off; the driver knows *)
(* at each step how much of it is there.                                   *)
GaugeChips ==
  [config : {"restart", "sleep", "active"}, flag : BOOLEAN, own : [Gauge!Index -> BOOLEAN],
   soc : (0 .. 100) \cup {Gauge!NotReady}, based : BOOLEAN]
GaugeWhole(c) == c.flag /\ \A b \in Gauge!Index : c.own[b]
GaugeBased(c) == c.config = "active" /\ GaugeWhole(c) => c.based
GaugeProgress ==
  /\ pc = "compare" => i \in Gauge!Index /\ chip.flag /\ \A b \in 1 .. i - 1 : chip.own[b]
  /\ pc = "config" => GaugeWhole(chip)
  /\ pc = "sleep" => i \in {1, 2}
  /\ pc \in {"write", "verify", "update"} => chip.config = "sleep"
  /\ pc = "write" => i \in Gauge!Index
  /\ pc = "verify" => i \in Gauge!Index /\ \A b \in 1 .. i - 1 : chip.own[b]
  /\ pc = "update" => \A b \in Gauge!Index : chip.own[b]
  /\ pc = "activate" => i \in {1, 2} /\ GaugeWhole(chip)
  /\ pc = "wait" => i \in 0 .. Polls /\ chip.config = "active" /\ chip.based
  /\ pc \in {"boot", "version", "flag", "config", "update", "run"} => i = 0
GaugeAlarm ==
  /\ battery \in -1 .. 100 /\ low \in BOOLEAN /\ told \in BOOLEAN /\ again = FALSE
  /\ told => low
GaugePlaces == {"boot", "version", "flag", "compare", "config", "sleep", "write", "verify",
           "update", "activate", "wait", "run"}
GaugeInv ==
  /\ chip \in GaugeChips /\ GaugeBased(chip) /\ pc \in GaugePlaces /\ gauge \in BOOLEAN /\ calm \in BOOLEAN
  /\ GaugeProgress /\ Gauge!ReadingsAreOurs /\ GaugeAlarm

LEMMA GaugeStart == Gauge!Init => GaugeInv
<1> SUFFICES ASSUME Gauge!Init PROVE GaugeInv
  OBVIOUS
<1>1. pc = "boot" /\ i = 0 /\ gauge = FALSE /\ calm = FALSE /\ battery = -1 /\ low = FALSE /\ told = FALSE /\ again = FALSE
  BY DEF Gauge!Init
<1>2. 1 \in Gauge!Index
  BY BoardAssumption DEF Gauge!GaugeAssumption, Gauge!Index
<1>3. chip \in GaugeChips /\ GaugeBased(chip)
  <2>1. CASE chip = Gauge!Fresh
    BY <2>1 DEF Gauge!Fresh, GaugeChips, GaugeBased
  <2>2. CASE chip = Gauge!Foreign
    <3>1. /\ chip.own[1] = FALSE
          /\ chip = [config |-> "active", flag |-> TRUE, own |-> [b \in Gauge!Index |-> FALSE], soc |-> 50,
                     based |-> FALSE]
      BY <1>2, <2>2 DEF Gauge!Foreign, Gauge!Fresh
    <3>3. chip \in GaugeChips
      BY <3>1 DEF GaugeChips
    <3>2. ~GaugeWhole(chip)
      BY <1>2, <3>1 DEF GaugeWhole
    <3> QED
      BY <3>2, <3>3 DEF GaugeBased
  <2> QED
    BY <2>1, <2>2 DEF Gauge!Init
<1>4. GaugeProgress /\ Gauge!ReadingsAreOurs
  BY <1>1 DEF GaugeProgress, Gauge!ReadingsAreOurs
<1>5. GaugeAlarm
  <2>1. -1 \in -1 .. 100
    OBVIOUS
  <2> QED
    BY <1>1, <2>1 DEF GaugeAlarm
<1>6. pc \in GaugePlaces
  BY <1>1 DEF GaugePlaces
<1> QED
  BY <1>1, <1>3, <1>4, <1>5, <1>6 DEF GaugeInv

LEMMA GaugeEnough == GaugeInv => GaugeSafe
<1> SUFFICES ASSUME GaugeInv PROVE Gauge!GaugeSafe
  BY DEF GaugeSafe
<1>1. i \in 0 .. (Bytes + Polls + 2)
  BY BoardAssumption DEF Gauge!GaugeAssumption, GaugeInv, GaugeProgress, GaugePlaces, Gauge!Index
<1>2. {gauge, low, told, again, calm} \subseteq BOOLEAN
  BY DEF GaugeInv, GaugeAlarm
<1>3. Gauge!TypeOK
  BY <1>1, <1>2 DEF GaugeInv, GaugeChips, GaugePlaces, GaugeAlarm, Gauge!TypeOK
<1> QED
  BY <1>3 DEF GaugeInv, GaugeAlarm, Gauge!GaugeSafe, Gauge!ToldOnce

(* A start anew: nothing is known of the gauge but what its registers say. *)
LEMMA GaugeBoots ==
  ASSUME GaugeInv, Gauge!Started, chip' \in GaugeChips, GaugeBased(chip'), UNCHANGED again, calm' \in BOOLEAN
  PROVE  GaugeInv'
<1>1. pc' = "boot" /\ i' = 0 /\ gauge' = FALSE /\ battery' = -1 /\ low' = FALSE /\ told' = FALSE
  BY DEF Gauge!Started
<1>2. GaugeProgress' /\ Gauge!ReadingsAreOurs' /\ pc' \in GaugePlaces
  BY <1>1 DEF GaugeProgress, Gauge!ReadingsAreOurs, GaugePlaces
<1>3. GaugeAlarm'
  <2>1. -1 \in -1 .. 100
    OBVIOUS
  <2> QED
    BY <1>1, <2>1 DEF GaugeInv, GaugeAlarm
<1> QED
  BY <1>1, <1>2, <1>3 DEF GaugeInv

LEMMA GaugeEnvironment ==
  ASSUME GaugeInv, Gauge!Reset \/ Gauge!PowerLost \/ Gauge!Compute \/ Gauge!CalmDown \/ Gauge!DeepSleep PROVE GaugeInv'
<1>1. CASE Gauge!Reset
  BY <1>1, GaugeBoots DEF Gauge!Reset, GaugeInv
<1>2. CASE Gauge!PowerLost
  <2>1. chip' \in GaugeChips /\ GaugeBased(chip')
    BY <1>2 DEF Gauge!PowerLost, Gauge!Fresh, GaugeChips, GaugeBased
  <2> QED
    BY <1>2, <2>1, GaugeBoots DEF Gauge!PowerLost, GaugeInv
<1>3. CASE Gauge!DeepSleep
  <2>1. chip' \in {chip, [chip EXCEPT !.config = "sleep"]}
    BY <1>3 DEF Gauge!DeepSleep
  <2>2. chip' \in GaugeChips /\ GaugeBased(chip')
    BY <2>1 DEF GaugeChips, GaugeBased, GaugeInv
  <2> QED
    BY <1>3, <2>2, GaugeBoots DEF Gauge!DeepSleep, GaugeInv
<1>4. CASE Gauge!Compute
  <2>1. UNCHANGED <<pc, i, gauge, battery, low, told, again, calm>>
    BY <1>4 DEF Gauge!Compute
  <2>2. PICK c \in Charges \cup (IF calm THEN {} ELSE {Gauge!NotReady}) : chip' = [chip EXCEPT !.soc = c]
    BY <1>4 DEF Gauge!Compute
  <2>3. c \in (0 .. 100) \cup {Gauge!NotReady}
    BY BoardAssumption DEF Gauge!GaugeAssumption
  <2>4. /\ chip' \in GaugeChips /\ chip'.config = chip.config /\ chip'.flag = chip.flag
        /\ chip'.own = chip.own /\ chip'.based = chip.based
    BY <2>2, <2>3 DEF GaugeInv, GaugeChips
  <2>5. GaugeBased(chip') /\ GaugeProgress' /\ Gauge!ReadingsAreOurs' /\ GaugeAlarm'
    BY <2>1, <2>4 DEF GaugeInv, GaugeBased, GaugeWhole, GaugeProgress, Gauge!ReadingsAreOurs,
       GaugeAlarm
  <2> QED
    BY <2>1, <2>4, <2>5 DEF GaugeInv
<1>5. CASE Gauge!CalmDown
  BY <1>5 DEF Gauge!CalmDown, GaugeInv, GaugeProgress, Gauge!ReadingsAreOurs, GaugeAlarm
<1> QED
  BY <1>1, <1>2, <1>3, <1>4, <1>5

(* A step of bsp_battery_init ends it or goes on; either way the gauge is  *)
(* what the transaction made of it.                                        *)
LEMMA GaugeFails == ASSUME GaugeInv, Gauge!Fails, chip' \in GaugeChips, GaugeBased(chip') PROVE GaugeInv'
<1>1. pc' = "run" /\ i' = 0 /\ gauge' = FALSE /\ UNCHANGED <<battery, low, told, again, calm>>
  BY DEF Gauge!Fails
<1>2. GaugeProgress' /\ Gauge!ReadingsAreOurs' /\ pc' \in GaugePlaces
  BY <1>1 DEF GaugeProgress, Gauge!ReadingsAreOurs, GaugePlaces
<1>3. GaugeAlarm'
  BY <1>1 DEF GaugeInv, GaugeAlarm
<1> QED
  BY <1>1, <1>2, <1>3 DEF GaugeInv

LEMMA GaugeGoesOn ==
  ASSUME GaugeInv, NEW step \in GaugePlaces, NEW n, Gauge!GoOn(step, n), chip' \in GaugeChips, GaugeBased(chip'), GaugeProgress',
         step = "run" => chip'.config = "active" /\ chip'.based
  PROVE  GaugeInv'
<1>1. pc' = step /\ UNCHANGED <<gauge, battery, low, told, again, calm>>
  BY DEF Gauge!GoOn, Gauge!Rest
<1>2. Gauge!ReadingsAreOurs' /\ GaugeAlarm'
  BY <1>1 DEF GaugeInv, Gauge!ReadingsAreOurs, GaugeAlarm
<1> QED
  BY <1>1, <1>2 DEF GaugeInv

LEMMA GaugeReads ==
  ASSUME GaugeInv, NEW step \in GaugePlaces \ {"run"}, NEW n, Gauge!Read(step, n),
         pc' = step /\ i' = n /\ chip' = chip => GaugeProgress'
  PROVE  GaugeInv'
<1>1. chip' \in GaugeChips /\ GaugeBased(chip') /\ chip' = chip
  BY DEF Gauge!Read, GaugeInv
<1>2. CASE Gauge!GoOn(step, n)
  BY <1>1, <1>2, GaugeGoesOn DEF Gauge!GoOn
<1>3. CASE Gauge!Fails
  BY <1>1, <1>3, GaugeFails
<1> QED
  BY <1>2, <1>3 DEF Gauge!Read

LEMMA GaugeWrites ==
  ASSUME GaugeInv, NEW c \in GaugeChips, GaugeBased(c), NEW step \in GaugePlaces \ {"run"}, NEW n, Gauge!Write(c, step, n),
         pc' = step /\ i' = n /\ chip' = c => GaugeProgress'
  PROVE  GaugeInv'
<1>1. CASE chip' = c /\ Gauge!GoOn(step, n)
  BY <1>1, GaugeGoesOn DEF Gauge!GoOn
<1>2. CASE chip' \in {chip, c} /\ Gauge!Fails
  <2>1. chip' \in GaugeChips /\ GaugeBased(chip')
    BY <1>2 DEF GaugeInv
  <2> QED
    BY <1>2, <2>1, GaugeFails
<1> QED
  BY <1>1, <1>2 DEF Gauge!Write

LEMMA GaugeCompares ==
  ASSUME GaugeInv, Gauge!AddDevice \/ Gauge!Version \/ Gauge!Flag \/ Gauge!Compare \/ Gauge!Config PROVE GaugeInv'
<1>0. Bytes \in Nat \ {0} /\ Polls \in Nat \ {0} /\ Gauge!Index = 1 .. Bytes /\ 1 \in Gauge!Index
  BY BoardAssumption DEF Gauge!GaugeAssumption, Gauge!Index
<1>1. CASE Gauge!AddDevice
  <2>1. chip' = chip
    BY <1>1 DEF Gauge!AddDevice
  <2>2. CASE Gauge!Fails
    BY <2>1, <2>2, GaugeFails DEF GaugeInv
  <2>3. CASE pc' = "version" /\ i' = 0 /\ gauge' = TRUE /\ UNCHANGED <<battery, low, told, again, calm>>
    <3>1. GaugeProgress' /\ Gauge!ReadingsAreOurs' /\ pc' \in GaugePlaces /\ gauge' \in BOOLEAN
      BY <2>3 DEF GaugeProgress, Gauge!ReadingsAreOurs, GaugePlaces
    <3>2. GaugeAlarm'
      BY <2>3 DEF GaugeInv, GaugeAlarm
    <3> QED
      BY <2>1, <2>3, <3>1, <3>2 DEF GaugeInv
  <2> QED
    BY <1>1, <2>2, <2>3 DEF Gauge!AddDevice
<1>2. CASE Gauge!Version
  <2>1. pc' = "flag" /\ i' = 0 => GaugeProgress'
    BY DEF GaugeProgress
  <2> QED
    BY <1>2, <2>1, GaugeReads DEF Gauge!Version, GaugePlaces
<1>3. CASE Gauge!Flag
  <2>1. pc' = "compare" /\ i' = 1 /\ chip' = chip /\ chip.flag => GaugeProgress'
    BY <1>0 DEF GaugeProgress
  <2>2. pc' = "sleep" /\ i' = 1 => GaugeProgress'
    BY DEF GaugeProgress
  <2> QED
    BY <1>3, <2>1, <2>2, GaugeReads DEF Gauge!Flag, GaugePlaces
<1>4. CASE Gauge!Compare
  <2>0. i \in Gauge!Index /\ chip.flag /\ \A b \in 1 .. i - 1 : chip.own[b]
    BY <1>4 DEF Gauge!Compare, GaugeInv, GaugeProgress
  <2>1. CASE Gauge!Differs(i)
    <3>1. pc' = "sleep" /\ i' = 1 => GaugeProgress'
      BY DEF GaugeProgress
    <3> QED
      BY <1>4, <2>1, <3>1, GaugeReads DEF Gauge!Compare, GaugePlaces
  <2>2. CASE ~Gauge!Differs(i) /\ i < Bytes
    <3>1. i + 1 \in Gauge!Index /\ \A b \in 1 .. (i + 1) - 1 : chip.own[b]
      BY <1>0, <2>0, <2>2 DEF Gauge!Differs
    <3>2. pc' = "compare" /\ i' = i + 1 /\ chip' = chip => GaugeProgress'
      BY <2>0, <3>1 DEF GaugeProgress
    <3> QED
      BY <1>4, <2>2, <3>2, GaugeReads DEF Gauge!Compare, GaugePlaces
  <2>3. CASE ~Gauge!Differs(i) /\ ~(i < Bytes)
    <3>1. GaugeWhole(chip)
      BY <1>0, <2>0, <2>3 DEF Gauge!Differs, GaugeWhole
    <3>2. pc' = "config" /\ i' = 0 /\ chip' = chip => GaugeProgress'
      BY <3>1 DEF GaugeProgress
    <3> QED
      BY <1>4, <2>3, <3>2, GaugeReads DEF Gauge!Compare, GaugePlaces
  <2> QED
    BY <2>1, <2>2, <2>3
<1>5. CASE Gauge!Config
  <2>0. GaugeWhole(chip) /\ (chip.config = "active" => chip.based)
    BY <1>5 DEF Gauge!Config, GaugeInv, GaugeProgress, GaugeBased
  <2>1. pc' = "activate" /\ i' = 1 /\ chip' = chip => GaugeProgress'
    BY <2>0 DEF GaugeProgress
  <2>2. chip.config = "active" /\ pc' = "wait" /\ i' = 0 /\ chip' = chip => GaugeProgress'
    BY <1>0, <2>0 DEF GaugeProgress
  <2> QED
    BY <1>5, <2>1, <2>2, GaugeReads DEF Gauge!Config, Gauge!NeedsRestart, GaugePlaces
<1> QED
  BY <1>1, <1>2, <1>3, <1>4, <1>5

LEMMA GaugeUpdates ==
  ASSUME GaugeInv, Gauge!Sleep \/ Gauge!WriteByte \/ Gauge!Verify \/ Gauge!SetFlag PROVE GaugeInv'
<1>0. Bytes \in Nat \ {0} /\ Gauge!Index = 1 .. Bytes /\ 1 \in Gauge!Index /\ chip \in GaugeChips
  BY BoardAssumption DEF Gauge!GaugeAssumption, Gauge!Index, GaugeInv
<1>1. CASE Gauge!Sleep
  <2> DEFINE c == [chip EXCEPT !.config = "restart"]
             d == [chip EXCEPT !.config = "sleep"]
  <2>1. c \in GaugeChips /\ GaugeBased(c) /\ d \in GaugeChips /\ GaugeBased(d) /\ d.config = "sleep"
    BY <1>0 DEF GaugeChips, GaugeBased
  <2> HIDE DEF c, d
  <2>2. pc' = "sleep" /\ i' = 2 => GaugeProgress'
    BY DEF GaugeProgress
  <2>3. pc' = "write" /\ i' = 1 /\ chip' = d => GaugeProgress'
    BY <1>0, <2>1 DEF GaugeProgress
  <2>4. Gauge!Write(c, "sleep", 2) \/ Gauge!Write(d, "write", 1)
    BY <1>1 DEF Gauge!Sleep, c, d
  <2> QED
    BY <2>1, <2>2, <2>3, <2>4, GaugeWrites DEF GaugePlaces
<1>2. CASE Gauge!WriteByte
  <2> DEFINE c == [chip EXCEPT !.own[i] = (@ \/ chip.config = "sleep")]
  <2>0. i \in Gauge!Index /\ chip.config = "sleep"
    BY <1>2 DEF Gauge!WriteByte, GaugeInv, GaugeProgress
  <2>1. c \in GaugeChips /\ c.config = "sleep"
    BY <1>0, <2>0 DEF GaugeChips
  <2>2. GaugeBased(c)
    BY <2>1 DEF GaugeBased
  <2>3. (i < Bytes /\ Gauge!Write(c, "write", i + 1)) \/ Gauge!Write(c, "verify", 1)
    BY <1>2 DEF Gauge!WriteByte
  <2> HIDE DEF c
  <2>4. i < Bytes /\ pc' = "write" /\ i' = i + 1 /\ chip' = c => GaugeProgress'
    BY <1>0, <2>0, <2>1 DEF GaugeProgress
  <2>5. pc' = "verify" /\ i' = 1 /\ chip' = c => GaugeProgress'
    BY <1>0, <2>1 DEF GaugeProgress
  <2> QED
    BY <2>1, <2>2, <2>3, <2>4, <2>5, GaugeWrites DEF GaugePlaces
<1>3. CASE Gauge!Verify
  <2>0. i \in Gauge!Index /\ chip.config = "sleep" /\ \A b \in 1 .. i - 1 : chip.own[b]
    BY <1>3 DEF Gauge!Verify, GaugeInv, GaugeProgress
  <2>1. CASE ~chip.own[i]
    <3>1. chip' = chip /\ Gauge!Fails
      BY <1>3, <2>1 DEF Gauge!Verify
    <3> QED
      BY <3>1, GaugeFails DEF GaugeInv
  <2>2. CASE chip.own[i] /\ i < Bytes
    <3>1. i + 1 \in Gauge!Index /\ \A b \in 1 .. (i + 1) - 1 : chip.own[b]
      BY <1>0, <2>0, <2>2
    <3>2. pc' = "verify" /\ i' = i + 1 /\ chip' = chip => GaugeProgress'
      BY <2>0, <3>1 DEF GaugeProgress
    <3> QED
      BY <1>3, <2>2, <3>2, GaugeReads DEF Gauge!Verify, GaugePlaces
  <2>3. CASE chip.own[i] /\ ~(i < Bytes)
    <3>1. \A b \in Gauge!Index : chip.own[b]
      BY <1>0, <2>0, <2>3
    <3>2. pc' = "update" /\ i' = 0 /\ chip' = chip => GaugeProgress'
      BY <2>0, <3>1 DEF GaugeProgress
    <3> QED
      BY <1>3, <2>3, <3>2, GaugeReads DEF Gauge!Verify, GaugePlaces
  <2> QED
    BY <2>1, <2>2, <2>3
<1>4. CASE Gauge!SetFlag
  <2> DEFINE c == [chip EXCEPT !.flag = TRUE]
  <2>0. chip.config = "sleep" /\ \A b \in Gauge!Index : chip.own[b]
    BY <1>4 DEF Gauge!SetFlag, GaugeInv, GaugeProgress
  <2>1. c \in GaugeChips /\ c.config = "sleep" /\ c.flag /\ c.own = chip.own
    BY <1>0, <2>0 DEF GaugeChips
  <2>2. Gauge!Write(c, "activate", 1)
    BY <1>4 DEF Gauge!SetFlag
  <2> HIDE DEF c
  <2>3. GaugeBased(c) /\ GaugeWhole(c)
    BY <2>0, <2>1 DEF GaugeBased, GaugeWhole
  <2>4. pc' = "activate" /\ i' = 1 /\ chip' = c => GaugeProgress'
    BY <2>3 DEF GaugeProgress
  <2> QED
    BY <2>1, <2>2, <2>3, <2>4, GaugeWrites DEF GaugePlaces
<1> QED
  BY <1>1, <1>2, <1>3, <1>4

LEMMA GaugeActivates == ASSUME GaugeInv, Gauge!Activate \/ Gauge!Wait PROVE GaugeInv'
<1>0. Bytes \in Nat \ {0} /\ Polls \in Nat \ {0} /\ Gauge!Index = 1 .. Bytes /\ chip \in GaugeChips
  BY BoardAssumption DEF Gauge!GaugeAssumption, Gauge!Index, GaugeInv
<1>1. CASE Gauge!Activate
  <2> DEFINE c == Gauge!Restarted(chip)
             d == Gauge!Activated(chip)
  <2>0. GaugeWhole(chip)
    BY <1>1 DEF Gauge!Activate, GaugeInv, GaugeProgress
  <2>1. c \in GaugeChips /\ c.config = "restart" /\ c.flag = chip.flag /\ c.own = chip.own
    BY <1>0 DEF Gauge!Restarted, GaugeChips
  <2>2. d \in GaugeChips /\ d.config = "active" /\ d.based
    <3>1. (chip.flag /\ \A b \in Gauge!Index : chip.own[b]) = TRUE
      BY <2>0 DEF GaugeWhole
    <3>2. d = [chip EXCEPT !.config = "active", !.soc = Gauge!NotReady, !.based = TRUE]
      BY <3>1 DEF Gauge!Activated
    <3> QED
      BY <1>0, <3>2 DEF GaugeChips
  <2>3. Gauge!Write(c, "activate", 2) \/ Gauge!Write(d, "wait", 0)
    BY <1>1 DEF Gauge!Activate
  <2> HIDE DEF c, d
  <2>4. GaugeBased(c) /\ GaugeBased(d) /\ GaugeWhole(c)
    BY <2>0, <2>1, <2>2 DEF GaugeBased, GaugeWhole
  <2>5. pc' = "activate" /\ i' = 2 /\ chip' = c => GaugeProgress'
    BY <2>4 DEF GaugeProgress
  <2>6. pc' = "wait" /\ i' = 0 /\ chip' = d => GaugeProgress'
    BY <1>0, <2>2 DEF GaugeProgress
  <2> QED
    BY <2>1, <2>2, <2>3, <2>4, <2>5, <2>6, GaugeWrites DEF GaugePlaces
<1>2. CASE Gauge!Wait
  <2>0. chip' = chip /\ i \in 0 .. Polls /\ chip.config = "active" /\ chip.based /\ GaugeBased(chip)
    BY <1>2 DEF Gauge!Wait, GaugeInv, GaugeProgress
  <2>1. CASE Gauge!GoOn("run", 0)
    <3>1. GaugeProgress'
      BY <2>1 DEF GaugeProgress, Gauge!GoOn
    <3> QED
      BY <1>0, <2>0, <2>1, <3>1, GaugeGoesOn DEF GaugePlaces
  <2>2. CASE Gauge!Counted < Polls /\ Gauge!GoOn("wait", Gauge!Counted)
    <3>1. GaugeProgress'
      BY <1>0, <2>0, <2>2 DEF GaugeProgress, Gauge!GoOn, Gauge!Counted
    <3> QED
      BY <1>0, <2>0, <2>2, <3>1, GaugeGoesOn DEF GaugePlaces
  <2>3. CASE Gauge!Fails
    BY <1>0, <2>0, <2>3, GaugeFails
  <2> QED
    BY <1>2, <2>1, <2>2, <2>3 DEF Gauge!Wait
<1> QED
  BY <1>1, <1>2

(* telemetry_task: told implies low, and low is not told again.            *)
LEMMA GaugeTells == ASSUME GaugeInv, Gauge!Telemetry PROVE GaugeInv'
<1>1. UNCHANGED <<chip, pc, i, gauge, calm>>
  BY DEF Gauge!Telemetry
<1>2. battery' \in -1 .. 100
  <2>1. battery' = Gauge!Charge \/ battery' = -1
    BY DEF Gauge!Telemetry
  <2>2. chip.soc \in (0 .. 100) \cup {Gauge!NotReady}
    BY DEF GaugeInv, GaugeChips
  <2> QED
    BY <2>1, <2>2 DEF Gauge!Charge, Gauge!Ready, Gauge!NotReady
<1>3. low \in BOOLEAN /\ told \in BOOLEAN /\ again = FALSE /\ (told => low)
  BY DEF GaugeInv, GaugeAlarm
<1>4. ASSUME battery' = -1 PROVE GaugeAlarm'
  <2>1. battery' \notin 0 .. 15 /\ ~(battery' > 15) /\ ~(battery' >= 0)
    BY <1>4
  <2>2. low' = low /\ (again' <=> again) /\ (told' <=> told)
    BY <2>1 DEF Gauge!Telemetry, Gauge!StillLow, Gauge!Low
  <2>3. again' = FALSE /\ told' \in BOOLEAN /\ (told' => low')
    <3>1. again' \in BOOLEAN /\ told' \in BOOLEAN
      BY DEF Gauge!Telemetry
    <3> QED
      BY <1>3, <2>2, <3>1
  <2> QED
    BY <1>2, <1>3, <2>2, <2>3 DEF GaugeAlarm
<1>5. ASSUME battery' \in 0 .. 15 PROVE GaugeAlarm'
  <2>1. battery' >= 0 /\ battery' <= 15 /\ ~(battery' > 15)
    BY <1>5
  <2>2. low' = TRUE
    BY <2>1 DEF Gauge!Telemetry, Gauge!StillLow, Gauge!Low
  <2>3. again' \in BOOLEAN /\ told' \in BOOLEAN /\ (again' <=> (again \/ (~low /\ told)))
    BY <1>5, <2>1 DEF Gauge!Telemetry, Gauge!Low
  <2>4. again' = FALSE
    BY <1>3, <2>3
  <2> QED
    BY <1>2, <2>2, <2>3, <2>4 DEF GaugeAlarm
<1>6. ASSUME battery' \in 16 .. 100 PROVE GaugeAlarm'
  <2>1. battery' >= 0 /\ ~(battery' <= 15) /\ battery' > 15 /\ battery' \notin 0 .. 15
    BY <1>6
  <2>2. low' = FALSE /\ told' = FALSE
    <3>1. low' = FALSE
      <4>1. low' = Gauge!StillLow(battery')
        BY DEF Gauge!Telemetry
      <4>2. Gauge!StillLow(battery') <=> FALSE
        BY <2>1 DEF Gauge!StillLow, Gauge!Low
      <4>3. Gauge!StillLow(battery') \in BOOLEAN
        BY <2>1 DEF Gauge!StillLow
      <4> QED
        BY <4>1, <4>2, <4>3
    <3>2. told' \in BOOLEAN /\ ~told'
      BY <2>1 DEF Gauge!Telemetry, Gauge!Low
    <3> QED
      BY <3>1, <3>2
  <2>3. again' \in BOOLEAN /\ (again' <=> again)
    BY <2>1 DEF Gauge!Telemetry, Gauge!Low
  <2>4. again' = FALSE
    BY <1>3, <2>3
  <2> QED
    BY <1>2, <2>2, <2>4 DEF GaugeAlarm
<1>7. battery' = -1 \/ battery' \in 0 .. 15 \/ battery' \in 16 .. 100
  BY <1>2
<1>8. GaugeAlarm'
  BY <1>4, <1>5, <1>6, <1>7
<1> QED
  BY <1>1, <1>8 DEF GaugeInv, GaugeProgress, Gauge!ReadingsAreOurs

LEMMA GaugeStep == GaugeInv /\ [Gauge!Next]_Gauge!vars => GaugeInv'
<1> SUFFICES ASSUME GaugeInv, [Gauge!Next]_Gauge!vars PROVE GaugeInv'
  OBVIOUS
<1>1. CASE UNCHANGED Gauge!vars
  BY <1>1 DEF Gauge!vars, GaugeInv, GaugeProgress, Gauge!ReadingsAreOurs, GaugeAlarm
<1>2. CASE Gauge!Step
  BY <1>2, GaugeCompares, GaugeUpdates, GaugeActivates DEF Gauge!Step
<1> QED
  BY <1>1, <1>2, GaugeEnvironment, GaugeTells DEF Gauge!Next

LEMMA GaugeHolds == Gauge!Init /\ [][Gauge!Next]_Gauge!vars => []GaugeInv
  BY GaugeStart, GaugeStep, PTL

-----------------------------------------------------------------------------
(* The display.  What is open at each step, who holds the port's lock, and *)
(* what the pins show since they were parked.                              *)
PanelMoments == {"boot", "unhold", "build", "rollback", "failed", "lvgl", "locking", "add", "mask",
            "publish", "undo", "up", "park", "parked", "sleeping"}
Dormant == {"parked", "sleeping"}
Parking == {"park", "parked", "sleeping"}
Adding == {"add", "mask", "publish", "undo"}
PanelTypes ==
  /\ dAt \in PanelMoments /\ dHandles \subseteq Panel!Stack /\ dHeld \subseteq Pins
  /\ dPad \in [Pins -> {"reset", "safe", "bus"}] /\ dLine \in [Pins -> {"reset", "safe", "bus"}]
  /\ dLock \in {"free", "init", "park"} /\ dErr \in BOOLEAN /\ dReady \in BOOLEAN /\ dDeepHold \in BOOLEAN
  /\ dQuiet \in BOOLEAN /\ dPort \in BOOLEAN /\ dPortFailed \in BOOLEAN /\ dScreen \in BOOLEAN
  /\ dMask \in BOOLEAN /\ dDisp \in BOOLEAN /\ dAsleep \in BOOLEAN
Built ==
  /\ dOrphan = FALSE /\ dHandles = dLive
  /\ "panel" \in dLive => "io" \in dLive
  /\ "io" \in dLive => "bus" \in dLive
  /\ dReady => dLive = Panel!Stack
  /\ dAt \in {"boot", "unhold", "build", "rollback"} => ~dReady
  /\ dAt \in {"lvgl", "locking", "up"} \cup Adding \cup Parking => dReady
  /\ dAt = "build" => dHandles = {} /\ dHeld = {}
  /\ dReady /\ dAt \notin Dormant => ~dAsleep /\ dHeld = {}
Drawn ==
  /\ dLock = "init" <=> dAt \in Adding
  /\ dLock = "park" <=> dAt \in Parking
  /\ dScreen => dReady /\ dAt \in {"mask", "publish", "undo", "up"} \cup Parking
  /\ dAt \in {"publish", "up"} \cup Parking => dMask
  /\ dFrames = {}
Quieted ==
  /\ dQuiet => dAsleep /\ \A p \in Pins : dLine[p] = "safe" /\ (p \notin dHeld => dPad[p] = "safe")
  /\ dQuiet /\ dAt \in Dormant => dHeld = Pins /\ dDeepHold
  /\ dAt = "unhold" /\ ~dErr => \A p \in Pins : dPad[p] = "safe"
PanelInv == PanelTypes /\ Built /\ Drawn /\ Quieted

LEMMA PanelStart == Panel!Init => PanelInv
<1> SUFFICES ASSUME Panel!Init PROVE PanelInv
  OBVIOUS
<1> USE DEF Panel!Init
<1>1. PanelTypes
  BY DEF PanelTypes, PanelMoments
<1>2. Built
  BY DEF Built, Adding, Parking, Panel!Stack
<1>3. Drawn
  BY DEF Drawn, Adding, Parking
<1>4. Quieted
  BY DEF Quieted, Dormant
<1> QED
  BY <1>1, <1>2, <1>3, <1>4 DEF PanelInv

LEMMA PanelEnough == PanelInv => DisplaySafe
<1> SUFFICES ASSUME PanelInv PROVE Panel!DisplaySafe
  BY DEF DisplaySafe
<1>1. Panel!TypeOK
  <2>1. \A b \in {dErr, dOrphan, dReady, dDeepHold, dQuiet, dPort, dPortFailed, dScreen, dMask, dDisp, dAsleep} :
          b \in BOOLEAN
    BY DEF PanelInv, PanelTypes, Built
  <2>2. dLive \subseteq Panel!Stack /\ dFrames \subseteq {"bare", "asleep"}
    BY DEF PanelInv, PanelTypes, Built, Drawn
  <2> QED
    BY <2>1, <2>2 DEF PanelInv, PanelTypes, PanelMoments, Panel!TypeOK
<1>2. Panel!StackWhole
  BY DEF PanelInv, Built, Dormant, Panel!StackWhole
<1>3. Panel!FramesGood /\ Panel!PinsQuiet
  BY DEF PanelInv, Drawn, Quieted, Panel!FramesGood, Panel!PinsQuiet
<1> QED
  BY <1>1, <1>2, <1>3 DEF Panel!DisplaySafe

(* A reset: only the holds and the panel stay as they are.                 *)
LEMMA PanelResets == ASSUME PanelInv, Panel!Reset PROVE PanelInv'
<1>1. /\ dAt' = "boot" /\ dErr' = FALSE /\ dHandles' = {} /\ dLive' = {} /\ dReady' = FALSE /\ dPort' = FALSE
      /\ dPortFailed' = FALSE /\ dScreen' = FALSE /\ dMask' = FALSE /\ dDisp' = FALSE /\ dLock' = "free"
      /\ UNCHANGED <<dOrphan, dHeld, dDeepHold, dAsleep, dFrames>>
  BY DEF Panel!Reset
<1>2. /\ dPad' = [p \in Pins |-> "reset"] /\ dQuiet' = (dQuiet /\ dHeld = Pins)
      /\ dLine' = [p \in Pins |-> IF p \in dHeld THEN dLine[p] ELSE "reset"]
  BY DEF Panel!Reset
<1>3. /\ dPad' \in [Pins -> {"reset", "safe", "bus"}] /\ dLine' \in [Pins -> {"reset", "safe", "bus"}]
      /\ dQuiet' \in BOOLEAN
  BY <1>2 DEF PanelInv, PanelTypes
<1>4. PanelTypes'
  BY <1>1, <1>3 DEF PanelInv, PanelTypes, PanelMoments
<1>5. Built' /\ Drawn'
  BY <1>1 DEF PanelInv, Built, Drawn, Adding, Parking, Dormant
<1>6. Quieted'
  <2>1. dQuiet' => dQuiet /\ dHeld = Pins
    BY <1>2
  <2>2. ASSUME dQuiet' PROVE dAsleep' /\ \A p \in Pins : dLine'[p] = "safe" /\ p \in dHeld'
    BY <1>1, <1>2, <2>1, <2>2 DEF PanelInv, Quieted
  <2> QED
    BY <1>1, <2>2 DEF Quieted, Dormant
<1> QED
  BY <1>4, <1>5, <1>6 DEF PanelInv

(* bsp_display_init.                                                       *)
LEMMA PanelLevels == ASSUME PanelInv, Panel!SafeLevels PROVE PanelInv'
<1>1. PICK bad \in SUBSET Pins :
        /\ dPad' = [p \in Pins |-> IF p \in bad THEN dPad[p] ELSE "safe"] /\ (dErr' <=> bad # {})
        /\ dLine' = [p \in Pins |-> IF p \in dHeld THEN dLine[p] ELSE dPad'[p]]
        /\ dErr' \in BOOLEAN
  <2>1. PICK bad \in SUBSET Pins :
          Panel!Drive([p \in Pins |-> IF p \in bad THEN dPad[p] ELSE "safe"]) /\ dErr' = (bad # {})
    BY DEF Panel!SafeLevels
  <2> QED
    BY <2>1 DEF Panel!Drive
<1>2. /\ dAt = "boot" /\ dAt' = "unhold" /\ dReady = FALSE /\ dDeepHold' = FALSE
      /\ UNCHANGED <<dHandles, dLive, dOrphan, dReady, dHeld, dQuiet, dPort, dPortFailed, dScreen, dMask, dDisp,
                     dLock, dAsleep, dFrames>>
  BY DEF Panel!SafeLevels, Panel!Step, Panel!panel, Panel!lvgl, PanelInv, PanelTypes
<1>3. \A p \in Pins : /\ dPad'[p] \in {"reset", "safe", "bus"} /\ dLine'[p] \in {"reset", "safe", "bus"}
                      /\ dPad[p] = "safe" \/ p \notin bad => dPad'[p] = "safe"
                      /\ dLine'[p] = IF p \in dHeld THEN dLine[p] ELSE dPad'[p]
  BY <1>1 DEF PanelInv, PanelTypes
<1>4. dPad' \in [Pins -> {"reset", "safe", "bus"}] /\ dLine' \in [Pins -> {"reset", "safe", "bus"}]
  BY <1>1, <1>3
<1>5. PanelTypes'
  BY <1>1, <1>2, <1>4 DEF PanelInv, PanelTypes, PanelMoments
<1>6. Built' /\ Drawn'
  BY <1>2 DEF PanelInv, Built, Drawn, Adding, Parking, Dormant
<1>7. Quieted'
  BY <1>1, <1>2, <1>3 DEF PanelInv, Quieted, Dormant
<1> QED
  BY <1>5, <1>6, <1>7 DEF PanelInv

LEMMA PanelReleases == ASSUME PanelInv, Panel!ReleaseHolds PROVE PanelInv'
<1>1. PICK bad \in SUBSET dHeld :
        /\ dHeld' = bad /\ dErr' = (dErr \/ bad # {}) /\ dQuiet' = (dQuiet /\ ~dErr')
        /\ dLine' = [p \in Pins |-> IF p \in bad THEN dLine[p] ELSE dPad[p]]
  BY DEF Panel!ReleaseHolds
<1>2. /\ dAt = "unhold" /\ UNCHANGED <<dHandles, dLive, dOrphan, dReady, dPad, dDeepHold, dPort, dPortFailed, dScreen,
                                      dMask, dDisp, dLock, dAsleep, dFrames>>
      /\ dAt' = (IF ~dErr' /\ dHandles = {} THEN "build" ELSE "failed")
  BY DEF Panel!ReleaseHolds, Panel!NothingLeft, Panel!panel, Panel!lvgl
<1>3. dLine' \in [Pins -> {"reset", "safe", "bus"}] /\ dHeld' \subseteq Pins /\ dErr' \in BOOLEAN /\ dQuiet' \in BOOLEAN
  BY <1>1 DEF PanelInv, PanelTypes
<1>4. dAt' \in {"build", "failed"} /\ (dAt' = "build" => dHandles = {} /\ ~dErr')
  BY <1>2, <1>3
<1>5. ~dErr' => ~dErr /\ dHeld' = {}
  BY <1>1, <1>3 DEF PanelInv, PanelTypes
<1>6. dReady = FALSE
  BY <1>2 DEF PanelInv, PanelTypes, Built
<1>7. PanelTypes'
  BY <1>2, <1>3, <1>4 DEF PanelInv, PanelTypes, PanelMoments
<1>8. Built' /\ Drawn'
  BY <1>2, <1>4, <1>5, <1>6 DEF PanelInv, Built, Drawn, Adding, Parking, Dormant
<1>9. Quieted'
  <2>1. ASSUME dQuiet' PROVE dAsleep' /\ \A p \in Pins : dLine'[p] = "safe" /\ dPad'[p] = "safe"
    <3>1. dQuiet /\ ~dErr /\ dHeld' = {}
      BY <1>1, <1>3, <1>5, <2>1
    <3>2. \A p \in Pins : dPad[p] = "safe" /\ dLine'[p] = dPad[p]
      BY <1>1, <1>2, <3>1 DEF PanelInv, Quieted
    <3> QED
      BY <1>2, <3>1, <3>2 DEF PanelInv, Quieted
  <2> QED
    BY <1>4, <2>1 DEF Quieted, Dormant
<1> QED
  BY <1>7, <1>8, <1>9 DEF PanelInv

LEMMA PanelBuilds == ASSUME PanelInv, Panel!Build PROVE PanelInv'
<1>1. PICK made \in {{}, {"bus"}, {"bus", "io"}, Panel!Stack} :
        /\ dHandles' = dHandles \cup made /\ dLive' = dLive \cup made
        /\ dOrphan' = (dOrphan \/ made \cap dLive # {})
        /\ IF made # {} THEN Panel!Drive([p \in Pins |-> "bus"]) /\ dQuiet' = FALSE
                        ELSE UNCHANGED <<dPad, dLine, dQuiet>>
        /\ \/ made = Panel!Stack /\ dAt' = "lvgl" /\ dReady' = TRUE /\ dAsleep' = FALSE
           \/ dAt' = (IF made = {} THEN "failed" ELSE "rollback") /\ dReady' = FALSE
              /\ dAsleep' \in (IF made = Panel!Stack THEN {dAsleep, FALSE} ELSE {dAsleep})
  BY DEF Panel!Build
<1>2. /\ dAt = "build" /\ dHandles = {} /\ dLive = {} /\ dHeld = {} /\ dOrphan = FALSE /\ dReady = FALSE
      /\ UNCHANGED <<dErr, dHeld, dDeepHold, dPort, dPortFailed, dScreen, dMask, dDisp, dLock, dFrames>>
  BY DEF Panel!Build, Panel!lvgl, PanelInv, PanelTypes, Built
<1>3. dHandles' = made /\ dLive' = made /\ dOrphan' = FALSE /\ made \subseteq Panel!Stack
  BY <1>1, <1>2 DEF Panel!Stack
<1>4. ("panel" \in made => "io" \in made) /\ ("io" \in made => "bus" \in made)
  BY <1>1 DEF Panel!Stack
<1>5. /\ dPad' \in [Pins -> {"reset", "safe", "bus"}] /\ dLine' \in [Pins -> {"reset", "safe", "bus"}]
      /\ dQuiet' \in BOOLEAN
  <2>1. CASE made # {}
    <3>1. dPad' = [p \in Pins |-> "bus"] /\ dLine' = [p \in Pins |-> "bus"]
      BY <1>1, <1>2, <2>1 DEF Panel!Drive
    <3> QED
      BY <1>1, <2>1, <3>1
  <2>2. CASE made = {}
    BY <1>1, <2>2 DEF PanelInv, PanelTypes
  <2> QED
    BY <2>1, <2>2
<1>6. /\ dReady' \in BOOLEAN /\ dAsleep' \in BOOLEAN /\ dAt' \in {"lvgl", "failed", "rollback"}
      /\ dAt' = "lvgl" <=> dReady'
      /\ dReady' => made = Panel!Stack /\ ~dAsleep'
      /\ made = {} => dAt' = "failed" /\ dAsleep' = dAsleep
  BY <1>1 DEF PanelInv, PanelTypes, Panel!Stack
<1>7. PanelTypes'
  BY <1>2, <1>3, <1>5, <1>6 DEF PanelInv, PanelTypes, PanelMoments
<1>8. Built'
  BY <1>2, <1>3, <1>4, <1>6 DEF Built, Adding, Parking, Dormant
<1>9. Drawn'
  BY <1>2, <1>6 DEF PanelInv, Drawn, Adding, Parking
<1>10. Quieted'
  <2>1. CASE made # {}
    BY <1>1, <1>6, <2>1 DEF Quieted
  <2>2. CASE made = {}
    BY <1>1, <1>2, <1>6, <2>2 DEF PanelInv, Quieted, Dormant
  <2> QED
    BY <2>1, <2>2
<1> QED
  BY <1>7, <1>8, <1>9, <1>10 DEF PanelInv

LEMMA PanelUndoes == ASSUME PanelInv, Panel!Rollback \/ Panel!Retry PROVE PanelInv'
<1>1. CASE Panel!Rollback
  <2>1. PICK left \in SUBSET dHandles : /\ \A x \in dHandles \ left : Panel!Unused(x, left)
                                       /\ dHandles' = left /\ dLive' = left
    BY <1>1 DEF Panel!Rollback
  <2>2. /\ dAt = "rollback" /\ dAt' = "failed" /\ dReady = FALSE
        /\ UNCHANGED <<dErr, dOrphan, dReady, dPad, dLine, dHeld, dDeepHold, dQuiet, dPort, dPortFailed, dScreen, dMask,
                       dDisp, dLock, dAsleep, dFrames>>
    BY <1>1 DEF Panel!Rollback, Panel!Step, Panel!pins, Panel!lvgl, PanelInv, PanelTypes, Built
  <2>3. ("panel" \in left => "io" \in left) /\ ("io" \in left => "bus" \in left)
    BY <2>1 DEF Panel!Unused, PanelInv, Built
  <2>4. PanelTypes'
    BY <2>1, <2>2 DEF PanelInv, PanelTypes, PanelMoments
  <2>5. Built' /\ Drawn' /\ Quieted'
    BY <2>1, <2>2, <2>3 DEF PanelInv, Built, Drawn, Quieted, Adding, Parking, Dormant
  <2> QED
    BY <2>4, <2>5 DEF PanelInv
<1>2. CASE Panel!Retry
  <2>1. /\ dAt = "failed" /\ dAt' \in {"boot", "lvgl"} /\ (dAt' = "lvgl" <=> dReady) /\ dErr' = FALSE
        /\ UNCHANGED <<dHandles, dLive, dOrphan, dReady, dPad, dLine, dHeld, dDeepHold, dQuiet, dPort, dPortFailed, dScreen,
                       dMask, dDisp, dLock, dAsleep, dFrames>>
    BY <1>2 DEF Panel!Retry, Panel!panel, Panel!pins, Panel!lvgl
  <2>2. PanelTypes'
    <3>1. dAt' \in PanelMoments /\ dErr' \in BOOLEAN
      BY <2>1 DEF PanelMoments
    <3> QED
      BY <2>1, <3>1 DEF PanelInv, PanelTypes
  <2>3. Built' /\ Drawn' /\ Quieted'
    BY <2>1 DEF PanelInv, Built, Drawn, Quieted, Adding, Parking, Dormant
  <2> QED
    BY <2>2, <2>3 DEF PanelInv
<1> QED
  BY <1>1, <1>2

(* bsp_lvgl_init, and the LVGL task.                                       *)
LEMMA PanelPort ==
  ASSUME PanelInv, Panel!StartPort \/ Panel!LockPort \/ Panel!AddScreen \/ Panel!AddMask \/ Panel!Publish \/ Panel!Undo \/ Panel!LockForPark
  PROVE  PanelInv'
<1> USE DEF Panel!Step, Panel!panel, Panel!pins, Panel!StartPort, Panel!LockPort,
     Panel!AddScreen, Panel!AddMask, Panel!Publish, Panel!Undo, Panel!ScreenRemoved,
            Panel!LockForPark, Panel!TakeLock
<1>1. /\ UNCHANGED <<dErr, dHandles, dLive, dOrphan, dReady, dPad, dLine, dHeld, dDeepHold, dQuiet, dAsleep, dFrames>>
      /\ dPort' \in BOOLEAN /\ dPortFailed' \in BOOLEAN /\ dDisp' \in BOOLEAN
  BY DEF PanelInv, PanelTypes
<1>2. /\ dAt \in {"lvgl", "locking", "up"} \cup Adding
      /\ dAt' \in {"failed", "locking", "up", "park"} \cup Adding
  BY DEF Adding
<1>3. dReady
  BY <1>2 DEF PanelInv, Built
<1>4. PanelTypes'
  <2>1. dAt' \in PanelMoments
    BY <1>2 DEF PanelMoments, Adding
  <2>2. dLock' \in {"free", "init", "park"} /\ dScreen' \in BOOLEAN /\ dMask' \in BOOLEAN
    BY DEF PanelInv, PanelTypes
  <2> QED
    BY <1>1, <2>1, <2>2 DEF PanelInv, PanelTypes
<1>5. Built' /\ Quieted'
  BY <1>1, <1>2, <1>3 DEF PanelInv, Built, Quieted, Adding, Parking, Dormant
<1>6. Drawn'
  <2> USE DEF PanelInv, Drawn, Adding, Parking
  <2>1. CASE Panel!StartPort
    BY <1>1, <2>1
  <2>2. CASE Panel!LockPort
    BY <1>1, <2>2
  <2>3. CASE Panel!AddScreen
    BY <1>1, <1>3, <2>3
  <2>4. CASE Panel!AddMask
    BY <1>1, <1>3, <2>4
  <2>5. CASE Panel!Publish
    BY <1>1, <2>5
  <2>6. CASE Panel!Undo
    BY <1>1, <2>6
  <2>7. CASE Panel!LockForPark
    BY <1>1, <2>7
  <2> QED
    BY <2>1, <2>2, <2>3, <2>4, <2>5, <2>6, <2>7
<1> QED
  BY <1>4, <1>5, <1>6 DEF PanelInv

LEMMA PanelDraws == ASSUME PanelInv, Panel!Draw \/ UNCHANGED Panel!vars PROVE PanelInv'
<1>1. UNCHANGED <<dAt, dErr, dHandles, dLive, dOrphan, dReady, dPad, dLine, dHeld, dDeepHold, dQuiet, dPort, dPortFailed,
                  dScreen, dMask, dDisp, dLock, dAsleep>>
  BY DEF Panel!Draw, Panel!vars, Panel!panel, Panel!pins, Panel!lvgl
<1>2. dFrames' = {}
  <2>1. CASE Panel!Draw
    <3>1. dMask /\ ~dAsleep
      BY <2>1 DEF Panel!Draw, PanelInv, Drawn, Built, Adding, Parking, Dormant
    <3> QED
      BY <2>1, <3>1 DEF Panel!Draw, PanelInv, Drawn
  <2>2. CASE UNCHANGED Panel!vars
    BY <2>2 DEF Panel!vars, PanelInv, Drawn
  <2> QED
    BY <2>1, <2>2
<1> QED
  BY <1>1, <1>2 DEF PanelInv, PanelTypes, Built, Drawn, Quieted

(* bsp_display_prepare_deep_sleep, and the sleep.                          *)
LEMMA PanelParks == ASSUME PanelInv, Panel!Park PROVE PanelInv'
<1>1. PICK bad \in SUBSET Pins, loose \in SUBSET Pins :
        /\ Panel!Drive([p \in Pins |-> IF p \in bad THEN dPad[p] ELSE "safe"])
        /\ dHeld' = dHeld \cup (Pins \ loose) /\ dDeepHold' = TRUE
        /\ dErr' \in {~dAsleep' \/ bad # {} \/ loose # {}, TRUE} /\ dQuiet' = ~dErr'
  BY DEF Panel!Park, Panel!HeldAfter
<1>2. /\ dAt = "park" /\ dAt' = "parked" /\ dAsleep' \in BOOLEAN
      /\ UNCHANGED <<dHandles, dLive, dOrphan, dReady, dPort, dPortFailed, dScreen, dMask, dDisp, dLock, dFrames>>
  BY DEF Panel!Park, Panel!Step, Panel!panel, Panel!lvgl
<1>3. dHeld = {} /\ dReady
  BY <1>2 DEF PanelInv, Built, Parking, Dormant
<1>4. \A p \in Pins : /\ dPad'[p] = (IF p \in bad THEN dPad[p] ELSE "safe")
                      /\ dLine'[p] = dPad'[p]
  BY <1>1, <1>3 DEF Panel!Drive
<1>5. dPad' \in [Pins -> {"reset", "safe", "bus"}] /\ dLine' \in [Pins -> {"reset", "safe", "bus"}]
  BY <1>1, <1>4 DEF Panel!Drive, PanelInv, PanelTypes
<1>6. dErr' \in BOOLEAN /\ dQuiet' \in BOOLEAN /\ dHeld' \subseteq Pins
  BY <1>1, <1>3
<1>7. dQuiet' => dAsleep' /\ bad = {} /\ loose = {}
  BY <1>1, <1>2
<1>8. PanelTypes'
  BY <1>1, <1>2, <1>5, <1>6 DEF PanelInv, PanelTypes, PanelMoments
<1>9. Built' /\ Drawn'
  BY <1>2, <1>3 DEF PanelInv, Built, Drawn, Adding, Parking, Dormant
<1>10. Quieted'
  <2>1. dQuiet' => dHeld' = Pins /\ \A p \in Pins : dLine'[p] = "safe" /\ dPad'[p] = "safe"
    BY <1>1, <1>3, <1>4, <1>7
  <2> QED
    BY <1>1, <1>2, <1>7, <2>1 DEF Quieted
<1> QED
  BY <1>8, <1>9, <1>10 DEF PanelInv

LEMMA PanelSleeps == ASSUME PanelInv, Panel!DeepSleep PROVE PanelInv'
<1>1. /\ dAt = "parked" /\ dAt' = "sleeping" /\ dHeld' = (IF dDeepHold THEN dHeld ELSE {})
      /\ dPad' = [p \in Pins |-> "reset"]
      /\ dLine' = [p \in Pins |-> IF p \in dHeld' THEN dLine[p] ELSE "reset"]
      /\ UNCHANGED <<dErr, dHandles, dLive, dOrphan, dReady, dDeepHold, dQuiet, dPort, dPortFailed, dScreen, dMask, dDisp,
                     dLock, dAsleep, dFrames>>
  BY DEF Panel!DeepSleep, Panel!Step, Panel!panel, Panel!lvgl
<1>2. /\ dPad' \in [Pins -> {"reset", "safe", "bus"}] /\ dLine' \in [Pins -> {"reset", "safe", "bus"}]
      /\ dHeld' \subseteq Pins
  BY <1>1 DEF PanelInv, PanelTypes
<1>3. PanelTypes'
  BY <1>1, <1>2 DEF PanelInv, PanelTypes, PanelMoments
<1>4. Built' /\ Drawn'
  BY <1>1 DEF PanelInv, Built, Drawn, Adding, Parking, Dormant
<1>5. Quieted'
  <2>1. dQuiet => dHeld' = Pins /\ dDeepHold /\ dAsleep /\ \A p \in Pins : dLine'[p] = "safe"
    BY <1>1 DEF PanelInv, Quieted, Dormant
  <2> QED
    BY <1>1, <2>1 DEF Quieted
<1> QED
  BY <1>3, <1>4, <1>5 DEF PanelInv

LEMMA PanelStep == PanelInv /\ [Panel!Next]_Panel!vars => PanelInv'
  BY PanelResets, PanelLevels, PanelReleases, PanelBuilds, PanelUndoes, PanelPort, PanelDraws,
     PanelParks,
     PanelSleeps DEF Panel!Next

LEMMA PanelHolds == Panel!Init /\ [][Panel!Next]_Panel!vars => []PanelInv
  BY PanelStart, PanelStep, PTL

-----------------------------------------------------------------------------
(* The codec.  A function of the driver is followed through its outcomes:  *)
(* what it leaves alone, and what an outcome that reports success, or that *)
(* leaves no error noted, has achieved.                                    *)
Channel == {"none", "ready", "running"}
Drivers ==
  [ctrl : BOOLEAN, data : BOOLEAN, gpio : BOOLEAN, codec : BOOLEAN, dev : BOOLEAN,
   tx : Channel, rx : Channel, opened : BOOLEAN, format : {0} \cup Formats, volume : 0 .. 100,
   sleeping : BOOLEAN, sleepOk : BOOLEAN, initialized : BOOLEAN, released : BOOLEAN, io : BOOLEAN,
   devOpen : BOOLEAN, shared : BOOLEAN, chip : Int, chipVolume : 0 .. 100, orphan : BOOLEAN,
   parked : BOOLEAN]
Outcomes == [a : Drivers, ok : BOOLEAN]
\* What only the functions of the interface and the way out of an init change.
Same(a, b) ==
  /\ b \in Drivers
  /\ b.ctrl = a.ctrl /\ b.data = a.data /\ b.gpio = a.gpio /\ b.initialized = a.initialized
  /\ b.orphan = a.orphan /\ b.parked = a.parked /\ b.sleeping = a.sleeping /\ b.sleepOk = a.sleepOk
  /\ b.volume = a.volume /\ b.format = a.format
  /\ (b.tx = "none" <=> a.tx = "none") /\ (b.rx = "none" <=> a.rx = "none")
\* What the codec objects are.
Alike(a, b) ==
  /\ b.codec = a.codec /\ b.dev = a.dev /\ b.opened = a.opened
  /\ b.released = a.released /\ b.shared = a.shared
Untouched(a, b) == b.devOpen = a.devOpen /\ b.chip = a.chip /\ b.chipVolume = a.chipVolume
\* Nothing but the channels and the note of an error.
Wired(a, b) == Same(a, b) /\ Alike(a, b) /\ Untouched(a, b) /\ (b.io => a.io)
Stopped(a) == a.tx # "running" /\ a.rx # "running"

LEMMA WiredAgain ==
  ASSUME NEW a, NEW b, NEW c, Wired(a, b), Wired(b, c) PROVE Wired(a, c)
  BY DEF Wired, Same, Alike, Untouched

LEMMA WiredSelf == ASSUME NEW a \in Drivers PROVE Wired(a, a)
  BY DEF Wired, Same, Alike, Untouched

LEMMA AnOutcome ==
  ASSUME NEW a \in Drivers, NEW o \in BOOLEAN
  PROVE LET r == [a |-> a, ok |-> o] IN r \in Outcomes /\ r.a = a /\ r.ok = o
  BY DEF Outcomes

LEMMA TxWired ==
  ASSUME NEW a \in Drivers, NEW x \in {"ready", "running"}, a.tx # "none"
  PROVE LET b == [a EXCEPT !.tx = x] IN Wired(a, b) /\ b \in Drivers /\ b.tx = x /\ b.rx = a.rx
  BY DEF Wired, Same, Alike, Untouched, Drivers, Channel

LEMMA RxWired ==
  ASSUME NEW a \in Drivers, NEW x \in {"ready", "running"}, a.rx # "none"
  PROVE LET b == [a EXCEPT !.rx = x] IN Wired(a, b) /\ b \in Drivers /\ b.rx = x /\ b.tx = a.tx
  BY DEF Wired, Same, Alike, Untouched, Drivers, Channel

LEMMA TxEnable ==
  ASSUME NEW a \in Drivers, NEW r \in Enable(a, "tx")
  PROVE /\ r \in Outcomes /\ Wired(a, r.a) /\ r.a.rx = a.rx /\ (r.ok => r.a.tx = "running")
<1>1. CASE r = [a |-> a, ok |-> FALSE]
  BY <1>1, AnOutcome, WiredSelf
<1>2. CASE a.tx = "ready" /\ r = [a |-> [a EXCEPT !.tx = "running"], ok |-> TRUE]
  BY <1>2, AnOutcome, TxWired
<1> QED
  BY <1>1, <1>2 DEF Enable, May, Ok, Fail

LEMMA RxEnable ==
  ASSUME NEW a \in Drivers, NEW r \in Enable(a, "rx")
  PROVE /\ r \in Outcomes /\ Wired(a, r.a) /\ r.a.tx = a.tx /\ (r.ok => r.a.rx = "running")
<1>1. CASE r = [a |-> a, ok |-> FALSE]
  BY <1>1, AnOutcome, WiredSelf
<1>2. CASE a.rx = "ready" /\ r = [a |-> [a EXCEPT !.rx = "running"], ok |-> TRUE]
  BY <1>2, AnOutcome, RxWired
<1> QED
  BY <1>1, <1>2 DEF Enable, May, Ok, Fail

LEMMA TxDisable ==
  ASSUME NEW a \in Drivers, NEW r \in Disable(a, "tx")
  PROVE /\ r \in Outcomes /\ Wired(a, r.a) /\ r.a.rx = a.rx
        /\ r.ok \/ a.tx # "running" => r.a.tx # "running"
<1>1. CASE a.tx = "running" /\ r = [a |-> a, ok |-> FALSE]
  BY <1>1, AnOutcome, WiredSelf
<1>2. CASE a.tx = "running" /\ r = [a |-> [a EXCEPT !.tx = "ready"], ok |-> TRUE]
  BY <1>2, AnOutcome, TxWired
<1>3. CASE a.tx # "running" /\ r = [a |-> a, ok |-> TRUE]
  BY <1>3, AnOutcome, WiredSelf
<1> QED
  BY <1>1, <1>2, <1>3 DEF Disable, May, Ok, Fail

LEMMA RxDisable ==
  ASSUME NEW a \in Drivers, NEW r \in Disable(a, "rx")
  PROVE /\ r \in Outcomes /\ Wired(a, r.a) /\ r.a.tx = a.tx
        /\ r.ok \/ a.rx # "running" => r.a.rx # "running"
<1>1. CASE a.rx = "running" /\ r = [a |-> a, ok |-> FALSE]
  BY <1>1, AnOutcome, WiredSelf
<1>2. CASE a.rx = "running" /\ r = [a |-> [a EXCEPT !.rx = "ready"], ok |-> TRUE]
  BY <1>2, AnOutcome, RxWired
<1>3. CASE a.rx # "running" /\ r = [a |-> a, ok |-> TRUE]
  BY <1>3, AnOutcome, WiredSelf
<1> QED
  BY <1>1, <1>2, <1>3 DEF Disable, May, Ok, Fail

(* audio_track_error: an error is noted, and nothing else.                 *)
LEMMA Noted ==
  ASSUME NEW a \in Drivers
  PROVE LET b == [a EXCEPT !.io = FALSE]
        IN Wired(a, b) /\ b \in Drivers /\ ~b.io /\ b.tx = a.tx /\ b.rx = a.rx
<1> DEFINE b == [a EXCEPT !.io = FALSE]
<1>1. b \in Drivers
  BY DEF Drivers
<1>2. b.io = FALSE
  BY DEF Drivers
<1>3. Same(a, b) /\ b.tx = a.tx /\ b.rx = a.rx
  BY <1>1 DEF Same, Drivers
<1>4. Alike(a, b) /\ Untouched(a, b)
  BY DEF Alike, Untouched, Drivers
<1> QED
  BY <1>1, <1>2, <1>3, <1>4 DEF Wired

LEMMA Tracks ==
  ASSUME NEW S, NEW r \in Tracked(S), S \subseteq Outcomes
  PROVE \E s \in S : /\ r \in Outcomes /\ Wired(s.a, r.a) /\ r.ok = s.ok /\ (r.a.io => s.ok)
                     /\ r.a.tx = s.a.tx /\ r.a.rx = s.a.rx
<1>1. PICK s \in S : r = IF s.ok THEN s ELSE [s EXCEPT !.a.io = FALSE]
  BY DEF Tracked
<1>2. s \in Outcomes /\ s.a \in Drivers /\ s.ok \in BOOLEAN
  BY DEF Outcomes
<1>3. CASE s.ok
  BY <1>1, <1>2, <1>3, WiredSelf
<1>4. CASE ~s.ok
  <2>1. r = [a |-> [s.a EXCEPT !.io = FALSE], ok |-> FALSE]
    BY <1>1, <1>2, <1>4 DEF Outcomes
  <2> QED
    BY <1>2, <1>4, <2>1, AnOutcome, Noted
<1> QED
  BY <1>3, <1>4

LEMMA TxOn ==
  ASSUME NEW a \in Drivers, NEW r \in Tracked(Enable(a, "tx"))
  PROVE r \in Outcomes /\ Wired(a, r.a) /\ r.a.rx = a.rx /\ (r.ok \/ r.a.io => r.a.tx = "running")
<1>1. PICK s \in Enable(a, "tx") : /\ r \in Outcomes /\ Wired(s.a, r.a) /\ r.ok = s.ok /\ (r.a.io => s.ok)
                                  /\ r.a.tx = s.a.tx /\ r.a.rx = s.a.rx
  BY Tracks, TxEnable
<1> QED
  BY <1>1, TxEnable, WiredAgain

LEMMA RxOn ==
  ASSUME NEW a \in Drivers, NEW r \in Tracked(Enable(a, "rx"))
  PROVE r \in Outcomes /\ Wired(a, r.a) /\ r.a.tx = a.tx /\ (r.ok \/ r.a.io => r.a.rx = "running")
<1>1. PICK s \in Enable(a, "rx") : /\ r \in Outcomes /\ Wired(s.a, r.a) /\ r.ok = s.ok /\ (r.a.io => s.ok)
                                  /\ r.a.tx = s.a.tx /\ r.a.rx = s.a.rx
  BY Tracks, RxEnable
<1> QED
  BY <1>1, RxEnable, WiredAgain

LEMMA TxOff ==
  ASSUME NEW a \in Drivers, NEW r \in Tracked(Disable(a, "tx"))
  PROVE r \in Outcomes /\ Wired(a, r.a)
  BY Tracks, TxDisable, WiredAgain

LEMMA RxOff ==
  ASSUME NEW a \in Drivers, NEW r \in Tracked(Disable(a, "rx"))
  PROVE r \in Outcomes /\ Wired(a, r.a)
  BY Tracks, RxDisable, WiredAgain

LEMMA Together ==
  ASSUME NEW q \in Outcomes, NEW p \in Outcomes
  PROVE LET r == [a |-> p.a, ok |-> q.ok /\ p.ok] IN r \in Outcomes /\ r.a = p.a /\ r.ok = (q.ok /\ p.ok)
  BY DEF Outcomes

LEMMA StopsBoth ==
  ASSUME NEW a \in Drivers, NEW r \in DisableChannels(a)
  PROVE r \in Outcomes /\ Wired(a, r.a) /\ (r.ok \/ Stopped(a) => Stopped(r.a))
<1>1. PICK q \in Disable(a, "tx") : \E p \in Disable(q.a, "rx") : r = [a |-> p.a, ok |-> q.ok /\ p.ok]
  BY DEF DisableChannels, Both
<1>2. PICK p \in Disable(q.a, "rx") : r = [a |-> p.a, ok |-> q.ok /\ p.ok]
  BY <1>1
<1>3. /\ q \in Outcomes /\ q.a \in Drivers /\ Wired(a, q.a) /\ q.a.rx = a.rx
      /\ q.ok \/ a.tx # "running" => q.a.tx # "running"
  BY TxDisable DEF Outcomes
<1>4. /\ p \in Outcomes /\ Wired(q.a, p.a) /\ p.a.tx = q.a.tx
      /\ p.ok \/ q.a.rx # "running" => p.a.rx # "running"
  BY <1>3, RxDisable
<1> QED
  BY <1>2, <1>3, <1>4, Together, WiredAgain DEF Stopped

LEMMA StoppedAgain ==
  ASSUME NEW y, NEW r \in Then(Void(Fail(y), LAMBDA z : Disable(z, "tx")), LAMBDA z : Fail(z))
  PROVE \E t \in Disable(y, "tx") : r = [a |-> t.a, ok |-> FALSE]
<1>1. PICK s \in Void(Fail(y), LAMBDA z : Disable(z, "tx")) : r \in IF s.ok THEN Fail(s.a) ELSE {s}
  BY DEF Then
<1>2. PICK u \in Fail(y) : \E t \in Disable(u.a, "tx") : s = [a |-> t.a, ok |-> u.ok]
  BY DEF Void
<1>3. u = [a |-> y, ok |-> FALSE]
  BY DEF Fail
<1>4. PICK t \in Disable(y, "tx") : s = [a |-> t.a, ok |-> FALSE]
  BY <1>2, <1>3, Zenon
<1>5. r = s
  BY <1>1, <1>4
<1> QED
  BY <1>4, <1>5

LEMMA Reopens ==
  ASSUME NEW a \in Drivers, NEW r \in PrepareReopen(a) PROVE r \in Outcomes /\ Wired(a, r.a)
<1> DEFINE Undo(y) == Then(Void(Fail(y), LAMBDA z : Disable(z, "tx")), LAMBDA z : Fail(z))
<1>1. PICK q \in Enable(a, "tx") :
        r \in IF q.ok THEN Else(Enable(q.a, "rx"), Undo) ELSE {q}
  BY DEF PrepareReopen, Then
<1>2. q \in Outcomes /\ q.a \in Drivers /\ Wired(a, q.a)
  BY TxEnable DEF Outcomes
<1>3. ASSUME NEW p \in Enable(q.a, "rx") PROVE p \in Outcomes /\ p.a \in Drivers /\ Wired(a, p.a)
  BY <1>2, RxEnable, WiredAgain DEF Outcomes
<1>4. ASSUME NEW p \in Enable(q.a, "rx"), NEW t \in Disable(p.a, "tx")
      PROVE t.a \in Drivers /\ Wired(a, t.a)
  BY <1>3, TxDisable, WiredAgain DEF Outcomes
<1>5. CASE r = q
  BY <1>2, <1>5
<1>6. CASE r \in Else(Enable(q.a, "rx"), Undo)
  <2>1. PICK p \in Enable(q.a, "rx") : r = p \/ r \in Undo(p.a)
    BY <1>6 DEF Else
  <2>2. CASE r = p
    BY <1>3, <2>2
  <2>3. CASE r \in Undo(p.a)
    <3>1. PICK t \in Disable(p.a, "tx") : r = [a |-> t.a, ok |-> FALSE]
      BY <2>3, StoppedAgain
    <3> QED
      BY <1>4, <3>1, AnOutcome
  <2> QED
    BY <2>1, <2>2, <2>3
<1> QED
  BY <1>1, <1>5, <1>6

LEMMA DataIsOn ==
  ASSUME NEW a \in Drivers, NEW r \in DataOn(a)
  PROVE /\ r \in Outcomes /\ Wired(a, r.a)
        /\ r.a.io => r.a.tx = "running" /\ r.a.rx = "running"
<1>1. PICK q \in Tracked(Enable(a, "tx")) :
        \E p \in Tracked(Enable(q.a, "rx")) : r = [a |-> p.a, ok |-> q.ok /\ p.ok]
  BY DEF DataOn, Both
<1>2. PICK p \in Tracked(Enable(q.a, "rx")) : r = [a |-> p.a, ok |-> q.ok /\ p.ok]
  BY <1>1
<1>3. q \in Outcomes /\ q.a \in Drivers /\ Wired(a, q.a) /\ (q.a.io => q.a.tx = "running")
  BY TxOn DEF Outcomes
<1>4. /\ p \in Outcomes /\ Wired(q.a, p.a) /\ p.a.tx = q.a.tx /\ (p.a.io => p.a.rx = "running")
  BY <1>3, RxOn
<1>5. p.a.io => q.a.io
  BY <1>4 DEF Wired
<1> QED
  BY <1>2, <1>3, <1>4, <1>5, Together, WiredAgain

LEMMA DataIsOff ==
  ASSUME NEW a \in Drivers, NEW r \in DataOff(a) PROVE r \in Outcomes /\ Wired(a, r.a)
<1>1. PICK q \in Tracked(Disable(a, "rx")) :
        \E p \in Tracked(Disable(q.a, "tx")) : r = [a |-> p.a, ok |-> q.ok /\ p.ok]
  BY DEF DataOff, Both
<1>2. q \in Outcomes /\ q.a \in Drivers /\ Wired(a, q.a)
  BY RxOff DEF Outcomes
<1>3. ASSUME NEW p \in Tracked(Disable(q.a, "tx")) PROVE p \in Outcomes /\ Wired(q.a, p.a)
  BY <1>2, TxOff
<1> QED
  BY <1>1, <1>2, <1>3, Together, WiredAgain

(* A channel that is set anew, or cannot be.                               *)
LEMMA TxSet ==
  ASSUME NEW a \in Drivers, NEW r \in Tracked(Reconfigure(a, "tx")) PROVE r \in Outcomes /\ Wired(a, r.a)
<1>1. ASSUME NEW s \in Reconfigure(a, "tx") PROVE s \in Outcomes /\ Wired(a, s.a)
  <2>1. s = [a |-> a, ok |-> FALSE] \/ s \in Disable(a, "tx")
    BY DEF Reconfigure, Fail
  <2>2. CASE s = [a |-> a, ok |-> FALSE]
    BY <2>2, AnOutcome, WiredSelf
  <2>3. CASE s \in Disable(a, "tx")
    BY <2>3, TxDisable
  <2> QED
    BY <2>1, <2>2, <2>3
<1> QED
  BY <1>1, Tracks, WiredAgain

LEMMA RxSet ==
  ASSUME NEW a \in Drivers, NEW r \in Tracked(Reconfigure(a, "rx")) PROVE r \in Outcomes /\ Wired(a, r.a)
<1>1. ASSUME NEW s \in Reconfigure(a, "rx") PROVE s \in Outcomes /\ Wired(a, s.a)
  <2>1. s = [a |-> a, ok |-> FALSE] \/ s \in Disable(a, "rx")
    BY DEF Reconfigure, Fail
  <2>2. CASE s = [a |-> a, ok |-> FALSE]
    BY <2>2, AnOutcome, WiredSelf
  <2>3. CASE s \in Disable(a, "rx")
    BY <2>3, RxDisable
  <2> QED
    BY <2>1, <2>2, <2>3
<1> QED
  BY <1>1, Tracks, WiredAgain

LEMMA DataIsSet ==
  ASSUME NEW a \in Drivers, NEW r \in DataFormat(a) PROVE r \in Outcomes /\ Wired(a, r.a)
<1>1. PICK q \in Tracked(Reconfigure(a, "tx")) :
        \/ r = q
        \/ \E p \in Tracked(Enable(q.a, "tx")) :
             \E s \in {p} \cup Tracked(Reconfigure(p.a, "rx")) :
               \E t \in Tracked(Disable(s.a, "tx")) : r = [a |-> t.a, ok |-> s.ok /\ t.ok]
  BY DEF DataFormat, Then, Both
<1>2. q \in Outcomes /\ q.a \in Drivers /\ Wired(a, q.a)
  BY TxSet DEF Outcomes
<1>3. ASSUME NEW p \in Tracked(Enable(q.a, "tx")) PROVE p \in Outcomes /\ p.a \in Drivers /\ Wired(a, p.a)
  BY <1>2, TxOn, WiredAgain DEF Outcomes
<1>4. ASSUME NEW p \in Tracked(Enable(q.a, "tx")), NEW s \in {p} \cup Tracked(Reconfigure(p.a, "rx"))
      PROVE s \in Outcomes /\ s.a \in Drivers /\ Wired(a, s.a)
  BY <1>3, RxSet, WiredAgain DEF Outcomes
<1>5. ASSUME NEW p \in Tracked(Enable(q.a, "tx")), NEW s \in {p} \cup Tracked(Reconfigure(p.a, "rx")),
             NEW t \in Tracked(Disable(s.a, "tx"))
      PROVE s \in Outcomes /\ t \in Outcomes /\ Wired(a, t.a)
  BY <1>4, TxOff, WiredAgain
<1> QED
  BY <1>1, <1>2, <1>5, Together

(* What the codec objects are between the steps of the driver: a device    *)
(* has its codec, an open one is there, nothing is there after a release   *)
(* that failed, and only such a release leaves a reference behind.         *)
Loose(a) ==
  /\ a \in Drivers /\ a.dev = a.codec /\ ~a.opened
  /\ a.devOpen => a.dev
  /\ ~a.released => ~a.dev
  /\ a.shared => ~a.released
\* Nothing but what the chip is set to.
Moved(a, b) ==
  /\ Same(a, b) /\ Alike(a, b) /\ b.devOpen = a.devOpen /\ b.tx = a.tx /\ b.rx = a.rx
  /\ b.io => a.io

LEMMA LooseKept ==
  ASSUME NEW a, NEW b, Loose(a), b \in Drivers, Alike(a, b), b.devOpen = a.devOpen PROVE Loose(b)
  BY DEF Loose, Alike

LEMMA MovedAgain ==
  ASSUME NEW a, NEW b, NEW c, Moved(a, b), Moved(b, c) PROVE Moved(a, c)
  BY DEF Moved, Same, Alike

LEMMA MovedSelf == ASSUME NEW a \in Drivers PROVE Moved(a, a)
  BY DEF Moved, Same, Alike

LEMMA ChipMoved ==
  ASSUME NEW a \in Drivers, NEW n \in Int
  PROVE LET b == [a EXCEPT !.chip = n] IN Moved(a, b) /\ b \in Drivers /\ b.chip = n
  BY DEF Moved, Same, Alike, Drivers, Channel

LEMMA NoteMoved ==
  ASSUME NEW a \in Drivers
  PROVE LET b == [a EXCEPT !.io = FALSE] IN Moved(a, b) /\ b \in Drivers /\ ~b.io
<1> DEFINE b == [a EXCEPT !.io = FALSE]
<1>1. Wired(a, b) /\ b \in Drivers /\ ~b.io /\ b.tx = a.tx /\ b.rx = a.rx
  BY Noted
<1> QED
  BY <1>1 DEF Moved, Wired, Untouched

LEMMA SleepsOnce ==
  ASSUME NEW a \in Drivers, NEW r \in SleepOnce(a)
  PROVE r \in Outcomes /\ Moved(a, r.a) /\ (r.ok => r.a.chip = Deep)
<1>1. Deep \in Int /\ Weak \in Int
  BY DEF Deep, Weak
<1>2. CASE r = [a |-> [a EXCEPT !.chip = Deep], ok |-> TRUE]
  BY <1>1, <1>2, ChipMoved, AnOutcome
<1>3. CASE r = [a |-> [a EXCEPT !.chip = Weak], ok |-> FALSE]
  BY <1>1, <1>3, ChipMoved, AnOutcome
<1> QED
  BY <1>2, <1>3 DEF SleepOnce, Ok, Fail

LEMMA SleepsByForce ==
  ASSUME NEW a \in Drivers, NEW r \in ForceSleep(a)
  PROVE r \in Outcomes /\ Moved(a, r.a) /\ (r.ok => r.a.chip = Deep)
<1>1. CASE r = [a |-> a, ok |-> FALSE]
  BY <1>1, MovedSelf, AnOutcome
<1>2. CASE r \in Else(SleepOnce(a), SleepOnce)
  <2>1. PICK q \in SleepOnce(a) : r = q \/ r \in SleepOnce(q.a)
    BY <1>2 DEF Else
  <2>2. q \in Outcomes /\ q.a \in Drivers /\ Moved(a, q.a) /\ (q.ok => q.a.chip = Deep)
    BY SleepsOnce DEF Outcomes
  <2> QED
    BY <2>1, <2>2, SleepsOnce, MovedAgain
<1> QED
  BY <1>1, <1>2 DEF ForceSleep, Fail

(* The device is gone; all else about the codec is as it was.              *)
LEMMA DevDeleted ==
  ASSUME NEW a \in Drivers, NEW r \in DeleteDev(a)
  PROVE /\ r \in Outcomes /\ r.ok /\ Same(a, r.a) /\ ~r.a.dev
        /\ r.a.codec = a.codec /\ r.a.opened = a.opened /\ r.a.released = a.released
        /\ r.a.shared = a.shared /\ (r.a.devOpen => a.devOpen /\ ~a.dev)
<1>1. CASE ~a.dev /\ r = [a |-> a, ok |-> TRUE]
  BY <1>1, AnOutcome, MovedSelf DEF Moved, Alike
<1>2. CASE a.dev
  <2> DEFINE w == [a EXCEPT !.chip = Weak]
  <2>1. Weak \in Int
    BY DEF Weak
  <2>2. w \in Drivers /\ Moved(a, w)
    BY <2>1, ChipMoved
  <2>3. PICK s \in DataOff(w) \cup Ok(a) : r = [s EXCEPT !.ok = TRUE, !.a.dev = FALSE, !.a.devOpen = FALSE]
    BY <1>2 DEF DeleteDev
  <2>4. s \in Outcomes /\ s.a \in Drivers /\ Same(a, s.a) /\ Alike(a, s.a)
    <3>1. CASE s \in DataOff(w)
      <4>1. s \in Outcomes /\ Wired(w, s.a)
        BY <2>2, <3>1, DataIsOff
      <4> QED
        BY <2>2, <4>1 DEF Moved, Wired, Same, Alike, Outcomes
    <3>2. CASE s = [a |-> a, ok |-> TRUE]
      BY <3>2, AnOutcome, MovedSelf DEF Moved
    <3> QED
      BY <3>1, <3>2 DEF Ok
  <2> DEFINE b == [s.a EXCEPT !.dev = FALSE, !.devOpen = FALSE]
  <2>5. r = [a |-> b, ok |-> TRUE]
    BY <2>3, <2>4 DEF Outcomes
  <2>6. b \in Drivers /\ b.dev = FALSE /\ b.devOpen = FALSE
    BY <2>4 DEF Drivers
  <2>7. /\ Same(s.a, b) /\ b.codec = s.a.codec /\ b.opened = s.a.opened
        /\ b.released = s.a.released /\ b.shared = s.a.shared
    BY <2>4, <2>6 DEF Same, Drivers
  <2>8. r \in Outcomes /\ r.a = b /\ r.ok
    BY <2>5, <2>6, AnOutcome
  <2> QED
    BY <2>4, <2>6, <2>7, <2>8 DEF Same, Alike
<1> QED
  BY <1>1, <1>2 DEF DeleteDev, Ok

LEMMA CodecDropped ==
  ASSUME NEW a \in Drivers, NEW n \in Int
  PROVE LET b == [a EXCEPT !.codec = FALSE, !.chip = n]
        IN /\ b \in Drivers /\ Same(a, b) /\ ~b.codec /\ b.dev = a.dev /\ b.devOpen = a.devOpen
           /\ b.released = a.released /\ b.shared = a.shared
<1> DEFINE b == [a EXCEPT !.codec = FALSE, !.chip = n]
<1>1. b \in Drivers /\ b.codec = FALSE
  BY DEF Drivers
<1>2. Same(a, b)
  BY <1>1 DEF Same, Drivers
<1>3. b.dev = a.dev /\ b.devOpen = a.devOpen /\ b.released = a.released /\ b.shared = a.shared
  BY DEF Drivers
<1> QED
  BY <1>1, <1>2, <1>3

LEMMA CodecLost ==
  ASSUME NEW a \in Drivers
  PROVE LET b == NotReleased(a)
        IN /\ b \in Drivers /\ Same(a, b) /\ ~b.codec /\ b.dev = a.dev /\ b.devOpen = a.devOpen
           /\ ~b.released
<1> DEFINE b == NotReleased(a)
<1> DEFINE c == [a EXCEPT !.codec = FALSE, !.shared = TRUE]
<1>0. c \in Drivers /\ c.codec = FALSE
  BY DEF Drivers
<1>1. b \in Drivers /\ b.codec = FALSE /\ b.released = FALSE
  <2>1. b = [c EXCEPT !.released = FALSE, !.io = FALSE]
    BY DEF NotReleased
  <2> HIDE DEF b, c
  <2> QED
    BY <1>0, <2>1 DEF Drivers
<1>2. Same(a, b)
  BY <1>1 DEF Same, Drivers, NotReleased
<1>3. b.dev = a.dev /\ b.devOpen = a.devOpen
  BY DEF Drivers, NotReleased
<1> QED
  BY <1>1, <1>2, <1>3

LEMMA Unopened ==
  ASSUME NEW a \in Drivers
  PROVE LET b == [a EXCEPT !.opened = FALSE]
        IN /\ b \in Drivers /\ Same(a, b) /\ ~b.opened /\ b.codec = a.codec /\ b.dev = a.dev
           /\ b.devOpen = a.devOpen /\ b.released = a.released /\ b.shared = a.shared
<1> DEFINE b == [a EXCEPT !.opened = FALSE]
<1>1. b \in Drivers /\ b.opened = FALSE
  BY DEF Drivers
<1>2. Same(a, b)
  BY <1>1 DEF Same, Drivers
<1>3. /\ b.codec = a.codec /\ b.dev = a.dev /\ b.devOpen = a.devOpen /\ b.released = a.released
      /\ b.shared = a.shared
  BY DEF Drivers
<1> QED
  BY <1>1, <1>2, <1>3

LEMMA DevAdded ==
  ASSUME NEW a \in Drivers
  PROVE LET b == [a EXCEPT !.dev = TRUE]
        IN /\ b \in Drivers /\ Same(a, b) /\ b.dev /\ b.codec = a.codec /\ b.opened = a.opened
           /\ b.devOpen = a.devOpen /\ b.released = a.released /\ b.shared = a.shared
<1> DEFINE b == [a EXCEPT !.dev = TRUE]
<1>1. b \in Drivers /\ b.dev = TRUE
  BY DEF Drivers
<1>2. Same(a, b)
  BY <1>1 DEF Same, Drivers
<1>3. /\ b.codec = a.codec /\ b.opened = a.opened /\ b.devOpen = a.devOpen
      /\ b.released = a.released /\ b.shared = a.shared
  BY DEF Drivers
<1> QED
  BY <1>1, <1>2, <1>3

LEMMA SameAgain ==
  ASSUME NEW a, NEW b, NEW c, Same(a, b), Same(b, c) PROVE Same(a, c)
  BY DEF Same

LEMMA CodecDeleted ==
  ASSUME NEW a \in Drivers, a.devOpen => a.dev, a.shared => ~a.released, NEW r \in DeleteCodec(a)
  PROVE r \in Outcomes /\ r.ok /\ Same(a, r.a) /\ Loose(r.a) /\ ~r.a.dev
<1> DEFINE gone(x) == [IF x.codec THEN [x EXCEPT !.codec = FALSE, !.chip = Weak] ELSE x EXCEPT !.opened = FALSE]
           kept(x) == [NotReleased(x) EXCEPT !.opened = FALSE]
<1>1. PICK q \in DeleteDev(a) :
        r \in IF q.ok THEN Ok(gone(q.a)) \cup (IF q.a.codec THEN Ok(kept(q.a)) ELSE {}) ELSE {q}
  BY DEF DeleteCodec, Then
<1>2. /\ q \in Outcomes /\ q.ok /\ q.a \in Drivers /\ Same(a, q.a) /\ ~q.a.dev /\ ~q.a.devOpen
      /\ q.a.released = a.released /\ q.a.shared = a.shared
  BY DevDeleted DEF Outcomes
<1>3. CASE r \in Ok(gone(q.a))
  <2> DEFINE c == IF q.a.codec THEN [q.a EXCEPT !.codec = FALSE, !.chip = Weak] ELSE q.a
             b == gone(q.a)
  <2>1. Weak \in Int /\ Same(q.a, q.a)
    BY <1>2 DEF Weak, Same
  <2>2. /\ c \in Drivers /\ Same(q.a, c) /\ ~c.codec /\ c.dev = q.a.dev /\ c.devOpen = q.a.devOpen
        /\ c.released = q.a.released /\ c.shared = q.a.shared
    BY <1>2, <2>1, CodecDropped
  <2>3. /\ b \in Drivers /\ Same(c, b) /\ ~b.opened /\ b.codec = c.codec /\ b.dev = c.dev
        /\ b.devOpen = c.devOpen /\ b.released = c.released /\ b.shared = c.shared
    <3> HIDE DEF c
    <3>1. \A x \in Drivers : LET y == [x EXCEPT !.opened = FALSE]
          IN /\ y \in Drivers /\ Same(x, y) /\ ~y.opened /\ y.codec = x.codec /\ y.dev = x.dev
             /\ y.devOpen = x.devOpen /\ y.released = x.released /\ y.shared = x.shared
      BY Unopened
    <3>2. b = [c EXCEPT !.opened = FALSE]
      BY DEF c
    <3> HIDE DEF b
    <3> QED
      BY <2>2, <3>1, <3>2, Zenon
  <2>6. r = [a |-> b, ok |-> TRUE]
    BY <1>3 DEF Ok
  <2> HIDE DEF b, c
  <2>4. Same(a, b)
    BY <1>2, <2>2, <2>3, SameAgain
  <2>5. Loose(b) /\ ~b.dev
    <3>1. ~b.dev /\ ~b.devOpen /\ ~b.codec
      BY <1>2, <2>2, <2>3
    <3>2. b.dev = b.codec
      BY <2>3, <3>1 DEF Drivers
    <3>3. b.shared = a.shared /\ b.released = a.released
      BY <1>2, <2>2, <2>3
    <3> QED
      BY <2>3, <3>1, <3>2, <3>3 DEF Loose
  <2> QED
    BY <2>3, <2>4, <2>5, <2>6, AnOutcome
<1>4. CASE r \in Ok(kept(q.a))
  <2> DEFINE c == NotReleased(q.a)
             b == kept(q.a)
  <2>1. /\ c \in Drivers /\ Same(q.a, c) /\ ~c.codec /\ c.dev = q.a.dev /\ c.devOpen = q.a.devOpen
        /\ ~c.released
    BY <1>2, CodecLost
  <2>2. /\ b \in Drivers /\ Same(c, b) /\ ~b.opened /\ b.codec = c.codec /\ b.dev = c.dev
        /\ b.devOpen = c.devOpen /\ b.released = c.released /\ b.shared = c.shared
    BY <2>1, Unopened
  <2>3. Same(a, b)
    BY <1>2, <2>1, <2>2, SameAgain
  <2>4. Loose(b) /\ ~b.dev
    BY <1>2, <2>1, <2>2 DEF Loose, Drivers
  <2>5. r = [a |-> b, ok |-> TRUE]
    BY <1>4 DEF Ok
  <2> QED
    BY <2>2, <2>3, <2>4, <2>5, AnOutcome
<1> QED
  BY <1>1, <1>2, <1>3, <1>4

LEMMA CodecMade ==
  ASSUME NEW a \in Drivers, NEW r \in NewCodec(a)
  PROVE /\ r \in Outcomes /\ Same(a, r.a) /\ r.a.dev = a.dev /\ r.a.opened = a.opened
        /\ r.a.released = a.released /\ r.a.shared = a.shared /\ r.a.devOpen = a.devOpen
        /\ r.ok => r.a.codec
<1> DEFINE b == [a EXCEPT !.codec = TRUE, !.chip = IF a.shared THEN @ ELSE Weak]
           c == [a EXCEPT !.codec = TRUE, !.io = FALSE, !.chip = Weak]
<1>1. Weak \in Int
  BY DEF Weak
<1>2. CASE r = [a |-> a, ok |-> FALSE]
  BY <1>2, AnOutcome, MovedSelf DEF Moved, Alike
<1>3. CASE r = [a |-> b, ok |-> TRUE]
  <2>1. b \in Drivers /\ b.codec = TRUE
    BY <1>1 DEF Drivers
  <2>2. /\ Same(a, b) /\ b.dev = a.dev /\ b.opened = a.opened
        /\ b.released = a.released /\ b.shared = a.shared /\ b.devOpen = a.devOpen
    BY <2>1 DEF Same, Drivers
  <2> QED
    BY <1>3, <2>1, <2>2, AnOutcome
<1>4. CASE r = [a |-> c, ok |-> FALSE]
  <2>1. c \in Drivers
    BY <1>1 DEF Drivers
  <2>2. /\ Same(a, c) /\ c.dev = a.dev /\ c.opened = a.opened
        /\ c.released = a.released /\ c.shared = a.shared /\ c.devOpen = a.devOpen
    BY <2>1 DEF Same, Drivers
  <2> QED
    BY <1>4, <2>1, <2>2, AnOutcome
<1> QED
  BY <1>2, <1>3, <1>4 DEF NewCodec, Ok, Fail

LEMMA ErrorCleared ==
  ASSUME NEW a \in Drivers
  PROVE LET b == [a EXCEPT !.io = TRUE]
        IN /\ b \in Drivers /\ Same(a, b) /\ Alike(a, b) /\ Untouched(a, b)
           /\ b.tx = a.tx /\ b.rx = a.rx /\ b.io
<1> DEFINE b == [a EXCEPT !.io = TRUE]
<1>1. b \in Drivers
  BY DEF Drivers
<1>2. b.io = TRUE
  BY DEF Drivers
<1>3. Same(a, b) /\ b.tx = a.tx /\ b.rx = a.rx
  BY <1>1 DEF Same, Drivers
<1>4. Alike(a, b) /\ Untouched(a, b)
  BY DEF Alike, Untouched, Drivers
<1> QED
  BY <1>1, <1>2, <1>3, <1>4

LEMMA CodecCreated ==
  ASSUME NEW a, Loose(a), ~a.dev, NEW r \in CreateCodec(a)
  PROVE r \in Outcomes /\ Same(a, r.a) /\ Loose(r.a) /\ (r.ok <=> r.a.dev)
<1>0. a \in Drivers
  BY DEF Loose
<1>1. CASE Refused(a) /\ r = [a |-> a, ok |-> FALSE]
  BY <1>0, <1>1, AnOutcome, MovedSelf DEF Moved
<1>2. CASE ~Refused(a)
  <2> DEFINE b == [a EXCEPT !.io = TRUE]
             Added(x) == May(x, [x EXCEPT !.dev = TRUE])
             Undo(x) == Then(DeleteCodec(x), Fail)
  <2>1. /\ b \in Drivers /\ Same(a, b) /\ ~b.opened /\ ~b.dev /\ ~b.devOpen
        /\ b.released /\ ~b.shared
    BY <1>0, <1>2, ErrorCleared DEF Alike, Untouched, Loose, Refused, Drivers
  <2>2. PICK s \in Then(NewCodec(b), Added) : r \in IF s.ok THEN {s} ELSE Undo(s.a)
    BY <1>2 DEF CreateCodec, Else
  <2>3. PICK q \in NewCodec(b) : s \in IF q.ok THEN Added(q.a) ELSE {q}
    BY <2>2 DEF Then
  <2>4. /\ q \in Outcomes /\ q.a \in Drivers /\ Same(a, q.a) /\ ~q.a.dev /\ ~q.a.opened
        /\ q.a.released /\ ~q.a.shared /\ ~q.a.devOpen /\ (q.ok => q.a.codec)
    <3>1. q \in Outcomes /\ Same(b, q.a) /\ q.a.dev = b.dev /\ q.a.opened = b.opened
          /\ q.a.released = b.released /\ q.a.shared = b.shared /\ q.a.devOpen = b.devOpen
          /\ (q.ok => q.a.codec)
      BY <2>1, CodecMade
    <3>2. Same(a, q.a) /\ q.a \in Drivers
      BY <2>1, <3>1, SameAgain DEF Outcomes
    <3> QED
      BY <2>1, <3>1, <3>2
  <2> DEFINE d == [q.a EXCEPT !.dev = TRUE]
  <2>5. /\ d \in Drivers /\ Same(q.a, d) /\ d.dev /\ d.codec = q.a.codec /\ d.opened = q.a.opened
        /\ d.devOpen = q.a.devOpen /\ d.released = q.a.released /\ d.shared = q.a.shared
    BY <2>4, DevAdded
  <2>7. CASE q.ok /\ s = [a |-> d, ok |-> TRUE]
    <3>1. s.a = d /\ s.ok /\ s \in Outcomes
      BY <2>5, <2>7, AnOutcome
    <3>2. r = s
      BY <2>2, <3>1
    <3> QED
      <4>1. Same(a, d)
        BY <2>4, <2>5, SameAgain
      <4>2. Loose(d)
        BY <2>4, <2>5, <2>7 DEF Loose, Drivers
      <4> QED
        BY <2>5, <3>1, <3>2, <4>1, <4>2
  <2>8. CASE s.a = q.a /\ ~s.ok
    <3>1. PICK t \in DeleteCodec(q.a) : r \in IF t.ok THEN Fail(t.a) ELSE {t}
      BY <2>2, <2>8 DEF Then
    <3>2. t.ok /\ t.a \in Drivers /\ Same(q.a, t.a) /\ Loose(t.a) /\ ~t.a.dev
      BY <2>4, CodecDeleted DEF Outcomes
    <3>3. r = [a |-> t.a, ok |-> FALSE]
      BY <3>1, <3>2 DEF Fail
    <3>4. r \in Outcomes /\ r.a = t.a /\ ~r.ok
      BY <3>2, <3>3, AnOutcome
    <3> QED
      BY <2>4, <3>2, <3>4 DEF Same
  <2>9. \/ q.ok /\ s = [a |-> d, ok |-> TRUE]
        \/ q.ok /\ s = [a |-> q.a, ok |-> FALSE]
        \/ ~q.ok /\ s = q
    BY <2>3 DEF May, Ok, Fail
  <2> QED
    BY <2>4, <2>7, <2>8, <2>9, AnOutcome
<1> QED
  BY <1>1, <1>2 DEF CreateCodec, Fail

(* An error noted is a failure.                                            *)
LEMMA Checks ==
  ASSUME NEW S, NEW r \in Checked(S), S \subseteq Outcomes
  PROVE \E s \in S : r \in Outcomes /\ r.a = s.a /\ (r.ok <=> s.ok /\ s.a.io)
<1>1. PICK s \in S : r \in IF s.a.io THEN {s} ELSE Fail(s.a)
  BY DEF Checked
<1>2. s \in Outcomes /\ s.a \in Drivers
  BY DEF Outcomes
<1>3. CASE s.a.io
  BY <1>1, <1>2, <1>3
<1>4. CASE ~s.a.io
  BY <1>1, <1>2, <1>4, AnOutcome DEF Fail
<1> QED
  BY <1>3, <1>4

LEMMA Configured ==
  ASSUME NEW a \in Drivers, NEW f \in Formats, NEW r \in Configure(a, f)
  PROVE r \in Outcomes /\ Moved(a, r.a) /\ (r.a.io /\ ~a.shared => r.a.chip = f)
<1> DEFINE failed == [a EXCEPT !.chip = IF a.shared THEN @ ELSE Weak]
           done == [a EXCEPT !.chip = IF a.shared THEN @ ELSE f]
<1>1. Weak \in Int /\ f \in Int /\ a.chip \in Int
  BY AudioAssumption DEF AudioAssumption, Weak, Drivers
<1>2. failed \in Drivers /\ Moved(a, failed)
  BY <1>1, ChipMoved
<1>3. done \in Drivers /\ Moved(a, done) /\ (~a.shared => done.chip = f)
  BY <1>1, ChipMoved
<1>4. PICK s \in May(failed, done) : r = IF s.ok THEN s ELSE [s EXCEPT !.a.io = FALSE]
  BY DEF Configure, Tracked
<1>5. CASE s = [a |-> done, ok |-> TRUE]
  <2>1. s \in Outcomes /\ s.a = done /\ s.ok
    BY <1>3, <1>5, AnOutcome
  <2> QED
    BY <1>3, <1>4, <2>1
<1>6. CASE s = [a |-> failed, ok |-> FALSE]
  <2> DEFINE b == [failed EXCEPT !.io = FALSE]
  <2>1. r = [a |-> b, ok |-> FALSE]
    BY <1>4, <1>6
  <2>2. b \in Drivers /\ Moved(failed, b) /\ ~b.io
    BY <1>2, NoteMoved
  <2>3. r \in Outcomes /\ r.a = b
    BY <2>1, <2>2, AnOutcome
  <2>4. Moved(a, b)
    BY <1>2, <2>2, MovedAgain
  <2> QED
    BY <2>2, <2>3, <2>4
<1> QED
  BY <1>4, <1>5, <1>6 DEF May, Ok, Fail

LEMMA DevOpened ==
  ASSUME NEW a \in Drivers
  PROVE LET b == [a EXCEPT !.devOpen = TRUE]
        IN /\ b \in Drivers /\ Same(a, b) /\ Alike(a, b) /\ b.devOpen /\ b.tx = a.tx /\ b.rx = a.rx
           /\ b.chip = a.chip /\ b.io = a.io
<1> DEFINE b == [a EXCEPT !.devOpen = TRUE]
<1>1. b \in Drivers /\ b.devOpen = TRUE
  BY DEF Drivers
<1>2. Same(a, b)
  BY <1>1 DEF Same, Drivers
<1>3. Alike(a, b) /\ b.tx = a.tx /\ b.rx = a.rx /\ b.chip = a.chip /\ b.io = a.io
  BY DEF Alike, Drivers
<1> QED
  BY <1>1, <1>2, <1>3

LEMMA AlikeAgain ==
  ASSUME NEW a, NEW b, NEW c, Alike(a, b), Alike(b, c) PROVE Alike(a, c)
  BY DEF Alike

(* esp_codec_dev_open: with no error noted, whatever it returns, both      *)
(* channels run and the chip is set, unless a surviving reference made it  *)
(* skip the registers.                                                     *)
LEMMA DevOpens ==
  ASSUME NEW a \in Drivers, NEW f \in Formats, NEW r \in OpenDev(a, f)
  PROVE /\ r \in Outcomes /\ Same(a, r.a) /\ Alike(a, r.a) /\ r.a.devOpen
        /\ r.a.io => r.a.tx = "running" /\ r.a.rx = "running" /\ (~a.shared => r.a.chip = f)
<1> DEFINE conf(x) == Configure(x, f)
           both == Both(DataFormat(a), conf)
<1>1. PICK u \in Both(both, DataOn) :
        \E o \in BOOLEAN : r = [a |-> [u.a EXCEPT !.devOpen = TRUE], ok |-> o]
  BY DEF OpenDev
<1>2. PICK v \in both : \E s \in DataOn(v.a) : u = [a |-> s.a, ok |-> v.ok /\ s.ok]
  BY DEF Both
<1>3. PICK s \in DataOn(v.a) : u = [a |-> s.a, ok |-> v.ok /\ s.ok]
  BY <1>2
<1>4. PICK q \in DataFormat(a) : \E p \in Configure(q.a, f) : v = [a |-> p.a, ok |-> q.ok /\ p.ok]
  BY DEF Both
<1>5. PICK p \in Configure(q.a, f) : v = [a |-> p.a, ok |-> q.ok /\ p.ok]
  BY <1>4
<1>6. q \in Outcomes /\ q.a \in Drivers /\ Same(a, q.a) /\ Alike(a, q.a)
  BY DataIsSet DEF Wired, Outcomes
<1>7. /\ p \in Outcomes /\ p.a \in Drivers /\ Same(q.a, p.a) /\ Alike(q.a, p.a)
      /\ p.a.io /\ ~q.a.shared => p.a.chip = f
  BY <1>6, Configured DEF Moved, Outcomes
<1>8. v.a = p.a
  BY <1>5
<1>9. /\ s \in Outcomes /\ s.a \in Drivers /\ Same(p.a, s.a) /\ Alike(p.a, s.a)
      /\ s.a.chip = p.a.chip /\ (s.a.io => p.a.io)
      /\ s.a.io => s.a.tx = "running" /\ s.a.rx = "running"
  BY <1>3, <1>7, <1>8, DataIsOn DEF Wired, Untouched, Outcomes
<1>10. u.a = s.a
  BY <1>3
<1> DEFINE b == [s.a EXCEPT !.devOpen = TRUE]
<1>11. r \in Outcomes /\ r.a = b
  BY <1>1, <1>9, <1>10, DevOpened, AnOutcome
<1>12. /\ b \in Drivers /\ Same(s.a, b) /\ Alike(s.a, b) /\ b.devOpen /\ b.tx = s.a.tx /\ b.rx = s.a.rx
       /\ b.chip = s.a.chip /\ b.io = s.a.io
  BY <1>9, DevOpened
<1>13. Same(a, b) /\ Alike(a, b)
  BY <1>6, <1>7, <1>9, <1>12, SameAgain, AlikeAgain
<1>14. b.io => b.tx = "running" /\ b.rx = "running" /\ (~a.shared => b.chip = f)
  BY <1>6, <1>7, <1>9, <1>12 DEF Alike
<1> QED
  BY <1>11, <1>12, <1>13, <1>14

(* Nothing but the volume register, and the note of an error.              *)
Tuned(a, b) ==
  /\ Same(a, b) /\ Alike(a, b) /\ b.devOpen = a.devOpen /\ b.tx = a.tx /\ b.rx = a.rx
  /\ b.chip = a.chip

LEMMA TunedAgain ==
  ASSUME NEW a, NEW b, NEW c, Tuned(a, b), Tuned(b, c) PROVE Tuned(a, c)
  BY DEF Tuned, Same, Alike

LEMMA TunedSelf == ASSUME NEW a \in Drivers PROVE Tuned(a, a)
  BY DEF Tuned, Same, Alike

LEMMA NoteTuned ==
  ASSUME NEW a \in Drivers
  PROVE LET b == [a EXCEPT !.io = FALSE] IN Tuned(a, b) /\ b \in Drivers /\ ~b.io
<1> DEFINE b == [a EXCEPT !.io = FALSE]
<1>1. Wired(a, b) /\ b \in Drivers /\ ~b.io /\ b.tx = a.tx /\ b.rx = a.rx
  BY Noted
<1> QED
  BY <1>1 DEF Tuned, Wired, Untouched

LEMMA RegisterTuned ==
  ASSUME NEW a \in Drivers
  PROVE LET b == [a EXCEPT !.chipVolume = a.volume]
        IN Tuned(a, b) /\ b \in Drivers /\ b.chipVolume = a.volume
<1> DEFINE b == [a EXCEPT !.chipVolume = a.volume]
<1>1. b \in Drivers /\ b.chipVolume = a.volume
  BY DEF Drivers
<1>2. Same(a, b)
  BY <1>1 DEF Same, Drivers
<1>3. Alike(a, b) /\ b.devOpen = a.devOpen /\ b.tx = a.tx /\ b.rx = a.rx /\ b.chip = a.chip
  BY DEF Alike, Drivers
<1> QED
  BY <1>1, <1>2, <1>3 DEF Tuned

LEMMA VolumeSet ==
  ASSUME NEW a \in Drivers, NEW r \in SetVolumeRegister(a)
  PROVE r \in Outcomes /\ Tuned(a, r.a) /\ (r.a.io => r.a.chipVolume = a.volume)
<1> DEFINE done == [a EXCEPT !.chipVolume = a.volume]
           noted == [a EXCEPT !.io = FALSE]
<1>1. PICK s \in May(a, done) : r = IF s.ok THEN s ELSE [s EXCEPT !.a.io = FALSE]
  BY DEF SetVolumeRegister, Tracked
<1>2. CASE s = [a |-> done, ok |-> TRUE]
  <2>1. s \in Outcomes /\ s.a = done /\ s.ok
    BY <1>2, RegisterTuned, AnOutcome
  <2> QED
    BY <1>1, <2>1, RegisterTuned
<1>3. CASE s = [a |-> a, ok |-> FALSE]
  <2>1. r = [a |-> noted, ok |-> FALSE]
    BY <1>1, <1>3
  <2>2. r \in Outcomes /\ r.a = noted
    BY <2>1, NoteTuned, AnOutcome
  <2> QED
    BY <2>2, NoteTuned
<1> QED
  BY <1>1, <1>2, <1>3 DEF May, Ok, Fail

LEMMA GainsSet ==
  ASSUME NEW a \in Drivers, NEW r \in Gains(a)
  PROVE r \in Outcomes /\ Tuned(a, r.a) /\ (r.a.io => r.a.chipVolume = a.volume)
<1>1. PICK s \in Then(Tracked(May(a, a)), SetVolumeRegister) : \E o \in BOOLEAN : r = [s EXCEPT !.ok = o]
  BY DEF Gains
<1>2. PICK q \in Tracked(May(a, a)) : s \in IF q.ok THEN SetVolumeRegister(q.a) ELSE {q}
  BY DEF Then
<1>3. /\ q \in Outcomes /\ q.a \in Drivers /\ Tuned(a, q.a) /\ (~q.ok => ~q.a.io)
  <2> DEFINE noted == [a EXCEPT !.io = FALSE]
  <2>1. PICK t \in May(a, a) : q = IF t.ok THEN t ELSE [t EXCEPT !.a.io = FALSE]
    BY DEF Tracked
  <2>2. CASE t = [a |-> a, ok |-> TRUE]
    BY <2>1, <2>2, AnOutcome, TunedSelf
  <2>3. CASE t = [a |-> a, ok |-> FALSE]
    <3>1. q = [a |-> noted, ok |-> FALSE]
      BY <2>1, <2>3
    <3>2. q \in Outcomes /\ q.a = noted
      BY <3>1, NoteTuned, AnOutcome
    <3> QED
      BY <3>2, NoteTuned
  <2> QED
    BY <2>1, <2>2, <2>3 DEF May, Ok, Fail
<1>4. s \in Outcomes /\ Tuned(a, s.a) /\ (s.a.io => s.a.chipVolume = a.volume)
  <2>1. CASE q.ok
    <3>1. s \in Outcomes /\ Tuned(q.a, s.a) /\ (s.a.io => s.a.chipVolume = q.a.volume)
      BY <1>2, <1>3, <2>1, VolumeSet
    <3>2. q.a.volume = a.volume
      BY <1>3 DEF Tuned, Same
    <3> QED
      BY <1>3, <3>1, <3>2, TunedAgain
  <2>2. CASE ~q.ok
    BY <1>2, <1>3, <2>2
  <2> QED
    BY <2>1, <2>2
<1>5. r \in Outcomes /\ r.a = s.a
  BY <1>1, <1>4 DEF Outcomes
<1> QED
  BY <1>4, <1>5

LEMMA LooseWired ==
  ASSUME NEW a, NEW b, Loose(a), b \in Drivers, Wired(a, b) PROVE Loose(b) /\ Same(a, b) /\ b.dev = a.dev
  BY LooseKept DEF Wired, Untouched, Alike

LEMMA LooseMoved ==
  ASSUME NEW a, NEW b, Loose(a), b \in Drivers, Moved(a, b) PROVE Loose(b) /\ Same(a, b) /\ b.dev = a.dev
  BY LooseKept DEF Moved, Alike

LEMMA FormatUndone ==
  ASSUME NEW a, Loose(a), NEW r \in FormatFails(a)
  PROVE r \in Outcomes /\ ~r.ok /\ Same(a, r.a) /\ Loose(r.a) /\ ~r.a.dev
<1>1. PICK u \in Void(Void(Fail(a), DeleteCodec), ForceSleep) :
        \E t \in DisableChannels(u.a) : r = [a |-> t.a, ok |-> u.ok]
  BY DEF FormatFails, Void
<1>2. PICK v \in Void(Fail(a), DeleteCodec) : \E t \in ForceSleep(v.a) : u = [a |-> t.a, ok |-> v.ok]
  BY DEF Void
<1>3. PICK w \in Fail(a) : \E t \in DeleteCodec(w.a) : v = [a |-> t.a, ok |-> w.ok]
  BY DEF Void
<1>4. w = [a |-> a, ok |-> FALSE]
  BY DEF Fail
<1>5. a \in Drivers /\ (a.devOpen => a.dev) /\ (a.shared => ~a.released)
  BY DEF Loose
<1>6. v.a \in Drivers /\ v.ok = FALSE /\ Same(a, v.a) /\ Loose(v.a) /\ ~v.a.dev
  <2>1. PICK t \in DeleteCodec(a) : v = [a |-> t.a, ok |-> FALSE]
    BY <1>3, <1>4, Zenon
  <2>2. t.a \in Drivers /\ Same(a, t.a) /\ Loose(t.a) /\ ~t.a.dev
    BY <1>5, CodecDeleted DEF Outcomes
  <2> QED
    BY <2>1, <2>2
<1>7. u.a \in Drivers /\ u.ok = FALSE /\ Same(a, u.a) /\ Loose(u.a) /\ ~u.a.dev
  <2>1. PICK t \in ForceSleep(v.a) : u = [a |-> t.a, ok |-> v.ok]
    BY <1>2
  <2>2. t.a \in Drivers /\ Moved(v.a, t.a)
    BY <1>6, SleepsByForce DEF Outcomes
  <2>3. Same(a, t.a) /\ Loose(t.a) /\ ~t.a.dev
    BY <1>6, <2>2, LooseMoved, SameAgain
  <2> QED
    BY <1>6, <2>1, <2>2, <2>3
<1>8. PICK t \in DisableChannels(u.a) : r = [a |-> t.a, ok |-> u.ok]
  BY <1>1
<1>9. t.a \in Drivers /\ Wired(u.a, t.a)
  BY <1>7, StopsBoth DEF Outcomes
<1>10. Same(a, t.a) /\ Loose(t.a) /\ ~t.a.dev
  BY <1>7, <1>9, LooseWired, SameAgain
<1> QED
  BY <1>7, <1>8, <1>9, <1>10, AnOutcome

(* The driver between two calls.                                           *)
Sane(a) ==
  /\ a \in Drivers /\ a.dev = a.codec /\ ~a.orphan
  /\ a.dev => a.initialized
  /\ a.initialized => a.ctrl /\ a.data /\ a.gpio
  /\ a.data => a.tx # "none" /\ a.rx # "none"
  /\ a.devOpen => a.dev
  /\ ~a.released => ~a.dev
  /\ a.shared => ~a.released
  /\ a.opened => a.devOpen /\ a.tx = "running" /\ a.rx = "running" /\ a.chip = a.format
  /\ a.sleeping => a.initialized /\ ~a.dev
  /\ a.sleeping /\ a.sleepOk => a.chip = Deep /\ Stopped(a)

LEMMA Closes ==
  ASSUME NEW b, Sane(b), b.io, NEW r \in Checked(IF b.opened THEN DeleteCodec(b) ELSE Ok(b))
  PROVE r \in Outcomes /\ Same(b, r.a) /\ Loose(r.a)
<1> DEFINE S == IF b.opened THEN DeleteCodec(b) ELSE Ok(b)
<1>1. b \in Drivers /\ (b.devOpen => b.dev) /\ (b.shared => ~b.released)
  BY DEF Sane
<1>2. ASSUME NEW s \in S PROVE s \in Outcomes /\ Same(b, s.a) /\ Loose(s.a)
  <2>1. CASE b.opened
    BY <1>1, <1>2, <2>1, CodecDeleted
  <2>2. CASE ~b.opened
    <3>1. s = [a |-> b, ok |-> TRUE]
      BY <1>2, <2>2 DEF Ok
    <3>2. s \in Outcomes /\ s.a = b
      BY <1>1, <3>1, AnOutcome
    <3> QED
      BY <1>1, <2>2, <3>2 DEF Sane, Loose, Same
  <2> QED
    BY <2>1, <2>2
<1>3. S \subseteq Outcomes
  BY <1>2
<1>4. PICK s \in S : r \in Outcomes /\ r.a = s.a
  BY <1>3, Checks
<1> QED
  BY <1>2, <1>4

(* The chain of bsp_audio_set_format, step by step.                        *)
LEMMA FormatOpens ==
  ASSUME NEW b, Sane(b), b.io, NEW f \in Formats,
         NEW h \in Then(Then(Checked(IF b.opened THEN DeleteCodec(b) ELSE Ok(b)), DisableChannels),
                        PrepareReopen)
  PROVE h \in Outcomes /\ Same(b, h.a) /\ Loose(h.a)
<1> DEFINE Closed == Checked(IF b.opened THEN DeleteCodec(b) ELSE Ok(b))
<1>1. PICK p \in Then(Closed, DisableChannels) : h \in IF p.ok THEN PrepareReopen(p.a) ELSE {p}
  BY DEF Then
<1>2. PICK q \in Closed : p \in IF q.ok THEN DisableChannels(q.a) ELSE {q}
  BY DEF Then
<1>3. q \in Outcomes /\ q.a \in Drivers /\ Same(b, q.a) /\ Loose(q.a)
  BY Closes DEF Outcomes
<1>4. p \in Outcomes /\ p.a \in Drivers /\ Same(b, p.a) /\ Loose(p.a)
  <2>1. CASE p \in DisableChannels(q.a)
    <3>1. p \in Outcomes /\ p.a \in Drivers /\ Wired(q.a, p.a)
      BY <1>3, <2>1, StopsBoth DEF Outcomes
    <3> QED
      BY <1>3, <3>1, LooseWired, SameAgain
  <2>2. CASE p = q
    BY <1>3, <2>2
  <2> QED
    BY <1>2, <2>1, <2>2
<1>5. CASE h \in PrepareReopen(p.a)
  <2>1. h \in Outcomes /\ h.a \in Drivers /\ Wired(p.a, h.a)
    BY <1>4, <1>5, Reopens DEF Outcomes
  <2> QED
    BY <1>4, <2>1, LooseWired, SameAgain
<1>6. CASE h = p
  BY <1>4, <1>6
<1> QED
  BY <1>1, <1>5, <1>6

LEMMA FormatMakes ==
  ASSUME NEW h \in Outcomes, Loose(h.a),
         NEW c \in IF h.ok THEN IF h.a.dev THEN Ok(h.a) ELSE CreateCodec(h.a) ELSE {h}
  PROVE c \in Outcomes /\ Same(h.a, c.a) /\ Loose(c.a) /\ (c.ok => c.a.dev)
<1>1. h.a \in Drivers /\ Same(h.a, h.a)
  BY DEF Outcomes, Same
<1>2. CASE c = h /\ ~h.ok
  BY <1>1, <1>2
<1>3. CASE h.a.dev /\ c = [a |-> h.a, ok |-> TRUE]
  BY <1>1, <1>3, AnOutcome
<1>4. CASE ~h.a.dev /\ c \in CreateCodec(h.a)
  BY <1>4, CodecCreated
<1> QED
  BY <1>2, <1>3, <1>4 DEF Ok

\* What the device is once it has been opened.
Playing(a, f) == a.dev /\ a.devOpen /\ a.tx = "running" /\ a.rx = "running" /\ a.chip = f

LEMMA FormatSets ==
  ASSUME NEW c \in Outcomes, Loose(c.a), c.ok => c.a.dev, NEW f \in Formats,
         NEW o \in IF c.ok THEN Checked(OpenDev([c.a EXCEPT !.io = TRUE], f)) ELSE {c}
  PROVE o \in Outcomes /\ Same(c.a, o.a) /\ Loose(o.a) /\ (o.ok => Playing(o.a, f))
<1>0. c.a \in Drivers
  BY DEF Outcomes
<1>1. CASE c.ok
  <2> DEFINE b == [c.a EXCEPT !.io = TRUE]
  <2>1. b \in Drivers /\ Same(c.a, b) /\ Alike(c.a, b) /\ b.devOpen = c.a.devOpen
    BY <1>0, ErrorCleared DEF Untouched
  <2>2. Loose(b) /\ b.dev /\ ~b.shared
    BY <1>1, <2>1, LooseKept DEF Alike, Loose
  <2>3. ASSUME NEW s \in OpenDev(b, f)
        PROVE /\ s \in Outcomes /\ Same(c.a, s.a) /\ Loose(s.a) /\ s.a.dev /\ s.a.devOpen
              /\ s.a.io => s.a.tx = "running" /\ s.a.rx = "running" /\ s.a.chip = f
    <3>1. /\ s \in Outcomes /\ s.a \in Drivers /\ Same(b, s.a) /\ Alike(b, s.a) /\ s.a.devOpen
          /\ s.a.io => s.a.tx = "running" /\ s.a.rx = "running" /\ (~b.shared => s.a.chip = f)
      <4>1. s \in Outcomes
        BY <2>1, DevOpens
      <4>2. s.a \in Drivers
        BY <4>1 DEF Outcomes
      <4> QED
        BY <2>1, <4>1, <4>2, DevOpens
    <3>2. s.a.dev /\ Loose(s.a)
      BY <2>2, <3>1 DEF Loose, Alike
    <3> QED
      BY <2>1, <2>2, <3>1, <3>2, SameAgain
  <2>4. OpenDev(b, f) \subseteq Outcomes
    BY <2>3
  <2>5. o \in Checked(OpenDev(b, f))
    BY <1>1
  <2> HIDE DEF b
  <2>6. PICK s \in OpenDev(b, f) : o \in Outcomes /\ o.a = s.a /\ (o.ok <=> s.ok /\ s.a.io)
    BY <2>4, <2>5, Checks
  <2> QED
    BY <2>3, <2>6 DEF Playing
<1>2. CASE ~c.ok
  BY <1>0, <1>2 DEF Same
<1> QED
  BY <1>1, <1>2

LEMMA FormatTunes ==
  ASSUME NEW f \in Formats, NEW o \in Outcomes, Loose(o.a), o.ok => Playing(o.a, f),
         NEW d \in IF o.ok THEN Checked(Gains(o.a)) ELSE {o}
  PROVE /\ d \in Outcomes /\ Same(o.a, d.a) /\ Loose(d.a)
        /\ d.ok => Playing(d.a, f) /\ d.a.chipVolume = d.a.volume
<1>0. o.a \in Drivers
  BY DEF Outcomes
<1>1. CASE o.ok
  <2>1. ASSUME NEW s \in Gains(o.a)
        PROVE /\ s \in Outcomes /\ Same(o.a, s.a) /\ Loose(s.a) /\ Playing(s.a, f)
              /\ s.a.io => s.a.chipVolume = s.a.volume
    <3>1. s \in Outcomes /\ s.a \in Drivers /\ Tuned(o.a, s.a) /\ (s.a.io => s.a.chipVolume = o.a.volume)
      BY <1>0, GainsSet DEF Outcomes
    <3>2. Loose(s.a)
      BY <3>1, LooseKept DEF Tuned
    <3> QED
      BY <1>1, <3>1, <3>2 DEF Tuned, Same, Alike, Playing
  <2>2. Gains(o.a) \subseteq Outcomes
    BY <2>1
  <2>3. PICK s \in Gains(o.a) : d \in Outcomes /\ d.a = s.a /\ (d.ok <=> s.ok /\ s.a.io)
    BY <1>1, <2>2, Checks
  <2> QED
    BY <2>1, <2>3
<1>2. CASE ~o.ok
  BY <1>0, <1>2 DEF Same
<1> QED
  BY <1>1, <1>2

\* What a change of format leaves alone.
Held(a, b) ==
  /\ b.initialized = a.initialized /\ b.sleeping = a.sleeping /\ b.sleepOk = a.sleepOk
  /\ b.volume = a.volume /\ b.parked = a.parked

LEMMA Undone ==
  ASSUME NEW a, NEW b, Sane(a), Same(a, b), Loose(b), ~b.dev, ~a.sleeping PROVE Sane(b) /\ Held(a, b)
  BY DEF Sane, Same, Loose, Held

SetTo(a, f) == [a EXCEPT !.opened = TRUE, !.format = f]

LEMMA Opens ==
  ASSUME NEW a, NEW b, NEW f \in Formats, Sane(a), a.initialized, ~a.sleeping,
         Same(a, b), Loose(b), Playing(b, f), b.chipVolume = b.volume
  PROVE LET c == SetTo(b, f)
        IN Sane(c) /\ Held(a, c) /\ c.opened /\ c.dev /\ c.chip = f /\ c.chipVolume = c.volume
<1> DEFINE c == SetTo(b, f)
<1>1. b \in Drivers
  BY DEF Loose
<1>2. c \in Drivers /\ c.opened = TRUE /\ c.format = f
  <2> DEFINE d == [b EXCEPT !.opened = TRUE]
  <2>1. d \in Drivers /\ d.opened = TRUE
    BY <1>1 DEF Drivers
  <2>2. c = [d EXCEPT !.format = f]
    BY DEF SetTo
  <2> HIDE DEF c, d
  <2> QED
    BY <2>1, <2>2 DEF Drivers
<1>3. /\ c.dev = b.dev /\ c.codec = b.codec /\ c.orphan = b.orphan /\ c.initialized = b.initialized
      /\ c.ctrl = b.ctrl /\ c.data = b.data /\ c.gpio = b.gpio /\ c.tx = b.tx /\ c.rx = b.rx
  BY <1>1 DEF SetTo, Drivers
<1>4. /\ c.devOpen = b.devOpen /\ c.released = b.released /\ c.shared = b.shared /\ c.chip = b.chip
      /\ c.sleeping = b.sleeping /\ c.sleepOk = b.sleepOk /\ c.volume = b.volume
      /\ c.chipVolume = b.chipVolume /\ c.parked = b.parked
  BY <1>1 DEF SetTo, Drivers
<1>5. Sane(c)
  BY <1>2, <1>3, <1>4 DEF Sane, Same, Loose, Playing
<1> QED
  BY <1>2, <1>3, <1>4, <1>5 DEF Held, Same, Playing

LEMMA FormatSet ==
  ASSUME NEW a, Sane(a), NEW f \in Formats, NEW r \in SetFormat(a, f)
  PROVE /\ r \in Outcomes /\ Sane(r.a) /\ Held(a, r.a)
        /\ r.ok => r.a.dev /\ r.a.opened
        /\ r.ok /\ ~a.opened => r.a.chip = f /\ r.a.chipVolume = r.a.volume
        /\ ~r.ok => r.a = a \/ ~r.a.dev
        /\ a.initialized /\ ~a.sleeping /\ ~a.dev /\ ~r.ok => ~r.a.dev
<1>0. a \in Drivers /\ Held(a, a)
  BY DEF Sane, Held
<1>1. CASE (~a.initialized \/ a.sleeping) /\ r = [a |-> a, ok |-> FALSE]
  BY <1>0, <1>1, AnOutcome
<1>2. CASE SameFormat(a, f) /\ r = [a |-> a, ok |-> TRUE]
  BY <1>0, <1>2, AnOutcome DEF SameFormat, Sane
<1>3. CASE a.initialized /\ ~a.sleeping /\ ~SameFormat(a, f)
  <2> DEFINE b == [a EXCEPT !.io = TRUE]
             Closed == Checked(IF b.opened THEN DeleteCodec(b) ELSE Ok(b))
             Channels == Then(Then(Closed, DisableChannels), PrepareReopen)
             make(x) == IF x.dev THEN Ok(x) ELSE CreateCodec(x)
             Created == Then(Channels, make)
             open(x) == Checked(OpenDev([x EXCEPT !.io = TRUE], f))
             Open == Then(Created, open)
             tune(x) == Checked(Gains(x))
             Done == Then(Open, tune)
             set(x) == Ok([x EXCEPT !.opened = TRUE, !.format = f])
  <2>1. PICK s \in Then(Done, set) : r \in IF s.ok THEN {s} ELSE FormatFails(s.a)
    BY <1>3 DEF SetFormat, Else
  <2>2. PICK d \in Done : s \in IF d.ok THEN set(d.a) ELSE {d}
    BY DEF Then
  <2>3. PICK o \in Open : d \in IF o.ok THEN tune(o.a) ELSE {o}
    BY DEF Then
  <2>4. PICK c \in Created : o \in IF c.ok THEN open(c.a) ELSE {c}
    BY DEF Then
  <2>5. PICK h \in Channels : c \in IF h.ok THEN make(h.a) ELSE {h}
    BY DEF Then
  <2>6. /\ b \in Drivers /\ Same(a, b) /\ Alike(a, b) /\ Untouched(a, b) /\ b.tx = a.tx /\ b.rx = a.rx
        /\ b.io
    BY <1>0, ErrorCleared
  <2>7. Sane(b)
    BY <2>6 DEF Sane, Same, Alike, Untouched, Stopped
  <2>8. h \in Outcomes /\ Same(b, h.a) /\ Loose(h.a)
    BY <2>6, <2>7, FormatOpens
  <2>9. c \in Outcomes /\ Same(h.a, c.a) /\ Loose(c.a) /\ (c.ok => c.a.dev)
    BY <2>5, <2>8, FormatMakes
  <2>10. o \in Outcomes /\ Same(c.a, o.a) /\ Loose(o.a) /\ (o.ok => Playing(o.a, f))
    BY <2>4, <2>9, FormatSets
  <2>11. /\ d \in Outcomes /\ Same(o.a, d.a) /\ Loose(d.a)
         /\ d.ok => Playing(d.a, f) /\ d.a.chipVolume = d.a.volume
    BY <2>3, <2>10, FormatTunes
  <2>12. Same(a, d.a)
    BY <2>6, <2>8, <2>9, <2>10, <2>11, SameAgain
  <2>13. CASE d.ok
    <3> DEFINE e == SetTo(d.a, f)
    <3>1. Sane(e) /\ Held(a, e) /\ e.opened /\ e.dev /\ e.chip = f /\ e.chipVolume = e.volume
      <4>1. a.initialized /\ ~a.sleeping /\ Loose(d.a) /\ Playing(d.a, f) /\ d.a.chipVolume = d.a.volume
        BY <1>3, <2>11, <2>13
      <4> QED
        BY <2>12, <4>1, Opens
    <3>2. e \in Drivers
      BY <3>1 DEF Sane
    <3>3. s = [a |-> e, ok |-> TRUE]
      BY <2>2, <2>13 DEF Ok, SetTo
    <3>4. s \in Outcomes /\ s.a = e /\ s.ok
      BY <3>2, <3>3, AnOutcome
    <3>5. r = s
      BY <2>1, <3>4
    <3> QED
      BY <3>1, <3>4, <3>5
  <2>14. CASE ~d.ok
    <3>1. r \in FormatFails(d.a)
      BY <2>1, <2>2, <2>14
    <3>2. r \in Outcomes /\ ~r.ok /\ Same(d.a, r.a) /\ Loose(r.a) /\ ~r.a.dev
      BY <2>11, <3>1, FormatUndone
    <3>3. Same(a, r.a)
      BY <2>12, <3>2, SameAgain
    <3> QED
      BY <1>3, <3>2, <3>3, Undone
  <2> QED
    BY <2>13, <2>14
<1> QED
  BY <1>1, <1>2, <1>3 DEF SetFormat, Fail, Ok

(* bsp_audio_sleep: whatever of it fails, nothing is left to play with;    *)
(* success means that the chip sleeps and both channels stand still.       *)
LEMMA GoesToSleep ==
  ASSUME NEW a, Sane(a), NEW s \in Asleep(a)
  PROVE /\ s \in Outcomes /\ Same(a, s.a) /\ Loose(s.a) /\ ~s.a.dev
        /\ s.ok => s.a.chip = Deep /\ Stopped(s.a)
<1> DEFINE b == [a EXCEPT !.io = TRUE]
           Freed == Checked(DeleteCodec(b))
           Forced == Both(Freed, ForceSleep)
<1>1. PICK q \in Forced : \E p \in DisableChannels(q.a) : s = [a |-> p.a, ok |-> q.ok /\ p.ok]
  BY DEF Asleep, Both
<1>2. PICK p \in DisableChannels(q.a) : s = [a |-> p.a, ok |-> q.ok /\ p.ok]
  BY <1>1
<1>3. PICK u \in Freed : \E v \in ForceSleep(u.a) : q = [a |-> v.a, ok |-> u.ok /\ v.ok]
  BY DEF Both
<1>4. PICK v \in ForceSleep(u.a) : q = [a |-> v.a, ok |-> u.ok /\ v.ok]
  BY <1>3
<1>5. /\ b \in Drivers /\ Same(a, b) /\ (b.devOpen => b.dev) /\ (b.shared => ~b.released)
  BY ErrorCleared DEF Sane, Alike, Untouched
<1>6. u \in Outcomes /\ u.a \in Drivers /\ Same(b, u.a) /\ Loose(u.a) /\ ~u.a.dev
  <2>1. ASSUME NEW x \in DeleteCodec(b) PROVE x \in Outcomes /\ Same(b, x.a) /\ Loose(x.a) /\ ~x.a.dev
    BY <1>5, CodecDeleted
  <2>2. DeleteCodec(b) \subseteq Outcomes
    BY <2>1
  <2>3. PICK x \in DeleteCodec(b) : u \in Outcomes /\ u.a = x.a
    BY <2>2, Checks
  <2> QED
    BY <2>1, <2>3 DEF Outcomes
<1>7. v \in Outcomes /\ v.a \in Drivers /\ Moved(u.a, v.a) /\ (v.ok => v.a.chip = Deep)
  BY <1>6, SleepsByForce DEF Outcomes
<1>8. q \in Outcomes /\ q.a = v.a /\ (q.ok <=> u.ok /\ v.ok)
  BY <1>4, <1>6, <1>7, Together
<1>9. Same(a, v.a) /\ Loose(v.a) /\ ~v.a.dev
  BY <1>5, <1>6, <1>7, LooseMoved, SameAgain
<1>10. p \in Outcomes /\ p.a \in Drivers /\ Wired(v.a, p.a) /\ (p.ok => Stopped(p.a))
  BY <1>7, <1>8, StopsBoth DEF Outcomes
<1>11. s \in Outcomes /\ s.a = p.a /\ (s.ok <=> q.ok /\ p.ok)
  BY <1>2, <1>8, <1>10, Together
<1>12. Same(a, p.a) /\ Loose(p.a) /\ ~p.a.dev
  BY <1>9, <1>10, LooseWired, SameAgain
<1>13. p.a.chip = v.a.chip
  BY <1>10 DEF Wired, Untouched
<1> QED
  BY <1>7, <1>8, <1>10, <1>11, <1>12, <1>13

Resting(a, o) == [a EXCEPT !.sleeping = TRUE, !.sleepOk = o]

LEMMA Rests ==
  ASSUME NEW a, NEW b, NEW o \in BOOLEAN, Sane(a), a.initialized, Same(a, b), Loose(b), ~b.dev,
         o => b.chip = Deep /\ Stopped(b)
  PROVE Sane(Resting(b, o))
<1> DEFINE c == Resting(b, o)
<1>1. b \in Drivers
  BY DEF Loose
<1>2. c \in Drivers /\ c.sleeping = TRUE /\ c.sleepOk = o
  BY <1>1 DEF Resting, Drivers
<1>3. /\ c.dev = b.dev /\ c.codec = b.codec /\ c.orphan = b.orphan /\ c.initialized = b.initialized
      /\ c.ctrl = b.ctrl /\ c.data = b.data /\ c.gpio = b.gpio /\ c.tx = b.tx /\ c.rx = b.rx
  BY <1>1 DEF Resting, Drivers
<1>4. /\ c.devOpen = b.devOpen /\ c.released = b.released /\ c.shared = b.shared /\ c.chip = b.chip
      /\ c.opened = b.opened
  BY <1>1 DEF Resting, Drivers
<1> QED
  BY <1>2, <1>3, <1>4 DEF Sane, Same, Loose, Stopped

LEMMA Sleeps ==
  ASSUME NEW a, Sane(a), NEW r \in AudioSleep(a) PROVE r \in Outcomes /\ Sane(r.a)
<1>0. a \in Drivers
  BY DEF Sane
<1>1. CASE ~a.initialized /\ r = [a |-> a, ok |-> TRUE]
  BY <1>0, <1>1, AnOutcome
<1>2. CASE r \in [a : {a}, ok : {a.sleepOk}]
  <2>1. r.a = a /\ r = [a |-> a, ok |-> a.sleepOk] /\ a.sleepOk \in BOOLEAN
    BY <1>0, <1>2 DEF Drivers
  <2> QED
    BY <1>0, <2>1, AnOutcome
<1>3. CASE a.initialized /\ \E s \in Asleep(a) : r = [s EXCEPT !.a.sleeping = TRUE, !.a.sleepOk = s.ok]
  <2>1. PICK s \in Asleep(a) : r = [s EXCEPT !.a.sleeping = TRUE, !.a.sleepOk = s.ok]
    BY <1>3
  <2>2. /\ s \in Outcomes /\ s.a \in Drivers /\ s.ok \in BOOLEAN /\ Same(a, s.a) /\ Loose(s.a) /\ ~s.a.dev
        /\ s.ok => s.a.chip = Deep /\ Stopped(s.a)
    BY GoesToSleep DEF Outcomes
  <2>3. r = [a |-> Resting(s.a, s.ok), ok |-> s.ok]
    BY <2>1, <2>2 DEF Resting, Outcomes
  <2>4. Sane(Resting(s.a, s.ok))
    BY <1>3, <2>2, Rests
  <2>5. Resting(s.a, s.ok) \in Drivers
    BY <2>4 DEF Sane
  <2> QED
    BY <2>2, <2>3, <2>4, <2>5, AnOutcome
<1> QED
  BY <1>1, <1>2, <1>3 DEF AudioSleep, Ok

(* bsp_audio_wake: it plays again as before, or it is asleep again.        *)
Awake(a) == [a EXCEPT !.sleeping = FALSE]
Woken(a) == [a EXCEPT !.sleepOk = TRUE]
Stays(a) == [a EXCEPT !.opened = FALSE, !.sleeping = TRUE, !.sleepOk = FALSE]

LEMMA Wakens ==
  ASSUME NEW a, Sane(a)
  PROVE LET b == Awake(a) IN Sane(b) /\ ~b.sleeping /\ b.initialized = a.initialized /\ b.volume = a.volume
                             /\ b.dev = a.dev /\ b.opened = a.opened
<1> DEFINE b == Awake(a)
<1>0. a \in Drivers
  BY DEF Sane
<1>1. b \in Drivers /\ b.sleeping = FALSE
  BY <1>0 DEF Awake, Drivers
<1>2. /\ b.dev = a.dev /\ b.codec = a.codec /\ b.orphan = a.orphan /\ b.initialized = a.initialized
      /\ b.ctrl = a.ctrl /\ b.data = a.data /\ b.gpio = a.gpio /\ b.tx = a.tx /\ b.rx = a.rx
  BY <1>0 DEF Awake, Drivers
<1>3. /\ b.devOpen = a.devOpen /\ b.released = a.released /\ b.shared = a.shared /\ b.chip = a.chip
      /\ b.opened = a.opened /\ b.format = a.format /\ b.volume = a.volume
  BY <1>0 DEF Awake, Drivers
<1> QED
  BY <1>1, <1>2, <1>3 DEF Sane

LEMMA IsWoken ==
  ASSUME NEW a, Sane(a), ~a.sleeping
  PROVE LET b == Woken(a)
        IN /\ Sane(b) /\ b.opened = a.opened /\ b.dev = a.dev /\ ~b.sleeping /\ b.chip = a.chip
           /\ b.chipVolume = a.chipVolume /\ b.volume = a.volume
<1> DEFINE b == Woken(a)
<1>0. a \in Drivers
  BY DEF Sane
<1>1. b \in Drivers /\ b.sleepOk = TRUE /\ b.chipVolume = a.chipVolume /\ b.volume = a.volume
  BY <1>0 DEF Woken, Drivers
<1>2. /\ b.dev = a.dev /\ b.codec = a.codec /\ b.orphan = a.orphan /\ b.initialized = a.initialized
      /\ b.ctrl = a.ctrl /\ b.data = a.data /\ b.gpio = a.gpio /\ b.tx = a.tx /\ b.rx = a.rx
  BY <1>0 DEF Woken, Drivers
<1>3. /\ b.devOpen = a.devOpen /\ b.released = a.released /\ b.shared = a.shared /\ b.chip = a.chip
      /\ b.opened = a.opened /\ b.format = a.format /\ b.sleeping = a.sleeping
  BY <1>0 DEF Woken, Drivers
<1> QED
  BY <1>1, <1>2, <1>3 DEF Sane

LEMMA StaysAsleep ==
  ASSUME NEW a, Sane(a), a.initialized, ~a.dev PROVE Sane(Stays(a))
<1> DEFINE b == Stays(a)
<1>0. a \in Drivers
  BY DEF Sane
<1>1. b \in Drivers /\ b.opened = FALSE /\ b.sleeping = TRUE /\ b.sleepOk = FALSE
  BY <1>0 DEF Stays, Drivers
<1>2. /\ b.dev = a.dev /\ b.codec = a.codec /\ b.orphan = a.orphan /\ b.initialized = a.initialized
      /\ b.ctrl = a.ctrl /\ b.data = a.data /\ b.gpio = a.gpio /\ b.tx = a.tx /\ b.rx = a.rx
  BY <1>0 DEF Stays, Drivers
<1>3. b.devOpen = a.devOpen /\ b.released = a.released /\ b.shared = a.shared
  BY <1>0 DEF Stays, Drivers
<1> QED
  BY <1>1, <1>2, <1>3 DEF Sane

LEMMA Wakes ==
  ASSUME NEW a, Sane(a), NEW r \in AudioWake(a)
  PROVE /\ r \in Outcomes /\ Sane(r.a)
        /\ r.ok /\ a.initialized /\ a.sleeping =>
             /\ MayPlay(r.a) /\ r.a.chipVolume = r.a.volume /\ r.a.volume = a.volume
             /\ a.format # 0 => r.a.chip = a.format
<1>0. a \in Drivers
  BY DEF Sane
<1>1. CASE (~a.initialized \/ ~a.sleeping) /\ r = [a |-> a, ok |-> TRUE]
  BY <1>0, <1>1, AnOutcome
<1>2. CASE a.initialized /\ a.sleeping
  <2> DEFINE b == Awake(a)
             f == IF a.format = 0 THEN 1 ELSE a.format
  <2>1. PICK s \in SetFormat(b, f) :
          r = IF s.ok THEN [s EXCEPT !.a.sleepOk = TRUE]
              ELSE [s EXCEPT !.a.opened = FALSE, !.a.sleeping = TRUE, !.a.sleepOk = FALSE]
    BY <1>2 DEF AudioWake, Awake
  <2>2. f \in Formats
    BY <1>0, AudioAssumption DEF AudioAssumption, Drivers
  <2>3. Sane(b) /\ ~b.sleeping /\ b.initialized /\ b.volume = a.volume /\ ~b.dev /\ ~b.opened
    BY <1>2, Wakens DEF Sane
  <2>4. /\ s \in Outcomes /\ s.a \in Drivers /\ Sane(s.a) /\ Held(b, s.a)
        /\ s.ok => s.a.dev /\ s.a.opened /\ s.a.chip = f /\ s.a.chipVolume = s.a.volume
        /\ ~s.ok => ~s.a.dev
    <3> HIDE DEF b, f
    <3>1. s \in Outcomes
      BY <2>2, <2>3, FormatSet
    <3> QED
      BY <2>2, <2>3, <3>1, FormatSet DEF Outcomes
  <2>5. ~s.a.sleeping /\ s.a.initialized /\ s.a.volume = a.volume
    BY <2>3, <2>4 DEF Held
  <2>6. CASE s.ok
    <3> DEFINE c == Woken(s.a)
    <3>1. r = [a |-> c, ok |-> TRUE]
      BY <2>1, <2>4, <2>6 DEF Woken, Outcomes
    <3>2. /\ Sane(c) /\ c.opened /\ c.dev /\ ~c.sleeping /\ c.chip = f
          /\ c.chipVolume = c.volume /\ c.volume = a.volume
      BY <2>4, <2>5, <2>6, IsWoken
    <3>3. c \in Drivers
      BY <3>2 DEF Sane
    <3>4. r \in Outcomes /\ r.a = c
      BY <3>1, <3>3, AnOutcome
    <3> QED
      BY <3>2, <3>4 DEF MayPlay
  <2>7. CASE ~s.ok
    <3>1. r = [a |-> Stays(s.a), ok |-> FALSE]
      BY <2>1, <2>4, <2>7 DEF Stays, Outcomes
    <3>2. Sane(Stays(s.a))
      BY <2>4, <2>5, <2>7, StaysAsleep
    <3>3. Stays(s.a) \in Drivers
      BY <3>2 DEF Sane
    <3> QED
      BY <3>1, <3>2, <3>3, AnOutcome
  <2> QED
    BY <2>6, <2>7
<1> QED
  BY <1>1, <1>2 DEF AudioWake, Ok

LEMMA VolumeKept ==
  ASSUME NEW a, Sane(a), NEW v \in 0 .. 100 PROVE Sane([a EXCEPT !.volume = v])
<1> DEFINE b == [a EXCEPT !.volume = v]
<1>0. a \in Drivers
  BY DEF Sane
<1>1. b \in Drivers
  BY <1>0 DEF Drivers
<1>2. /\ b.dev = a.dev /\ b.codec = a.codec /\ b.orphan = a.orphan /\ b.initialized = a.initialized
      /\ b.ctrl = a.ctrl /\ b.data = a.data /\ b.gpio = a.gpio /\ b.tx = a.tx /\ b.rx = a.rx
  BY <1>0 DEF Drivers
<1>3. /\ b.devOpen = a.devOpen /\ b.released = a.released /\ b.shared = a.shared /\ b.chip = a.chip
      /\ b.opened = a.opened /\ b.format = a.format /\ b.sleeping = a.sleeping /\ b.sleepOk = a.sleepOk
  BY <1>0 DEF Drivers
<1> QED
  BY <1>1, <1>2, <1>3 DEF Sane, Stopped

LEMMA SaneTuned == ASSUME NEW a, NEW b, Sane(a), b \in Drivers, Tuned(a, b) PROVE Sane(b)
  BY DEF Sane, Tuned, Same, Alike, Stopped

LEMMA Louder ==
  ASSUME NEW a, Sane(a), NEW p \in Percents, NEW r \in SetVolume(a, p) PROVE r \in Outcomes /\ Sane(r.a)
<1> DEFINE b == [a EXCEPT !.volume = Limited(p)]
<1>1. Limited(p) \in 0 .. 100
  BY AudioAssumption DEF AudioAssumption, Limited
<1>2. Sane(b)
  BY <1>1, VolumeKept
<1>3. b \in Drivers
  BY <1>2 DEF Sane
<1>4. CASE r \in SetVolumeRegister(b)
  <2>1. r \in Outcomes /\ Tuned(b, r.a) /\ r.a \in Drivers
    BY <1>3, <1>4, VolumeSet DEF Outcomes
  <2> QED
    BY <1>2, <2>1, SaneTuned
<1>5. CASE r = [a |-> b, ok |-> TRUE]
  BY <1>2, <1>3, <1>5, AnOutcome
<1> QED
  BY <1>4, <1>5 DEF SetVolume, Ok

LEMMA Parks ==
  ASSUME NEW a, Sane(a), a.sleeping \/ ~a.initialized, NEW r \in Park(a) PROVE r \in Outcomes /\ Sane(r.a)
<1>0. a \in Drivers
  BY DEF Sane
<1> DEFINE high(x) == [x EXCEPT !.parked = TRUE]
           may(x) == May(x, high(x))
<1>1. PICK q \in DisableChannels(a) : \E p \in May(q.a, high(q.a)) : r = [a |-> p.a, ok |-> q.ok /\ p.ok]
  BY DEF Park, Both
<1>2. PICK p \in May(q.a, high(q.a)) : r = [a |-> p.a, ok |-> q.ok /\ p.ok]
  BY <1>1
<1>3. q \in Outcomes /\ q.a \in Drivers /\ Wired(a, q.a) /\ (Stopped(a) => Stopped(q.a))
  BY <1>0, StopsBoth DEF Outcomes
<1>4. Sane(q.a)
  BY <1>3 DEF Sane, Wired, Same, Alike, Untouched
<1>5. high(q.a) \in Drivers /\ Sane(high(q.a))
  <2> DEFINE c == q.a
             b == high(c)
  <2>1. b \in Drivers
    BY <1>3 DEF Drivers
  <2>2. /\ b.dev = c.dev /\ b.codec = c.codec /\ b.orphan = c.orphan /\ b.initialized = c.initialized
        /\ b.ctrl = c.ctrl /\ b.data = c.data /\ b.gpio = c.gpio /\ b.tx = c.tx /\ b.rx = c.rx
    BY <1>3 DEF Drivers
  <2>3. /\ b.devOpen = c.devOpen /\ b.released = c.released /\ b.shared = c.shared /\ b.chip = c.chip
        /\ b.opened = c.opened /\ b.format = c.format /\ b.sleeping = c.sleeping /\ b.sleepOk = c.sleepOk
    BY <1>3 DEF Drivers
  <2> QED
    BY <1>4, <2>1, <2>2, <2>3 DEF Sane, Stopped
<1>6. p \in Outcomes /\ Sane(p.a)
  <2>1. CASE p = [a |-> high(q.a), ok |-> TRUE]
    BY <1>5, <2>1, AnOutcome
  <2>2. CASE p = [a |-> q.a, ok |-> FALSE]
    BY <1>3, <1>4, <2>2, AnOutcome
  <2> QED
    BY <2>1, <2>2 DEF May, Ok, Fail
<1> QED
  BY <1>2, <1>3, <1>6, Together

(* The way out of an init: nothing of the codec is there.                  *)
Empty(a) ==
  /\ a \in Drivers /\ ~a.dev /\ ~a.codec /\ ~a.opened /\ ~a.devOpen /\ ~a.orphan /\ ~a.data
  /\ a.shared => ~a.released

LEMMA EmptyWired == ASSUME NEW a, NEW b, Empty(a), b \in Drivers, Wired(a, b) PROVE Empty(b)
  BY DEF Empty, Wired, Same, Alike, Untouched

LEMMA TxGone == ASSUME NEW a, Empty(a) PROVE Empty([a EXCEPT !.tx = "none"])
  BY DEF Empty, Drivers, Channel

LEMMA RxGone == ASSUME NEW a, Empty(a) PROVE Empty([a EXCEPT !.rx = "none"])
  BY DEF Empty, Drivers, Channel

LEMMA TxDeleted ==
  ASSUME NEW a, Empty(a), NEW r \in DeleteChannel(a, "tx") PROVE r.a \in Drivers /\ Empty(r.a)
<1>0. a \in Drivers
  BY DEF Empty
<1>1. CASE r = [a |-> a, ok |-> TRUE]
  BY <1>0, <1>1
<1>2. CASE a.tx # "none"
  <2> DEFINE del(x) == IF x["tx"] = "ready" THEN May(x, [x EXCEPT !["tx"] = "none"]) ELSE Fail(x)
  <2>1. PICK q \in Disable(a, "tx") : \E p \in del(q.a) : r = [a |-> p.a, ok |-> q.ok]
    BY <1>2 DEF DeleteChannel, Void
  <2>2. q.a \in Drivers /\ Empty(q.a)
    BY <1>0, TxDisable, EmptyWired DEF Outcomes
  <2>3. PICK p \in del(q.a) : r = [a |-> p.a, ok |-> q.ok]
    BY <2>1
  <2>4. p.a = q.a \/ p.a = [q.a EXCEPT !.tx = "none"]
    BY <2>3 DEF May, Ok, Fail
  <2>5. r.a = p.a
    BY <2>3
  <2>6. Empty(r.a)
    BY <2>2, <2>4, <2>5, TxGone
  <2> QED
    BY <2>6 DEF Empty
<1> QED
  BY <1>1, <1>2 DEF DeleteChannel, Ok

LEMMA RxDeleted ==
  ASSUME NEW a, Empty(a), NEW r \in DeleteChannel(a, "rx") PROVE r.a \in Drivers /\ Empty(r.a)
<1>0. a \in Drivers
  BY DEF Empty
<1>1. CASE r = [a |-> a, ok |-> TRUE]
  BY <1>0, <1>1
<1>2. CASE a.rx # "none"
  <2> DEFINE del(x) == IF x["rx"] = "ready" THEN May(x, [x EXCEPT !["rx"] = "none"]) ELSE Fail(x)
  <2>1. PICK q \in Disable(a, "rx") : \E p \in del(q.a) : r = [a |-> p.a, ok |-> q.ok]
    BY <1>2 DEF DeleteChannel, Void
  <2>2. q.a \in Drivers /\ Empty(q.a)
    BY <1>0, RxDisable, EmptyWired DEF Outcomes
  <2>3. PICK p \in del(q.a) : r = [a |-> p.a, ok |-> q.ok]
    BY <2>1
  <2>4. p.a = q.a \/ p.a = [q.a EXCEPT !.rx = "none"]
    BY <2>3 DEF May, Ok, Fail
  <2>5. r.a = p.a
    BY <2>3
  <2>6. Empty(r.a)
    BY <2>2, <2>4, <2>5, RxGone
  <2> QED
    BY <2>6 DEF Empty
<1> QED
  BY <1>1, <1>2 DEF DeleteChannel, Ok

NoPins(a) == [a EXCEPT !.gpio = FALSE, !.data = FALSE]
Cleared(a) ==
  [a EXCEPT !.ctrl = FALSE, !.sleeping = FALSE, !.initialized = FALSE, !.sleepOk = TRUE,
            !.volume = 0, !.format = 0]

LEMMA PinsGone == ASSUME NEW a, Loose(a), ~a.dev, ~a.orphan PROVE Empty(NoPins(a))
<1>1. a \in Drivers
  BY DEF Loose
<1>2. NoPins(a) \in Drivers /\ NoPins(a).data = FALSE
  BY <1>1 DEF NoPins, Drivers
<1>3. /\ NoPins(a).dev = a.dev /\ NoPins(a).codec = a.codec /\ NoPins(a).opened = a.opened
      /\ NoPins(a).devOpen = a.devOpen /\ NoPins(a).orphan = a.orphan /\ NoPins(a).shared = a.shared
      /\ NoPins(a).released = a.released
  BY <1>1 DEF NoPins, Drivers
<1> QED
  BY <1>1, <1>2, <1>3 DEF Empty, Loose, Drivers

LEMMA AllGone == ASSUME NEW a, Empty(a) PROVE Sane(Cleared(a))
<1> DEFINE b == Cleared(a)
<1>1. a \in Drivers
  BY DEF Empty
<1>2. b.initialized = FALSE /\ b.sleeping = FALSE
  BY <1>1 DEF Cleared, Drivers
<1>3. b \in Drivers
  <2>1. 0 \in 0 .. 100
    OBVIOUS
  <2> QED
    BY <1>1, <2>1 DEF Cleared, Drivers
<1>4. /\ b.dev = a.dev /\ b.codec = a.codec /\ b.opened = a.opened /\ b.data = a.data
      /\ b.devOpen = a.devOpen /\ b.orphan = a.orphan /\ b.shared = a.shared /\ b.released = a.released
  BY <1>1 DEF Cleared, Drivers
<1> QED
  BY <1>1, <1>2, <1>3, <1>4 DEF Empty, Sane, Drivers

LEMMA CleansUp ==
  ASSUME NEW a \in Drivers, a.devOpen => a.dev, a.shared => ~a.released, ~a.orphan, NEW r \in Cleanup(a)
  PROVE r \in Outcomes /\ ~r.ok /\ Sane(r.a)
<1> DEFINE noRx(x) == DeleteChannel(x, "rx")
           clear(x) == UNION {Fail([t.a EXCEPT !.ctrl = FALSE, !.sleeping = FALSE, !.initialized = FALSE,
                                              !.sleepOk = TRUE, !.volume = 0, !.format = 0]) :
                              t \in DeleteChannel(x, "tx")}
           rest(x) == Void(Void(Fail([x EXCEPT !.gpio = FALSE, !.data = FALSE]), noRx), clear)
<1>1. PICK q \in DeleteCodec(a) : r \in IF q.ok THEN rest(q.a) ELSE {q}
  BY DEF Cleanup, Then
<1>2. q \in Outcomes /\ q.ok /\ Same(a, q.a) /\ Loose(q.a) /\ ~q.a.dev
  BY CodecDeleted
<1>3. Empty(NoPins(q.a))
  BY <1>2, PinsGone DEF Same
<1>4. PICK u \in Void(Fail(NoPins(q.a)), noRx) : \E v \in clear(u.a) : r = [a |-> v.a, ok |-> u.ok]
  BY <1>1, <1>2 DEF Void, NoPins
<1>5. PICK w \in Fail(NoPins(q.a)) : \E v \in noRx(w.a) : u = [a |-> v.a, ok |-> w.ok]
  BY DEF Void
<1>6. w.a = NoPins(q.a) /\ w.ok = FALSE
  <2>1. w = [a |-> NoPins(q.a), ok |-> FALSE]
    BY DEF Fail
  <2> QED
    BY <2>1
<1>7. PICK v \in noRx(w.a) : u = [a |-> v.a, ok |-> w.ok]
  BY <1>5
<1>8. Empty(v.a)
  BY <1>3, <1>6, RxDeleted
<1>9. u.a = v.a /\ u.ok = w.ok
  BY <1>7
<1>10. PICK x \in clear(u.a) : r = [a |-> x.a, ok |-> u.ok]
  BY <1>4
<1>11. PICK t \in DeleteChannel(u.a, "tx") : x = [a |-> Cleared(t.a), ok |-> FALSE]
  BY DEF Fail, Cleared
<1>12. Sane(Cleared(t.a))
  BY <1>8, <1>9, TxDeleted, AllGone
<1>13. x.a = Cleared(t.a)
  BY <1>11
<1>14. r = [a |-> Cleared(t.a), ok |-> FALSE]
  BY <1>6, <1>9, <1>10, <1>13
<1>15. Cleared(t.a) \in Drivers
  BY <1>12 DEF Sane
<1> QED
  BY <1>12, <1>14, <1>15, AnOutcome

(* bsp_audio_init on its way: the port is there and nothing plays.         *)
Begun(a) ==
  /\ Loose(a) /\ ~a.orphan /\ ~a.initialized /\ ~a.sleeping /\ a.ctrl
  /\ a.data => a.tx # "none" /\ a.rx # "none"

LEMMA BegunSame == ASSUME NEW a, NEW b, Begun(a), Loose(b), Same(a, b) PROVE Begun(b)
  BY DEF Begun, Same

LEMMA BegunWired == ASSUME NEW a, NEW b, Begun(a), b \in Drivers, Wired(a, b) PROVE Begun(b)
  BY LooseWired, BegunSame DEF Begun

Made(a) ==
  [a EXCEPT !.tx = "ready", !.rx = "ready", !.orphan = @ \/ a.tx # "none" \/ a.rx # "none"]
WithPort(a) == [a EXCEPT !.ctrl = TRUE]
WithData(a) == [a EXCEPT !.data = TRUE]
WithPins(a) == [a EXCEPT !.gpio = TRUE]
Ready(a) == [a EXCEPT !.initialized = TRUE]

LEMMA ChannelsNew ==
  ASSUME NEW a, Begun(a), a.tx = "none", a.rx = "none"
  PROVE /\ Begun(Made(a)) /\ Made(a) \in Drivers /\ Made(a).dev = a.dev
        /\ Made(a).tx # "none" /\ Made(a).rx # "none"
<1> DEFINE b == Made(a)
<1>1. a \in Drivers
  BY DEF Begun, Loose
<1>2. b.tx = "ready" /\ b.rx = "ready"
  BY <1>1 DEF Made, Drivers
<1>3. ~b.orphan
  <2>1. b.orphan = (a.orphan \/ a.tx # "none" \/ a.rx # "none")
    BY <1>1 DEF Made, Drivers
  <2>2. ~a.orphan
    BY DEF Begun
  <2> QED
    BY <2>1, <2>2
<1>4. b \in Drivers
  <2> DEFINE c == [a EXCEPT !.tx = "ready", !.rx = "ready"]
             o == a.orphan \/ a.tx # "none" \/ a.rx # "none"
  <2>1. c \in Drivers
    BY <1>1 DEF Drivers, Channel
  <2>2. o \in BOOLEAN /\ c.orphan = a.orphan
    BY <1>1 DEF Drivers
  <2>3. b = [c EXCEPT !.orphan = o]
    BY <1>1, <2>1, <2>2 DEF Made, Drivers
  <2> HIDE DEF b, c, o
  <2> QED
    BY <2>1, <2>2, <2>3 DEF Drivers
<1>5. /\ b.dev = a.dev /\ b.codec = a.codec /\ b.opened = a.opened /\ b.devOpen = a.devOpen
      /\ b.released = a.released /\ b.shared = a.shared
  BY <1>1 DEF Made, Drivers
<1>6. b.initialized = a.initialized /\ b.sleeping = a.sleeping /\ b.ctrl = a.ctrl
  BY <1>1 DEF Made, Drivers
<1> QED
  BY <1>2, <1>3, <1>4, <1>5, <1>6 DEF Begun, Loose

LEMMA DuplexMade ==
  ASSUME NEW a, Begun(a), ~a.dev, a.tx = "none", a.rx = "none", NEW r \in FullDuplex(a)
  PROVE /\ r \in Outcomes /\ Begun(r.a) /\ ~r.a.dev
        /\ r.ok => r.a.tx # "none" /\ r.a.rx # "none"
<1> DEFINE Mode(x) == May(x, x)
           OnTx(x) == Enable(x, "tx")
           OnRx(x) == Enable(x, "rx")
           Good(x) == Begun(x) /\ x \in Drivers /\ ~x.dev
           There(x) == x.tx # "none" /\ x.rx # "none"
<1>0. a \in Drivers /\ Good(a)
  BY DEF Begun, Loose
<1>1. PICK u \in Then(Then(May(a, Made(a)), Mode), OnTx) : r \in IF u.ok THEN OnRx(u.a) ELSE {u}
  BY DEF FullDuplex, Then, Made
<1>2. PICK v \in Then(May(a, Made(a)), Mode) : u \in IF v.ok THEN OnTx(v.a) ELSE {v}
  BY DEF Then
<1>3. PICK w \in May(a, Made(a)) : v \in IF w.ok THEN Mode(w.a) ELSE {w}
  BY DEF Then
<1>4. w \in Outcomes /\ Good(w.a) /\ (w.ok => There(w.a))
  <2>1. CASE w = [a |-> Made(a), ok |-> TRUE]
    BY <1>0, <2>1, ChannelsNew, AnOutcome
  <2>2. CASE w = [a |-> a, ok |-> FALSE]
    BY <1>0, <2>2, AnOutcome
  <2> QED
    BY <2>1, <2>2 DEF May, Ok, Fail
<1>5. v \in Outcomes /\ Good(v.a) /\ (v.ok => There(v.a))
  <2>1. CASE w.ok /\ (v = [a |-> w.a, ok |-> TRUE] \/ v = [a |-> w.a, ok |-> FALSE])
    BY <1>4, <2>1, AnOutcome
  <2>2. CASE ~w.ok /\ v = w
    BY <1>4, <2>2
  <2> QED
    BY <1>3, <2>1, <2>2 DEF May, Ok, Fail
<1>6. u \in Outcomes /\ Good(u.a) /\ (u.ok => There(u.a))
  <2>1. CASE v.ok /\ u \in Enable(v.a, "tx")
    <3>1. u \in Outcomes /\ u.a \in Drivers /\ Wired(v.a, u.a)
      BY <1>5, <2>1, TxEnable DEF Outcomes
    <3> QED
      BY <1>5, <2>1, <3>1, BegunWired DEF Wired, Same, Alike
  <2>2. CASE ~v.ok /\ u = v
    BY <1>5, <2>2
  <2> QED
    BY <1>2, <2>1, <2>2
<1>7. CASE u.ok /\ r \in Enable(u.a, "rx")
  <2>1. r \in Outcomes /\ r.a \in Drivers /\ Wired(u.a, r.a)
    BY <1>6, <1>7, RxEnable DEF Outcomes
  <2> QED
    BY <1>6, <1>7, <2>1, BegunWired DEF Wired, Same, Alike
<1>8. CASE ~u.ok /\ r = u
  BY <1>6, <1>8
<1> QED
  BY <1>1, <1>7, <1>8

LEMMA InitUndone ==
  ASSUME NEW a, Begun(a), NEW r \in InitFails(a) PROVE r \in Outcomes /\ ~r.ok /\ Sane(r.a)
<1> DEFINE rest(x) == UNION {Cleanup(t.a) : t \in IF x.ctrl THEN ForceSleep(x) ELSE Ok(x)}
<1>1. PICK q \in DeleteCodec(a) : r \in IF q.ok THEN rest(q.a) ELSE {q}
  BY DEF InitFails, Then
<1>2. q \in Outcomes /\ q.ok /\ q.a \in Drivers /\ Same(a, q.a) /\ Loose(q.a) /\ ~q.a.dev
  BY CodecDeleted DEF Begun, Loose, Outcomes
<1>3. PICK t \in (IF q.a.ctrl THEN ForceSleep(q.a) ELSE Ok(q.a)) : r \in Cleanup(t.a)
  BY <1>1, <1>2
<1>4. t.a \in Drivers /\ Same(a, t.a) /\ Loose(t.a)
  <2>1. CASE t \in ForceSleep(q.a)
    <3>1. t.a \in Drivers /\ Moved(q.a, t.a)
      BY <1>2, <2>1, SleepsByForce DEF Outcomes
    <3> QED
      BY <1>2, <3>1, LooseMoved, SameAgain
  <2>2. CASE t = [a |-> q.a, ok |-> TRUE]
    BY <1>2, <2>2
  <2> QED
    BY <1>3, <2>1, <2>2 DEF Ok
<1>5. (t.a.devOpen => t.a.dev) /\ (t.a.shared => ~t.a.released) /\ ~t.a.orphan
  BY <1>4 DEF Loose, Same, Begun
<1> QED
  BY <1>3, <1>4, <1>5, CleansUp

LEMMA PortAdded ==
  ASSUME NEW a, Sane(a), ~a.initialized, NothingAlive(a)
  PROVE /\ Begun(WithPort(a)) /\ ~WithPort(a).dev
        /\ WithPort(a).tx = "none" /\ WithPort(a).rx = "none"
<1> DEFINE b == WithPort(a)
<1>1. a \in Drivers
  BY DEF Sane
<1>2. b \in Drivers /\ b.ctrl = TRUE
  BY <1>1 DEF WithPort, Drivers
<1>3. /\ b.dev = a.dev /\ b.codec = a.codec /\ b.opened = a.opened /\ b.devOpen = a.devOpen
      /\ b.released = a.released /\ b.shared = a.shared /\ b.orphan = a.orphan
  BY <1>1 DEF WithPort, Drivers
<1>4. /\ b.initialized = a.initialized /\ b.sleeping = a.sleeping /\ b.data = a.data
      /\ b.tx = a.tx /\ b.rx = a.rx
  BY <1>1 DEF WithPort, Drivers
<1> QED
  BY <1>2, <1>3, <1>4 DEF Sane, NothingAlive, Begun, Loose

LEMMA DataAdded ==
  ASSUME NEW a, Begun(a), a.tx # "none", a.rx # "none"
  PROVE /\ Begun(WithData(a)) /\ WithData(a) \in Drivers /\ WithData(a).dev = a.dev
        /\ WithData(a).data
<1> DEFINE b == WithData(a)
<1>1. a \in Drivers
  BY DEF Begun, Loose
<1>2. b \in Drivers /\ b.data = TRUE
  BY <1>1 DEF WithData, Drivers
<1>3. /\ b.dev = a.dev /\ b.codec = a.codec /\ b.opened = a.opened /\ b.devOpen = a.devOpen
      /\ b.released = a.released /\ b.shared = a.shared /\ b.orphan = a.orphan
  BY <1>1 DEF WithData, Drivers
<1>4. /\ b.initialized = a.initialized /\ b.sleeping = a.sleeping /\ b.ctrl = a.ctrl
      /\ b.tx = a.tx /\ b.rx = a.rx
  BY <1>1 DEF WithData, Drivers
<1> QED
  BY <1>2, <1>3, <1>4 DEF Begun, Loose

LEMMA PinsAdded ==
  ASSUME NEW a, Begun(a)
  PROVE /\ Begun(WithPins(a)) /\ WithPins(a) \in Drivers /\ WithPins(a).dev = a.dev
        /\ WithPins(a).data = a.data /\ WithPins(a).gpio
<1> DEFINE b == WithPins(a)
<1>1. a \in Drivers
  BY DEF Begun, Loose
<1>2. b \in Drivers /\ b.gpio = TRUE
  BY <1>1 DEF WithPins, Drivers
<1>3. /\ b.dev = a.dev /\ b.codec = a.codec /\ b.opened = a.opened /\ b.devOpen = a.devOpen
      /\ b.released = a.released /\ b.shared = a.shared /\ b.orphan = a.orphan
  BY <1>1 DEF WithPins, Drivers
<1>4. /\ b.initialized = a.initialized /\ b.sleeping = a.sleeping /\ b.ctrl = a.ctrl
      /\ b.tx = a.tx /\ b.rx = a.rx /\ b.data = a.data
  BY <1>1 DEF WithPins, Drivers
<1> QED
  BY <1>2, <1>3, <1>4 DEF Begun, Loose

LEMMA IsReady ==
  ASSUME NEW a, Begun(a), a.data, a.gpio, a.dev
  PROVE Sane(Ready(a)) /\ Ready(a).released
<1> DEFINE b == Ready(a)
<1>1. a \in Drivers
  BY DEF Begun, Loose
<1>2. b \in Drivers /\ b.initialized = TRUE
  BY <1>1 DEF Ready, Drivers
<1>3. /\ b.dev = a.dev /\ b.codec = a.codec /\ b.opened = a.opened /\ b.devOpen = a.devOpen
      /\ b.released = a.released /\ b.shared = a.shared /\ b.orphan = a.orphan
  BY <1>1 DEF Ready, Drivers
<1>4. /\ b.gpio = a.gpio /\ b.sleeping = a.sleeping /\ b.ctrl = a.ctrl
      /\ b.tx = a.tx /\ b.rx = a.rx /\ b.data = a.data
  BY <1>1 DEF Ready, Drivers
<1> QED
  BY <1>2, <1>3, <1>4 DEF Sane, Begun, Loose

LEMMA Initializes ==
  ASSUME NEW a, Sane(a), NEW r \in AudioInit(a)
  PROVE r \in Outcomes /\ Sane(r.a) /\ (r.ok => r.a.released)
<1>0. a \in Drivers
  BY DEF Sane
<1>1. CASE r = [a |-> a, ok |-> FALSE]
  BY <1>0, <1>1, AnOutcome
<1>2. CASE ~Refused(a) /\ r = [a |-> a, ok |-> TRUE]
  BY <1>0, <1>2, AnOutcome DEF Refused
<1>3. CASE ~a.initialized /\ NothingAlive(a) /\ r \notin Fail(a)
  <2> DEFINE data(x) == May(x, [x EXCEPT !.data = TRUE])
             gpio(x) == May(x, [x EXCEPT !.gpio = TRUE])
             done(x) == Ok([x EXCEPT !.initialized = TRUE])
             Data == Then(FullDuplex(WithPort(a)), data)
             Gpio == Then(Data, gpio)
             Created == Then(Gpio, CreateCodec)
             Good(x) == Begun(x) /\ x \in Drivers /\ ~x.dev
  <2>1. PICK s \in Then(Created, done) : r \in IF s.ok THEN {s} ELSE InitFails(s.a)
    BY <1>0, <1>1, <1>2, <1>3 DEF AudioInit, Else, Ok, Fail, WithPort
  <2>2. PICK c \in Created : s \in IF c.ok THEN done(c.a) ELSE {c}
    BY DEF Then
  <2>3. PICK g \in Gpio : c \in IF g.ok THEN CreateCodec(g.a) ELSE {g}
    BY DEF Then
  <2>4. PICK d \in Data : g \in IF d.ok THEN gpio(d.a) ELSE {d}
    BY DEF Then
  <2>5. PICK h \in FullDuplex(WithPort(a)) : d \in IF h.ok THEN data(h.a) ELSE {h}
    BY DEF Then
  <2>6. h \in Outcomes /\ Good(h.a) /\ (h.ok => h.a.tx # "none" /\ h.a.rx # "none")
    BY <1>3, PortAdded, DuplexMade DEF Outcomes
  <2>7. d \in Outcomes /\ Good(d.a) /\ (d.ok => d.a.data)
    <3>1. CASE h.ok /\ d = [a |-> WithData(h.a), ok |-> TRUE]
      BY <2>6, <3>1, DataAdded, AnOutcome
    <3>2. CASE h.ok /\ d = [a |-> h.a, ok |-> FALSE]
      BY <2>6, <3>2, AnOutcome
    <3>3. CASE ~h.ok /\ d = h
      BY <2>6, <3>3
    <3> QED
      BY <2>5, <3>1, <3>2, <3>3 DEF May, Ok, Fail, WithData
  <2>8. g \in Outcomes /\ Good(g.a) /\ (g.ok => g.a.data /\ g.a.gpio)
    <3>1. CASE d.ok /\ g = [a |-> WithPins(d.a), ok |-> TRUE]
      BY <2>7, <3>1, PinsAdded, AnOutcome
    <3>2. CASE d.ok /\ g = [a |-> d.a, ok |-> FALSE]
      BY <2>7, <3>2, AnOutcome
    <3>3. CASE ~d.ok /\ g = d
      BY <2>7, <3>3
    <3> QED
      BY <2>4, <3>1, <3>2, <3>3 DEF May, Ok, Fail, WithPins
  <2>9. c \in Outcomes /\ Begun(c.a) /\ (c.ok => c.a.data /\ c.a.gpio /\ c.a.dev)
    <3>1. CASE g.ok /\ c \in CreateCodec(g.a)
      <4>1. c \in Outcomes /\ Same(g.a, c.a) /\ Loose(c.a) /\ (c.ok <=> c.a.dev)
        BY <2>8, <3>1, CodecCreated DEF Begun
      <4> QED
        BY <2>8, <3>1, <4>1, BegunSame DEF Same
    <3>2. CASE ~g.ok /\ c = g
      BY <2>8, <3>2
    <3> QED
      BY <2>3, <3>1, <3>2
  <2>10. CASE c.ok
    <3>1. s = [a |-> Ready(c.a), ok |-> TRUE]
      BY <2>2, <2>10 DEF Ok, Ready
    <3>2. Sane(Ready(c.a)) /\ Ready(c.a).released
      BY <2>9, <2>10, IsReady
    <3>3. Ready(c.a) \in Drivers
      BY <3>2 DEF Sane
    <3>4. s \in Outcomes /\ s.a = Ready(c.a) /\ s.ok
      BY <3>1, <3>3, AnOutcome
    <3>5. r = s
      BY <2>1, <3>4
    <3> QED
      BY <3>2, <3>4, <3>5
  <2>11. CASE ~c.ok
    <3>1. r \in InitFails(c.a)
      BY <2>1, <2>2, <2>11
    <3> QED
      BY <2>9, <3>1, InitUndone
  <2> QED
    BY <2>10, <2>11
<1> QED
  BY <1>1, <1>2, <1>3 DEF AudioInit, Ok, Fail

(* The driver is sane after every call, and an init or a change of format  *)
(* that reported success did not follow a release that failed.             *)
CodecInv == Sane(drv) /\ (last.call \in {"init", "format"} /\ last.ok => drv.released)

LEMMA OffIsSane == Sane(Off)
<1>1. 0 \in 0 .. 100 /\ Reset \in Int
  BY DEF Reset
<1>2. Off \in Drivers
  BY <1>1 DEF Off, Drivers, Channel
<1> QED
  BY <1>2 DEF Off, Sane

LEMMA CodecStart == Init => CodecInv
  BY OffIsSane DEF Init, CodecInv

LEMMA CodecEnough == CodecInv => CodecSafe
<1> SUFFICES ASSUME CodecInv PROVE CodecSafe
  OBVIOUS
<1>1. drv \in Drivers /\ Sane(drv)
  BY DEF CodecInv, Sane
<1>2. TypeOK
  <2>1. ASSUME NEW h \in {"ctrl", "data", "gpio", "codec", "dev", "opened", "sleeping", "sleepOk", "initialized",
                          "released", "io", "devOpen", "shared", "orphan", "parked"}
        PROVE drv[h] \in BOOLEAN
    BY <1>1 DEF Drivers
  <2>2. drv.tx \in Channel /\ drv.rx \in Channel
    BY <1>1 DEF Drivers
  <2>3. drv.format \in {0} \cup Formats /\ drv.volume \in 0 .. 100 /\ drv.chipVolume \in 0 .. 100
    BY <1>1 DEF Drivers
  <2> QED
    BY <2>1, <2>2, <2>3 DEF TypeOK, Channel
<1>3. PlaysForReal
  BY <1>1 DEF Sane, PlaysForReal, MayPlay
<1>4. ReleaseIsFinal
  BY <1>1 DEF CodecInv, Sane, ReleaseIsFinal, MayPlay
<1>5. SleepIsDeep
  BY <1>1 DEF Sane, SleepIsDeep, Stopped
<1>6. HandlesNest
  BY <1>1 DEF Sane, HandlesNest
<1> QED
  BY <1>2, <1>3, <1>4, <1>5, <1>6 DEF CodecSafe

LEMMA CodecCalls ==
  ASSUME CodecInv, NEW name, NEW S, Call(name, S),
         \A r \in S : Sane(r.a) /\ (name \in {"init", "format"} /\ r.ok => r.a.released)
  PROVE CodecInv'
<1>1. PICK r \in S : drv' = r.a /\ last' = [call |-> name, ok |-> r.ok]
  BY DEF Call
<1>2. last'.call = name /\ last'.ok = r.ok
  BY <1>1
<1> QED
  BY <1>1, <1>2 DEF CodecInv

LEMMA CodecStep == CodecInv /\ [Next]_vars => CodecInv'
<1> SUFFICES ASSUME CodecInv, [Next]_vars PROVE CodecInv'
  OBVIOUS
<1>0. Sane(drv)
  BY DEF CodecInv
<1>1. CASE UNCHANGED vars
  BY <1>1 DEF vars, CodecInv
<1>2. CASE CallInit
  <2>1. \A r \in AudioInit(drv) : Sane(r.a) /\ (r.ok => r.a.released)
    BY <1>0, Initializes
  <2> QED
    BY <1>2, <2>1, CodecCalls DEF CallInit
<1>3. ASSUME NEW f \in Formats, Call("format", SetFormat(drv, f)) PROVE CodecInv'
  <2>1. \A r \in SetFormat(drv, f) : Sane(r.a) /\ (r.ok => r.a.released)
    BY <1>0, FormatSet DEF Sane
  <2> QED
    BY <1>3, <2>1, CodecCalls
<1>4. CASE CallSleep
  <2>1. \A r \in AudioSleep(drv) : Sane(r.a)
    BY <1>0, Sleeps
  <2> QED
    BY <1>4, <2>1, CodecCalls DEF CallSleep
<1>5. CASE CallWake
  <2>1. \A r \in AudioWake(drv) : Sane(r.a)
    BY <1>0, Wakes
  <2> QED
    BY <1>5, <2>1, CodecCalls DEF CallWake
<1>6. ASSUME NEW p \in Percents, Call("volume", SetVolume(drv, p)) PROVE CodecInv'
  <2>1. \A r \in SetVolume(drv, p) : Sane(r.a)
    BY <1>0, Louder
  <2> QED
    BY <1>6, <2>1, CodecCalls
<1>7. CASE CallPark
  <2>1. \A r \in Park(drv) : Sane(r.a)
    BY <1>0, <1>7, Parks DEF CallPark
  <2> QED
    BY <1>7, <2>1, CodecCalls DEF CallPark
<1>8. CASE Reboot
  BY <1>8, OffIsSane DEF Reboot, CodecInv
<1> QED
  BY <1>1, <1>2, <1>3, <1>4, <1>5, <1>6, <1>7, <1>8 DEF Next, CallFormat, CallVolume

LEMMA CodecHolds == Init /\ [][Next]_vars => []CodecInv
  BY CodecStart, CodecStep, PTL

LEMMA WakeStep ==
  ASSUME CodecInv, Next, last'.call = "wake", last'.ok, drv.initialized, drv.sleeping
  PROVE /\ MayPlay(drv') /\ drv'.chipVolume = drv'.volume /\ drv'.volume = drv.volume
        /\ drv.format # 0 => drv'.chip = drv.format
<1>1. ASSUME NEW name, NEW S, Call(name, S) PROVE last'.call = name
  BY <1>1 DEF Call
<1>2. CallWake
  BY <1>1 DEF Next, CallInit, CallFormat, CallSleep, CallWake, CallVolume, CallPark, Reboot
<1>3. PICK r \in AudioWake(drv) : drv' = r.a /\ last' = [call |-> "wake", ok |-> r.ok]
  BY <1>2 DEF CallWake, Call
<1>4. r.ok
  BY <1>3
<1> QED
  BY <1>3, <1>4, Wakes DEF CodecInv

-----------------------------------------------------------------------------
(* The whole: a step of Board is for each of the drivers a step of its own *)
(* or none.                                                                *)
LEMMA BoardDrivers ==
  BoardSpec => /\ Init /\ [][Next]_vars
               /\ Keys!Init /\ [][Keys!Next]_Keys!vars
               /\ Gauge!Init /\ [][Gauge!Next]_Gauge!vars
               /\ Panel!Init /\ [][Panel!Next]_Panel!vars
<1> USE DEF BoardNext, RunCodec, RunKeys, RunPage, RunGauge, RunPanel, RunTone, RunBle,
     RunScan, parts
<1>1. BoardInit => Init /\ Keys!Init /\ Gauge!Init /\ Panel!Init
  BY DEF BoardInit
<1>2. [BoardNext]_parts => [Keys!Next]_Keys!vars
  BY DEF keys, Keys!vars, Keys!resources
<1>3. [BoardNext]_parts => [Gauge!Next]_Gauge!vars
  BY DEF fuel, Gauge!vars
<1>4. [BoardNext]_parts => [Panel!Next]_Panel!vars
  BY DEF display, Panel!vars, Panel!panel, Panel!pins, Panel!lvgl
<1>5. [BoardNext]_parts => [Next]_vars
  BY DEF codec
<1> HIDE DEF BoardNext, RunCodec, RunKeys, RunPage, RunGauge, RunPanel, RunTone, RunBle, RunScan, parts
<1> QED
  BY <1>1, <1>2, <1>3, <1>4, <1>5, PTL DEF BoardSpec

(* bsp_audio.c: the driver knows the state of its chip, whatever the       *)
(* library hides and whichever calls fail: what plays is configured, what  *)
(* is asleep sleeps, what failed to be released is never used, and no      *)
(* resource outlives the one it needs.                                     *)
THEOREM CodecIsSafe == BoardSpec => []CodecSafe
  BY BoardDrivers, CodecHolds, CodecEnough, PTL

(* bsp_audio_wake: when it reports success, the volume and the format of   *)
(* before the sleep are those of the chip again.                           *)
THEOREM WakeIsWhole == BoardSpec => WakeRestores
<1>1. CodecInv /\ [Next]_vars =>
        [last'.call = "wake" /\ last'.ok /\ drv.initialized /\ drv.sleeping =>
           /\ MayPlay(drv') /\ drv'.chipVolume = drv'.volume /\ drv'.volume = drv.volume
           /\ drv.format # 0 => drv'.chip = drv.format]_vars
  BY WakeStep
<1> QED
  BY BoardDrivers, CodecHolds, <1>1, PTL DEF WakeRestores

(* bsp_button.c: however many of its resources an attempt could create and *)
(* its rollback could delete, ready means that every key is there, the     *)
(* converter outlives them, a rollback is complete or refuses the next     *)
(* attempt, and a reading is at most one key's.                            *)
THEOREM ButtonsAreSafe == BoardSpec => []ButtonsSafe
  BY BoardDrivers, ButtonHolds, ButtonEnough, PTL

(* bsp_battery.c: a gauge that is used is active and bases its readings on *)
(* our profile, wherever an earlier attempt was cut off, and each fall of  *)
(* the charge is announced once.                                           *)
THEOREM GaugeIsSafe == BoardSpec => []GaugeSafe
  BY BoardDrivers, GaugeHolds, GaugeEnough, PTL

(* bsp_display.c: no live handle is lost by a retry or closed under what   *)
(* uses it, no frame is drawn without the mask or on a sleeping panel, and *)
(* parked pins show their safe levels until the bus takes them over.       *)
THEOREM DisplayIsSafe == BoardSpec => []DisplaySafe
  BY BoardDrivers, PanelHolds, PanelEnough, PTL
=============================================================================
