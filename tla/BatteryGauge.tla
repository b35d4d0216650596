---------------------------- MODULE BatteryGauge ----------------------------
(***************************************************************************)
(* components/bsp/src/bsp_battery.c and telemetry_task of monitor_app.c:   *)
(* the CW2017 gauge, which keeps its registers while the processor starts  *)
(* anew, the driver that brings it up one I2C transaction at a time, and   *)
(* the task that publishes its reading and raises the low-battery event.   *)
(*                                                                         *)
(* Any transaction may fail; a write that failed may have been made.  A    *)
(* profile byte is the supplied one or another, and is written only while  *)
(* the gauge sleeps.  The gauge (external) takes its profile into use when *)
(* it goes from restart to active, and then needs time for a first result. *)
(***************************************************************************)
EXTENDS Integers

CONSTANTS
  Bytes,   \* CW_PROFILE_SIZE
  Polls,   \* 50 polls for the first result
  Charges  \* results the gauge may give, in percent

NotReady == 255
Low == 15

GaugeAssumption ==
  Bytes \in Nat \ {0} /\ Polls \in Nat \ {0} /\ Charges \subseteq 0 .. 100

VARIABLES
  chip,    \* the gauge: config, flag, profile, soc, and whether soc is based on our profile
  pc,      \* where the driver is in bsp_battery_init, or "run"
  i,       \* byte, or poll
  dev,     \* s_dev # NULL
  battery, \* s_battery
  low,     \* low of telemetry_task
  told,    \* history: the event was raised since a reading above Low
  again,   \* history: it was raised again
  calm     \* the bus and the supply work from here on

vars == <<chip, pc, i, dev, battery, low, told, again, calm>>

Index == 1 .. Bytes
Fresh == [config |-> "sleep", flag |-> FALSE, own |-> [b \in Index |-> FALSE],
          soc |-> NotReady, based |-> FALSE]
\* Another program left it running with the profile of another cell.
Foreign == [Fresh EXCEPT !.config = "active", !.flag = TRUE, !.soc = 50]

Started == /\ pc' = "boot" /\ i' = 0 /\ dev' = FALSE /\ battery' = -1
           /\ low' = FALSE /\ told' = FALSE

Init ==
  /\ chip \in {Fresh, Foreign} /\ pc = "boot" /\ i = 0 /\ dev = FALSE /\ battery = -1
  /\ low = FALSE /\ told = FALSE /\ again = FALSE /\ calm = FALSE

-----------------------------------------------------------------------------
(* The environment.                                                        *)

\* The processor is reset at any point; the gauge is not.
Reset == ~calm /\ Started /\ UNCHANGED <<chip, again, calm>>

\* The cell is taken out.
PowerLost == ~calm /\ Started /\ chip' = Fresh /\ UNCHANGED <<again, calm>>

\* A result; or the gauge is busy and reads as 0xFF.
Compute ==
  /\ chip.config = "active"
  /\ \E c \in Charges \cup (IF calm THEN {} ELSE {NotReady}) : chip' = [chip EXCEPT !.soc = c]
  /\ UNCHANGED <<pc, i, dev, battery, low, told, again, calm>>

CalmDown == ~calm /\ calm' = TRUE /\ UNCHANGED <<chip, pc, i, dev, battery, low, told, again>>

-----------------------------------------------------------------------------
(* bsp_battery_init.                                                       *)

Rest == <<dev, battery, low, told, again, calm>>
GoOn(step, n) == pc' = step /\ i' = n /\ UNCHANGED Rest

\* "goto fail": the device is removed, and the task runs without it.
Fails == pc' = "run" /\ i' = 0 /\ dev' = FALSE /\ UNCHANGED <<battery, low, told, again, calm>>

Read(step, n) == UNCHANGED chip /\ (GoOn(step, n) \/ (~calm /\ Fails))
Write(c, step, n) ==
  \/ chip' = c /\ GoOn(step, n)
  \/ ~calm /\ chip' \in {chip, c} /\ Fails

AddDevice ==
  /\ pc = "boot" /\ UNCHANGED chip
  /\ \/ pc' = "version" /\ i' = 0 /\ dev' = TRUE /\ UNCHANGED <<battery, low, told, again, calm>>
     \/ ~calm /\ Fails

Version == pc = "version" /\ Read("flag", 0)

\* Mutant: the flag says that the profile is ours.
FlagIsEnough(b) == FALSE
Differs(b) == ~chip.own[b]

\* cw_profile_matches: the flag, and then every byte.
Flag == pc = "flag" /\ (IF chip.flag THEN Read("compare", 1) ELSE Read("sleep", 1))
Compare ==
  /\ pc = "compare"
  /\ CASE Differs(i) -> Read("sleep", 1)
       [] ~Differs(i) /\ i < Bytes -> Read("compare", i + 1)
       [] OTHER -> Read("config", 0)

\* Mutant: a gauge with our profile is taken to be running.
TakenAsRunning == FALSE
NeedsRestart == chip.config # "active"
Config == pc = "config" /\ (IF NeedsRestart THEN Read("activate", 1) ELSE Read("wait", 0))

\* cw_update_profile; a gauge that does not sleep ignores the bytes.
Sleep ==
  /\ pc = "sleep"
  /\ IF i = 1 THEN Write([chip EXCEPT !.config = "restart"], "sleep", 2)
              ELSE Write([chip EXCEPT !.config = "sleep"], "write", 1)
WriteByte ==
  /\ pc = "write"
  /\ LET c == [chip EXCEPT !.own[i] = (@ \/ chip.config = "sleep")]
     IN IF i < Bytes THEN Write(c, "write", i + 1) ELSE Write(c, "verify", 1)
Verify ==
  /\ pc = "verify"
  /\ CASE ~chip.own[i] -> UNCHANGED chip /\ Fails
       [] chip.own[i] /\ i < Bytes -> Read("verify", i + 1)
       [] OTHER -> Read("update", 0)
SetFlag == pc = "update" /\ Write([chip EXCEPT !.flag = TRUE], "activate", 1)

\* cw_enter_active
Restarted(c) == [c EXCEPT !.config = "restart", !.soc = NotReady]
Activated(c) == [c EXCEPT !.config = "active", !.soc = NotReady,
                          !.based = c.flag /\ \A b \in Index : c.own[b]]
Activate ==
  /\ pc = "activate"
  /\ IF i = 1 THEN Write(Restarted(chip), "activate", 2) ELSE Write(Activated(chip), "wait", 0)

\* Mutant: polls are not counted.
NotCounted == i
Counted == i + 1
\* With a bus that works an active gauge has its first result in time.
InTime == calm /\ chip.config = "active"
Ready == chip.soc <= 100
\* cw_wait_soc_ready: a poll that fails is one that found nothing.
Wait ==
  /\ pc = "wait" /\ UNCHANGED chip
  /\ \/ Ready /\ GoOn("run", 0)
     \/ (~Ready \/ ~calm) /\ Counted < Polls /\ GoOn("wait", Counted)
     \/ (~Ready \/ ~calm) /\ Counted >= Polls /\ ~InTime /\ Fails

Step == \/ AddDevice \/ Version \/ Flag \/ Compare \/ Config \/ Sleep \/ WriteByte
        \/ Verify \/ SetFlag \/ Activate \/ Wait

-----------------------------------------------------------------------------
(* telemetry_task, and the deep sleep of the demonstration.                *)

\* Mutant: what the gauge says is passed on.
AnyCharge == chip.soc
\* bsp_battery_soc
Charge == IF Ready THEN chip.soc ELSE -1

\* Mutant: a failed reading ends the alarm.
LowReading(b) == b >= 0 /\ b <= Low
StillLow(b) == IF b >= 0 THEN b <= Low ELSE low

Telemetry ==
  /\ pc = "run"
  /\ \/ dev /\ battery' = Charge
     \/ (~dev \/ ~calm) /\ battery' = -1
  /\ low' = StillLow(battery')
  /\ LET emit == battery' \in 0 .. Low /\ ~low
     IN /\ again' = (again \/ (emit /\ told))
        /\ told' = ((told \/ emit) /\ ~(battery' > Low))
  /\ UNCHANGED <<chip, pc, i, dev, calm>>

\* bsp_battery_sleep tries twice; the board sleeps and starts anew either way.
DeepSleep ==
  /\ pc = "run" /\ Started
  /\ IF dev THEN chip' \in ({[chip EXCEPT !.config = "sleep"]} \cup IF calm THEN {} ELSE {chip})
            ELSE UNCHANGED chip
  /\ UNCHANGED <<again, calm>>

Next == Reset \/ PowerLost \/ Compute \/ CalmDown \/ Step \/ Telemetry \/ DeepSleep

\* The task's waits have limits; an active gauge computes.
Spec == Init /\ [][Next]_vars /\ WF_vars(Step) /\ WF_vars(~Ready /\ Compute)

-----------------------------------------------------------------------------
(* Types; what is published is a percentage or "none", also while the      *)
(* gauge has no result yet.                                                *)
TypeOK ==
  /\ chip \in [config : {"restart", "sleep", "active"}, flag : BOOLEAN, own : [Index -> BOOLEAN],
               soc : (0 .. 100) \cup {NotReady}, based : BOOLEAN]
  /\ pc \in {"boot", "version", "flag", "compare", "config", "sleep", "write", "verify",
             "update", "activate", "wait", "run"}
  /\ i \in 0 .. (Bytes + Polls + 2) /\ {dev, low, told, again, calm} \subseteq BOOLEAN
  /\ battery \in -1 .. 100

(* Once bsp_battery_init has returned ESP_OK the gauge is active and its   *)
(* readings are based on the supplied profile: whatever profile it had,    *)
(* and wherever an earlier attempt was cut off by a reset or by the bus.   *)
ReadingsAreOurs == pc = "run" /\ dev => chip.config = "active" /\ chip.based

(* The low-battery event is raised once for each time the charge falls,    *)
(* not again because a reading in between failed.                          *)
ToldOnce == ~again

(* Every attempt of bsp_battery_init returns or is cut off by a reset,     *)
(* though the bus never works or the gauge never gets ready.               *)
InitEnds == []<>(pc \in {"run", "boot"})

(* No state in which a reset can leave the gauge is a dead end: a start    *)
(* with a bus that works always ends with a gauge that works.              *)
Recovers == (calm /\ pc = "boot") ~> (pc = "run" /\ dev)

(* What is told of the battery: readings of our own profile, each alarm    *)
(* once.                                                                   *)
GaugeSafe == TypeOK /\ ReadingsAreOurs /\ ToldOnce

(* Every attempt comes to an end, and sooner or later one succeeds.        *)
GaugeRecovers == InitEnds /\ Recovers
=============================================================================
