------------------------------- MODULE UiMenu -------------------------------
(***************************************************************************)
(* The pages and settings of main/monitor_ui.c, and the way a setting      *)
(* takes from a key to the configuration: monitor_ui_key (UI task) emits a *)
(* command on the event bus, app_event (event_bus task) forwards settings  *)
(* to a queue of eight, control_task (lowest priority) saves them, and     *)
(* monitor_ui_update copies the configuration back for the next key.       *)
(*                                                                         *)
(* Settings are numbered as in monitor_setting_t.  The views of the Wi-Fi  *)
(* worker (provisioning) and of the OTA worker (busy, available) may hold  *)
(* anything when they are read; the portal may have stored any volume.     *)
(***************************************************************************)
EXTENDS Integers, Sequences

CONSTANTS
  BusDepth,      \* queue_size of the event loop: 24
  ControlDepth,  \* xQueueCreate(8, ...)
  FirstVolumes,  \* volumes the configuration may hold at start-up
  Changed,       \* bound: the settings that are changed
  MaxChanges     \* bound: commands that change a setting

MenuAssumption ==
  /\ BusDepth \in Nat \ {0} /\ ControlDepth \in Nat \ {0}
  /\ FirstVolumes \subseteq 0 .. 100 /\ Changed \subseteq 0 .. 10 /\ MaxChanges \in Nat

VARIABLES
  page, section, choice, confirm, diagnostic, \* s_page ... s_diagnostic_page
  setup,         \* s_setup: the UI shows the setup screen
  shown,         \* s_config of monitor_ui.c
  drawn,         \* FALSE between monitor_ui_key and monitor_ui_update
  bus, control,  \* commands in the event loop and in s_control
  config,        \* the stored configuration
  changes,       \* commands sent that change a setting
  wanted,        \* history: the configuration if every command counts
  lost,          \* history: a queue was full or a save failed
  seen           \* history: OK was pressed on the update page during this visit

menu == <<page, section, choice, confirm, diagnostic>>
vars == <<menu, setup, shown, drawn, bus, control, config, changes, wanted, lost, seen>>

Voice == 0
Volume == 1
Brightness == 8
Timeout == 9
Power == 10
Settings == 0 .. 10
Timeouts == <<0, 30, 60, 300, 600>>
Audio == 1
Display == 2
Update == 4

Init ==
  /\ page = 0 /\ section = -1 /\ choice = 0 /\ confirm = FALSE /\ diagnostic = FALSE
  /\ setup = FALSE /\ drawn = TRUE /\ bus = <<>> /\ control = <<>>
  /\ \E v \in FirstVolumes :
       config = [s \in Settings |-> CASE s = Volume -> v [] s = Brightness -> 80
                                      [] s = Timeout -> 60 [] s = Power -> 0 [] OTHER -> 1]
  /\ shown = config /\ wanted = config
  /\ changes = 0 /\ lost = FALSE /\ seen = FALSE

-----------------------------------------------------------------------------
(* Commands.                                                               *)

Mute == [cmd |-> "mute", setting |-> Voice, value |-> 0]
Set(s, v) == [cmd |-> "setting", setting |-> s, value |-> v]
Other(name) == [cmd |-> name, setting |-> 0, value |-> 0]
Changing(c) == c.cmd \in {"mute", "setting"}

\* Mutant: monitor_volume only keeps the value positive.
Positive(v) == IF v < 0 THEN 0 ELSE v
\* monitor_volume
Clamped(v) == IF v < 0 THEN 0 ELSE IF v > 100 THEN 100 ELSE v

\* What control_task and monitor_config_setting make of a command.
Value(cmd) == IF cmd.setting = Volume THEN Clamped(cmd.value) ELSE cmd.value
Applied(c, cmd) ==
  IF cmd.cmd = "mute" THEN [c EXCEPT ![Voice] = 1 - @] ELSE [c EXCEPT ![cmd.setting] = Value(cmd)]

\* monitor_command: the bus drops what it has no room for.
Send(c) ==
  /\ Changing(c) => changes < MaxChanges /\ c.setting \in Changed
  /\ changes' = IF Changing(c) THEN changes + 1 ELSE changes
  /\ IF Len(bus) < BusDepth
     THEN /\ bus' = Append(bus, c) /\ UNCHANGED lost
          /\ wanted' = IF Changing(c) THEN Applied(wanted, c) ELSE wanted
     ELSE lost' = TRUE /\ UNCHANGED <<bus, wanted>>
Quiet == UNCHANGED <<bus, changes, wanted, lost>>

-----------------------------------------------------------------------------
(* monitor_ui_key: one operator for each place in the menus.               *)

Next7(down) == (choice + (IF down THEN 1 ELSE 6)) % 7
Stay == UNCHANGED menu
GoTo(p, s, c) == page' = p /\ section' = s /\ choice' = c
KeepFlags == UNCHANGED <<confirm, diagnostic>>

Long(b) ==
  CASE b = "ok" -> Send(Other("setup")) /\ Stay
    [] b = "up" -> Send(Mute) /\ Stay
    [] OTHER -> GoTo(5, -1, 0) /\ KeepFlags /\ Quiet

OnPage(b) ==
  IF b = "ok" THEN Send(Other("refresh")) /\ Stay
  ELSE GoTo((page + (IF b = "down" THEN 1 ELSE 5)) % 6, -1, 0) /\ KeepFlags /\ Quiet

\* Mutant: the entry stays armed.
EnterArmed == section' = choice /\ choice' = 0 /\ UNCHANGED <<page, confirm, diagnostic>>
\* Mutant: the cursor stays where the list left it.
EnterThere == section' = choice /\ confirm' = FALSE /\ UNCHANGED <<page, choice, diagnostic>>
Enter == section' = choice /\ choice' = 0 /\ confirm' = FALSE /\ UNCHANGED <<page, diagnostic>>

InList(b) ==
  /\ Quiet
  /\ IF b = "ok" THEN Enter
     ELSE /\ KeepFlags /\ UNCHANGED section
          /\ IF Next7(b = "down") = 6 THEN page' = 0 /\ choice' = 0
             ELSE choice' = Next7(b = "down") /\ UNCHANGED page

Step(v) == (v + 10) % 110

InAudio(b) ==
  IF b = "down" THEN GoTo(page, section, (choice + 1) % 8) /\ KeepFlags /\ Quiet
  ELSE Stay /\ Send(Set(choice, IF choice = Volume THEN Step(shown[Volume]) ELSE 1 - shown[choice]))

\* The first of the listed timeouts that is the current one, or the last.
NextTimeout(t) ==
  LET i == CHOOSE i \in 0 .. 4 : (i = 4 \/ Timeouts[i + 1] = t) /\ \A j \in 0 .. i - 1 : Timeouts[j + 1] # t
  IN Timeouts[((i + 1) % 5) + 1]

InDisplay(b) ==
  IF b = "down" THEN GoTo(page, section, (choice + 1) % 2) /\ KeepFlags /\ Quiet
  ELSE /\ Stay
       /\ IF choice = 0
          THEN Send(Set(Brightness, IF shown[Brightness] >= 100 THEN 10 ELSE shown[Brightness] + 10))
          ELSE Send(Set(Timeout, NextTimeout(shown[Timeout])))

InUpdate(busy, available) ==
  IF busy THEN Stay /\ Quiet
  ELSE IF available /\ ~confirm
  THEN confirm' = TRUE /\ UNCHANGED <<page, section, choice, diagnostic>> /\ Quiet
  ELSE /\ confirm' = FALSE /\ UNCHANGED <<page, section, choice, diagnostic>>
       /\ Send(Other(IF available THEN "install" ELSE "check"))

InSection(b) ==
  CASE b = "up" -> /\ GoTo(page, -1, 0) /\ confirm' = FALSE /\ UNCHANGED diagnostic /\ Quiet
    [] b # "up" /\ section = Audio -> InAudio(b)
    [] b # "up" /\ section = Display -> InDisplay(b)
    [] b = "ok" /\ section = 3 -> Stay /\ Send(Set(Power, (shown[Power] + 1) % 3))
    [] b = "ok" /\ section = 0 -> Stay /\ Send(Other("setup"))
    [] b = "ok" /\ section = Update -> \E busy, available \in BOOLEAN : InUpdate(busy, available)
    [] b = "down" /\ section = 5 ->
         diagnostic' = ~diagnostic /\ UNCHANGED <<page, section, choice, confirm>> /\ Quiet
    [] OTHER -> Stay /\ Quiet

Click(b) ==
  CASE setup -> Stay /\ Quiet
    [] ~setup /\ page # 5 -> OnPage(b)
    [] ~setup /\ page = 5 /\ section < 0 -> InList(b)
    [] OTHER -> InSection(b)

Key ==
  /\ drawn /\ drawn' = FALSE
  /\ \E b \in {"up", "down", "ok"} : Long(b) \/ Click(b)
  /\ seen' = (section' = Update /\ (seen \/ section = Update))
  /\ UNCHANGED <<setup, shown, control, config>>

\* monitor_ui_update, after a key, a second, or an event.
Draw ==
  /\ drawn' = TRUE /\ shown' = config /\ setup' \in BOOLEAN
  /\ UNCHANGED <<menu, bus, control, config, changes, wanted, lost, seen>>

-----------------------------------------------------------------------------
\* Mutant: holding UP is not forwarded.
OnlySettings(c) == c.cmd = "setting"
Forwarded(c) == Changing(c)

\* app_event: what it has no room for is lost without a count.
AppEvent ==
  /\ bus # <<>> /\ bus' = Tail(bus)
  /\ IF ~Forwarded(Head(bus)) THEN UNCHANGED <<control, lost>>
     ELSE IF Len(control) < ControlDepth THEN control' = Append(control, Head(bus)) /\ UNCHANGED lost
     ELSE lost' = TRUE /\ UNCHANGED control
  /\ UNCHANGED <<menu, setup, shown, drawn, config, changes, wanted, seen>>

\* Mutant: what could not be saved is put behind what waits.
TriedAgain == Append(Tail(control), Head(control))
Forgotten == Tail(control)

\* control_task; the save may fail, and the configuration stays.
Control ==
  /\ control # <<>>
  /\ \/ config' = Applied(config, Head(control)) /\ control' = Tail(control) /\ UNCHANGED lost
     \/ lost' = TRUE /\ control' = Forgotten /\ UNCHANGED config
  /\ UNCHANGED <<menu, setup, shown, drawn, bus, changes, wanted, seen>>

Next == Key \/ Draw \/ AppEvent \/ Control

Spec == Init /\ [][Next]_vars

-----------------------------------------------------------------------------
Legal(c) ==
  /\ c[Volume] \in 0 .. 100 /\ c[Brightness] \in 10 .. 100 /\ c[Power] \in 0 .. 2
  /\ c[Timeout] \in {Timeouts[i] : i \in 1 .. 5}
  /\ \A s \in Settings \ {Volume, Brightness, Timeout, Power} : c[s] \in 0 .. 1

(* Types, and the values the keys can store: the step from a volume the    *)
(* portal set, such as 95, included, what the codec, the backlight and the *)
(* power modes are given is in range.                                      *)
TypeOK ==
  /\ page \in 0 .. 5 /\ section \in -1 .. 5 /\ choice \in 0 .. 7
  /\ {confirm, diagnostic, setup, drawn, lost, seen} \subseteq BOOLEAN
  /\ Legal(config) /\ Legal(shown) /\ Legal(wanted)
  /\ Len(bus) <= BusDepth /\ Len(control) <= ControlDepth /\ changes \in 0 .. MaxChanges

(* The cursor is on an entry of the list shown, by whatever keys it came   *)
(* there: it indexes values[] of monitor_ui_key and the rows of the page.  *)
CursorOnEntry ==
  /\ section >= 0 => page = 5
  /\ choice <= CASE page # 5 -> 0 [] page = 5 /\ section = -1 -> 5 [] section = Audio -> 7
                 [] section = Display -> 1 [] OTHER -> 0

(* README "a second confirmation on the device is needed to install": the  *)
(* press that installs is not the first one on the update page since it    *)
(* was entered, wherever long presses and the setup screen led meanwhile.  *)
InstallTakesTwo ==
  [][Len(bus') > Len(bus) /\ bus'[Len(bus')].cmd = "install" => seen]_vars

(* Commands take effect in the order of the keys and none is forgotten on  *)
(* the way through two queues: when they are empty, nothing was dropped    *)
(* and no save failed, the configuration is what the last keys asked for.  *)
KeysTakeEffect == bus = <<>> /\ control = <<>> /\ ~lost => config = wanted

\* The settings whose key goes from one value to the next, and that value.
Graded == {Volume, Brightness, Timeout, Power}
NextValue(s, v) ==
  CASE s = Volume -> Clamped(Step(v))
    [] s = Brightness -> IF v >= 100 THEN 10 ELSE v + 10
    [] s = Timeout -> NextTimeout(v)
    [] OTHER -> (v + 1) % 3

\* The commands of q take s from old to new at most, and never back.
Sets(cmd, s) == cmd.cmd = "setting" /\ cmd.setting = s
Climbs(q, s, old, new) ==
  \A i \in 1 .. Len(q) : Sets(q[i], s) =>
    /\ Value(q[i]) \in {old, new}
    /\ Value(q[i]) = new => \A j \in i .. Len(q) : Sets(q[j], s) => Value(q[j]) = new

(* A key computes its value from a copy that is behind the commands in two *)
(* queues, and the queues or a save may lose any of them.  That costs a    *)
(* press at most: the configuration and all that is still to be done to it *)
(* are within one step of the value shown, and no setting ever goes back.  *)
OneStepAhead ==
  \A s \in Graded :
    LET new == NextValue(s, shown[s]) IN
    config[s] \in {shown[s], new} /\ Climbs(control \o bus, s, config[s], new)

(* The menus as a whole: the cursor on an entry, every value in range, and *)
(* the settings as the keys left them, lost keys or not.                   *)
MenuSafe == TypeOK /\ CursorOnEntry /\ KeysTakeEffect /\ OneStepAhead
=============================================================================
