------------------------------ MODULE Interface ------------------------------
(* What the user hears, sees and presses: voice alerts, the UI task with   *)
(* its dark screen, and the menus.  The parts share no state (settings and *)
(* keys are left free where they are read), and it is enough to let one of *)
(* them run at a time.                                                     *)
EXTENDS VoiceAlerts

CONSTANTS
  Gestures, InputDepth, TimeoutTicks, MaxGestures, MaxClock, \* of UiTask
  ControlDepth, FirstVolumes, Changed, MaxChanges            \* of UiMenu

VARIABLES
  part, \* the part that runs
  clock, hand, made, input, screenTimeout, pc, key, now, guard, ambient, lastKey, woke, verdict,
  page, section, choice, confirm, diagnostic, setup, shown, drawn, commands, control, stored,
  changes, wanted, dropped, seen

Screen == INSTANCE UiTask WITH
  Depth <- InputDepth, Timeout <- TimeoutTicks
Menu == INSTANCE UiMenu WITH
  bus <- commands, config <- stored, lost <- dropped

ASSUME InterfaceAssumption == Screen!UiAssumption /\ Menu!MenuAssumption

voice == vars
screen == <<clock, hand, made, input, screenTimeout, pc, key, now, guard, ambient, lastKey, woke,
            verdict>>
menu == <<page, section, choice, confirm, diagnostic, setup, shown, drawn, commands, control, stored,
          changes, wanted, dropped, seen>>
parts == <<part, voice, screen, menu>>

InterfaceInit ==
  /\ part \in {"voice", "screen", "menu"} /\ Init /\ Screen!Init /\ Menu!Init
  /\ part # "voice" => config = CHOOSE c \in Configs : TRUE
  /\ part # "screen" => screenTimeout = 0

RunVoice == part = "voice" /\ Next /\ UNCHANGED <<part, screen, menu>>
RunScreen == part = "screen" /\ Screen!Next /\ UNCHANGED <<part, voice, menu>>
RunMenu == part = "menu" /\ Menu!Next /\ UNCHANGED <<part, voice, screen>>

InterfaceNext == RunVoice \/ RunScreen \/ RunMenu

\* The fairness of LiveSpec, for the part that runs.
InterfaceSpec == InterfaceInit /\ [][InterfaceNext]_parts /\ WF_voice(part = "voice" /\ Worker)

-----------------------------------------------------------------------------
\* See the modules of the same parts for what these say of the code.
ScreenSafe == Screen!ScreenSafe
MenuSafe == Menu!MenuSafe
InstallTakesTwo == Menu!InstallTakesTwo
=============================================================================
