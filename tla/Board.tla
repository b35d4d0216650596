-------------------------------- MODULE Board --------------------------------
(* The parts that own hardware: codec, buttons, fuel gauge, display, and   *)
(* the four pages of the board demonstration that own a worker or a radio. *)
(* They share no state (a page uses a driver through its calls, which it   *)
(* leaves free to fail), and it is enough to let one of them run at a      *)
(* time.                                                                   *)
EXTENDS AudioCodec, FiniteSets

CONSTANTS
  Owners, Nobody, Voltages,         \* of Buttons
  Entries, LowPowerEntry, MaxSlept, \* of SleepPage
  Bytes, Polls, Charges,            \* of BatteryGauge
  Pins,                             \* of DisplayPanel
  Chunks                            \* of TonePage

VARIABLES
  part, \* the part that runs
  call, caller, adc, cali, btn, registered, cb, user, ready, down, stuck, orphan,
  ui, selected, active, task, sem, stopRequested, busy, mode, note, at, command, tried, audio,
  light, timer, rtc, cause, shown, slept,
  chip, pc, i, gauge, battery, low, told, again, calm,
  \* of the display, the audio page, the Bluetooth page and the Wi-Fi page
  dAt, dErr, dHandles, dLive, dOrphan, dReady, dPad, dLine, dHeld, dDeepHold, dPort,
  dPortFailed, dScreen, dMask, dDisp, dLock, dAsleep, dQuiet, dFrames,
  tUi, tTask, tSem, tCancel, tNote, tAt, tCommand, tTodo, tGot, tBuffer, tLate,
  bUi, bState, bRequested, bInitialized, bStopping, bDone, bTask, bSem, bPort, bAdv, bHost,
  bTimer, bMisuse,
  wUi, wState, wOwned, wAlive, wScanning, wPosted, wTimer, wOvertaken, wOrphan

Keys == INSTANCE Buttons WITH pc <- call
Page == INSTANCE SleepPage WITH Count <- Entries, Page <- LowPowerEntry
Gauge == INSTANCE BatteryGauge WITH dev <- gauge
Panel == INSTANCE DisplayPanel WITH
  at <- dAt, err <- dErr, handles <- dHandles, live <- dLive, orphan <- dOrphan,
  ready <- dReady, pad <- dPad, line <- dLine, held <- dHeld, deepHold <- dDeepHold,
  port <- dPort, portFailed <- dPortFailed, screen <- dScreen, mask <- dMask, disp <- dDisp,
  lock <- dLock, asleep <- dAsleep, quiet <- dQuiet, frames <- dFrames
Tone == INSTANCE TonePage WITH Total <- Chunks,
  ui <- tUi, task <- tTask, sem <- tSem, cancel <- tCancel, note <- tNote, at <- tAt,
  command <- tCommand, todo <- tTodo, got <- tGot, buffer <- tBuffer, late <- tLate
Ble == INSTANCE BlePage WITH
  ui <- bUi, state <- bState, requested <- bRequested, initialized <- bInitialized,
  stopping <- bStopping, done <- bDone, task <- bTask, sem <- bSem, port <- bPort,
  adv <- bAdv, host <- bHost, timer <- bTimer, misuse <- bMisuse
Scan == INSTANCE ScanPage WITH
  ui <- wUi, state <- wState, owned <- wOwned, alive <- wAlive, scanning <- wScanning,
  posted <- wPosted, timer <- wTimer, overtaken <- wOvertaken, orphan <- wOrphan

ASSUME BoardAssumption ==
  /\ Keys!ButtonAssumption /\ Page!PageAssumption /\ Gauge!GaugeAssumption
  /\ Panel!PanelAssumption /\ Tone!ToneAssumption

codec == vars
keys == <<call, caller, adc, cali, btn, registered, cb, user, ready, down, stuck, orphan>>
page == <<ui, selected, active, task, sem, stopRequested, busy, mode, note, at, command, tried,
          audio, light, timer, rtc, cause, shown, slept>>
fuel == <<chip, pc, i, gauge, battery, low, told, again, calm>>
display == <<dAt, dErr, dHandles, dLive, dOrphan, dReady, dPad, dLine, dHeld, dDeepHold, dPort,
    dPortFailed, dScreen, dMask, dDisp, dLock, dAsleep, dQuiet, dFrames>>
tone == <<tUi, tTask, tSem, tCancel, tNote, tAt, tCommand, tTodo, tGot, tBuffer, tLate>>
ble == <<bUi, bState, bRequested, bInitialized, bStopping, bDone, bTask, bSem, bPort, bAdv,
    bHost, bTimer, bMisuse>>
scan == <<wUi, wState, wOwned, wAlive, wScanning, wPosted, wTimer, wOvertaken, wOrphan>>
parts == <<part, codec, keys, page, fuel, display, tone, ble, scan>>

BoardInit ==
  /\ part \in {"codec", "keys", "page", "gauge", "panel", "tone", "ble", "scan"}
  /\ Init /\ Keys!Init /\ Page!Init /\ Gauge!Init /\ Panel!Init /\ Tone!Init /\ Ble!Init /\ Scan!Init
  /\ part # "gauge" => chip = Gauge!Fresh

RunCodec ==
  /\ part = "codec" /\ Next
  /\ UNCHANGED <<part, keys, page, fuel, display, tone, ble, scan>>
RunKeys ==
  /\ part = "keys" /\ Keys!Next
  /\ UNCHANGED <<part, codec, page, fuel, display, tone, ble, scan>>
RunPage ==
  /\ part = "page" /\ Page!Next
  /\ UNCHANGED <<part, codec, keys, fuel, display, tone, ble, scan>>
RunGauge ==
  /\ part = "gauge" /\ Gauge!Next
  /\ UNCHANGED <<part, codec, keys, page, display, tone, ble, scan>>
RunPanel ==
  /\ part = "panel" /\ Panel!Next
  /\ UNCHANGED <<part, codec, keys, page, fuel, tone, ble, scan>>
RunTone ==
  /\ part = "tone" /\ Tone!Next
  /\ UNCHANGED <<part, codec, keys, page, fuel, display, ble, scan>>
RunBle ==
  /\ part = "ble" /\ Ble!Next
  /\ UNCHANGED <<part, codec, keys, page, fuel, display, tone, scan>>
RunScan ==
  /\ part = "scan" /\ Scan!Next
  /\ UNCHANGED <<part, codec, keys, page, fuel, display, tone, ble>>

BoardNext == RunCodec \/ RunKeys \/ RunPage \/ RunGauge \/ RunPanel \/ RunTone \/ RunBle \/ RunScan

\* The fairness of Page!Spec, Tone!Spec and Gauge!Spec, for the part that runs.
BoardSpec ==
  /\ BoardInit /\ [][BoardNext]_parts
  /\ WF_page(part = "page" /\ Page!Worker)
  /\ WF_tone(part = "tone" /\ Tone!Worker)
  /\ WF_fuel(part = "gauge" /\ Gauge!Step)
  /\ WF_fuel(part = "gauge" /\ ~Gauge!Ready /\ Gauge!Compute)

-----------------------------------------------------------------------------
\* See the modules of the same parts for what these say of the code.
ButtonsSafe == Keys!ButtonsSafe
PagesSafe == Page!PageSafe /\ Tone!ToneSafe /\ Ble!BleSafe /\ Scan!ScanSafe
WorkersPark == Page!WorkerParks /\ Tone!ToneStops
DisplaySafe == Panel!DisplaySafe
GaugeSafe == Gauge!GaugeSafe
GaugeRecovers == Gauge!GaugeRecovers
=============================================================================
