---------------------------- MODULE PagesProofs ----------------------------
(***************************************************************************)
(* The four pages of the board demonstration that own a worker or a radio  *)
(* (the modules TonePage, BlePage, ScanPage and SleepPage, composed by     *)
(* Board): what they promise, for any number of chunks, menu entries and   *)
(* sleeps.                                                                 *)
(*                                                                         *)
(* Each page's part of PagesSafe says what is gone when the page is left   *)
(* or in which order its things go.  None is inductive: what is still      *)
(* there follows from where the input task and the worker are, and that is *)
(* what a Stage says of each page.                                         *)
(***************************************************************************)
EXTENDS Board, TLAPS

-----------------------------------------------------------------------------
(* The audio page.  The semaphore tells the state of the worker; what is   *)
(* left to record and what was recorded make up the whole; the worker is   *)
(* in a transfer only if none has ended since it was to stop.              *)
ToneStage ==
  /\ tSem = "given" <=> tTask = "parked"
  /\ tSem = "none" <=> tTask = "none"
  /\ tUi \in {"menu", "exit"} => tTask = "none"
  /\ tAt \in {"reading", "writing"} => tTodo > 0
  /\ tAt \in {"record", "reading"} => tGot + tTodo = Chunks
  /\ tTask = "alive" /\ tLate > 0 => tCancel /\ tAt \notin {"reading", "writing"}
ToneInv == Tone!TypeOK /\ Tone!GoneIsGone /\ ToneStage

LEMMA ToneEnough == ToneInv => Tone!ToneSafe
<1> SUFFICES ASSUME ToneInv PROVE Tone!ToneSafe
  OBVIOUS
<1> QED
  BY DEF ToneInv, Tone!ToneSafe

LEMMA ToneStart == Tone!Init => ToneInv
<1> SUFFICES ASSUME Tone!Init PROVE ToneInv
  OBVIOUS
<1> QED
  <2>1. Tone!TypeOK
    <3>1. tTodo \in 0 .. Chunks /\ tGot \in 0 .. Chunks /\ tLate \in 0 .. 1
      BY BoardAssumption DEF Tone!ToneAssumption, Tone!Init
    <3> QED
      BY <3>1 DEF Tone!Init, Tone!TypeOK
  <2>2. Tone!GoneIsGone /\ ToneStage
    BY BoardAssumption DEF Tone!ToneAssumption, Tone!Init, Tone!GoneIsGone, ToneStage
  <2> QED
    BY <2>1, <2>2 DEF ToneInv

LEMMA ToneStep == ToneInv /\ [Tone!Next]_Tone!vars => ToneInv'
<1> SUFFICES ASSUME ToneInv, [Tone!Next]_Tone!vars PROVE ToneInv'
  OBVIOUS
<1> USE BoardAssumption DEF Tone!ToneAssumption, ToneInv, Tone!TypeOK, Tone!GoneIsGone,
     ToneStage, Tone!None, Tone!TONE, Tone!RECORD, Tone!STOP, Tone!Go, Tone!Step,
             Tone!owner, Tone!job, Tone!Rest
<1>1. CASE Tone!Enter
  <2>1. CASE tTask = "none" /\ tTask' = "alive"
    <3>1. tSem' = "empty" /\ tCancel' = FALSE /\ tNote' = 0 /\ tAt' = "wait" /\ tLate' = 0
      BY <1>1, <2>1 DEF Tone!Enter
    <3>2. tUi' = "page" /\ UNCHANGED <<tCommand, tTodo, tGot, tBuffer>>
      BY <1>1 DEF Tone!Enter
    <3>3. ~tBuffer /\ tTask = "none"
      BY <2>1
    <3>4. tLate' \in 0 .. 1 /\ tTodo' \in 0 .. Chunks /\ tGot' \in 0 .. Chunks
      BY <3>1, <3>2
    <3>5. tCancel' \in BOOLEAN /\ tBuffer' \in BOOLEAN
      BY <3>1, <3>2
    <3>6. Tone!TypeOK'
      BY <2>1, <3>1, <3>2, <3>4, <3>5
    <3> QED
      BY <2>1, <3>1, <3>2, <3>3, <3>6
  <2>2. CASE tTask = "none" /\ tTask' = "none"
    <3>1. tCancel' \in BOOLEAN /\ tSem' = "none"
      BY <1>1, <2>2 DEF Tone!Enter
    <3>2. tUi' = "page" /\ UNCHANGED <<tTask, tNote, tAt, tLate, tCommand, tTodo, tGot, tBuffer>>
      BY <1>1, <2>2 DEF Tone!Enter
    <3> QED
      BY <1>1, <2>2, <3>1, <3>2
  <2>3. CASE tTask # "none"
    BY <1>1, <2>3 DEF Tone!Enter
  <2> QED
    BY <1>1, <2>1, <2>2, <2>3 DEF Tone!Enter
<1>2. CASE Tone!Key
  BY <1>2 DEF Tone!Key, Tone!KeysCount
<1>3. CASE Tone!Stop
  BY <1>3 DEF Tone!Stop
<1>4. CASE Tone!Stopped
  BY <1>4 DEF Tone!Stopped
<1>5. CASE Tone!TimesOut
  BY <1>5 DEF Tone!TimesOut, Tone!Stays
<1>6. CASE Tone!Exit
  BY <1>6 DEF Tone!Exit
<1>7. CASE Tone!Take
  <2>1. Tone!TypeOK'
    BY <1>7 DEF Tone!Take
  <2>2. Tone!GoneIsGone'
    BY <1>7 DEF Tone!Take
  <2>3. ToneStage'
    BY <1>7 DEF Tone!Take
  <2> QED
    BY <2>1, <2>2, <2>3
<1>8. CASE Tone!Prepare
  <2>1. CASE tAt' = "wait"
    BY <1>8, <2>1 DEF Tone!Prepare
  <2>2. CASE tAt' # "wait"
    <3>1. tTodo' = Chunks /\ tGot' = 0 /\ tBuffer' = TRUE /\ tTask = "alive" /\ tAt' \in {"play", "record"}
      BY <1>8, <2>2 DEF Tone!Prepare
    <3>2. UNCHANGED <<tUi, tTask, tSem, tCancel, tNote, tCommand, tLate>>
      BY <1>8 DEF Tone!Prepare
    <3> QED
      BY <3>1, <3>2, <1>8
  <2> QED
    BY <2>1, <2>2
<1>9. CASE Tone!Look
  BY <1>9 DEF Tone!Look, Tone!MayGoOn
<1>10. CASE Tone!Transfer
  BY <1>10 DEF Tone!Transfer
<1>11. CASE Tone!TransferFails
  BY <1>11 DEF Tone!TransferFails, Tone!Freed
<1>12. CASE Tone!Acknowledge
  BY <1>12 DEF Tone!Acknowledge
<1>13. CASE UNCHANGED Tone!vars
  BY <1>13 DEF Tone!vars
<1> QED
  BY <1>1, <1>2, <1>3, <1>4, <1>5, <1>6, <1>7, <1>8, <1>9, <1>10, <1>11, <1>12, <1>13
  DEF Tone!Next, Tone!Worker

LEMMA ToneHolds == Tone!Init /\ [][Tone!Next]_Tone!vars => []ToneInv
  BY ToneStart, ToneStep, PTL

-----------------------------------------------------------------------------
(* The Bluetooth page.  What there is of NimBLE at each of its states, and *)
(* what the input task has undone at each of its steps.                    *)
BleStage ==
  /\ ~bInitialized => bTask = "none" /\ bSem = "none" /\ bPort = "off" /\ ~bAdv
  /\ bInitialized => bPort # "off"
  /\ bStopping <=> bPort = "stopping"
  /\ bUi \in {"menu", "exit"} => ~bInitialized
  /\ bUi \in {"menu", "exit", "deinit", "await"} => ~bRequested
  /\ bUi = "deinit" => bTask = "none"
BleInv == Ble!TypeOK /\ Ble!RadioReturned /\ BleStage

LEMMA BleEnough == BleInv => Ble!BleSafe
<1> SUFFICES ASSUME BleInv PROVE Ble!BleSafe
  OBVIOUS
<1> QED
  BY DEF BleInv, Ble!BleSafe

LEMMA BleStart == Ble!Init => BleInv
<1> SUFFICES ASSUME Ble!Init PROVE BleInv
  OBVIOUS
<1> QED
  BY DEF Ble!Init, BleInv, Ble!TypeOK, Ble!RadioReturned, BleStage

LEMMA BleStep == BleInv /\ [Ble!Next]_Ble!vars => BleInv'
<1> SUFFICES ASSUME BleInv, [Ble!Next]_Ble!vars PROVE BleInv'
  OBVIOUS
<1> USE DEF BleInv, Ble!TypeOK, Ble!RadioReturned, BleStage, Ble!Go, Ble!Host, Ble!flags,
     Ble!nimble
<1>1. CASE Ble!Enter
  BY <1>1 DEF Ble!Enter
<1>2. CASE Ble!Refused /\ UNCHANGED <<bTimer, bMisuse>>
  BY <1>2 DEF Ble!Refused
<1>3. CASE Ble!StartFails /\ UNCHANGED <<bTimer, bMisuse>>
  <2>1. Ble!TypeOK'
    BY <1>3 DEF Ble!StartFails
  <2>2. Ble!RadioReturned'
    BY <1>3 DEF Ble!StartFails
  <2>3. BleStage'
    BY <1>3 DEF Ble!StartFails
  <2> QED
    BY <2>1, <2>2, <2>3
<1>4. CASE Ble!Starts /\ UNCHANGED <<bTimer, bMisuse>>
  BY <1>4 DEF Ble!Starts
<1>5. CASE Ble!Key
  BY <1>5 DEF Ble!Key
<1>6. CASE Ble!KeyStarts
  <2>1. Ble!TypeOK'
    BY <1>6 DEF Ble!KeyStarts
  <2>2. Ble!RadioReturned'
    BY <1>6 DEF Ble!KeyStarts
  <2>3. BleStage'
    BY <1>6 DEF Ble!KeyStarts
  <2> QED
    BY <2>1, <2>2, <2>3
<1>7. CASE Ble!KeyMarks
  BY <1>7 DEF Ble!KeyMarks
<1>8. CASE Ble!Stop
  BY <1>8 DEF Ble!Stop, Ble!NotYet
<1>9. CASE Ble!TimesOut
  BY <1>9 DEF Ble!TimesOut, Ble!Stays
<1>10. CASE Ble!Stopped
  BY <1>10 DEF Ble!Stopped
<1>11. CASE Ble!Deinit
  <2>1. Ble!TypeOK'
    BY <1>11 DEF Ble!Deinit, Ble!Retained
  <2>2. Ble!RadioReturned'
    BY <1>11 DEF Ble!Deinit, Ble!Retained
  <2>3. BleStage'
    BY <1>11 DEF Ble!Deinit, Ble!Retained
  <2> QED
    BY <2>1, <2>2, <2>3
<1>12. CASE Ble!Exit
  BY <1>12 DEF Ble!Exit
<1>13. CASE Ble!Callback
  BY <1>13 DEF Ble!Callback
<1>14. CASE Ble!Advertise
  BY <1>14 DEF Ble!Advertise
<1>15. CASE Ble!HostReset
  BY <1>15 DEF Ble!HostReset
<1>16. CASE Ble!Returns
  BY <1>16 DEF Ble!Returns
<1>17. CASE Ble!TimerReads
  BY <1>17 DEF Ble!TimerReads, Ble!OnPage
<1>18. CASE Ble!TimerClears
  BY <1>18 DEF Ble!TimerClears
<1>19. CASE UNCHANGED Ble!vars
  BY <1>19 DEF Ble!vars
<1> QED
  BY <1>1, <1>2, <1>3, <1>4, <1>5, <1>6, <1>7, <1>8, <1>9, <1>10, <1>11, <1>12, <1>13, <1>14,
     <1>15, <1>16, <1>17, <1>18, <1>19
  DEF Ble!Next, Ble!Start

LEMMA BleHolds == Ble!Init /\ [][Ble!Next]_Ble!vars => []BleInv
  BY BleStart, BleStep, PTL

-----------------------------------------------------------------------------
(* The Wi-Fi page.  What is owned at each step of the input task, and that *)
(* a scan which is shown, or about to be, is there to end.                 *)
ScanStage ==
  /\ wUi \in {"menu", "start", "failed", "exit"} => wOwned = {}
  /\ wUi \in {"stop2", "undo2", "stop3", "undo3"} => "started" \notin wOwned
  /\ wUi \in {"stop3", "undo3"} => "handler" \notin wOwned
  /\ "started" \in wOwned => "handler" \in wOwned
  /\ wScanning => "started" \in wOwned
  /\ wUi = "mark" => "started" \in wOwned /\ (wScanning \/ wPosted \/ wOvertaken)
  /\ wUi \in {"exit", "menu"} => wState # "SCANNING"
  /\ wUi = "page" /\ wState = "SCANNING" => "handler" \in wOwned
ScanInv == Scan!TypeOK /\ Scan!RadioReturned /\ Scan!ScanShown /\ ScanStage

LEMMA ScanEnough == ScanInv => Scan!ScanSafe
<1> SUFFICES ASSUME ScanInv PROVE Scan!ScanSafe
  OBVIOUS
<1> QED
  BY DEF ScanInv, Scan!ScanSafe

LEMMA ScanStart == Scan!Init => ScanInv
<1> SUFFICES ASSUME Scan!Init PROVE ScanInv
  OBVIOUS
<1> QED
  BY DEF Scan!Init, ScanInv, Scan!TypeOK, Scan!RadioReturned, Scan!ScanShown, ScanStage

LEMMA ScanStep == ScanInv /\ [Scan!Next]_Scan!vars => ScanInv'
<1> SUFFICES ASSUME ScanInv, [Scan!Next]_Scan!vars PROVE ScanInv'
  OBVIOUS
<1> USE DEF ScanInv, Scan!TypeOK, Scan!RadioReturned, Scan!ScanShown, ScanStage, Scan!Go,
     Scan!driver
<1>0. Scan!Parts = {"netif", "wifi", "handler", "started"}
  BY DEF Scan!Parts, Scan!Chain
<1>1. CASE Scan!Enter
  BY <1>1 DEF Scan!Enter
<1>2. CASE Scan!Start
  <2>1. CASE {"netif", "wifi"} \cap wOwned # {}
    BY <1>2, <2>1 DEF Scan!Start
  <2>2. CASE {"netif", "wifi"} \cap wOwned = {}
    <3>1. PICK k \in 0 .. 4 :
            LET made == {Scan!Chain[n] : n \in 1 .. k} IN
            /\ wOwned' = wOwned \cup made /\ wAlive' = wAlive \cup made
            /\ wOrphan' = (wOrphan \/ made \cap wAlive # {})
            /\ wUi' \in (IF k = 4 THEN {"scan"} ELSE {"undo1"})
      BY <1>2, <2>2 DEF Scan!Start
    <3> DEFINE made == {Scan!Chain[n] : n \in 1 .. k}
    <3>2. wOwned = {}
      BY <1>2 DEF Scan!Start
    <3>3. made \subseteq Scan!Parts /\ ("started" \in made => "handler" \in made)
      BY DEF Scan!Parts, Scan!Chain
    <3>4. wState' = "STARTING" /\ UNCHANGED <<wScanning, wPosted, wTimer, wOvertaken>>
      BY <1>2, <2>2 DEF Scan!Start
    <3>5. wOwned' = made /\ wAlive' = made /\ wOrphan' = wOrphan
      BY <3>1, <3>2
    <3>6. wUi' \in {"scan", "undo1"}
      BY <3>1
    <3> HIDE DEF made
    <3> QED
      BY <1>2, <3>2, <3>3, <3>4, <3>5, <3>6 DEF Scan!Start
  <2> QED
    BY <2>1, <2>2
<1>3. CASE Scan!FirstScan
  BY <1>3 DEF Scan!FirstScan, Scan!Scan
<1>4. CASE Scan!Mark
  BY <1>4 DEF Scan!Mark
<1>5. CASE Scan!Key
  BY <1>5 DEF Scan!Key, Scan!Scan
<1>6. CASE Scan!Stop
  BY <1>6 DEF Scan!Stop
<1>7. CASE Scan!Halt
  BY <1>0, <1>7 DEF Scan!Halt
<1>8. CASE Scan!Unregister
  BY <1>0, <1>8 DEF Scan!Unregister
<1>9. CASE Scan!Release
  BY <1>0, <1>9 DEF Scan!Release, Scan!Released, Scan!Stopped
<1>10. CASE Scan!Fails
  BY <1>10 DEF Scan!Fails
<1>11. CASE Scan!Exit
  BY <1>11 DEF Scan!Exit
<1>12. CASE Scan!ScanEnds
  BY <1>12 DEF Scan!ScanEnds
<1>13. CASE Scan!ScanDone
  BY <1>13 DEF Scan!ScanDone
<1>14. CASE Scan!TimerReads
  BY <1>14 DEF Scan!TimerReads
<1>15. CASE Scan!TimerWrites
  BY <1>15 DEF Scan!TimerWrites
<1>16. CASE UNCHANGED Scan!vars
  BY <1>16 DEF Scan!vars
<1> QED
  BY <1>1, <1>2, <1>3, <1>4, <1>5, <1>6, <1>7, <1>8, <1>9, <1>10, <1>11, <1>12, <1>13, <1>14,
     <1>15, <1>16
  DEF Scan!Next

LEMMA ScanHolds == Scan!Init /\ [][Scan!Next]_Scan!vars => []ScanInv
  BY ScanStart, ScanStep, PTL

-----------------------------------------------------------------------------
(* The low-power page.  No worker, no trace of it; a codec that was put to *)
(* sleep is about to be woken; the memory that survives a sleep counts     *)
(* what the history counts.                                                *)
PageStage ==
  /\ task = "none" => light /\ ~timer
  /\ ui \in {"start", "exit"} => task = "none"
  /\ ui \in {"start", "await"} => active = LowPowerEntry
  /\ at \in {"light", "resume"} => tried
  /\ rtc.magic => rtc.count = slept /\ slept > 0
  /\ ~rtc.magic => slept = 0
PageInv == Page!TypeOK /\ Page!GoneIsGone /\ Page!AckIsTrue /\ Page!CodecIsBack /\ Page!CountsSleeps /\ PageStage

LEMMA PageEnough == PageInv => Page!PageSafe
<1> SUFFICES ASSUME PageInv PROVE Page!PageSafe
  OBVIOUS
<1> QED
  BY DEF PageInv, Page!PageSafe

(* The cursor, a page of the menu, wraps.                                  *)
LEMMA CursorWraps == \A x \in 0 .. Entries - 1, y \in {1, Entries - 1} : (x + y) % Entries \in 0 .. Entries - 1
  BY BoardAssumption DEF Page!PageAssumption

(* What a start of the board, or its power coming back, leaves.            *)
LEMMA BootedWhole ==
  ASSUME Page!Booted, cause' \in BOOLEAN, slept' \in 0 .. MaxSlept,
         rtc' \in [magic : BOOLEAN, count : Nat],
         rtc'.magic => rtc'.count = slept' /\ slept' > 0, ~rtc'.magic => slept' = 0
  PROVE  PageInv'
<1> USE BoardAssumption DEF Page!PageAssumption, Page!Booted, Page!LIGHT, Page!DEEP,
     Page!STOP, Page!None
<1>1. Page!TypeOK'
  <2>1. selected' \in 0 .. Entries - 1 /\ active' \in -1 .. Entries - 1 /\ shown' \in -1 .. MaxSlept
    OBVIOUS
  <2> QED
    BY <2>1 DEF Page!TypeOK
<1>2. Page!GoneIsGone' /\ Page!AckIsTrue' /\ Page!CodecIsBack' /\ Page!CountsSleeps'
  BY DEF Page!GoneIsGone, Page!AckIsTrue, Page!CodecIsBack, Page!CountsSleeps
<1>3. PageStage'
  BY DEF PageStage
<1> QED
  BY <1>1, <1>2, <1>3 DEF PageInv

(* Any start but a wake from deep sleep.                                   *)
LEMMA AnewWhole == ASSUME Page!StartsAnew PROVE PageInv'
<1>1. Page!Booted /\ cause' = FALSE /\ slept' = 0 /\ rtc' = [magic |-> FALSE, count |-> 0]
  BY DEF Page!StartsAnew, Page!Reloaded
<1>2. slept' \in 0 .. MaxSlept
  BY <1>1, BoardAssumption DEF Page!PageAssumption
<1>3. rtc' \in [magic : BOOLEAN, count : Nat] /\ ~rtc'.magic
  BY <1>1
<1> QED
  BY <1>1, <1>2, <1>3, BootedWhole

LEMMA PageStart == Page!Init => PageInv
<1> SUFFICES ASSUME Page!Init PROVE PageInv
  OBVIOUS
<1> USE BoardAssumption DEF Page!PageAssumption, Page!Init, Page!LIGHT, Page!DEEP, Page!STOP,
     Page!None
<1>1. Page!TypeOK
  <2>1. selected \in 0 .. Entries - 1 /\ active \in -1 .. Entries - 1 /\ shown \in -1 .. MaxSlept /\ slept \in 0 .. MaxSlept
    OBVIOUS
  <2>2. rtc \in [magic : BOOLEAN, count : Nat]
    OBVIOUS
  <2> QED
    BY <2>1, <2>2 DEF Page!TypeOK
<1>2. Page!GoneIsGone /\ Page!AckIsTrue /\ Page!CodecIsBack /\ Page!CountsSleeps
  BY DEF Page!GoneIsGone, Page!AckIsTrue, Page!CodecIsBack, Page!CountsSleeps
<1>3. PageStage
  BY DEF PageStage
<1> QED
  BY <1>1, <1>2, <1>3 DEF PageInv

LEMMA PageStep == PageInv /\ [Page!Next]_Page!vars => PageInv'
<1> SUFFICES ASSUME PageInv, [Page!Next]_Page!vars PROVE PageInv'
  OBVIOUS
<1> DEFINE Safe == Page!GoneIsGone /\ Page!AckIsTrue /\ Page!CodecIsBack /\ Page!CountsSleeps /\ PageStage
<1>0. Page!TypeOK /\ Safe
  BY DEF PageInv
<1>a. Entries \in Nat \ {0} /\ LowPowerEntry \in 0 .. Entries - 1 /\ MaxSlept \in Nat /\ LowPowerEntry # -1
  BY BoardAssumption DEF Page!PageAssumption
<1>b. Page!LIGHT = 1 /\ Page!DEEP = 2 /\ Page!STOP = 3 /\ Page!None = 0
  BY DEF Page!LIGHT, Page!DEEP, Page!STOP, Page!None
<1> USE <1>0, <1>a, <1>b DEF Page!nav, Page!shared, Page!worker, Page!board, Page!sleeps,
     Page!Rest, Page!Step
<1> SUFFICES Page!TypeOK' /\ Safe'
  BY DEF PageInv
<1>1. CASE Page!MoveCursor
  <2>1. Page!TypeOK'
    BY <1>1 DEF Page!MoveCursor, Page!Moved, Page!TypeOK
  <2>2. Safe'
    BY <1>1 DEF Page!MoveCursor, Page!Moved, Page!TypeOK, Page!GoneIsGone, Page!AckIsTrue,
       Page!CodecIsBack, Page!CountsSleeps, PageStage
  <2> QED
    BY <2>1, <2>2
<1>2. CASE Page!Enter
  <2>1. Page!TypeOK'
    <3>1. ui' \in {"idle", "start", "await", "exit"} /\ selected' = selected /\ active' \in -1 .. Entries - 1
      BY <1>2 DEF Page!Enter, Page!TypeOK
    <3>2. sem' \in {"none", "empty", "given"} /\ note' \in {Page!None, Page!LIGHT, Page!DEEP, Page!STOP} /\ mode' \in {Page!LIGHT, Page!DEEP}
      BY <1>2 DEF Page!Enter, Page!TypeOK
    <3>3. stopRequested' \in BOOLEAN /\ busy' \in BOOLEAN /\ tried' \in BOOLEAN
      BY <1>2 DEF Page!Enter, Page!TypeOK
    <3>4. light' \in BOOLEAN /\ timer' \in BOOLEAN /\ cause' \in BOOLEAN
      BY <1>2 DEF Page!Enter, Page!TypeOK
    <3>5. shown' \in -1 .. MaxSlept /\ slept' \in 0 .. MaxSlept /\ rtc' \in [magic : BOOLEAN, count : Nat]
      BY <1>2 DEF Page!Enter, Page!TypeOK, PageStage
    <3>6. /\ task' \in {"none", "alive", "parked"} /\ command' \in {Page!None, Page!LIGHT, Page!DEEP, Page!STOP}
          /\ at' \in {"wait", "delay", "deep", "suspend", "light", "resume", "end", "done", "parked"}
          /\ audio' \in {"awake", "asleep", "broken"}
      BY <1>2 DEF Page!Enter, Page!TypeOK
    <3> QED
      BY <1>a, <3>1, <3>2, <3>3, <3>4, <3>5, <3>6 DEF Page!TypeOK
  <2>2. Safe'
    BY <1>2 DEF Page!Enter, Page!TypeOK, Page!GoneIsGone, Page!AckIsTrue, Page!CodecIsBack,
       Page!CountsSleeps, PageStage
  <2> QED
    BY <2>1, <2>2
<1>3. CASE Page!Start
  <2>1. Page!TypeOK'
    <3>1. ui' \in {"idle", "start", "await", "exit"} /\ selected' = selected /\ active' \in -1 .. Entries - 1
      BY <1>3 DEF Page!Start, Page!TypeOK
    <3>2. sem' \in {"none", "empty", "given"} /\ note' \in {Page!None, Page!LIGHT, Page!DEEP, Page!STOP} /\ mode' \in {Page!LIGHT, Page!DEEP}
      BY <1>3 DEF Page!Start, Page!TypeOK
    <3>3. stopRequested' \in BOOLEAN /\ busy' \in BOOLEAN /\ tried' \in BOOLEAN
      BY <1>3 DEF Page!Start, Page!TypeOK
    <3>4. light' \in BOOLEAN /\ timer' \in BOOLEAN /\ cause' \in BOOLEAN
      BY <1>3 DEF Page!Start, Page!TypeOK
    <3>5. shown' \in -1 .. MaxSlept /\ slept' \in 0 .. MaxSlept /\ rtc' \in [magic : BOOLEAN, count : Nat]
      BY <1>3 DEF Page!Start, Page!TypeOK, PageStage
    <3>6. /\ task' \in {"none", "alive", "parked"} /\ command' \in {Page!None, Page!LIGHT, Page!DEEP, Page!STOP}
          /\ at' \in {"wait", "delay", "deep", "suspend", "light", "resume", "end", "done", "parked"}
          /\ audio' \in {"awake", "asleep", "broken"}
      BY <1>3 DEF Page!Start, Page!TypeOK
    <3> QED
      BY <1>a, <3>1, <3>2, <3>3, <3>4, <3>5, <3>6 DEF Page!TypeOK
  <2>2. Safe'
    BY <1>3 DEF Page!Start, Page!TypeOK, Page!GoneIsGone, Page!AckIsTrue, Page!CodecIsBack,
       Page!CountsSleeps, PageStage
  <2> QED
    BY <2>1, <2>2
<1>4. CASE Page!OtherMode
  <2>1. Page!TypeOK'
    BY <1>4 DEF Page!OtherMode, Page!KeysCount, Page!TypeOK
  <2>2. Safe'
    BY <1>4 DEF Page!OtherMode, Page!KeysCount, Page!TypeOK, Page!GoneIsGone, Page!AckIsTrue,
       Page!CodecIsBack, Page!CountsSleeps, PageStage
  <2> QED
    BY <2>1, <2>2
<1>5. CASE Page!Run
  <2>1. Page!TypeOK'
    BY <1>5 DEF Page!Run, Page!KeysCount, Page!TypeOK
  <2>2. Safe'
    BY <1>5 DEF Page!Run, Page!KeysCount, Page!TypeOK, Page!GoneIsGone, Page!AckIsTrue,
       Page!CodecIsBack, Page!CountsSleeps, PageStage
  <2> QED
    BY <2>1, <2>2
<1>6. CASE Page!Stop
  <2>1. Page!TypeOK'
    <3>1. ui' \in {"idle", "start", "await", "exit"} /\ selected' = selected /\ active' \in -1 .. Entries - 1
      BY <1>6 DEF Page!Stop, Page!Told, Page!TypeOK
    <3>2. sem' \in {"none", "empty", "given"} /\ note' \in {Page!None, Page!LIGHT, Page!DEEP, Page!STOP} /\ mode' \in {Page!LIGHT, Page!DEEP}
      BY <1>6 DEF Page!Stop, Page!Told, Page!TypeOK
    <3>3. stopRequested' \in BOOLEAN /\ busy' \in BOOLEAN /\ tried' \in BOOLEAN
      BY <1>6 DEF Page!Stop, Page!Told, Page!TypeOK
    <3>4. light' \in BOOLEAN /\ timer' \in BOOLEAN /\ cause' \in BOOLEAN
      BY <1>6 DEF Page!Stop, Page!Told, Page!TypeOK
    <3>5. shown' \in -1 .. MaxSlept /\ slept' \in 0 .. MaxSlept /\ rtc' \in [magic : BOOLEAN, count : Nat]
      BY <1>6 DEF Page!Stop, Page!Told, Page!TypeOK, PageStage
    <3>6. /\ task' \in {"none", "alive", "parked"} /\ command' \in {Page!None, Page!LIGHT, Page!DEEP, Page!STOP}
          /\ at' \in {"wait", "delay", "deep", "suspend", "light", "resume", "end", "done", "parked"}
          /\ audio' \in {"awake", "asleep", "broken"}
      BY <1>6 DEF Page!Stop, Page!Told, Page!TypeOK
    <3> QED
      BY <1>a, <3>1, <3>2, <3>3, <3>4, <3>5, <3>6 DEF Page!TypeOK
  <2>2. Safe'
    BY <1>6 DEF Page!Stop, Page!Told, Page!TypeOK, Page!GoneIsGone, Page!AckIsTrue,
       Page!CodecIsBack, Page!CountsSleeps, PageStage
  <2> QED
    BY <2>1, <2>2
<1>7. CASE Page!Stopped
  <2>1. Page!TypeOK'
    <3>1. /\ ui' \in {"idle", "start", "await", "exit"} /\ selected' \in 0 .. Entries - 1
          /\ active' \in -1 .. Entries - 1
      BY <1>7 DEF Page!Stopped, Page!Deleted, Page!TypeOK
    <3>2. /\ sem' \in {"none", "empty", "given"} /\ note' \in {Page!None, Page!LIGHT, Page!DEEP, Page!STOP}
          /\ mode' \in {Page!LIGHT, Page!DEEP}
      BY <1>7 DEF Page!Stopped, Page!Deleted, Page!TypeOK
    <3>3. /\ stopRequested' \in BOOLEAN /\ busy' \in BOOLEAN /\ tried' \in BOOLEAN
          /\ light' \in BOOLEAN /\ timer' \in BOOLEAN /\ cause' \in BOOLEAN
      BY <1>7 DEF Page!Stopped, Page!Deleted, Page!TypeOK
    <3>4. shown' = shown /\ slept' = slept /\ rtc' = rtc
      BY <1>7 DEF Page!Stopped, Page!Deleted
    <3>5. /\ task' \in {"none", "alive", "parked"}
          /\ command' \in {Page!None, Page!LIGHT, Page!DEEP, Page!STOP}
          /\ at' \in {"wait", "delay", "deep", "suspend", "light", "resume", "end", "done", "parked"}
          /\ audio' \in {"awake", "asleep", "broken"}
      BY <1>7 DEF Page!Stopped, Page!Deleted, Page!TypeOK
    <3> QED
      BY <3>1, <3>2, <3>3, <3>4, <3>5 DEF Page!TypeOK
  <2>2. Safe'
    BY <1>7 DEF Page!Stopped, Page!Deleted, Page!TypeOK, Page!GoneIsGone, Page!AckIsTrue,
       Page!CodecIsBack, Page!CountsSleeps, PageStage
  <2> QED
    BY <2>1, <2>2
<1>8. CASE Page!TimesOut
  <2>1. Page!TypeOK'
    BY <1>8 DEF Page!TimesOut, Page!Stays, Page!TypeOK
  <2>2. Safe'
    BY <1>8 DEF Page!TimesOut, Page!Stays, Page!TypeOK, Page!GoneIsGone, Page!AckIsTrue,
       Page!CodecIsBack, Page!CountsSleeps, PageStage
  <2> QED
    BY <2>1, <2>2
<1>9. CASE Page!Exit
  <2>1. Page!TypeOK'
    <3>1. ui' \in {"idle", "start", "await", "exit"} /\ selected' = selected /\ active' \in -1 .. Entries - 1
      BY <1>9 DEF Page!Exit, Page!TypeOK
    <3>2. sem' \in {"none", "empty", "given"} /\ note' \in {Page!None, Page!LIGHT, Page!DEEP, Page!STOP} /\ mode' \in {Page!LIGHT, Page!DEEP}
      BY <1>9 DEF Page!Exit, Page!TypeOK
    <3>3. stopRequested' \in BOOLEAN /\ busy' \in BOOLEAN /\ tried' \in BOOLEAN
      BY <1>9 DEF Page!Exit, Page!TypeOK
    <3>4. light' \in BOOLEAN /\ timer' \in BOOLEAN /\ cause' \in BOOLEAN
      BY <1>9 DEF Page!Exit, Page!TypeOK
    <3>5. shown' \in -1 .. MaxSlept /\ slept' \in 0 .. MaxSlept /\ rtc' \in [magic : BOOLEAN, count : Nat]
      <4>1. shown' \in {shown, -1} /\ slept' = slept /\ rtc' = rtc
        BY <1>9 DEF Page!Exit
      <4> QED
        BY <4>1 DEF Page!TypeOK
    <3>6. /\ task' \in {"none", "alive", "parked"} /\ command' \in {Page!None, Page!LIGHT, Page!DEEP, Page!STOP}
          /\ at' \in {"wait", "delay", "deep", "suspend", "light", "resume", "end", "done", "parked"}
          /\ audio' \in {"awake", "asleep", "broken"}
      BY <1>9 DEF Page!Exit, Page!TypeOK
    <3> QED
      BY <1>a, <3>1, <3>2, <3>3, <3>4, <3>5, <3>6 DEF Page!TypeOK
  <2>2. Safe'
    <3>1. ui' = "idle" /\ task = "none"
      BY <1>9 DEF Page!Exit, PageStage
    <3>2. UNCHANGED <<selected, mode, task, sem, stopRequested, note, at, command, tried, audio, rtc, cause, slept>>
      BY <1>9 DEF Page!Exit
    <3>3. light' /\ ~timer'
      <4>1. light /\ ~timer
        BY <3>1 DEF PageStage
      <4>2. CASE light' = light /\ timer' = timer
        BY <4>1, <4>2
      <4>3. CASE ~(light' = light /\ timer' = timer)
        BY <1>9, <4>3 DEF Page!Exit
      <4> QED
        BY <4>2, <4>3
    <3>4. shown' \in {shown, -1}
      BY <1>9 DEF Page!Exit
    <3> QED
      BY <3>1, <3>2, <3>3, <3>4 DEF Page!GoneIsGone, Page!AckIsTrue, Page!CodecIsBack,
         Page!CountsSleeps, PageStage
  <2> QED
    BY <2>1, <2>2
<1>10. CASE Page!Take
  <2>1. Page!TypeOK'
    <3>1. /\ ui' \in {"idle", "start", "await", "exit"} /\ selected' \in 0 .. Entries - 1
          /\ active' \in -1 .. Entries - 1
      BY <1>10 DEF Page!Take, Page!TypeOK
    <3>2. /\ sem' \in {"none", "empty", "given"} /\ note' \in {Page!None, Page!LIGHT, Page!DEEP, Page!STOP}
          /\ mode' \in {Page!LIGHT, Page!DEEP}
      BY <1>10 DEF Page!Take, Page!TypeOK
    <3>3. /\ stopRequested' \in BOOLEAN /\ busy' \in BOOLEAN /\ tried' \in BOOLEAN
          /\ light' \in BOOLEAN /\ timer' \in BOOLEAN /\ cause' \in BOOLEAN
      BY <1>10 DEF Page!Take, Page!TypeOK
    <3>4. shown' = shown /\ slept' = slept /\ rtc' = rtc
      BY <1>10 DEF Page!Take
    <3>5. /\ task' \in {"none", "alive", "parked"}
          /\ command' \in {Page!None, Page!LIGHT, Page!DEEP, Page!STOP}
          /\ at' \in {"wait", "delay", "deep", "suspend", "light", "resume", "end", "done", "parked"}
          /\ audio' \in {"awake", "asleep", "broken"}
      BY <1>10 DEF Page!Take, Page!TypeOK
    <3> QED
      BY <3>1, <3>2, <3>3, <3>4, <3>5 DEF Page!TypeOK
  <2>2. Safe'
    BY <1>10 DEF Page!Take, Page!TypeOK, Page!GoneIsGone, Page!AckIsTrue, Page!CodecIsBack,
       Page!CountsSleeps, PageStage
  <2> QED
    BY <2>1, <2>2
<1>11. CASE Page!Arm
  <2>1. Page!TypeOK'
    <3>1. /\ ui' \in {"idle", "start", "await", "exit"} /\ selected' \in 0 .. Entries - 1
          /\ active' \in -1 .. Entries - 1
      BY <1>11 DEF Page!Arm, Page!TypeOK
    <3>2. /\ sem' \in {"none", "empty", "given"} /\ note' \in {Page!None, Page!LIGHT, Page!DEEP, Page!STOP}
          /\ mode' \in {Page!LIGHT, Page!DEEP}
      BY <1>11 DEF Page!Arm, Page!TypeOK
    <3>3. /\ stopRequested' \in BOOLEAN /\ busy' \in BOOLEAN /\ tried' \in BOOLEAN
          /\ light' \in BOOLEAN /\ timer' \in BOOLEAN /\ cause' \in BOOLEAN
      BY <1>11 DEF Page!Arm, Page!TypeOK
    <3>4. shown' = shown /\ slept' = slept /\ rtc' = rtc
      BY <1>11 DEF Page!Arm
    <3>5. /\ task' \in {"none", "alive", "parked"}
          /\ command' \in {Page!None, Page!LIGHT, Page!DEEP, Page!STOP}
          /\ at' \in {"wait", "delay", "deep", "suspend", "light", "resume", "end", "done", "parked"}
          /\ audio' \in {"awake", "asleep", "broken"}
      BY <1>11 DEF Page!Arm, Page!TypeOK
    <3> QED
      BY <3>1, <3>2, <3>3, <3>4, <3>5 DEF Page!TypeOK
  <2>2. Safe'
    BY <1>11 DEF Page!Arm, Page!TypeOK, Page!GoneIsGone, Page!AckIsTrue, Page!CodecIsBack,
       Page!CountsSleeps, PageStage
  <2> QED
    BY <2>1, <2>2
<1>12. CASE Page!Suspend
  <2>1. Page!TypeOK'
    <3>1. /\ ui' \in {"idle", "start", "await", "exit"} /\ selected' \in 0 .. Entries - 1
          /\ active' \in -1 .. Entries - 1
      BY <1>12 DEF Page!Suspend, Page!TypeOK
    <3>2. /\ sem' \in {"none", "empty", "given"} /\ note' \in {Page!None, Page!LIGHT, Page!DEEP, Page!STOP}
          /\ mode' \in {Page!LIGHT, Page!DEEP}
      BY <1>12 DEF Page!Suspend, Page!TypeOK
    <3>3. /\ stopRequested' \in BOOLEAN /\ busy' \in BOOLEAN /\ tried' \in BOOLEAN
          /\ light' \in BOOLEAN /\ timer' \in BOOLEAN /\ cause' \in BOOLEAN
      BY <1>12 DEF Page!Suspend, Page!TypeOK
    <3>4. shown' = shown /\ slept' = slept /\ rtc' = rtc
      BY <1>12 DEF Page!Suspend
    <3>5. /\ task' \in {"none", "alive", "parked"}
          /\ command' \in {Page!None, Page!LIGHT, Page!DEEP, Page!STOP}
          /\ at' \in {"wait", "delay", "deep", "suspend", "light", "resume", "end", "done", "parked"}
          /\ audio' \in {"awake", "asleep", "broken"}
      BY <1>12 DEF Page!Suspend, Page!TypeOK
    <3> QED
      BY <3>1, <3>2, <3>3, <3>4, <3>5 DEF Page!TypeOK
  <2>2. Safe'
    BY <1>12 DEF Page!Suspend, Page!TypeOK, Page!GoneIsGone, Page!AckIsTrue, Page!CodecIsBack,
       Page!CountsSleeps, PageStage
  <2> QED
    BY <2>1, <2>2
<1>13. CASE Page!LightSleep
  <2>1. Page!TypeOK'
    <3>1. /\ UNCHANGED <<ui, selected, active, mode, task, sem, stopRequested, busy, note, command,
                         tried, audio, light, timer, rtc, shown, slept>>
          /\ at' = "resume"
      BY <1>13 DEF Page!LightSleep
    <3>2. cause' \in BOOLEAN
      BY <1>13 DEF Page!LightSleep
    <3> QED
      BY <3>1, <3>2 DEF Page!TypeOK
  <2>2. Safe'
    BY <1>13 DEF Page!LightSleep, Page!TypeOK, Page!GoneIsGone, Page!AckIsTrue,
       Page!CodecIsBack, Page!CountsSleeps, PageStage
  <2> QED
    BY <2>1, <2>2
<1>14. CASE Page!Resume
  <2>1. Page!TypeOK'
    <3>1. /\ ui' \in {"idle", "start", "await", "exit"} /\ selected' \in 0 .. Entries - 1
          /\ active' \in -1 .. Entries - 1
      BY <1>14 DEF Page!Resume, Page!Tried, Page!TypeOK
    <3>2. /\ sem' \in {"none", "empty", "given"} /\ note' \in {Page!None, Page!LIGHT, Page!DEEP, Page!STOP}
          /\ mode' \in {Page!LIGHT, Page!DEEP}
      BY <1>14 DEF Page!Resume, Page!Tried, Page!TypeOK
    <3>3. /\ stopRequested' \in BOOLEAN /\ busy' \in BOOLEAN /\ tried' \in BOOLEAN
          /\ light' \in BOOLEAN /\ timer' \in BOOLEAN /\ cause' \in BOOLEAN
      BY <1>14 DEF Page!Resume, Page!Tried, Page!TypeOK
    <3>4. shown' = shown /\ slept' = slept /\ rtc' = rtc
      BY <1>14 DEF Page!Resume, Page!Tried
    <3>5. /\ task' \in {"none", "alive", "parked"}
          /\ command' \in {Page!None, Page!LIGHT, Page!DEEP, Page!STOP}
          /\ at' \in {"wait", "delay", "deep", "suspend", "light", "resume", "end", "done", "parked"}
          /\ audio' \in {"awake", "asleep", "broken"}
      BY <1>14 DEF Page!Resume, Page!Tried, Page!TypeOK
    <3> QED
      BY <3>1, <3>2, <3>3, <3>4, <3>5 DEF Page!TypeOK
  <2>2. Safe'
    BY <1>14 DEF Page!Resume, Page!Tried, Page!TypeOK, Page!GoneIsGone, Page!AckIsTrue,
       Page!CodecIsBack, Page!CountsSleeps, PageStage
  <2> QED
    BY <2>1, <2>2
<1>15. CASE Page!EndRun
  <2>1. Page!TypeOK'
    <3>1. /\ ui' \in {"idle", "start", "await", "exit"} /\ selected' \in 0 .. Entries - 1
          /\ active' \in -1 .. Entries - 1
      BY <1>15 DEF Page!EndRun, Page!TypeOK
    <3>2. /\ sem' \in {"none", "empty", "given"} /\ note' \in {Page!None, Page!LIGHT, Page!DEEP, Page!STOP}
          /\ mode' \in {Page!LIGHT, Page!DEEP}
      BY <1>15 DEF Page!EndRun, Page!TypeOK
    <3>3. /\ stopRequested' \in BOOLEAN /\ busy' \in BOOLEAN /\ tried' \in BOOLEAN
          /\ light' \in BOOLEAN /\ timer' \in BOOLEAN /\ cause' \in BOOLEAN
      BY <1>15 DEF Page!EndRun, Page!TypeOK
    <3>4. shown' = shown /\ slept' = slept /\ rtc' = rtc
      BY <1>15 DEF Page!EndRun
    <3>5. /\ task' \in {"none", "alive", "parked"}
          /\ command' \in {Page!None, Page!LIGHT, Page!DEEP, Page!STOP}
          /\ at' \in {"wait", "delay", "deep", "suspend", "light", "resume", "end", "done", "parked"}
          /\ audio' \in {"awake", "asleep", "broken"}
      BY <1>15 DEF Page!EndRun, Page!TypeOK
    <3> QED
      BY <3>1, <3>2, <3>3, <3>4, <3>5 DEF Page!TypeOK
  <2>2. Safe'
    BY <1>15 DEF Page!EndRun, Page!TypeOK, Page!GoneIsGone, Page!AckIsTrue, Page!CodecIsBack,
       Page!CountsSleeps, PageStage
  <2> QED
    BY <2>1, <2>2
<1>16. CASE Page!DeepSleep
  <2>1. Page!Booted /\ cause' \in BOOLEAN
    BY <1>16 DEF Page!DeepSleep
  <2>2. slept' = slept + 1 /\ slept' \in 0 .. MaxSlept
    BY <1>16 DEF Page!DeepSleep, Page!TypeOK
  <2>3. rtc' = [magic |-> TRUE, count |-> Page!NextCount] /\ Page!NextCount = slept'
    BY <1>16, <2>2 DEF Page!DeepSleep, Page!NextCount, PageStage
  <2>4. slept' > 0
    BY <2>2 DEF Page!TypeOK
  <2>5. rtc'.magic /\ rtc'.count = slept' /\ rtc' \in [magic : BOOLEAN, count : Nat]
    BY <2>2, <2>3
  <2> QED
    BY <2>1, <2>2, <2>4, <2>5, BootedWhole DEF PageInv
<1>17. CASE Page!Restart
  <2>1. Page!StartsAnew
    BY <1>17 DEF Page!Restart
  <2> QED
    BY <2>1, AnewWhole DEF PageInv
<1>18. CASE Page!Done
  <2>1. Page!TypeOK'
    BY <1>18 DEF Page!Done, Page!TypeOK
  <2>2. Safe'
    BY <1>18 DEF Page!Done, Page!TypeOK, Page!GoneIsGone, Page!AckIsTrue, Page!CodecIsBack,
       Page!CountsSleeps, PageStage
  <2> QED
    BY <2>1, <2>2
<1>19. CASE Page!PowerLost
  <2>1. Page!StartsAnew
    BY <1>19 DEF Page!PowerLost
  <2> QED
    BY <2>1, AnewWhole DEF PageInv
<1>20. CASE UNCHANGED Page!vars
  BY <1>20 DEF Page!vars, Page!TypeOK, Page!GoneIsGone, Page!AckIsTrue, Page!CodecIsBack,
     Page!CountsSleeps, PageStage
<1> QED
  BY <1>1, <1>2, <1>3, <1>4, <1>5, <1>6, <1>7, <1>8, <1>9, <1>10, <1>11, <1>12, <1>13, <1>14,
     <1>15, <1>16, <1>17, <1>18, <1>19, <1>20
  DEF Page!Next, Page!Input, Page!Worker, Page!vars

LEMMA PageHolds == Page!Init /\ [][Page!Next]_Page!vars => []PageInv
  BY PageStart, PageStep, PTL

-----------------------------------------------------------------------------
(* The whole: a step of Board is for each page a step of its own or none.  *)
LEMMA BoardPages ==
  BoardSpec => /\ Tone!Init /\ [][Tone!Next]_Tone!vars
               /\ Ble!Init /\ [][Ble!Next]_Ble!vars
               /\ Scan!Init /\ [][Scan!Next]_Scan!vars
               /\ Page!Init /\ [][Page!Next]_Page!vars
<1> USE DEF BoardNext, RunCodec, RunKeys, RunPage, RunGauge, RunPanel, RunTone, RunBle,
     RunScan, parts
<1>1. BoardInit => Tone!Init /\ Ble!Init /\ Scan!Init /\ Page!Init
  BY DEF BoardInit
<1>2. [BoardNext]_parts => [Tone!Next]_Tone!vars
  BY DEF tone, Tone!vars, Tone!owner, Tone!job
<1>3. [BoardNext]_parts => [Ble!Next]_Ble!vars
  BY DEF ble, Ble!vars, Ble!flags, Ble!nimble
<1>4. [BoardNext]_parts => [Scan!Next]_Scan!vars
  BY DEF scan, Scan!vars, Scan!driver
<1>5. [BoardNext]_parts => [Page!Next]_Page!vars
  BY DEF page, Page!vars, Page!nav, Page!shared, Page!worker, Page!board, Page!sleeps
<1> HIDE DEF BoardNext, RunCodec, RunKeys, RunPage, RunGauge, RunPanel, RunTone, RunBle, RunScan, parts
<1> QED
  BY <1>1, <1>2, <1>3, <1>4, <1>5, PTL DEF BoardSpec

(* demo_audio.c, demo_ble.c, demo_wifi.c and demo_low_power.c: however     *)
(* their calls fail, their waits time out and stopping is tried again, a   *)
(* page that is left has given back its worker, its semaphore and its      *)
(* radio, removed nothing behind the back of what uses it, and left the    *)
(* codec awake and the count of deep sleeps right.                         *)
THEOREM PagesAreSafe == BoardSpec => []PagesSafe
<1>1. BoardSpec => [](ToneInv /\ BleInv /\ ScanInv /\ PageInv)
  BY BoardPages, ToneHolds, BleHolds, ScanHolds, PageHolds, PTL
<1>2. ToneInv /\ BleInv /\ ScanInv /\ PageInv => PagesSafe
  BY ToneEnough, BleEnough, ScanEnough, PageEnough DEF PagesSafe
<1> QED
  BY <1>1, <1>2, PTL
=============================================================================
