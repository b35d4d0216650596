---------------------------- MODULE LinkAndUpdate ----------------------------
(* The configuration store, the Wi-Fi worker and the OTA worker.  What one *)
(* takes from another is left free where it is read (a form is saved or    *)
(* refused, the configured server changes), so that the parts share no     *)
(* state and it is enough to let one of them run at a time.                *)
EXTENDS ConfigCenter

CONSTANTS
  Depth, SetupTicks, JoinTicks, MaxFailures, Retry, \* of WifiWorker
  Versions, Good, First, Servers                    \* of OtaSlots

VARIABLES
  part, \* the part that runs
  cmds, pc, got, lost, bits, httpd, dns, setupLeft, provisioning, connected, connecting, joinLeft,
  next, failures, valid, sta, leaving, calm,
  image, trial, selected, running, checked, offer, manifest, note, step, apply, cfg, home, armed,
  best, agreed

Wifi == INSTANCE WifiWorker
Ota == INSTANCE OtaSlots WITH view <- offer, at <- step

ASSUME LinkAssumption == Wifi!WifiAssumption /\ Ota!OtaAssumption

store == vars
wifi == <<cmds, pc, got, lost, bits, httpd, dns, setupLeft, provisioning, connected, connecting,
          joinLeft, next, failures, valid, sta, leaving, calm>>
ota == <<image, trial, selected, running, checked, offer, manifest, note, step, apply, cfg, home,
         armed, best, agreed>>
parts == <<part, store, wifi, ota>>

LinkInit ==
  /\ part \in {"store", "wifi", "ota"} /\ Init /\ Wifi!Init /\ Ota!Init
  /\ part # "store" => flash = CHOOSE c \in Configs : TRUE
  /\ part # "wifi" => ~valid
  /\ part # "ota" => home = CHOOSE s \in Servers : TRUE

RunStore == part = "store" /\ Next /\ UNCHANGED <<part, wifi, ota>>
RunWifi == part = "wifi" /\ Wifi!Next /\ UNCHANGED <<part, store, ota>>
RunOta == part = "ota" /\ Ota!Next /\ UNCHANGED <<part, store, wifi>>

LinkNext == RunStore \/ RunWifi \/ RunOta

\* The fairness of LiveSpec, Wifi!Spec and Ota!Spec, for the part that runs.
LinkSpec ==
  /\ LinkInit /\ [][LinkNext]_parts
  /\ \A w \in Writers :
       /\ WF_store(part = "store" /\ (Commits(w) \/ CommitFails(w) \/ Publishes(w)))
       /\ SF_store(part = "store" /\ SaveLocks(w))
  /\ WF_store(part = "store" /\ MuteEdit) /\ WF_store(part = "store" /\ PortalDone)
  /\ WF_wifi(part = "wifi" /\ Wifi!Worker) /\ SF_wifi(part = "wifi" /\ Wifi!Tick)
  /\ WF_wifi(part = "wifi" /\ Wifi!Left) /\ WF_wifi(part = "wifi" /\ calm /\ Wifi!Settle)
  /\ WF_ota(part = "ota" /\ Ota!Worker)

-----------------------------------------------------------------------------
\* See the modules of the same parts for what these say of the code.
SetupSafe == Wifi!SetupSafe
LinkGoesOn == Wifi!SetupCloses /\ Wifi!StationKept
UpdatesSafe == Ota!UpdatesSafe
BusyEnds == Ota!BusyEnds
=============================================================================
