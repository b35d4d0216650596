------------------------------ MODULE OtaSlots ------------------------------
(***************************************************************************)
(* main/ota/monitor_ota.c, the update page of main/monitor_ui.c, and the   *)
(* two application slots as ESP-IDF's bootloader and OTA library (both     *)
(* external) keep them with rollback enabled.                              *)
(*                                                                         *)
(* Three tasks: the UI, whose OK key asks for a check, arms and confirms   *)
(* an installation, and which runs the self check; the event bus, which    *)
(* only turns a command into a notification bit; and the worker.  Power    *)
(* may fail between any two steps.  An image is its version; a slot whose  *)
(* image is not whole holds Broken.  How the worker and server_monitor     *)
(* agree on the pause is in ServerMonitor; here the pause may fail.        *)
(***************************************************************************)
EXTENDS Integers

CONSTANTS
  Versions, \* versions in the order of monitor_version_compare
  Good,     \* versions that pass the health check of ui_task
  First,    \* the version the device was shipped with
  Servers   \* API origins

Broken == 0

OtaAssumption ==
  Versions \subseteq Nat \ {Broken} /\ Good \subseteq Versions /\ First \in Good /\ Servers # {}

Slots == {0, 1}
Other(s) == 1 - s

VARIABLES
  image,     \* image[s]: what slot s holds
  trial,     \* trial[s]: the OTA state of slot s
  selected,  \* the slot otadata selects
  running,   \* the slot the program runs from
  checked,   \* s_checked
  view,      \* s_view: available, busy, version
  manifest,  \* s_manifest: version and the origin of its URL
  note,      \* the notification bits
  at,        \* the worker's place
  apply,     \* what the worker does: install, or check
  cfg,       \* origin in the worker's copy of the configuration
  home,      \* origin in the saved configuration
  armed,     \* s_confirm_update
  best,      \* history: the newest version ever confirmed
  agreed     \* history: the version shown at both presses, or Broken

slots == <<image, trial, selected>>
worker == <<manifest, at, apply, cfg>>
ui == <<armed, agreed>>
vars == <<slots, running, checked, view, note, worker, home, ui, best>>

NoView == [available |-> FALSE, busy |-> FALSE, version |-> Broken]
NoManifest == [version |-> Broken, origin |-> CHOOSE o \in Servers : TRUE]

Init ==
  /\ image = [s \in Slots |-> IF s = 0 THEN First ELSE Broken]
  /\ trial = [s \in Slots |-> IF s = 0 THEN "valid" ELSE "aborted"]
  /\ selected = 0 /\ running = 0 /\ checked = FALSE
  /\ view = NoView /\ manifest = NoManifest /\ note = {} /\ at = "idle" /\ apply = FALSE
  /\ home \in Servers /\ cfg = home
  /\ armed = FALSE /\ best = First /\ agreed = Broken

-----------------------------------------------------------------------------
(* The OK key on the update page: check, arm, or confirm.  While the       *)
(* worker is busy it does nothing.                                         *)
PressOk ==
  /\ ~view.busy
  /\ IF view.available /\ ~armed
     THEN armed' = TRUE /\ agreed' = view.version /\ UNCHANGED note
     ELSE /\ armed' = FALSE
          /\ note' = note \cup {IF view.available THEN "install" ELSE "check"}
          /\ agreed' = IF view.available /\ agreed = view.version THEN agreed ELSE Broken
  /\ UNCHANGED <<slots, running, checked, view, worker, home, best>>

\* UP leaves the page.
Leave ==
  /\ armed' = FALSE /\ armed
  /\ UNCHANGED <<slots, running, checked, view, note, worker, home, agreed, best>>

\* The configuration names another server.
Reconfigure ==
  /\ home' \in Servers
  /\ UNCHANGED <<slots, running, checked, view, note, worker, ui, best>>

(* monitor_ota_self_check, from ui_task: thirty seconds up, frames drawn,  *)
(* network progressing.  Only then is an image on trial confirmed.         *)
\* Mutant: whoever asks is healthy.
Anyone == TRUE
Healthy == image[running] \in Good
SelfCheck ==
  /\ ~checked /\ Healthy /\ checked' = TRUE
  /\ IF trial[running] = "pending"
     THEN trial' = [trial EXCEPT ![running] = "valid"] /\ best' = image[running]
     ELSE UNCHANGED <<trial, best>>
  /\ UNCHANGED <<image, selected, running, view, note, worker, home, ui>>

-----------------------------------------------------------------------------
(* The worker.  It takes all bits at once; an installation nobody can make *)
(* is dropped.                                                             *)
Take ==
  /\ at = "idle" /\ note # {} /\ note' = {}
  /\ apply' = ("install" \in note) /\ cfg' = home
  /\ at' = IF "install" \in note /\ ~view.available THEN "idle" ELSE "taken"
  /\ UNCHANGED <<slots, running, checked, view, manifest, home, ui, best>>

Report == at' = "idle" /\ view' = [view EXCEPT !.busy = FALSE]

\* message(..., true), the wait for quiescence, and what was asked for.
Announce ==
  /\ at = "taken" /\ at' = "pausing" /\ view' = [view EXCEPT !.busy = TRUE]
  /\ UNCHANGED <<slots, running, checked, note, manifest, apply, cfg, home, ui, best>>

\* Mutant: an earlier offer stands while the next manifest is fetched.
StillOffered == view.available
OfferedMeanwhile == FALSE

Paused(quiescent) ==
  /\ at = "pausing"
  /\ CASE ~quiescent -> Report
       [] quiescent /\ apply -> at' = "install" /\ UNCHANGED view
       [] OTHER -> at' = "fetch" /\ view' = [view EXCEPT !.available = OfferedMeanwhile]
  /\ UNCHANGED <<slots, running, checked, note, manifest, apply, cfg, home, ui, best>>

\* Mutant: another version is good enough.
OtherThanRunning(v) == v # image[running]
NewerThanRunning(v) == v > image[running]

(* check(): a manifest that parses replaces s_manifest even if its URL     *)
(* then turns out to be of another origin.                                 *)
FetchFails ==
  /\ at = "fetch" /\ Report
  /\ UNCHANGED <<slots, running, checked, note, manifest, apply, cfg, home, ui, best>>

Fetched ==
  /\ at = "fetch"
  /\ manifest' \in [version : Versions, origin : Servers]
  /\ at' = "idle"
  /\ view' = IF manifest'.origin = cfg
             THEN [available |-> NewerThanRunning(manifest'.version), busy |-> FALSE,
                   version |-> manifest'.version]
             ELSE [view EXCEPT !.busy = FALSE]
  /\ UNCHANGED <<slots, running, checked, note, apply, cfg, home, ui, best>>

(* install(): the origin and the version are looked at again, for the      *)
(* configuration may have changed since the check.  esp_ota_begin erases   *)
(* the other slot, unless the running image is itself on trial.            *)
\* Mutant: what check() has found out is not asked again.
TrustCheck == NewerThanRunning(manifest.version)
MayInstall == manifest.origin = cfg /\ NewerThanRunning(manifest.version)
BeginOpens == trial[running] # "pending"

InstallBegins ==
  /\ at = "install" /\ MayInstall /\ BeginOpens
  /\ image' = [image EXCEPT ![Other(running)] = Broken]
  /\ at' = "download"
  /\ UNCHANGED <<trial, selected, running, checked, view, note, manifest, apply, cfg, home, ui, best>>

(* An image with the right hash is in the slot; its own version may differ *)
(* from the manifest's.                                                    *)
Written ==
  /\ at = "download" /\ at' = "written"
  /\ \E v \in Versions : image' = [image EXCEPT ![Other(running)] = v]
  /\ UNCHANGED <<trial, selected, running, checked, view, note, manifest, apply, cfg, home, ui, best>>

\* Mutant: the descriptor of the image is not compared.
AnyVersion == TRUE
SameVersion == image[Other(running)] = manifest.version
Select ==
  /\ at = "written" /\ SameVersion /\ at' = "restart"
  /\ selected' = Other(running)
  /\ trial' = [trial EXCEPT ![Other(running)] = "new"]
  /\ view' = [view EXCEPT !.busy = FALSE]
  /\ UNCHANGED <<image, running, checked, note, manifest, apply, cfg, home, ui, best>>

\* Mutant: one of the failures returns without a message.
Silent == at' = "idle" /\ UNCHANGED view
FailureReported == Report
\* Every goto done and every early return, at whatever point.
InstallFails ==
  /\ at \in {"install", "download", "written"}
  /\ FailureReported
  /\ UNCHANGED <<slots, running, checked, note, manifest, apply, cfg, home, ui, best>>

(* A reset, asked for after "Verified; restarting" or by the power.  An    *)
(* image that was on trial already is given up for the other slot.         *)
BootSlot == IF trial[selected] = "pending" THEN Other(selected) ELSE selected
Boot ==
  /\ running' = BootSlot /\ selected' = BootSlot
  /\ trial' = [s \in Slots |->
       CASE s = selected /\ trial[s] = "pending" -> "aborted"
         [] s = selected /\ trial[s] = "new" -> "pending"
         [] OTHER -> trial[s]]
  /\ checked' = FALSE /\ view' = NoView /\ manifest' = NoManifest /\ note' = {}
  /\ at' = "idle" /\ apply' = FALSE /\ armed' = FALSE /\ agreed' = Broken
  /\ UNCHANGED <<image, cfg, home, best>>

Worker ==
  \/ Take \/ Announce \/ FetchFails \/ Fetched \/ InstallBegins \/ Written \/ Select
  \/ InstallFails \/ (at = "restart" /\ Boot)
  \/ \E quiescent \in BOOLEAN : Paused(quiescent)

Next == PressOk \/ Leave \/ Reconfigure \/ SelfCheck \/ Worker \/ Boot

\* Every wait of the worker has a deadline or is for a key.
Spec == Init /\ [][Next]_vars /\ WF_vars(Worker)

-----------------------------------------------------------------------------
(* Types; and a version on offer is the one the manifest in RAM has, which *)
(* is what an installation would fetch, and newer than what runs.          *)
TypeOK ==
  /\ image \in [Slots -> Versions \cup {Broken}]
  /\ trial \in [Slots -> {"valid", "new", "pending", "aborted"}]
  /\ selected \in Slots /\ running \in Slots /\ checked \in BOOLEAN
  /\ view \in [available : BOOLEAN, busy : BOOLEAN, version : Versions \cup {Broken}]
  /\ manifest \in [version : Versions \cup {Broken}, origin : Servers]
  /\ note \subseteq {"check", "install"}
  /\ at \in {"idle", "taken", "pausing", "fetch", "install", "download", "written", "restart"}
  /\ apply \in BOOLEAN /\ cfg \in Servers /\ home \in Servers /\ armed \in BOOLEAN
  /\ best \in Versions /\ agreed \in Versions \cup {Broken}
  /\ view.available => view.version = manifest.version /\ view.version > image[running]

(* Whatever is interrupted, and wherever power fails, one slot holds a     *)
(* whole image that once passed the health check, and the next reset runs  *)
(* that one or a newer one on trial in front of it.                        *)
ProvenKept ==
  \E s \in Slots :
    /\ trial[s] = "valid" /\ image[s] = best
    /\ selected # s => trial[selected] \in {"new", "pending"} /\ image[selected] > image[s]

(* README "Newer versions only": the running program is never older than   *)
(* the newest one confirmed, through rollback, retries, wrong manifests    *)
(* and files that are not what the manifest says.                          *)
NeverOlder == image[running] >= best

(* README "a successful boot requires ... before marking valid": an image  *)
(* that never passes the health check is never confirmed.                  *)
OnlyHealthyConfirmed == trial[running] = "valid" => image[running] \in Good

(* README "no cross-origin token forwarding": a download goes to the       *)
(* origin whose token the worker holds, though the manifest may have been  *)
(* fetched under another configuration.                                    *)
TokenStaysHome == at = "download" => manifest.origin = cfg

(* The page never stays locked: whatever fails, busy ends.                 *)
BusyEnds == view.busy ~> ~view.busy

(* README "a second confirmation on the device is needed to install an     *)
(* available version": the version that is installed is the one the user   *)
(* saw when arming and when confirming.                                    *)
ConfirmedTwice == at = "download" => manifest.version = agreed

(* The update as a whole: a proven image to fall back to, never an older   *)
(* program, no unproven one confirmed, and the token for its origin only.  *)
UpdatesSafe == TypeOK /\ ProvenKept /\ NeverOlder /\ OnlyHealthyConfirmed /\ TokenStaysHome
=============================================================================
