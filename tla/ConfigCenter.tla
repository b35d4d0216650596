----------------------------- MODULE ConfigCenter -----------------------------
(***************************************************************************)
(* main/monitor_config.c and its two writers.  The configuration is one    *)
(* record, kept in RAM (s_config, under s_lock) and in one NVS blob; a     *)
(* save writes and commits the blob and then publishes it, all under       *)
(* s_save_lock.  The config_worker (control_task) changes one setting in a *)
(* copy it has taken before; the setup portal fills a copy with what the   *)
(* form holds and hands it to the Wi-Fi worker, which saves it, bumps the  *)
(* revision, closes the portal and connects with whatever RAM then holds.  *)
(*                                                                         *)
(* A configuration is abstracted to its credentials (SSID, password, URLs, *)
(* token), audio_enabled and volume: a field only the form sets, one only  *)
(* the settings set, and one both set.                                     *)
(***************************************************************************)
EXTENDS Integers, Sequences

CONSTANTS
  Credentials,   \* what a form may hold
  Volumes,       \* values of volume
  MaxForms,      \* bound: forms posted in one behaviour
  FormQueue      \* xQueueCreate(2, ...) of the Wi-Fi worker

ASSUME ConfigAssumption ==
  /\ Credentials \subseteq Nat \ {0} /\ Volumes \subseteq Nat /\ Volumes # {}
  /\ MaxForms \in Nat /\ FormQueue \in Nat \ {0}

None == 0
Configs == [creds : Credentials \cup {None}, audio : BOOLEAN, volume : Volumes]
Writers == {"settings", "wifi"}

VARIABLES
  ram,        \* s_config
  flash,      \* the committed blob
  saveLock,   \* holder of s_save_lock, or "free"
  at,         \* where each writer is
  copy,       \* the configuration each writer holds on its stack
  mute,       \* value monitor_config_setting was called with for CMD_MUTE
  posted,     \* configurations in the Wi-Fi worker's queue
  forms,      \* forms posted so far
  view,       \* server of s_view after publish_config
  portal,     \* s_httpd: the setup portal is up
  station,    \* credentials the station is connecting or connected with
  asked       \* history: credentials of the last configure command that saved

vars == <<ram, flash, saveLock, at, copy, mute, posted, forms, view, portal,
          station, asked>>

Points == {"idle", "setting", "edited", "writing", "committed", "saved"}

Init ==
  /\ flash \in {c \in Configs : c.creds = None}
  /\ ram = flash /\ saveLock = "free"
  /\ at = [w \in Writers |-> "idle"] /\ copy = [w \in Writers |-> flash]
  /\ mute = FALSE /\ posted = <<>> /\ forms = 0
  /\ view = None /\ portal = TRUE /\ station = None /\ asked = None

Goto(w, point) == at' = [at EXCEPT ![w] = point]

-----------------------------------------------------------------------------
(* control_task: CMD_MUTE reads the configuration to know the new value,   *)
(* then monitor_config_setting reads it again to edit and save it.         *)

MuteRead ==
  /\ at["settings"] = "idle" /\ Goto("settings", "setting")
  /\ mute' = ~ram.audio
  /\ UNCHANGED <<ram, flash, saveLock, copy, posted, forms, view, portal, station, asked>>

MuteEdit ==
  /\ at["settings"] = "setting" /\ Goto("settings", "edited")
  /\ copy' = [copy EXCEPT !["settings"] = [ram EXCEPT !.audio = mute]]
  /\ UNCHANGED <<ram, flash, saveLock, mute, posted, forms, view, portal, station, asked>>

VolumeEdit(v) ==
  /\ at["settings"] = "idle" /\ Goto("settings", "edited")
  /\ copy' = [copy EXCEPT !["settings"] = [ram EXCEPT !.volume = v]]
  /\ UNCHANGED <<ram, flash, saveLock, mute, posted, forms, view, portal, station, asked>>

\* Mutant: the queue grows.
QueueRoomAlways == TRUE

QueueRoom == Len(posted) < FormQueue

\* portal_config: a copy of RAM filled from the form, queued without waiting.
FormPosted(c, v) ==
  /\ portal /\ QueueRoom
  /\ forms < MaxForms /\ forms' = forms + 1
  /\ posted' = Append(posted, [ram EXCEPT !.creds = c, !.volume = v])
  /\ UNCHANGED <<ram, flash, saveLock, at, copy, mute, view, portal, station, asked>>

\* wifi_task receives WIFI_CMD_CONFIG.
FormTaken ==
  /\ at["wifi"] = "idle" /\ posted # <<>> /\ Goto("wifi", "edited")
  /\ copy' = [copy EXCEPT !["wifi"] = Head(posted)] /\ posted' = Tail(posted)
  /\ UNCHANGED <<ram, flash, saveLock, mute, forms, view, portal, station, asked>>

-----------------------------------------------------------------------------
(* monitor_config_save.                                                    *)

\* Settings or fields out of range: ESP_ERR_INVALID_ARG before any lock.
SaveRefused(w) ==
  /\ at[w] = "edited" /\ Goto(w, "idle")
  /\ UNCHANGED <<ram, flash, saveLock, copy, mute, posted, forms, view, portal, station, asked>>

\* Mutant: saves are not serialised.
LockAlways == TRUE

LockFree == saveLock = "free"

SaveLocks(w) ==
  /\ at[w] = "edited" /\ LockFree /\ saveLock' = w /\ Goto(w, "writing")
  /\ UNCHANGED <<ram, flash, copy, mute, posted, forms, view, portal, station, asked>>

\* nvs_set_blob and nvs_commit: the old blob stands until the new one does.
Commits(w) ==
  /\ at[w] = "writing" /\ Goto(w, "committed")
  /\ flash' = copy[w]
  /\ UNCHANGED <<ram, saveLock, copy, mute, posted, forms, view, portal, station, asked>>

\* Mutant: the error path forgets the lock.
CommitFailsLocked(w) ==
  /\ at[w] = "writing" /\ Goto(w, "idle")
  /\ UNCHANGED <<ram, flash, saveLock, copy, mute, posted, forms, view, portal, station, asked>>

CommitFails(w) ==
  /\ at[w] = "writing" /\ Goto(w, "idle") /\ saveLock' = "free"
  /\ UNCHANGED <<ram, flash, copy, mute, posted, forms, view, portal, station, asked>>

\* Mutant: only the settings are merged into RAM.
PublishedSettings(w) == [ram EXCEPT !.audio = copy[w].audio, !.volume = copy[w].volume]

Published(w) == copy[w]

Publishes(w) ==
  /\ at[w] = "committed" /\ ram' = Published(w) /\ saveLock' = "free"
  /\ IF w = "wifi"
     THEN Goto(w, "saved") /\ asked' = copy[w].creds
     ELSE Goto(w, "idle") /\ UNCHANGED asked
  /\ UNCHANGED <<flash, copy, mute, posted, forms, view, portal, station>>

\* publish_config and portal_stop; the station is to connect anew.
PortalDone ==
  /\ at["wifi"] = "saved" /\ Goto("wifi", "idle")
  /\ view' = copy["wifi"].creds /\ portal' = FALSE /\ station' = None
  /\ UNCHANGED <<ram, flash, saveLock, copy, mute, posted, forms, asked>>

\* WIFI_CMD_PROVISION; when the portal was up it is taken down first.
PortalOpens ==
  /\ at["wifi"] = "idle" /\ portal' = TRUE /\ station' = None
  /\ UNCHANGED <<ram, flash, saveLock, at, copy, mute, posted, forms, view, asked>>

\* It expires, WIFI_CMD_RECONNECT closes it, or it fails to start.
PortalCloses ==
  /\ at["wifi"] = "idle" /\ portal' = FALSE /\ station' = None
  /\ UNCHANGED <<ram, flash, saveLock, at, copy, mute, posted, forms, view, asked>>

\* connect_station, at every (re)try, takes the configuration from RAM once
\* more.
Connect ==
  /\ at["wifi"] = "idle" /\ ~portal
  /\ ram.creds # None /\ station' = ram.creds
  /\ UNCHANGED <<ram, flash, saveLock, at, copy, mute, posted, forms, view, portal, asked>>

\* Power may fail anywhere.  monitor_config_init loads the blob, and the Wi-Fi
\* worker publishes it and opens the portal when it has no credentials.
PowerFails ==
  /\ ram' = flash /\ saveLock' = "free"
  /\ at' = [w \in Writers |-> "idle"] /\ copy' = [w \in Writers |-> flash]
  /\ mute' = FALSE /\ posted' = <<>> /\ view' = flash.creds
  /\ portal' = (flash.creds = None) /\ station' = None /\ asked' = None
  /\ UNCHANGED <<flash, forms>>

Save(w) == SaveRefused(w) \/ SaveLocks(w) \/ Commits(w) \/ CommitFails(w) \/ Publishes(w)

Next ==
  \/ MuteRead \/ MuteEdit \/ \E v \in Volumes : VolumeEdit(v)
  \/ \E c \in Credentials, v \in Volumes : FormPosted(c, v)
  \/ FormTaken \/ (\E w \in Writers : Save(w)) \/ PortalDone
  \/ PortalOpens \/ PortalCloses \/ Connect \/ PowerFails

Spec == Init /\ [][Next]_vars

\* Both workers run on and a writer waiting for the lock gets it; that a save
\* is refused is nothing to rely on.
Fairness ==
  /\ \A w \in Writers : /\ WF_vars(Commits(w) \/ CommitFails(w) \/ Publishes(w))
                        /\ SF_vars(SaveLocks(w))
  /\ WF_vars(MuteEdit) /\ WF_vars(PortalDone)

LiveSpec == Spec /\ Fairness

-----------------------------------------------------------------------------
\* Every variable has its type.
TypeOK ==
  /\ ram \in Configs /\ flash \in Configs
  /\ saveLock \in Writers \cup {"free"}
  /\ at \in [Writers -> Points] /\ copy \in [Writers -> Configs]
  /\ mute \in BOOLEAN /\ posted \in Seq(Configs) /\ Len(posted) <= FormQueue
  /\ forms \in 0 .. MaxForms
  /\ portal \in BOOLEAN /\ {view, station, asked} \subseteq Credentials \cup {None}

\* What the firmware runs with survives a power failure: RAM is the committed
\* blob except between a commit and its publication, and the one writer that
\* is in between holds the lock.
Durable ==
  /\ (\A w \in Writers : at[w] # "committed") => ram = flash
  /\ \A w \in Writers : at[w] \in {"writing", "committed"} <=> saveLock = w
  /\ \A w \in Writers : at[w] = "committed" => flash = copy[w]

\* A save that failed, was refused or was cut off by a power failure leaves
\* both copies as they were; only a whole edited record ever replaces them.
WholeRecords ==
  [][/\ flash' # flash => \E w \in Writers : at[w] = "writing" /\ flash' = copy[w]
     /\ ram' # ram => ram' = flash']_vars

\* Save & Connect: once a form has been saved, the station connects with the
\* credentials of that form (main/monitor_wifi.c: WIFI_CMD_CONFIG).
ConnectsAsSaved ==
  at["wifi"] = "idle" /\ asked # None /\ station # None => station = asked

\* Every configuration a writer has edited is settled one way or the other.
EditsSettle == \A w \in Writers : at[w] = "edited" ~> at[w] = "idle"

(* The store as a whole: types, the lock, and RAM against flash.           *)
ConfigSafe == TypeOK /\ Durable
=============================================================================
