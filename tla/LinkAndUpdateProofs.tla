-------------------------- MODULE LinkAndUpdateProofs --------------------------
(***************************************************************************)
(* Theorems about LinkAndUpdate.tla: the configuration store for every set *)
(* of credentials and volumes and every depth of the form queue; the Wi-Fi *)
(* worker for every queue, deadline and retry table; the OTA worker for    *)
(* any versions, any of them healthy, and any servers.  A step of the      *)
(* whole is a step of one of them and changes nothing of the others.       *)
(***************************************************************************)
EXTENDS LinkAndUpdate, TLAPS

(* Removing or adding a form keeps the queue a queue of configurations.    *)
LEMMA QueueTyped ==
  ASSUME NEW q \in Seq(Configs)
  PROVE  /\ Len(q) \in Nat
         /\ \A c \in Configs : Append(q, c) \in Seq(Configs) /\ Len(Append(q, c)) = Len(q) + 1
         /\ q # <<>> => /\ Head(q) \in Configs /\ Tail(q) \in Seq(Configs)
                        /\ Len(Tail(q)) = Len(q) - 1
  OBVIOUS

(* A queue with no form in it.                                             *)
LEMMA EmptyQueue == <<>> \in Seq(Configs) /\ Len(<<>>) = 0
  OBVIOUS

(* A configuration with some of its fields replaced is a configuration.    *)
LEMMA Edited ==
  ASSUME NEW c \in Configs
  PROVE  /\ \A a \in BOOLEAN : [c EXCEPT !.audio = a] \in Configs
         /\ \A v \in Volumes : [c EXCEPT !.volume = v] \in Configs
         /\ \A k \in Credentials, v \in Volumes : [c EXCEPT !.creds = k, !.volume = v] \in Configs
         /\ c.creds \in Credentials \cup {None} /\ c.audio \in BOOLEAN
  BY DEF Configs

-----------------------------------------------------------------------------
(* Variables of monitor_config.c and of its two writers keep their types;  *)
(* no more forms wait than the Wi-Fi worker's queue holds.                 *)
LEMMA TypeStep == TypeOK /\ [Next]_vars => TypeOK'
<1> SUFFICES ASSUME TypeOK, [Next]_vars PROVE TypeOK'
  OBVIOUS
<1>0. /\ ram \in Configs /\ flash \in Configs /\ saveLock \in Writers \cup {"free"}
      /\ at \in [Writers -> Points] /\ copy \in [Writers -> Configs] /\ mute \in BOOLEAN
      /\ posted \in Seq(Configs) /\ Len(posted) <= FormQueue /\ forms \in 0 .. MaxForms
      /\ portal \in BOOLEAN /\ {view, station, asked} \subseteq Credentials \cup {None}
  BY DEF TypeOK
<1> USE ConfigAssumption
<1>a. "settings" \in Writers /\ "wifi" \in Writers
  BY DEF Writers
<1>b. ASSUME NEW w \in Writers, NEW p \in Points, Goto(w, p) PROVE at' \in [Writers -> Points]
  BY <1>0, <1>b DEF Goto
<1>c. /\ "idle" \in Points /\ "setting" \in Points /\ "edited" \in Points
      /\ "writing" \in Points /\ "committed" \in Points /\ "saved" \in Points
  BY DEF Points
<1>1. CASE MuteRead
  <2>1. at' \in [Writers -> Points] /\ mute' \in BOOLEAN
    BY <1>0, <1>1, <1>a, <1>b, <1>c DEF MuteRead
  <2> QED
    BY <1>0, <1>1, <2>1 DEF MuteRead, TypeOK
<1>2. CASE MuteEdit
  <2>1. at' \in [Writers -> Points] /\ copy' \in [Writers -> Configs]
    BY <1>0, <1>2, <1>a, <1>b, <1>c, Edited DEF MuteEdit
  <2> QED
    BY <1>0, <1>2, <2>1 DEF MuteEdit, TypeOK
<1>3. ASSUME NEW v \in Volumes, VolumeEdit(v) PROVE TypeOK'
  <2>1. at' \in [Writers -> Points] /\ copy' \in [Writers -> Configs]
    BY <1>0, <1>3, <1>a, <1>b, <1>c, Edited DEF VolumeEdit
  <2> QED
    BY <1>0, <1>3, <2>1 DEF VolumeEdit, TypeOK
<1>4. ASSUME NEW c \in Credentials, NEW v \in Volumes, FormPosted(c, v) PROVE TypeOK'
  <2>1. posted' \in Seq(Configs) /\ Len(posted') <= FormQueue
    <3> DEFINE form == [ram EXCEPT !.creds = c, !.volume = v]
    <3>1. form \in Configs
      BY <1>0, Edited
    <3>2. posted' = Append(posted, form) /\ Len(posted) < FormQueue
      BY <1>4 DEF FormPosted, QueueRoom
    <3> HIDE DEF form
    <3> QED
      BY <1>0, <3>1, <3>2, QueueTyped
  <2>2. forms' \in 0 .. MaxForms
    BY <1>0, <1>4 DEF FormPosted
  <2> QED
    BY <1>0, <1>4, <2>1, <2>2 DEF FormPosted, TypeOK
<1>5. CASE FormTaken
  <2>1. posted' \in Seq(Configs) /\ Len(posted') <= FormQueue /\ Head(posted) \in Configs
    BY <1>0, <1>5, QueueTyped DEF FormTaken
  <2>2. at' \in [Writers -> Points] /\ copy' \in [Writers -> Configs]
    BY <1>0, <1>5, <1>a, <1>b, <1>c, <2>1 DEF FormTaken
  <2> QED
    BY <1>0, <1>5, <2>1, <2>2 DEF FormTaken, TypeOK
<1>6. ASSUME NEW w \in Writers, SaveRefused(w) \/ SaveLocks(w) \/ CommitFails(w) PROVE TypeOK'
  <2>1. at' \in [Writers -> Points] /\ saveLock' \in Writers \cup {"free"}
    BY <1>0, <1>6, <1>b, <1>c DEF SaveRefused, SaveLocks, CommitFails
  <2>2. UNCHANGED <<ram, flash, copy, mute, posted, forms, view, portal, station, asked>>
    BY <1>6 DEF SaveRefused, SaveLocks, CommitFails
  <2> QED
    BY <1>0, <2>1, <2>2 DEF TypeOK
<1>7. ASSUME NEW w \in Writers, Commits(w) PROVE TypeOK'
  <2>1. at' \in [Writers -> Points] /\ flash' \in Configs
    BY <1>0, <1>7, <1>b, <1>c DEF Commits
  <2> QED
    BY <1>0, <1>7, <2>1 DEF Commits, TypeOK
<1>8. ASSUME NEW w \in Writers, Publishes(w) PROVE TypeOK'
  <2>1. at' \in [Writers -> Points] /\ ram' \in Configs /\ saveLock' = "free"
    BY <1>0, <1>8, <1>b, <1>c DEF Publishes, Published
  <2>2. asked' \in Credentials \cup {None}
    BY <1>0, <1>8, Edited DEF Publishes
  <2> QED
    BY <1>0, <1>8, <2>1, <2>2 DEF Publishes, TypeOK
<1>9. CASE PortalDone
  <2>1. /\ at' \in [Writers -> Points] /\ copy["wifi"].creds \in Credentials \cup {None}
    BY <1>0, <1>9, <1>a, <1>b, <1>c, Edited DEF PortalDone
  <2> QED
    BY <1>0, <1>9, <2>1 DEF PortalDone, TypeOK
<1>10. CASE PortalOpens \/ PortalCloses
  BY <1>0, <1>10 DEF PortalOpens, PortalCloses, TypeOK
<1>11. CASE Connect
  BY <1>0, <1>11, Edited DEF Connect, TypeOK
<1>12. CASE PowerFails
  <2>1. /\ ram' \in Configs /\ saveLock' \in Writers \cup {"free"} /\ UNCHANGED <<flash, forms>>
        /\ at' \in [Writers -> Points] /\ copy' \in [Writers -> Configs]
    BY <1>0, <1>12, <1>c DEF PowerFails
  <2>2. mute' \in BOOLEAN /\ portal' \in BOOLEAN
    BY <1>12 DEF PowerFails
  <2>3. posted' \in Seq(Configs) /\ Len(posted') <= FormQueue
    BY <1>12, EmptyQueue DEF PowerFails
  <2>4. {view', station', asked'} \subseteq Credentials \cup {None}
    BY <1>0, <1>12, Edited DEF PowerFails
  <2> QED
    BY <1>0, <2>1, <2>2, <2>3, <2>4 DEF TypeOK
<1>13. CASE UNCHANGED vars
  BY <1>0, <1>13 DEF vars, TypeOK
<1> QED
  BY <1>1, <1>2, <1>3, <1>4, <1>5, <1>6, <1>7, <1>8, <1>9, <1>10, <1>11, <1>12, <1>13
     DEF Next, Save

(* In every reachable state the configuration in RAM, the blob, the copies *)
(* of the writers and the queue have their types.                          *)
THEOREM StoreTypeCorrect == Spec => []TypeOK
<1>1. Init => TypeOK
  <2> SUFFICES ASSUME Init PROVE TypeOK
    OBVIOUS
  <2>1. flash \in Configs /\ ram \in Configs /\ copy \in [Writers -> Configs]
    BY DEF Init
  <2>2. at \in [Writers -> Points] /\ mute \in BOOLEAN /\ portal \in BOOLEAN
    BY DEF Init, Points
  <2>3. posted \in Seq(Configs) /\ Len(posted) <= FormQueue /\ forms \in 0 .. MaxForms
    BY EmptyQueue, ConfigAssumption DEF Init
  <2> QED
    BY <2>1, <2>2, <2>3 DEF Init, TypeOK
<1> QED
  BY <1>1, TypeStep, PTL DEF Spec

-----------------------------------------------------------------------------
(* RAM and flash part only between a commit and its publication, and then  *)
(* under the lock; so a power failure loses nothing the firmware ran with. *)
LEMMA DurableStep == TypeOK /\ Durable /\ [Next]_vars => Durable'
<1> SUFFICES ASSUME TypeOK, Durable, [Next]_vars PROVE Durable'
  OBVIOUS
<1>0. at \in [Writers -> Points] /\ copy \in [Writers -> Configs]
  BY DEF TypeOK
<1> USE DEF Durable, Writers
<1>1. ASSUME UNCHANGED <<ram, flash, saveLock, at, copy>> PROVE Durable'
  BY <1>1
<1>2. CASE MuteRead
  BY <1>0, <1>2 DEF MuteRead, Goto
<1>3. CASE MuteEdit
  BY <1>0, <1>3 DEF MuteEdit, Goto
<1>4. ASSUME NEW v, VolumeEdit(v) PROVE Durable'
  BY <1>0, <1>4 DEF VolumeEdit, Goto
<1>5. ASSUME NEW c, NEW v, FormPosted(c, v) PROVE Durable'
  BY <1>1, <1>5 DEF FormPosted
<1>6. CASE FormTaken
  BY <1>0, <1>6 DEF FormTaken, Goto
<1>7. ASSUME NEW w \in Writers, SaveRefused(w) PROVE Durable'
  BY <1>0, <1>7 DEF SaveRefused, Goto
<1>8. ASSUME NEW w \in Writers, SaveLocks(w) PROVE Durable'
  BY <1>0, <1>8 DEF SaveLocks, LockFree, Goto
<1>9. ASSUME NEW w \in Writers, Commits(w) PROVE Durable'
  BY <1>0, <1>9 DEF Commits, Goto
<1>10. ASSUME NEW w \in Writers, CommitFails(w) PROVE Durable'
  BY <1>0, <1>10 DEF CommitFails, Goto
<1>11. ASSUME NEW w \in Writers, Publishes(w) PROVE Durable'
  BY <1>0, <1>11 DEF Publishes, Published, Goto
<1>12. CASE PortalDone
  BY <1>0, <1>12 DEF PortalDone, Goto
<1>13. CASE PortalOpens \/ PortalCloses \/ Connect
  BY <1>1, <1>13 DEF PortalOpens, PortalCloses, Connect
<1>14. CASE PowerFails
  BY <1>14 DEF PowerFails
<1>15. CASE UNCHANGED vars
  BY <1>1, <1>15 DEF vars
<1> QED
  BY <1>2, <1>3, <1>4, <1>5, <1>6, <1>7, <1>8, <1>9, <1>10, <1>11, <1>12, <1>13, <1>14, <1>15
     DEF Next, Save

(* monitor_config_save: what the firmware runs with survives a power       *)
(* failure at any point.                                                   *)
THEOREM ConfigIsDurable == Spec => []Durable
<1>1. Init => Durable
  BY DEF Init, Durable, Writers
<1> QED
  BY <1>1, DurableStep, StoreTypeCorrect, PTL DEF Spec

(* monitor_config_save: neither copy is ever replaced by anything but a    *)
(* whole record that a writer has edited, and RAM only by what flash holds.*)
THEOREM RecordsAreWhole == Spec => WholeRecords
<1> DEFINE A == /\ flash' # flash => \E w \in Writers : at[w] = "writing" /\ flash' = copy[w]
                /\ ram' # ram => ram' = flash'
<1>1. Durable /\ [Next]_vars => [A]_vars
  <2> SUFFICES ASSUME Durable, Next PROVE A
    OBVIOUS
  <2>1. ASSUME UNCHANGED <<ram, flash>> PROVE A
    BY <2>1
  <2>2. ASSUME NEW w \in Writers, Commits(w) PROVE A
    BY <2>2 DEF Commits
  <2>3. ASSUME NEW w \in Writers, Publishes(w) PROVE A
    BY <2>3 DEF Publishes, Published, Durable
  <2>4. CASE PowerFails
    BY <2>4 DEF PowerFails
  <2>5. ASSUME NEW w \in Writers, SaveRefused(w) \/ SaveLocks(w) \/ CommitFails(w) PROVE A
    BY <2>1, <2>5 DEF SaveRefused, SaveLocks, CommitFails
  <2>6. ASSUME NEW c, NEW v, VolumeEdit(v) \/ FormPosted(c, v) PROVE A
    BY <2>1, <2>6 DEF VolumeEdit, FormPosted
  <2>7. CASE \/ MuteRead \/ MuteEdit \/ FormTaken \/ PortalDone \/ PortalOpens \/ PortalCloses
             \/ Connect
    BY <2>1, <2>7 DEF MuteRead, MuteEdit, FormTaken, PortalDone, PortalOpens, PortalCloses,
       Connect
  <2> QED
    BY <2>2, <2>3, <2>4, <2>5, <2>6, <2>7 DEF Next, Save
<1> QED
  BY <1>1, ConfigIsDurable, PTL DEF Spec, WholeRecords

(* The store keeps its types, its lock and its agreement with flash.       *)
THEOREM StoreIsSafe == Spec => []ConfigSafe
<1>1. TypeOK /\ Durable => ConfigSafe
  BY DEF ConfigSafe
<1> QED
  BY <1>1, StoreTypeCorrect, ConfigIsDurable, PTL

-----------------------------------------------------------------------------
OtaPlaces ==
  {"idle", "taken", "pausing", "fetch", "install", "download", "written", "restart"}
OtaTypes ==
  /\ image \in [Ota!Slots -> Versions \cup {Ota!Broken}]
  /\ trial \in [Ota!Slots -> {"valid", "new", "pending", "aborted"}]
  /\ selected \in Ota!Slots /\ running \in Ota!Slots /\ checked \in BOOLEAN
  /\ offer \in [available : BOOLEAN, busy : BOOLEAN, version : Versions \cup {Ota!Broken}]
  /\ manifest \in [version : Versions \cup {Ota!Broken}, origin : Servers]
  /\ note \subseteq {"check", "install"} /\ step \in OtaPlaces
  /\ apply \in BOOLEAN /\ cfg \in Servers /\ home \in Servers /\ armed \in BOOLEAN
  /\ best \in Good /\ agreed \in Versions \cup {Ota!Broken}

(* The offer on display is the manifest in RAM, and there is none while    *)
(* the next one is fetched.                                                *)
Offer ==
  /\ offer.available => offer.version = manifest.version /\ offer.version > image[running]
  /\ step = "fetch" => ~offer.available

(* From esp_ota_begin on, what is installed is the manifest's, from the    *)
(* server whose token goes with it, and newer than what runs.              *)
Download ==
  /\ step = "download" => manifest.origin = cfg
  /\ step \in {"download", "written"} => manifest.version > image[running]

(* Either the newest confirmed image runs, and another one is selected     *)
(* only when it is whole, newer and about to be started; or it waits in    *)
(* the other slot behind a newer one on trial, which is the one that runs  *)
(* and which installs nothing.                                             *)
Proven ==
  /\ trial[running] = "valid" /\ image[running] = best
  /\ \/ selected = running
     \/ /\ step = "restart" /\ selected = Ota!Other(running) /\ trial[selected] = "new"
        /\ image[selected] > best
OnTrial ==
  /\ trial[running] = "pending" /\ selected = running /\ image[running] > best
  /\ trial[Ota!Other(running)] = "valid" /\ image[Ota!Other(running)] = best
  /\ step \notin {"download", "written", "restart"}

OtaInv == OtaTypes /\ Offer /\ Download /\ (Proven \/ OnTrial)

-----------------------------------------------------------------------------
(* There are two slots.                                                    *)
LEMMA TwoSlots ==
  ASSUME NEW s \in Ota!Slots
  PROVE  Ota!Other(s) \in Ota!Slots /\ Ota!Other(s) # s /\ Ota!Other(Ota!Other(s)) = s /\ \A t \in Ota!Slots : t = s \/ t = Ota!Other(s)
  BY DEF Ota!Slots, Ota!Other

LEMMA OtaStart == Ota!Init => OtaInv
<1> SUFFICES ASSUME Ota!Init PROVE OtaInv
  OBVIOUS
<1>1. (CHOOSE o \in Servers : TRUE) \in Servers
  BY LinkAssumption DEF Ota!OtaAssumption
<1>2. First \in Versions
  BY LinkAssumption DEF Ota!OtaAssumption
<1>3. OtaTypes
  BY LinkAssumption, <1>1, <1>2 DEF Ota!Init, OtaTypes, OtaPlaces, Ota!NoView, Ota!NoManifest,
     Ota!Slots, Ota!OtaAssumption
<1>4. Proven
  BY DEF Ota!Init, Proven, Ota!Slots
<1> QED
  BY <1>3, <1>4 DEF Ota!Init, OtaInv, Offer, Download, Ota!NoView

LEMMA OtaEnough == OtaInv => UpdatesSafe
<1> SUFFICES ASSUME OtaInv PROVE Ota!UpdatesSafe
  BY DEF UpdatesSafe
<1> USE DEF OtaInv
<1>a. best \in Nat /\ best \in Versions /\ image[running] \in Nat
  <2>1. best \in Good /\ running \in Ota!Slots /\ image \in [Ota!Slots -> Versions \cup {Ota!Broken}]
    BY DEF OtaTypes
  <2>2. Good \subseteq Versions /\ Versions \subseteq Nat /\ Ota!Broken \in Nat
    BY LinkAssumption DEF Ota!OtaAssumption, Ota!Broken
  <2> QED
    BY <2>1, <2>2
<1>b. Ota!Other(running) \in Ota!Slots
  BY TwoSlots DEF OtaTypes
<1>0. Ota!Other(running) \in Ota!Slots /\ best \in Nat /\ best \in Versions /\ image[running] \in Nat
  BY <1>a, <1>b
<1>1. Ota!TypeOK
  BY <1>0 DEF Ota!TypeOK, OtaTypes, OtaPlaces, Offer
<1>2. Ota!ProvenKept
  <2>1. CASE Proven
    BY <2>1 DEF Proven, Ota!ProvenKept, OtaTypes
  <2>2. CASE OnTrial
    BY <2>2, <1>0 DEF OnTrial, Ota!ProvenKept
  <2> QED
    BY <2>1, <2>2
<1>3. Ota!NeverOlder /\ Ota!OnlyHealthyConfirmed
  BY <1>0 DEF Proven, OnTrial, Ota!NeverOlder, Ota!OnlyHealthyConfirmed, OtaTypes
<1> QED
  BY <1>1, <1>2, <1>3 DEF Ota!UpdatesSafe, Ota!TokenStaysHome, Download

-----------------------------------------------------------------------------
(* The keys, the configuration, and the health check.                      *)
LEMMA OtaUser ==
  ASSUME OtaInv, Ota!PressOk \/ Ota!Leave \/ Ota!Reconfigure \/ UNCHANGED Ota!vars
  PROVE  OtaInv'
<1> USE DEF OtaInv, OtaTypes, OtaPlaces, Offer, Download, Proven, OnTrial
<1>1. CASE Ota!PressOk
  <2>1. /\ UNCHANGED <<Ota!slots, running, checked, offer, Ota!worker, home, best>>
        /\ note' \subseteq {"check", "install"} /\ armed' \in BOOLEAN
        /\ agreed' \in Versions \cup {Ota!Broken}
    BY <1>1 DEF Ota!PressOk
  <2> QED
    BY <2>1 DEF Ota!slots, Ota!worker
<1>2. CASE Ota!Leave \/ Ota!Reconfigure
  <2>1. CASE Ota!Leave
    <3>1. /\ armed' = FALSE
          /\ UNCHANGED <<image, trial, selected, running, checked, offer, manifest, note, step, apply,
                         cfg, home, best, agreed>>
      BY <2>1 DEF Ota!Leave, Ota!slots, Ota!worker
    <3>2. OtaTypes'
      BY <3>1
    <3> QED
      BY <3>1, <3>2
  <2>2. CASE Ota!Reconfigure
    BY <2>2 DEF Ota!Reconfigure, Ota!slots, Ota!worker, Ota!ui
  <2> QED
    BY <1>2, <2>1, <2>2
<1>3. CASE UNCHANGED Ota!vars
  BY <1>3 DEF Ota!vars, Ota!slots, Ota!worker, Ota!ui
<1> QED
  BY <1>1, <1>2, <1>3

LEMMA OtaCheck == ASSUME OtaInv, Ota!SelfCheck PROVE OtaInv'
<1> USE DEF OtaInv, OtaTypes, OtaPlaces, Offer, Download
<1>0. UNCHANGED <<image, selected, running, offer, note, Ota!worker, home, Ota!ui>> /\ checked' = TRUE
  BY DEF Ota!SelfCheck
<1>1. CASE trial[running] = "pending"
  <2>1. OnTrial
    BY <1>1 DEF Proven
  <2>2. trial' = [trial EXCEPT ![running] = "valid"] /\ best' = image[running] /\ best' \in Good
    BY <1>1 DEF Ota!SelfCheck, Ota!Healthy
  <2>3. Proven'
    BY <1>0, <2>1, <2>2 DEF Proven, OnTrial
  <2> QED
    BY <1>0, <2>2, <2>3 DEF Ota!worker, Ota!ui
<1>2. CASE trial[running] # "pending"
  <2>1. UNCHANGED <<trial, best>>
    BY <1>2 DEF Ota!SelfCheck
  <2> QED
    BY <1>0, <2>1 DEF Ota!worker, Ota!ui, Proven, OnTrial
<1> QED
  BY <1>1, <1>2

(* What the worker does before it touches a slot.                          *)
LEMMA OtaFetch ==
  ASSUME OtaInv, Ota!Take \/ Ota!Announce \/ Ota!FetchFails \/ Ota!Fetched \/ Ota!InstallFails
           \/ \E quiescent \in BOOLEAN : Ota!Paused(quiescent)
  PROVE  OtaInv'
<1> USE DEF OtaInv, OtaTypes, OtaPlaces, Offer, Download, Ota!Report
<1>0. (Proven => (step # "restart" => selected = running)) /\ UNCHANGED <<Ota!slots, running, best, home, Ota!ui>>
      /\ step # "restart" /\ step' # "restart"
  BY DEF Proven, Ota!Take, Ota!Announce, Ota!FetchFails, Ota!Fetched, Ota!InstallFails,
     Ota!FailureReported, Ota!Paused, Ota!ui
<1>1. (Proven \/ OnTrial)'
  <2>1. CASE Proven
    BY <1>0, <2>1 DEF Proven, Ota!slots
  <2>2. CASE OnTrial
    <3>1. step' \notin {"download", "written", "restart"}
      BY <2>2 DEF OnTrial, Ota!Take, Ota!Announce, Ota!FetchFails, Ota!Fetched,
         Ota!InstallFails, Ota!FailureReported, Ota!Paused
    <3> QED
      BY <1>0, <2>2, <3>1 DEF OnTrial, Ota!slots, Ota!Other
  <2> QED
    BY <2>1, <2>2
<1>2. CASE Ota!Take
  BY <1>0, <1>1, <1>2 DEF Ota!Take, Ota!slots, Ota!ui
<1>3. CASE Ota!Announce
  BY <1>0, <1>1, <1>3 DEF Ota!Announce, Ota!slots, Ota!ui
<1>4. CASE Ota!FetchFails
  BY <1>0, <1>1, <1>4 DEF Ota!FetchFails, Ota!slots, Ota!ui
<1>5. CASE Ota!Fetched
  <2>1. /\ UNCHANGED <<image, running, trial, selected, checked, note, apply, cfg, home, armed, best, agreed>>
        /\ step' = "idle" /\ ~offer.available
    BY <1>5 DEF Ota!Fetched, Ota!slots, Ota!ui
  <2>2. manifest' \in [version : Versions, origin : Servers]
    BY <1>5 DEF Ota!Fetched
  <2>3. CASE manifest'.origin = cfg
    <3>1. offer' = [available |-> manifest'.version > image[running], busy |-> FALSE,
                   version |-> manifest'.version]
      BY <1>5, <2>3 DEF Ota!Fetched, Ota!NewerThanRunning
    <3> QED
      BY <1>1, <2>1, <2>2, <3>1
  <2>4. CASE manifest'.origin # cfg
    <3>1. offer' = [offer EXCEPT !.busy = FALSE]
      BY <1>5, <2>4 DEF Ota!Fetched
    <3> QED
      BY <1>1, <2>1, <2>2, <3>1
  <2> QED
    BY <2>3, <2>4
<1>6. CASE Ota!InstallFails
  BY <1>0, <1>1, <1>6 DEF Ota!InstallFails, Ota!FailureReported, Ota!slots, Ota!ui
<1>7. ASSUME NEW quiescent \in BOOLEAN, Ota!Paused(quiescent) PROVE OtaInv'
  <2> USE <1>7 DEF Ota!Paused, Ota!slots, Ota!ui
  <2>0. UNCHANGED <<image, trial, selected, running, checked, note, manifest, apply, cfg, home, armed, best, agreed>>
    OBVIOUS
  <2>1. CASE ~quiescent
    <3>1. step' = "idle" /\ offer' = [offer EXCEPT !.busy = FALSE]
      BY <2>1
    <3> QED
      BY <1>1, <2>0, <3>1
  <2>2. CASE quiescent /\ apply
    <3>1. step' = "install" /\ offer' = offer
      BY <2>2
    <3> QED
      BY <1>1, <2>0, <3>1
  <2>3. CASE quiescent /\ ~apply
    <3>1. step' = "fetch" /\ offer' = [offer EXCEPT !.available = FALSE]
      BY <2>3 DEF Ota!OfferedMeanwhile
    <3> QED
      BY <1>1, <2>0, <3>1
  <2> QED
    BY <2>1, <2>2, <2>3
<1> QED
  BY <1>2, <1>3, <1>4, <1>5, <1>6, <1>7

(* An installation only ever touches the slot that does not run, while the *)
(* one that runs holds the newest confirmed image.                         *)
LEMMA OtaInstall ==
  ASSUME OtaInv, Ota!InstallBegins \/ Ota!Written \/ Ota!Select
  PROVE  OtaInv'
<1> USE DEF OtaInv, OtaTypes, OtaPlaces, Offer, Download
<1>0. Ota!Other(running) \in Ota!Slots /\ Ota!Other(running) # running
  BY TwoSlots
<1>1. Proven /\ selected = running
  BY DEF Ota!InstallBegins, Ota!BeginOpens, Ota!Written, Ota!Select, Proven, OnTrial
<1>2. CASE Ota!InstallBegins
  <2>1. image' \in [Ota!Slots -> Versions \cup {Ota!Broken}] /\ image'[running] = image[running]
    BY <1>0, <1>2 DEF Ota!InstallBegins
  <2> QED
    BY <1>1, <1>2, <2>1 DEF Ota!InstallBegins, Ota!MayInstall, Ota!NewerThanRunning, Ota!ui,
       Proven
<1>3. CASE Ota!Written
  <2>1. image' \in [Ota!Slots -> Versions \cup {Ota!Broken}] /\ image'[running] = image[running]
    BY <1>0, <1>3 DEF Ota!Written
  <2> QED
    BY <1>1, <1>3, <2>1 DEF Ota!Written, Ota!ui, Proven
<1>4. CASE Ota!Select
  <2>1. /\ trial' \in [Ota!Slots -> {"valid", "new", "pending", "aborted"}]
        /\ trial'[running] = "valid" /\ trial'[Ota!Other(running)] = "new"
    BY <1>0, <1>1, <1>4 DEF Ota!Select, Proven
  <2>2. image[Ota!Other(running)] > best
    BY <1>1, <1>4 DEF Ota!Select, Ota!SameVersion, Proven
  <2>3. Proven'
    BY <1>1, <1>4, <2>1, <2>2 DEF Ota!Select, Proven, Ota!Other
  <2> QED
    BY <1>0, <1>4, <2>1, <2>3 DEF Ota!Select, Ota!ui
<1> QED
  BY <1>2, <1>3, <1>4

(* A reset at any moment.                                                  *)
LEMMA OtaBoot == ASSUME OtaInv, Ota!Boot PROVE OtaInv'
<1> USE DEF OtaInv, OtaTypes
<1>0. Ota!Other(running) \in Ota!Slots /\ Ota!Other(running) # running /\ Ota!Other(Ota!Other(running)) = running
  BY TwoSlots
<1>1. /\ offer' = Ota!NoView /\ manifest' = Ota!NoManifest /\ note' = {} /\ step' = "idle" /\ apply' = FALSE
      /\ checked' = FALSE /\ armed' = FALSE /\ agreed' = Ota!Broken
      /\ UNCHANGED <<image, cfg, home, best>> /\ running' = Ota!BootSlot /\ selected' = Ota!BootSlot
  BY DEF Ota!Boot
<1>2. trial' \in [Ota!Slots -> {"valid", "new", "pending", "aborted"}]
  BY DEF Ota!Boot
<1>3. /\ trial'[selected] = (CASE trial[selected] = "pending" -> "aborted"
                               [] trial[selected] = "new" -> "pending" [] OTHER -> trial[selected])
      /\ \A s \in Ota!Slots \ {selected} : trial'[s] = trial[s]
  BY DEF Ota!Boot
<1>4. (Proven \/ OnTrial)' /\ Ota!BootSlot \in Ota!Slots
  <2>1. CASE Proven /\ selected = running
    BY <1>1, <1>3, <2>1 DEF Proven, Ota!BootSlot
  <2>2. CASE Proven /\ selected # running
    BY <1>0, <1>1, <1>3, <2>2 DEF Proven, OnTrial, Ota!BootSlot
  <2>3. CASE OnTrial
    BY <1>0, <1>1, <1>3, <2>3 DEF Proven, OnTrial, Ota!BootSlot
  <2> QED
    BY <2>1, <2>2, <2>3
<1>5. Ota!NoManifest \in [version : Versions \cup {Ota!Broken}, origin : Servers]
  BY LinkAssumption DEF Ota!NoManifest, Ota!OtaAssumption
<1> QED
  BY <1>1, <1>2, <1>4, <1>5 DEF Ota!NoView, OtaPlaces, Offer, Download

LEMMA OtaStep == OtaInv /\ [Ota!Next]_Ota!vars => OtaInv'
  BY OtaUser, OtaCheck, OtaFetch, OtaInstall, OtaBoot DEF Ota!Next, Ota!Worker

LEMMA OtaHolds == Ota!Init /\ [][Ota!Next]_Ota!vars => []OtaInv
  BY OtaStart, OtaStep, PTL

-----------------------------------------------------------------------------
(* The Wi-Fi worker.  The three signs of the portal go together, and they  *)
(* are up only between the end of a scan and the next look; the station    *)
(* has been quiet since before that scan.                                  *)
Setup ==
  /\ httpd = provisioning /\ dns = provisioning
  /\ provisioning => pc \in {"look", "wait"} /\ sta = "idle" /\ ~connected
  /\ pc = "scan" => sta = "idle" /\ ~provisioning
WifiInv == Wifi!TypeOK /\ Setup

LEMMA WifiStart == Wifi!Init => WifiInv
<1> SUFFICES ASSUME Wifi!Init PROVE WifiInv
  OBVIOUS
<1>1. cmds \in Seq({"setup", "config"}) /\ Len(cmds) <= Depth /\ failures \in 0 .. MaxFailures
  BY LinkAssumption DEF Wifi!WifiAssumption, Wifi!Init
<1>2. Wifi!TypeOK
  BY <1>1 DEF Wifi!Init, Wifi!NoBits, Wifi!TypeOK
<1>3. Setup
  BY DEF Wifi!Init, Setup
<1> QED
  BY <1>2, <1>3 DEF WifiInv

LEMMA WifiEnough == WifiInv => SetupSafe
  BY DEF WifiInv, Setup, SetupSafe, Wifi!SetupSafe, Wifi!SetupIsolated, Wifi!PortalWhole

(* The retry table is never left, and no deadline is negative.             *)
LEMMA Delays ==
  ASSUME failures \in 0 .. MaxFailures
  PROVE  /\ Retry[failures] \in Nat /\ Retry[0] \in Nat /\ SetupTicks \in Nat /\ JoinTicks \in Nat
         /\ Wifi!More \in 0 .. MaxFailures /\ 0 \in 0 .. MaxFailures
         /\ \A n \in Nat : Wifi!Less(n) \in Nat
  BY LinkAssumption DEF Wifi!WifiAssumption, Wifi!More, Wifi!Less

(* A command is put at the end of the queue or taken from its head.        *)
LEMMA Queued ==
  ASSUME NEW q \in Seq({"setup", "config"})
  PROVE  /\ Len(q) \in Nat
         /\ \A c \in {"setup", "config"} :
              Append(q, c) \in Seq({"setup", "config"}) /\ Len(Append(q, c)) = Len(q) + 1
         /\ q # <<>> => Tail(q) \in Seq({"setup", "config"}) /\ Len(Tail(q)) = Len(q) - 1
  OBVIOUS

-----------------------------------------------------------------------------
(* What happens around the worker: keys and forms, the driver, time.       *)
LEMMA WifiAround ==
  ASSUME WifiInv,
         \/ Wifi!AskSetup \/ Wifi!PostForm \/ Wifi!Settle \/ Wifi!JoinFails \/ Wifi!LinkDrops
         \/ Wifi!LeaseEnds \/ Wifi!Left \/ Wifi!CalmDown \/ Wifi!Tick \/ UNCHANGED Wifi!vars
  PROVE  WifiInv'
<1> USE DEF Wifi!bitVars, Wifi!portal, Wifi!attempt, Wifi!driver
<1>1. CASE Wifi!AskSetup \/ Wifi!PostForm
  <2>1. PICK c \in {"setup", "config"} : Len(cmds) < Depth /\ cmds' = Append(cmds, c)
    BY <1>1 DEF Wifi!AskSetup, Wifi!PostForm, Wifi!Send
  <2>2. cmds' \in Seq({"setup", "config"}) /\ Len(cmds') = Len(cmds) + 1 /\ Len(cmds) \in Nat
    BY <2>1, Queued DEF WifiInv, Wifi!TypeOK
  <2>3. Len(cmds') <= Depth
    BY <2>1, <2>2, LinkAssumption DEF Wifi!WifiAssumption
  <2> QED
    BY <1>1, <2>2, <2>3 DEF Wifi!AskSetup, Wifi!PostForm, WifiInv, Wifi!TypeOK, Setup
<1>2. CASE Wifi!Settle \/ Wifi!JoinFails \/ Wifi!LinkDrops \/ Wifi!LeaseEnds
  <2>1. /\ UNCHANGED <<cmds, pc, bits, Wifi!portal, connected, Wifi!attempt, valid, leaving, calm>>
        /\ got' \in BOOLEAN /\ lost' \in BOOLEAN
    BY <1>2 DEF Wifi!Settle, Wifi!Associate, Wifi!Lease, Wifi!JoinFails, Wifi!LinkDrops,
       Wifi!LeaseEnds,
       Wifi!Driver, Wifi!GotIp, Wifi!LostIp, WifiInv, Wifi!TypeOK
  <2>2. sta' \in {"idle", "joined", "up"} /\ (sta = "idle" => sta' = "idle")
    BY <1>2 DEF Wifi!Settle, Wifi!Associate, Wifi!Lease, Wifi!JoinFails, Wifi!LinkDrops,
       Wifi!LeaseEnds,
       Wifi!Driver
  <2> QED
    BY <2>1, <2>2 DEF WifiInv, Wifi!TypeOK, Setup
<1>3. CASE Wifi!Left \/ Wifi!CalmDown
  <2>1. /\ UNCHANGED <<cmds, pc, bits, Wifi!portal, connected, Wifi!attempt, valid, sta>>
        /\ got' \in BOOLEAN /\ lost' \in BOOLEAN /\ leaving' \in BOOLEAN /\ calm' \in BOOLEAN
    BY <1>3 DEF Wifi!Left, Wifi!LostIp, Wifi!CalmDown, WifiInv, Wifi!TypeOK
  <2> QED
    BY <2>1 DEF WifiInv, Wifi!TypeOK, Setup
<1>4. CASE Wifi!Tick
  <2>1. setupLeft' \in Nat /\ joinLeft' \in Nat /\ next' \in Nat
    BY <1>4, Delays DEF Wifi!Tick, WifiInv, Wifi!TypeOK
  <2> QED
    BY <1>4, <2>1 DEF Wifi!Tick, WifiInv, Wifi!TypeOK, Setup
<1>5. CASE UNCHANGED Wifi!vars
  BY <1>5 DEF Wifi!vars, WifiInv, Wifi!TypeOK, Setup
<1> QED
  BY <1>1, <1>2, <1>3, <1>4, <1>5

(* A pass of the worker: commands and the portal first.                    *)
LEMMA WifiPortal ==
  ASSUME WifiInv, NEW ok \in BOOLEAN,
         \/ Wifi!Boot \/ Wifi!TakeSetup \/ Wifi!TakeForm(ok) \/ Wifi!NoCommand
         \/ Wifi!PortalReady(ok) \/ Wifi!Look
  PROVE  WifiInv'
<1> USE DEF WifiInv, Wifi!TypeOK, Setup, Wifi!bitVars, Wifi!portal, Wifi!attempt, Wifi!driver,
        Wifi!ClearBits, Wifi!PortalDown
<1>1. CASE Wifi!Boot
  <2>1. Wifi!TypeOK'
    BY <1>1 DEF Wifi!Boot, Wifi!PortalStart, Wifi!Isolate, Wifi!Disconnect
  <2>2. Setup'
    BY <1>1 DEF Wifi!Boot, Wifi!PortalStart, Wifi!Isolate, Wifi!Disconnect
  <2> QED
    BY <2>1, <2>2
<1>2. CASE Wifi!TakeSetup
  <2>1. cmds' \in Seq({"setup", "config"}) /\ Len(cmds') <= Depth
    BY <1>2, Queued, LinkAssumption DEF Wifi!TakeSetup, Wifi!WifiAssumption
  <2> QED
    BY <1>2, <2>1 DEF Wifi!TakeSetup, Wifi!PortalStart, Wifi!Isolate, Wifi!Disconnect
<1>3. CASE Wifi!TakeForm(ok)
  <2>1. cmds' \in Seq({"setup", "config"}) /\ Len(cmds') <= Depth
    BY <1>3, Queued, LinkAssumption DEF Wifi!TakeForm, Wifi!WifiAssumption
  <2>2. CASE ok
    <3>1. /\ pc' = "look" /\ valid' = TRUE /\ httpd' = FALSE /\ dns' = FALSE /\ provisioning' = FALSE
          /\ got' = FALSE /\ lost' = FALSE /\ next' = 0 /\ connecting' = FALSE
          /\ UNCHANGED <<bits, setupLeft, connected, joinLeft, failures, sta, leaving, calm>>
      BY <1>3, <2>2 DEF Wifi!TakeForm
    <3> QED
      BY <2>1, <3>1
  <2>3. CASE ~ok
    BY <1>3, <2>1, <2>3 DEF Wifi!TakeForm
  <2> QED
    BY <2>2, <2>3
<1>4. CASE Wifi!NoCommand
  BY <1>4 DEF Wifi!NoCommand
<1>5. CASE Wifi!PortalReady(ok)
  BY <1>5, Delays DEF Wifi!PortalReady, Wifi!Cleanup
<1>6. CASE Wifi!Look
  <2>1. CASE httpd /\ ~Wifi!Expires
    <3>1. pc' = "wait" /\ UNCHANGED <<cmds, bits, connected, Wifi!portal, Wifi!bitVars>>
      BY <1>6, <2>1 DEF Wifi!Look
    <3>2. UNCHANGED <<next, connecting, joinLeft, failures, valid, sta, leaving, calm>>
      BY <1>6, <2>1 DEF Wifi!Look
    <3> QED
      BY <2>1, <3>1, <3>2
  <2>2. CASE httpd /\ Wifi!Expires
    <3>1. /\ pc' = "act" /\ httpd' = FALSE /\ dns' = FALSE /\ provisioning' = FALSE
          /\ got' = FALSE /\ lost' = FALSE /\ connected' = FALSE /\ next' = Retry[0]
          /\ bits' = [got |-> FALSE, lost |-> FALSE]
          /\ UNCHANGED <<cmds, setupLeft, connecting, joinLeft, failures, valid, sta, leaving, calm>>
      BY <1>6, <2>2 DEF Wifi!Look, Wifi!Sample
    <3> QED
      BY <3>1, Delays
  <2>3. CASE ~httpd
    BY <1>6, <2>3 DEF Wifi!Look, Wifi!Sample
  <2> QED
    BY <2>1, <2>2, <2>3
<1> QED
  BY <1>1, <1>2, <1>3, <1>4, <1>5, <1>6

(* Then the link, which the worker comes to only when there is no portal.  *)
LEMMA WifiLink ==
  ASSUME WifiInv, NEW ok \in BOOLEAN,
         Wifi!Act \/ Wifi!HandleLost \/ Wifi!HandleDeadline \/ Wifi!Connect(ok)
  PROVE  WifiInv'
<1> USE DEF WifiInv, Wifi!TypeOK, Setup, Wifi!bitVars, Wifi!portal, Wifi!attempt, Wifi!driver
<1>1. CASE Wifi!Act
  BY <1>1, Delays DEF Wifi!Act
<1>2. CASE Wifi!HandleLost
  BY <1>2, Delays DEF Wifi!HandleLost, Wifi!ClearLost
<1>3. CASE Wifi!HandleDeadline
  <2>1. Wifi!TypeOK'
    <3>1. cmds' \in Seq({"setup", "config"}) /\ Len(cmds') <= Depth
      BY <1>3, Delays DEF Wifi!HandleDeadline, Wifi!Disconnect
    <3>2. got' \in BOOLEAN /\ lost' \in BOOLEAN /\ bits' \in [got : BOOLEAN, lost : BOOLEAN]
      BY <1>3, Delays DEF Wifi!HandleDeadline, Wifi!Disconnect
    <3>3. /\ httpd' \in BOOLEAN /\ dns' \in BOOLEAN /\ provisioning' \in BOOLEAN
          /\ connected' \in BOOLEAN /\ connecting' \in BOOLEAN
      BY <1>3, Delays DEF Wifi!HandleDeadline, Wifi!Disconnect
    <3>4. setupLeft' \in Nat /\ joinLeft' \in Nat /\ next' \in Nat /\ failures' \in 0 .. MaxFailures
      BY <1>3, Delays DEF Wifi!HandleDeadline, Wifi!Disconnect
    <3>5. valid' \in BOOLEAN /\ leaving' \in BOOLEAN /\ calm' \in BOOLEAN
      BY <1>3, Delays DEF Wifi!HandleDeadline, Wifi!Disconnect
    <3>6. /\ pc' \in {"boot", "scan", "wait", "look", "act", "deadline", "retry"}
          /\ sta' \in {"idle", "asked", "joining", "joined", "up"}
      BY <1>3, Delays DEF Wifi!HandleDeadline, Wifi!Disconnect
    <3> QED
      BY <3>1, <3>2, <3>3, <3>4, <3>5, <3>6
  <2>2. Setup'
    BY <1>3, Delays DEF Wifi!HandleDeadline, Wifi!Disconnect
  <2> QED
    BY <2>1, <2>2
<1>4. CASE Wifi!Connect(ok)
  <2>1. Wifi!TypeOK'
    <3>1. cmds' \in Seq({"setup", "config"}) /\ Len(cmds') <= Depth
      BY <1>4, Delays DEF Wifi!Connect
    <3>2. got' \in BOOLEAN /\ lost' \in BOOLEAN /\ bits' \in [got : BOOLEAN, lost : BOOLEAN]
      BY <1>4, Delays DEF Wifi!Connect
    <3>3. /\ httpd' \in BOOLEAN /\ dns' \in BOOLEAN /\ provisioning' \in BOOLEAN
          /\ connected' \in BOOLEAN /\ connecting' \in BOOLEAN
      BY <1>4, Delays DEF Wifi!Connect
    <3>4. setupLeft' \in Nat /\ joinLeft' \in Nat /\ next' \in Nat /\ failures' \in 0 .. MaxFailures
      BY <1>4, Delays DEF Wifi!Connect
    <3>5. valid' \in BOOLEAN /\ leaving' \in BOOLEAN /\ calm' \in BOOLEAN
      BY <1>4, Delays DEF Wifi!Connect
    <3>6. /\ pc' \in {"boot", "scan", "wait", "look", "act", "deadline", "retry"}
          /\ sta' \in {"idle", "asked", "joining", "joined", "up"}
      BY <1>4, Delays DEF Wifi!Connect
    <3> QED
      BY <3>1, <3>2, <3>3, <3>4, <3>5, <3>6
  <2>2. Setup'
    BY <1>4, Delays DEF Wifi!Connect
  <2> QED
    BY <2>1, <2>2
<1> QED
  BY <1>1, <1>2, <1>3, <1>4

LEMMA WifiStep == WifiInv /\ [Wifi!Next]_Wifi!vars => WifiInv'
  BY WifiAround, WifiPortal, WifiLink DEF Wifi!Next, Wifi!Worker

LEMMA WifiHolds == Wifi!Init /\ [][Wifi!Next]_Wifi!vars => []WifiInv
  BY WifiStart, WifiStep, PTL

-----------------------------------------------------------------------------
(* The whole: a step of LinkAndUpdate is for each part a step of its own   *)
(* or none.                                                                *)
LEMMA LinkParts ==
  LinkSpec => /\ Spec
              /\ Wifi!Init /\ [][Wifi!Next]_Wifi!vars
              /\ Ota!Init /\ [][Ota!Next]_Ota!vars
<1> USE DEF LinkNext, RunStore, RunWifi, RunOta, parts
<1>1. LinkInit => Init /\ Wifi!Init /\ Ota!Init
  BY DEF LinkInit
<1>2. [LinkNext]_parts => [Next]_vars
  BY DEF store
<1>3. [LinkNext]_parts => [Wifi!Next]_Wifi!vars
  BY DEF wifi, Wifi!vars, Wifi!bitVars, Wifi!portal, Wifi!attempt, Wifi!driver
<1>4. [LinkNext]_parts => [Ota!Next]_Ota!vars
  BY DEF ota, Ota!vars, Ota!slots, Ota!worker, Ota!ui
<1> HIDE DEF LinkNext, RunStore, RunWifi, RunOta, parts
<1> QED
  BY <1>1, <1>2, <1>3, <1>4, PTL DEF LinkSpec, Spec

(* README "the STA is disconnected during setup" (monitor_wifi.c): through *)
(* forms, failed saves, failed starts and late events of the driver, the   *)
(* portal is there completely or not at all, and the station is silent     *)
(* behind it.                                                              *)
THEOREM SetupIsSafe == LinkSpec => []SetupSafe
  BY LinkParts, WifiHolds, WifiEnough, PTL

(* Whatever is pressed, reconfigured, refused, interrupted or reset        *)
(* (monitor_ota.c): a slot always holds the newest image that passed its   *)
(* health check, and the next reset runs that one or a newer one on trial; *)
(* no older program ever runs, none is confirmed unhealthy, and a token    *)
(* goes to its own server only.                                            *)
THEOREM UpdatesAreSafe == LinkSpec => []UpdatesSafe
  BY LinkParts, OtaHolds, OtaEnough, PTL

(* What is stored, how the link is set up and what is installed, all three *)
(* while they run beside each other.                                       *)
THEOREM LinkIsSafe == LinkSpec => [](ConfigSafe /\ SetupSafe /\ UpdatesSafe)
  BY LinkParts, StoreIsSafe, SetupIsSafe, UpdatesAreSafe, PTL
=============================================================================
