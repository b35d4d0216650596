------------------------------ MODULE StatusFeed ------------------------------
(***************************************************************************)
(* The data half of main/server_monitor.c: the one ServerState both        *)
(* transports commit into, its ageing, the edge-triggered local alarms,    *)
(* the replay check of the agent's own alerts and the announcements that   *)
(* go to the event bus.  Only the server_monitor task writes this state,   *)
(* so every operation below is one step; ServerMonitor.tla composes them   *)
(* with the control loop that decides when they run.                       *)
(*                                                                         *)
(* Snapshots are abstracted to what the code compares: a stamp             *)
(* <<timestamp, seq>>, the set of channels at or above 90%, and the server *)
(* it came from.  The wall-clock window (wall-15 .. wall+30) is the        *)
(* parameter inWindow, because SNTP may step the clock between any two     *)
(* calls.                                                                  *)
(***************************************************************************)
EXTENDS Integers, FiniteSets

CONSTANTS
  Sources,       \* identities of configured servers (one per saved config)
  Stamps,        \* <<timestamp, seq>> pairs an agent may put in a message
  Channels,      \* alarm channels: cpu, ram, disk
  StaleAfter,    \* 15 s, in ticks
  OfflineAfter   \* 60 s, in ticks

\* server_state_parse rejects a zero timestamp, so <<0, 0>> is "no stamp".
ASSUME FeedAssumption ==
  /\ Stamps \subseteq (Nat \ {0}) \X Nat
  /\ "agent" \notin Channels
  /\ StaleAfter \in Nat /\ OfflineAfter \in Nat /\ StaleAfter < OfflineAfter

Modes == {"LIVE_WSS", "HTTPS_POLLING", "RECONNECTING", "CONNECTION_OFFLINE"}
Statuses == {"OFFLINE", "ONLINE", "STALE"}
NoStamp == <<0, 0>>
NoSource == 0
AllStamps == Stamps \cup {NoStamp}

Snapshots == [stamp : Stamps, hot : SUBSET Channels, src : Sources]

VARIABLES
  state,         \* s_state
  age,           \* now - s_state.last_update, saturating at OfflineAfter + 1
  alertActive,   \* s_alert_active
  alertStamp,    \* <<s_alert_timestamp, s_alert_seq>>
  wasOnline,     \* s_server_was_online
  everOnline,    \* s_ever_online
  firstSync,     \* s_first_sync
  events,        \* announcements emitted by the latest step
  alerts         \* alerts emitted by the latest step

outputs  == <<events, alerts>>
feedData == <<state, age, alertActive, alertStamp, wasOnline, everOnline, firstSync>>
feedVars == <<feedData, outputs>>

-----------------------------------------------------------------------------
(* Pure operations of server_state.c and monitor_logic.c.                  *)

\* A newer timestamp wins outright (a restarted agent starts its sequence
\* again); within one timestamp the sequence must grow.
Newer(a, b) == a[1] > b[1] \/ (a[1] = b[1] /\ a[2] > b[2])

\* Mutant: a higher sequence suffices whatever the timestamp.
AcceptsHigherSeq(fresh) ==
  ~state.has \/ fresh.stamp[1] > state.stamp[1] \/ fresh.stamp[2] > state.stamp[2]

\* server_state_commit: the guard under which a snapshot replaces the state...
Accepts(fresh) == ~state.has \/ Newer(fresh.stamp, state.stamp)

\* ... and the state it leaves behind.
Committed(fresh, mode) ==
  [has |-> TRUE, stamp |-> fresh.stamp, hot |-> fresh.hot, src |-> fresh.src,
   status |-> "ONLINE", mode |-> mode]

\* server_state_age
StatusAt(has, a) ==
  IF ~has \/ a > OfflineAfter THEN "OFFLINE"
  ELSE IF a > StaleAfter THEN "STALE" ELSE "ONLINE"

\* Mutant: no saturation.
OlderUnbounded(a, dt) == a + dt

Older(a, dt) == IF a + dt > OfflineAfter THEN OfflineAfter + 1 ELSE a + dt

Blank(mode) ==
  [has |-> FALSE, stamp |-> NoStamp, hot |-> {}, src |-> NoSource,
   status |-> "OFFLINE", mode |-> mode]

\* Mutants of monitor_alert_edges: levels for edges, and no rearming.
Levels(fresh) == fresh.hot
LatchedForever(fresh) == alertActive \cup fresh.hot

\* monitor_alert_edges: the channels that rose, and the new memory.
Edges(fresh) == fresh.hot \ alertActive
Latched(fresh) == fresh.hot

\* Mutant: STALE already counts as announced offline.
OnlineWhileFresh(status) == wasOnline /\ status = "ONLINE"

\* if(offline && s_server_was_online) s_server_was_online = false
StillOnline(status) == wasOnline /\ status # "OFFLINE"

-----------------------------------------------------------------------------
FeedInit ==
  /\ state = Blank("CONNECTION_OFFLINE")
  /\ age = 0
  /\ alertActive = {} /\ alertStamp = NoStamp
  /\ wasOnline = FALSE /\ everOnline = FALSE /\ firstSync = FALSE
  /\ events = {} /\ alerts = {}

Quiet == events' = {} /\ alerts' = {}

\* Steps that touch no feed state still clear the outputs of the last one.
FeedIdle == UNCHANGED feedData /\ Quiet

\* accept_status: window, commit, then the announcements in source order.
AcceptStatus(fresh, mode, inWindow) ==
  /\ inWindow /\ Accepts(fresh)
  /\ state' = Committed(fresh, mode)
  /\ age' = 0
  /\ events' = (IF firstSync THEN {} ELSE {"SYNC_FIRST_SUCCESS"})
               \cup (IF wasOnline THEN {}
                     ELSE IF everOnline THEN {"RECOVERED"} ELSE {"ONLINE"})
               \cup (IF mode = "HTTPS_POLLING" /\ state.mode # mode
                     THEN {"HTTPS_FALLBACK_STARTED"} ELSE {})
  /\ firstSync' = TRUE /\ wasOnline' = TRUE /\ everOnline' = TRUE
  /\ alerts' = Edges(fresh)
  /\ alertActive' = Latched(fresh)
  /\ UNCHANGED alertStamp

\* The same call turned down; the HTTP path has already moved the mode.
RejectStatus(fresh, mode, inWindow) ==
  /\ ~(inWindow /\ Accepts(fresh))
  /\ state' = IF mode = "HTTPS_POLLING" THEN [state EXCEPT !.mode = mode] ELSE state
  /\ events' = IF mode = "HTTPS_POLLING" /\ state.mode # mode
               THEN {"HTTPS_FALLBACK_STARTED"} ELSE {}
  /\ alerts' = {}
  /\ UNCHANGED <<age, alertActive, alertStamp, wasOnline, everOnline, firstSync>>

\* accept_ws on an alert, followed by the loop's set_mode(LIVE_WSS).
AcceptAlert(stamp, inWindow) ==
  /\ inWindow /\ Newer(stamp, alertStamp)
  /\ alertStamp' = stamp
  /\ state' = [state EXCEPT !.mode = "LIVE_WSS"]
  /\ alerts' = {"agent"} /\ events' = {}
  /\ UNCHANGED <<age, alertActive, wasOnline, everOnline, firstSync>>

RejectAlert(stamp, inWindow) ==
  /\ ~(inWindow /\ Newer(stamp, alertStamp))
  /\ FeedIdle

\* A changed configuration revision forgets everything the old server said.
ForgetServer ==
  /\ state' = Blank("RECONNECTING")
  /\ age' = 0
  /\ alertActive' = {} /\ alertStamp' = NoStamp /\ wasOnline' = FALSE
  /\ Quiet /\ UNCHANGED <<everOnline, firstSync>>

\* server_state_age on s_state and the OFFLINE announcement that follows it,
\* at the end of a pass; mode is what the pass leaves in connection_mode.
AgeState(mode) ==
  LET status == StatusAt(state.has, age) IN
  /\ state' = [state EXCEPT !.status = status, !.mode = mode]
  /\ events' = IF status = "OFFLINE" /\ wasOnline THEN {"OFFLINE"} ELSE {}
  /\ wasOnline' = StillOnline(status)
  /\ alerts' = {}
  /\ UNCHANGED <<age, alertActive, alertStamp, everOnline, firstSync>>

\* set_mode on its own.
SetMode(mode) ==
  /\ state' = [state EXCEPT !.mode = mode]
  /\ Quiet
  /\ UNCHANGED <<age, alertActive, alertStamp, wasOnline, everOnline, firstSync>>

\* The monotonic clock runs on.
Elapse(dt) ==
  /\ age' = Older(age, dt) /\ Quiet
  /\ UNCHANGED <<state, alertActive, alertStamp, wasOnline, everOnline, firstSync>>

\* The feed on its own: both transports deliver anything an agent could have
\* produced, in any order, repeated and late.
FeedNext ==
  \/ \E p \in Snapshots, w \in BOOLEAN, m \in {"LIVE_WSS", "HTTPS_POLLING"} :
       AcceptStatus(p, m, w) \/ RejectStatus(p, m, w)
  \/ \E s \in Stamps, w \in BOOLEAN : AcceptAlert(s, w) \/ RejectAlert(s, w)
  \/ ForgetServer
  \/ \E m \in {state.mode, "CONNECTION_OFFLINE"} : AgeState(m)
  \/ SetMode("RECONNECTING")
  \/ \E dt \in {0, 1} : Elapse(dt)
  \/ FeedIdle

FeedSpec == FeedInit /\ [][FeedNext]_feedVars

-----------------------------------------------------------------------------
\* Every variable has its type.
FeedTypeOK ==
  /\ state \in [has : BOOLEAN, stamp : AllStamps, hot : SUBSET Channels,
                src : Sources \cup {NoSource}, status : Statuses, mode : Modes]
  /\ age \in 0 .. OfflineAfter + 1
  /\ alertActive \in SUBSET Channels
  /\ alertStamp \in AllStamps
  /\ wasOnline \in BOOLEAN /\ everOnline \in BOOLEAN /\ firstSync \in BOOLEAN
  /\ events \in SUBSET {"SYNC_FIRST_SUCCESS", "ONLINE", "RECOVERED", "OFFLINE",
                        "HTTPS_FALLBACK_STARTED"}
  /\ alerts \in SUBSET (Channels \cup {"agent"})

\* The edge detector's memory (s_alert_active) is exactly the hot set of the
\* snapshot on display: through rejected packets, ageing and a change of
\* server.  If it ever drifted, a channel would alarm twice or not at all.
AlarmsTrackSnapshot == alertActive = state.hot

\* What was last announced (s_server_was_online) agrees with the stored
\* status, so RECOVERED and OFFLINE alternate and a change of server cannot
\* swallow the first announcement of the new one.
AnnouncedMatchesStatus == wasOnline <=> (state.status # "OFFLINE")

\* A committed snapshot is never replaced by one that is not newer, whichever
\* transport delivers it and however often the agent's old messages return;
\* only a change of configuration clears it.
SnapshotsAdvance ==
  [][(state'.stamp # state.stamp) =>
        (Newer(state'.stamp, state.stamp) \/ ~state'.has)]_feedVars

\* A local alarm is raised only by a snapshot that crosses the threshold
\* upwards with respect to the one on display, and an agent alert is passed
\* on at most once per server even when it is delivered again.
AlertsAreEdges ==
  [][/\ \A c \in alerts' \cap Channels : c \notin state.hot /\ c \in state'.hot
     /\ "agent" \in alerts' => Newer(alertStamp', alertStamp)]_feedVars

(* The feed's bookkeeping as a whole: the types, and the memory of alarms  *)
(* and of announcements in step with what is on display.                   *)
FeedAgreement == FeedTypeOK /\ AlarmsTrackSnapshot /\ AnnouncedMatchesStatus
=============================================================================
