---------------------------- MODULE ServerMonitor ----------------------------
(***************************************************************************)
(* The control half of main/server_monitor.c and everything it runs        *)
(* against: the server_monitor task (priority 3) with its WSS client, its  *)
(* HTTPS poll and its pause point; the WebSocket client's own task, whose  *)
(* callbacks fill the message queue and the atomics; the Wi-Fi worker and  *)
(* setup portal (priority 4), which take the network away and publish new  *)
(* configurations; and the OTA worker (priority 2), which pauses the       *)
(* monitor before it opens a TLS session of its own.                       *)
(*                                                                         *)
(* The task is written as a program counter over the steps of its loop.    *)
(* Other tasks may run between any two of them, except where the           *)
(* single-core, fixed-priority scheduler of the ESP32-C3 forbids it: the   *)
(* OTA worker gets the CPU only while the monitor is blocked.              *)
(*                                                                         *)
(* Time.  Only the three blocking calls take time (0 or 1 tick each).      *)
(* The loop reads the clock once per pass into `now`; retry, poll and      *)
(* silent are kept relative to that `now`, and lag is how far the real     *)
(* clock has moved past it since.                                          *)
(***************************************************************************)
EXTENDS StatusFeed, Sequences

CONSTANTS
  QueueDepth,       \* xQueueCreate(6, ...) of s_messages
  ConfigQueue,      \* xQueueCreate(2, ...) of the Wi-Fi worker's commands
  PollThreshold,    \* failures that enable the HTTPS fallback (3)
  FailCap,          \* failures stops counting here (10)
  BackoffTicks,     \* [0 .. FailCap -> Nat], the reconnect delay by failures
  PollTicks,        \* 10 s
  SaverPollTicks,   \* 60 s
  ZombieTicks,      \* 30 s
  MaxRevisions,     \* bound: configurations published in one behaviour
  SaverInputs,      \* values ambient && power_mode==2 may have
  OtaUsed,          \* whether the OTA worker is asked to run
  RefreshUsed       \* whether the refresh key is pressed

ASSUME MonitorAssumption ==
  /\ QueueDepth \in Nat \ {0} /\ ConfigQueue \in Nat \ {0}
  /\ PollThreshold \in Nat /\ FailCap \in Nat /\ PollThreshold <= FailCap
  /\ BackoffTicks \in [0 .. FailCap -> Nat]
  /\ PollTicks \in Nat \ {0} /\ SaverPollTicks \in Nat \ {0}
  /\ ZombieTicks \in Nat \ {0} /\ MaxRevisions \in Nat \ {0}
  /\ SaverInputs \subseteq BOOLEAN /\ OtaUsed \in BOOLEAN /\ RefreshUsed \in BOOLEAN
  /\ Sources \subseteq Nat \ {0}

Packets == [kind : {"status", "alert"}, stamp : Stamps, hot : SUBSET Channels, src : Sources]

Snapshot(p) == [stamp |-> p.stamp, hot |-> p.hot, src |-> p.src]

VARIABLES
  pc,          \* the next step of server_monitor_task
  then,        \* where a join of the WSS task returns to
  manual,      \* a refresh notification was taken this pass
  notified,    \* the task's pending notification
  config,      \* the task's copy of the configuration (its server; 0: invalid)
  revision,    \* the task's revision; 0 stands for UINT32_MAX
  ready,       \* result of monitor_wifi_config
  saver,       \* ambient screen with Battery Saver
  failures,    \* consecutive failed WSS sessions
  retry,       \* max(0, retry - now)
  poll,        \* max(0, poll - now)
  silent,      \* now - (last_valid ? last_valid : started) of the session
  lag          \* real time - now

inputs == <<manual, config, revision, ready, saver>>
timers == <<failures, retry, poll>>
loopVars == <<pc, then, inputs, timers, silent, lag>>

VARIABLES
  ws,          \* the WSS client: none, connecting, up, down (its task ended)
  wsSrc,       \* the server whose URL and token the client was built with
  wsConnected, \* s_ws_connected
  wsFailed,    \* s_ws_failed
  rxActive,    \* s_rx holds part of a message
  queue,       \* s_messages
  dropped      \* history: a protocol message of this session was lost

wsVars == <<ws, wsSrc, wsConnected, wsFailed, rxActive, queue, dropped>>

VARIABLES
  stored,      \* the committed configuration (its server; 0: not configured)
  viewRev,     \* s_view.revision
  wifi,        \* Wi-Fi worker: sta, portal, saved, published
  connected,   \* s_view.connected
  configs,     \* servers named by queued configure commands
  clock        \* SNTP has set the wall clock

wifiVars == <<stored, viewRev, wifi, connected, configs, clock>>

VARIABLES
  paused,      \* s_paused
  quiescent,   \* s_quiescent
  ota          \* OTA worker: idle, waiting, tls, restarting

otaVars == <<paused, quiescent, ota>>

envVars == <<notified, wifiVars, otaVars>>
vars == <<feedVars, loopVars, wsVars, envVars>>

-----------------------------------------------------------------------------
Steps == {"wait", "revision", "reload", "gate", "idle", "go", "check", "failed",
          "open", "drain", "poll", "fetching", "fetched", "age", "joining"}
\* The calls in which server_monitor_task gives up the CPU.
Blocked == {"wait", "joining", "fetching"}
\* Steps before the pass has cleared s_quiescent.
BeforeGo == {"wait", "revision", "reload", "gate", "idle", "go"}

Monus(a, b) == IF a > b THEN a - b ELSE 0
ShouldPoll == saver \/ failures >= PollThreshold
PollDue == poll = 0 \/ manual

\* Mutants of the failure count.
FailuresUncapped == failures + 1
FailuresForgotten == failures

MoreFailures == IF failures < FailCap THEN failures + 1 ELSE failures

Init ==
  /\ FeedInit
  /\ pc = "wait" /\ then = "wait" /\ manual = FALSE /\ notified = FALSE
  /\ config = NoSource /\ revision = 0 /\ ready = FALSE /\ saver = FALSE
  /\ failures = 0 /\ retry = 0 /\ poll = 0 /\ silent = 0 /\ lag = 0
  /\ ws = "none" /\ wsSrc = NoSource /\ wsConnected = FALSE /\ wsFailed = FALSE
  /\ rxActive = FALSE /\ queue = <<>> /\ dropped = FALSE
  /\ stored \in Sources \cup {NoSource}
  /\ viewRev = 1 /\ wifi = "sta" /\ connected = FALSE /\ configs = <<>>
  /\ clock = FALSE
  /\ paused = FALSE /\ quiescent = FALSE /\ ota = "idle"

-----------------------------------------------------------------------------
(* close_ws.  Without a client it returns at once.  With one it stops and  *)
(* joins the client's task -- which may still be delivering callbacks --   *)
(* and only then clears the shared buffer and the queue.                   *)

\* Mutant: buffer and queue survive the session.
ClearSessionOnly ==
  /\ ws' = "none" /\ wsSrc' = NoSource /\ wsConnected' = FALSE /\ dropped' = FALSE
  /\ silent' = 0 /\ UNCHANGED <<rxActive, queue>>

ClearSession ==
  /\ ws' = "none" /\ wsSrc' = NoSource /\ wsConnected' = FALSE
  /\ rxActive' = FALSE /\ queue' = <<>> /\ dropped' = FALSE
  /\ silent' = 0

CloseThen(next) ==
  IF ws = "none"
  THEN ClearSession /\ pc' = next /\ UNCHANGED <<then, wsFailed>>
  ELSE pc' = "joining" /\ then' = next /\ UNCHANGED <<wsVars, silent>>

JoinDone(dt) ==
  /\ pc = "joining"
  /\ ClearSession
  /\ pc' = then /\ then' = "wait"
  /\ lag' = lag + dt /\ Elapse(dt)
  /\ UNCHANGED <<inputs, timers, wsFailed, envVars>>

-----------------------------------------------------------------------------
(* server_monitor_task, one pass of the loop.                              *)

Goto(next) == pc' = next /\ UNCHANGED <<then, silent, wsVars>>
KeepPass == UNCHANGED <<inputs, timers, lag, envVars>>

\* ulTaskNotifyTake returns, now = millis(), and monitor_wifi_config copies
\* the configuration before it takes the Wi-Fi lock.
Wake(dt) ==
  /\ pc = "wait" /\ pc' = "revision"
  /\ manual' = notified /\ notified' = FALSE
  /\ config' = stored
  /\ retry' = Monus(retry, lag + dt) /\ poll' = Monus(poll, lag + dt)
  /\ silent' = IF ws = "none" THEN 0
               ELSE IF silent + lag + dt > ZombieTicks THEN ZombieTicks + 1
               ELSE silent + lag + dt
  /\ lag' = 0 /\ Elapse(dt)
  /\ UNCHANGED <<then, revision, ready, saver, failures, wsVars, wifiVars, otaVars>>

\* Mutant: a valid configuration is enough.
ReadyIfValid == config # NoSource

Ready == connected /\ wifi = "sta" /\ config # NoSource

\* The locked half of monitor_wifi_config, and the revision test.
ReadRevision ==
  /\ pc = "revision"
  /\ ready' = Ready
  /\ revision' = viewRev
  /\ IF viewRev # revision THEN CloseThen("reload") ELSE Goto("gate")
  /\ FeedIdle
  /\ UNCHANGED <<manual, config, saver, timers, lag, envVars>>

\* A new configuration: start again from nothing.
Reload ==
  /\ pc = "reload" /\ Goto("gate")
  /\ failures' = 0 /\ retry' = 0 /\ poll' = 0
  /\ ForgetServer
  /\ UNCHANGED <<inputs, lag, envVars>>

\* Mutant: the pause flag is not read.
MustIdleUnpaused == ~ready \/ ~clock

MustIdle == ~ready \/ ~clock \/ paused

\* if(!ready || time < 2024 || paused) close_ws(...) else go on.
Gate ==
  /\ pc = "gate"
  /\ IF MustIdle THEN CloseThen("idle") ELSE Goto("go")
  /\ FeedIdle /\ KeepPass

\* The pass that may not use the network.
Idle ==
  /\ pc = "idle" /\ Goto("wait")
  /\ quiescent' = TRUE
  /\ AgeState("CONNECTION_OFFLINE")
  /\ UNCHANGED <<inputs, timers, lag, notified, wifiVars, paused, ota>>

\* Mutant: the promise of the last idle pass is left standing.
StaysQuiescent == UNCHANGED quiescent

EndsQuiescence == quiescent' = FALSE

\* quiescent = false; Battery Saver closes WSS while the screen is ambient.
Go ==
  /\ pc = "go"
  /\ EndsQuiescence
  /\ saver' \in SaverInputs
  /\ IF saver' THEN CloseThen("check") ELSE Goto("check")
  /\ FeedIdle
  /\ UNCHANGED <<manual, config, revision, ready, timers, lag, notified, wifiVars, paused, ota>>

\* Mutant: pongs keep a session alive.
NeverZombie == FALSE

Zombie == silent > ZombieTicks

\* A failed or silent session is closed ...
Check ==
  /\ pc = "check"
  /\ IF ws # "none" /\ (wsFailed \/ Zombie)
     THEN CloseThen("failed") ELSE Goto("open")
  /\ FeedIdle /\ KeepPass

\* ... and the next attempt scheduled.
BackOff == retry' = BackoffTicks[failures] /\ failures' = MoreFailures /\ UNCHANGED poll

Failed ==
  /\ pc = "failed" /\ Goto("open")
  /\ BackOff /\ SetMode("RECONNECTING")
  /\ UNCHANGED <<inputs, lag, envVars>>

\* Mutant: WSS is given up once the fallback is on.
WantsSessionUnlessPolling == ws = "none" /\ ~saver /\ retry = 0 /\ ~ShouldPoll

WantsSession ==
  ws = "none" /\ ~saver /\ retry = 0 /\ ~(ShouldPoll /\ PollDue)

\* The client is built from this pass's configuration; its failure flag is
\* cleared before its task exists.
OpenStarts ==
  /\ pc = "open" /\ WantsSession /\ pc' = "drain"
  /\ wsFailed' = FALSE /\ ws' = "connecting" /\ wsSrc' = config /\ silent' = 0
  /\ UNCHANGED <<then, wsConnected, rxActive, queue, dropped>>
  /\ FeedIdle /\ KeepPass

\* Out of memory: no task was started, so there is nothing to join.
OpenFails ==
  /\ pc = "open" /\ WantsSession /\ pc' = "drain"
  /\ wsFailed' = FALSE /\ ClearSession /\ BackOff
  /\ FeedIdle
  /\ UNCHANGED <<then, inputs, lag, envVars>>

NoOpen == pc = "open" /\ ~WantsSession /\ Goto("drain") /\ FeedIdle /\ KeepPass

\* Mutant: an alert also refreshes the age of the status snapshot.
AcceptPacketRefreshing(p, w) ==
  \/ p.kind = "status" /\ AcceptStatus(Snapshot(p), "LIVE_WSS", w)
  \/ /\ p.kind = "alert" /\ w /\ Newer(p.stamp, alertStamp)
     /\ alertStamp' = p.stamp /\ state' = [state EXCEPT !.mode = "LIVE_WSS"] /\ age' = 0
     /\ alerts' = {"agent"} /\ events' = {}
     /\ UNCHANGED <<alertActive, wasOnline, everOnline, firstSync>>

\* One queued message; an accepted one is proof of life.
AcceptPacket(p, w) ==
  \/ p.kind = "status" /\ AcceptStatus(Snapshot(p), "LIVE_WSS", w)
  \/ p.kind = "alert" /\ AcceptAlert(p.stamp, w)

RejectPacket(p, w) ==
  \/ p.kind = "status" /\ RejectStatus(Snapshot(p), "LIVE_WSS", w)
  \/ p.kind = "alert" /\ RejectAlert(p.stamp, w)

DrainAccept(w) ==
  /\ pc = "drain" /\ queue # <<>>
  /\ AcceptPacket(Head(queue), w)
  /\ queue' = Tail(queue)
  /\ silent' = 0 - lag /\ failures' = 0
  /\ UNCHANGED <<pc, then, inputs, retry, poll, lag,
                 ws, wsSrc, wsConnected, wsFailed, rxActive, dropped, envVars>>

\* Mutant: any message is proof of life.
DrainRejectAsLife(w) ==
  /\ pc = "drain" /\ queue # <<>>
  /\ RejectPacket(Head(queue), w)
  /\ queue' = Tail(queue) /\ silent' = 0 - lag
  /\ UNCHANGED <<pc, then, inputs, timers, lag,
                 ws, wsSrc, wsConnected, wsFailed, rxActive, dropped, envVars>>

DrainReject(w) ==
  /\ pc = "drain" /\ queue # <<>>
  /\ RejectPacket(Head(queue), w)
  /\ queue' = Tail(queue)
  /\ UNCHANGED <<loopVars, ws, wsSrc, wsConnected, wsFailed, rxActive, dropped, envVars>>

Drained == pc = "drain" /\ queue = <<>> /\ Goto("poll") /\ FeedIdle /\ KeepPass

\* Mutant: the poll does not wait for the WSS client to be gone.
WantsPollBlindly == ShouldPoll /\ PollDue

WantsPoll == ws = "none" /\ ShouldPoll /\ PollDue

\* Start of the HTTPS poll, or not.
Poll ==
  /\ pc = "poll"
  /\ Goto(IF WantsPoll THEN "fetching" ELSE "age")
  /\ FeedIdle /\ KeepPass

\* fetch() returns: the blocking part of the poll, bounded by its deadline.
FetchReturns(dt) ==
  /\ pc = "fetching" /\ Goto("fetched")
  /\ lag' = lag + dt /\ Elapse(dt)
  /\ UNCHANGED <<inputs, timers, envVars>>

\* poll = millis() + 60 s or 10 s, counted from this pass's now.
ScheduleNextPoll ==
  /\ pc = "fetched" /\ Goto("age")
  /\ poll' = lag + (IF saver THEN SaverPollTicks ELSE PollTicks)
  /\ UNCHANGED <<inputs, failures, retry, lag, envVars>>

\* A parsed answer of the configured server.  The mode changes even when the
\* commit turns the snapshot down.
FetchOk(p, w) ==
  /\ ScheduleNextPoll
  /\ p.src = config
  /\ AcceptStatus(p, "HTTPS_POLLING", w) \/ RejectStatus(p, "HTTPS_POLLING", w)

FetchFails == ScheduleNextPoll /\ FeedIdle

\* End of the pass.
Age == pc = "age" /\ Goto("wait") /\ AgeState(state.mode) /\ KeepPass

MonitorStep ==
  \/ \E dt \in {0, 1} : Wake(dt) \/ JoinDone(dt) \/ FetchReturns(dt)
  \/ ReadRevision \/ Reload \/ Gate \/ Idle \/ Go \/ Check \/ Failed
  \/ OpenStarts \/ OpenFails \/ NoOpen
  \/ \E w \in BOOLEAN : DrainAccept(w) \/ DrainReject(w)
  \/ Drained \/ Poll
  \/ \E p \in Snapshots, w \in BOOLEAN : FetchOk(p, w)
  \/ FetchFails \/ Age

-----------------------------------------------------------------------------
(* websocket_event, on the client's own task.  Callbacks come until the    *)
(* join returns, so also while the monitor is inside close_ws.             *)

CbUnchanged == FeedIdle /\ UNCHANGED <<loopVars, envVars>>

CbConnected ==
  /\ ws = "connecting"
  /\ ws' = "up" /\ wsConnected' = TRUE
  /\ CbUnchanged /\ UNCHANGED <<wsSrc, wsFailed, rxActive, queue, dropped>>

\* DISCONNECTED, CLOSED or ERROR; automatic reconnection is off, so the
\* client's task ends.
CbDown ==
  /\ ws \in {"connecting", "up"}
  /\ ws' = "down" /\ wsConnected' = FALSE /\ wsFailed' = TRUE
  /\ CbUnchanged /\ UNCHANGED <<wsSrc, rxActive, queue, dropped>>

\* monitor_ws_chunk returned 0: part of a message.
CbFragment ==
  /\ ws = "up" /\ rxActive' = TRUE
  /\ CbUnchanged /\ UNCHANGED <<ws, wsSrc, wsConnected, wsFailed, queue, dropped>>

\* monitor_ws_chunk returned -1.
CbRejected ==
  /\ ws = "up" /\ rxActive' = FALSE /\ wsFailed' = TRUE
  /\ CbUnchanged /\ UNCHANGED <<ws, wsSrc, wsConnected, queue, dropped>>

\* A complete text that is neither a status nor an alert.
CbIgnored ==
  /\ ws = "up" /\ rxActive' = FALSE
  /\ CbUnchanged /\ UNCHANGED <<ws, wsSrc, wsConnected, wsFailed, queue, dropped>>

\* Mutant: a full queue is no failure.
LoseMessage == dropped' = TRUE /\ UNCHANGED <<wsFailed, queue>>

\* xQueueSend without waiting found the queue full.
QueueFull == wsFailed' = TRUE /\ dropped' = TRUE /\ UNCHANGED queue

CbMessage(p) ==
  /\ ws = "up" /\ p.src = wsSrc /\ (p.kind = "alert" => p.hot = {})
  /\ rxActive' = FALSE
  /\ IF Len(queue) < QueueDepth
     THEN queue' = Append(queue, p) /\ UNCHANGED <<wsFailed, dropped>>
     ELSE QueueFull
  /\ CbUnchanged /\ UNCHANGED <<ws, wsSrc, wsConnected>>

WsStep ==
  \/ CbConnected \/ CbDown \/ CbFragment \/ CbRejected \/ CbIgnored
  \/ \E p \in Packets : CbMessage(p)

-----------------------------------------------------------------------------
(* monitor_wifi.c as the monitor sees it.                                  *)

WifiUnchanged == FeedIdle /\ UNCHANGED <<loopVars, wsVars, notified, otaVars>>

\* portal_start: the station is taken down before the form can be posted.
PortalOpens ==
  /\ wifi = "sta" /\ wifi' = "portal" /\ connected' = FALSE
  /\ WifiUnchanged /\ UNCHANGED <<stored, viewRev, configs, clock>>

\* portal_config queues a validated form (xQueueSend without waiting); the
\* web server runs until portal_stop has joined it.
FormPosted(s) ==
  /\ wifi # "sta" /\ Len(configs) < ConfigQueue
  /\ viewRev + Len(configs) + (IF wifi = "saved" THEN 1 ELSE 0) < MaxRevisions
  /\ configs' = Append(configs, s)
  /\ WifiUnchanged /\ UNCHANGED <<stored, viewRev, wifi, connected, clock>>

\* WIFI_CMD_CONFIG in three steps: save the blob, bump the revision, close
\* the portal.  A failed save keeps everything.
SaveConfig ==
  /\ wifi \in {"sta", "portal"} /\ configs # <<>>
  /\ stored' = Head(configs) /\ configs' = Tail(configs) /\ wifi' = "saved"
  /\ WifiUnchanged /\ UNCHANGED <<viewRev, connected, clock>>

SaveFails ==
  /\ wifi \in {"sta", "portal"} /\ configs # <<>>
  /\ configs' = Tail(configs)
  /\ WifiUnchanged /\ UNCHANGED <<stored, viewRev, wifi, connected, clock>>

PublishConfig ==
  /\ wifi = "saved" /\ wifi' = "published" /\ viewRev' = viewRev + 1
  /\ WifiUnchanged /\ UNCHANGED <<stored, connected, configs, clock>>

\* portal_stop, after a save, at expiry or for a reconnect command.
PortalCloses ==
  /\ wifi \in {"portal", "published"} /\ wifi' = "sta"
  /\ WifiUnchanged /\ UNCHANGED <<stored, viewRev, connected, configs, clock>>

\* Association and DHCP take far longer than the saves still queued and than
\* any stretch in which the monitor does not block: the worker notes an
\* address only after its command queue is empty, and never between two
\* steps of the monitor that follow each other without blocking.
LinkUp ==
  /\ wifi = "sta" /\ configs = <<>> /\ ~connected /\ stored # NoSource
  /\ pc \in Blocked
  /\ connected' = TRUE
  /\ WifiUnchanged /\ UNCHANGED <<stored, viewRev, wifi, configs, clock>>

LinkDown ==
  /\ wifi = "sta" /\ connected /\ connected' = FALSE
  /\ WifiUnchanged /\ UNCHANGED <<stored, viewRev, wifi, configs, clock>>

ClockSet ==
  /\ connected /\ ~clock /\ clock' = TRUE
  /\ WifiUnchanged /\ UNCHANGED <<stored, viewRev, wifi, connected, configs>>

WifiStep ==
  \/ PortalOpens \/ (\E s \in Sources : FormPosted(s))
  \/ SaveConfig \/ SaveFails \/ PublishConfig \/ PortalCloses
  \/ LinkUp \/ LinkDown \/ ClockSet

-----------------------------------------------------------------------------
(* monitor_ota.c's worker and the refresh command.                         *)

\* Mutant: two cores, or a higher priority.
OtaAnytime == TRUE

\* Priority 2 on one core: the worker runs only while the monitor is blocked.
OtaMayRun == pc \in Blocked

OtaUnchanged == FeedIdle /\ UNCHANGED <<loopVars, wsVars, notified, wifiVars>>

OtaPauses ==
  /\ OtaMayRun /\ OtaUsed /\ ota = "idle" /\ stored # NoSource
  /\ paused' = TRUE /\ ota' = "waiting"
  /\ OtaUnchanged /\ UNCHANGED quiescent

OtaConnects ==
  /\ OtaMayRun /\ ota = "waiting" /\ quiescent
  /\ ota' = "tls"
  /\ OtaUnchanged /\ UNCHANGED <<paused, quiescent>>

\* Fifteen seconds passed without quiescence.
OtaGivesUp ==
  /\ OtaMayRun /\ ota = "waiting" /\ ~quiescent
  /\ ota' = "idle" /\ paused' = FALSE
  /\ OtaUnchanged /\ UNCHANGED quiescent

\* The manifest was checked, or the transfer failed.
OtaReleases ==
  /\ OtaMayRun /\ ota = "tls"
  /\ ota' = "idle" /\ paused' = FALSE
  /\ OtaUnchanged /\ UNCHANGED quiescent

\* A verified image was selected: the connection is closed and esp_restart
\* follows; what happens next is a new behaviour from Init.
OtaInstalls ==
  /\ OtaMayRun /\ ota = "tls" /\ ota' = "restarting"
  /\ OtaUnchanged /\ UNCHANGED <<paused, quiescent>>

OtaStep == OtaPauses \/ OtaConnects \/ OtaGivesUp \/ OtaReleases \/ OtaInstalls

\* server_monitor_refresh: the OK key, by way of the event bus.
Refresh ==
  /\ RefreshUsed /\ ~notified /\ notified' = TRUE
  /\ FeedIdle /\ UNCHANGED <<loopVars, wsVars, wifiVars, otaVars>>

-----------------------------------------------------------------------------
Next == MonitorStep \/ WsStep \/ WifiStep \/ OtaStep \/ Refresh

Spec == Init /\ [][Next]_vars

\* The task is always runnable again after a bounded wait, and time goes on.
\* Nothing says that the drain of the queue ever ends.
Fairness ==
  /\ WF_vars(MonitorStep)
  /\ SF_vars(Wake(1))

LiveSpec == Spec /\ Fairness

-----------------------------------------------------------------------------
LoopTypeOK ==
  /\ pc \in Steps /\ then \in {"wait", "reload", "idle", "check", "failed"}
  /\ manual \in BOOLEAN /\ notified \in BOOLEAN
  /\ config \in Sources \cup {NoSource} /\ revision \in Nat
  /\ ready \in BOOLEAN /\ saver \in BOOLEAN
  /\ failures \in 0 .. FailCap /\ retry \in Nat /\ poll \in Nat
  /\ silent \in Int /\ lag \in Nat

WsTypeOK ==
  /\ ws \in {"none", "connecting", "up", "down"}
  /\ wsSrc \in Sources \cup {NoSource}
  /\ wsConnected \in BOOLEAN /\ wsFailed \in BOOLEAN
  /\ rxActive \in BOOLEAN /\ dropped \in BOOLEAN
  /\ queue \in Seq(Packets) /\ Len(queue) <= QueueDepth

EnvTypeOK ==
  /\ stored \in Sources \cup {NoSource} /\ viewRev \in Nat \ {0}
  /\ wifi \in {"sta", "portal", "saved", "published"}
  /\ connected \in BOOLEAN /\ clock \in BOOLEAN
  /\ configs \in Seq(Sources) /\ Len(configs) <= ConfigQueue
  /\ paused \in BOOLEAN /\ quiescent \in BOOLEAN
  /\ ota \in {"idle", "waiting", "tls", "restarting"}

\* Every variable has its type; the two queues stay within their depth.
TypeOK == FeedTypeOK /\ LoopTypeOK /\ WsTypeOK /\ EnvTypeOK

\* One TLS session at a time, and with it one user of the shared receive
\* buffer: no HTTPS poll while a WSS client exists (joined or not), and
\* neither of them while the OTA worker holds its connection.
OneTransport ==
  /\ pc = "fetching" => ws = "none"
  /\ ota = "tls" => ws = "none" /\ pc # "fetching"

\* s_quiescent is a promise that outlives the pass that made it: while it
\* stands there is no client and the task is at a point from which it reads
\* s_paused again before it opens anything.
QuiescentIsIdle == quiescent => ws = "none" /\ pc \in BeforeGo

\* The same as a refinement: read off the owner of the one TLS session and
\* every step of the firmware is a step of OneTls -- the session never passes
\* from one user to another without being closed in between.
TlsOwner ==
  IF ota = "tls" THEN "ota"
  ELSE IF pc = "fetching" THEN "http"
  ELSE IF ws # "none" THEN "wss" ELSE "none"

Tls == INSTANCE OneTls WITH owner <- TlsOwner

TurnsAtTls == Tls!Spec

\* A new client starts from an empty queue, an empty reassembly buffer and no
\* stale connected flag, however the session before it was cut off.
FreshSession ==
  ws \in {"none", "connecting"} => queue = <<>> /\ ~rxActive /\ ~wsConnected

\* A session that ended or lost a protocol message carries the failure flag
\* until it is closed: the loop cannot overlook it and go on as if LIVE.
LossForcesResync == (ws = "down" \/ dropped) => wsFailed

\* The passes that use the network.
Active ==
  \/ pc \in {"go", "check", "failed", "open", "drain", "poll", "fetching", "fetched", "age"}
  \/ pc = "joining" /\ then \in {"check", "failed"}

\* In a pass that uses the network everything on display, in the queue and on
\* the wire comes from the server of the configuration this pass read: a
\* reconfiguration at any moment never mixes two servers.
OneServer ==
  Active => /\ state.has => state.src = config
            /\ ws # "none" => wsSrc = config
            /\ \A i \in DOMAIN queue : queue[i].src = config

\* Only committed data postpones the thirty-second zombie deadline: replayed
\* or stale messages, fragments and connection events do not.
OnlyDataKeepsAlive ==
  [][(ws # "none" /\ ws' # "none" /\ silent' < silent) =>
        (state'.stamp # state.stamp \/ alertStamp' # alertStamp)]_vars

\* A pass ends with WSS LIVE on display only if there is a WSS client.
LiveMeansSession == (pc = "wait" /\ state.mode = "LIVE_WSS") => ws # "none"

\* Everything the monitor needs before it may use the network, with the
\* screen on.
Online ==
  connected /\ wifi = "sta" /\ clock /\ stored # NoSource /\ ~paused /\ ~saver

\* The one way the loop can get stuck: from some moment on it does not leave
\* the drain of a single pass, because the WebSocket task puts another message
\* into the queue again and again.  No line of the loop bounds it.
Refill == pc = "drain" /\ Len(queue') > Len(queue)
DrainedForEver == <>[](pc = "drain") /\ []<><<Refill>>_vars

\* A pause request leads to quiescence, unless the OTA worker gives up first;
\* nothing but a drain that is refilled for ever keeps the loop from it.
PauseQuiesces == DrainedForEver \/ (paused ~> (quiescent \/ ~paused))

\* An agent that stops producing new data never keeps a session for good: the
\* client is closed again and again, by its failure flag or as a zombie,
\* unless its old data come in faster for ever than the loop can refuse them.
SessionsEnd == DrainedForEver \/ []<>(ws = "none")

\* While the network is usable WSS recovery goes on for ever, also during the
\* HTTPS fallback, unless someone keeps pressing refresh.
RecoveryContinues ==
  <>[](Online /\ ~notified) => []<><<OpenStarts \/ OpenFails>>_vars

\* While the network is usable and WSS brings nothing new, the HTTPS fallback
\* polls again and again.
FallbackPolls == <>[]Online => []<>(pc = "fetching")

(* A session starts from clean shared state and cannot lose anything       *)
(* without the loop being told.                                            *)
SessionsWhole == TypeOK /\ FreshSession /\ LossForcesResync

(* The pause handshake as a whole: one user of TLS and of the receive      *)
(* buffer, and a promise of quiescence that is kept.                       *)
TlsExclusive == OneTransport /\ QuiescentIsIdle
=============================================================================
