-------------------------- MODULE ServerMonitorProofs --------------------------
(***************************************************************************)
(* Theorems about ServerMonitor.tla, for every queue depth, threshold,     *)
(* back-off table and number of reconfigurations.                          *)
(***************************************************************************)
EXTENDS ServerMonitor, StatusFeedProofs

(* What the loop takes from the message queue is a message.                *)
LEMMA SnapshotTyped ==
  ASSUME NEW p \in Packets
  PROVE  Snapshot(p) \in Snapshots
  BY DEF Packets, Snapshot, Snapshots

(* An empty queue is a queue of anything.                                  *)
LEMMA EmptyTyped ==
  ASSUME NEW S
  PROVE  <<>> \in Seq(S) /\ Len(<<>>) = 0
  OBVIOUS

(* Taking the head off a non-empty queue.                                  *)
LEMMA RestTyped ==
  ASSUME NEW S, NEW q \in Seq(S), q # <<>>
  PROVE  Head(q) \in S /\ Tail(q) \in Seq(S) /\ Len(Tail(q)) = Len(q) - 1 /\ Len(q) \in Nat
  OBVIOUS

(* The same for s_messages: xQueueReceive yields a message and makes room. *)
LEMMA HeadTyped ==
  ASSUME WsTypeOK, queue # <<>>
  PROVE  Head(queue) \in Packets /\ Tail(queue) \in Seq(Packets) /\ Len(Tail(queue)) <= QueueDepth
  BY MonitorAssumption DEF WsTypeOK

-----------------------------------------------------------------------------
(* Every step of the control loop, of a callback, of the Wi-Fi and of the  *)
(* OTA worker is a step of the feed or leaves it alone.                    *)
LEMMA FeedStep == TypeOK /\ [Next]_vars => [FeedNext]_feedVars
<1> SUFFICES ASSUME TypeOK, [Next]_vars PROVE [FeedNext]_feedVars
  OBVIOUS
<1>0. FeedIdle => FeedNext
  BY DEF FeedNext
<1>1. ASSUME NEW dt \in {0, 1}, Wake(dt) \/ JoinDone(dt) \/ FetchReturns(dt)
      PROVE  FeedNext
  BY <1>1 DEF Wake, JoinDone, FetchReturns, FeedNext
<1>2. CASE Reload
  BY <1>2 DEF Reload, FeedNext
<1>3. CASE Idle \/ Age
  BY <1>3 DEF Idle, Age, FeedNext
<1>4. CASE Failed
  BY <1>4 DEF Failed, FeedNext
<1>5. ASSUME NEW w \in BOOLEAN, DrainAccept(w) \/ DrainReject(w)
      PROVE  FeedNext
  <2> DEFINE p == Head(queue)
  <2>1. p \in Packets
    BY <1>5, HeadTyped DEF DrainAccept, DrainReject, TypeOK
  <2>2. Snapshot(p) \in Snapshots /\ p.stamp \in Stamps
    BY <2>1, SnapshotTyped DEF Packets
  <2>3. \/ AcceptStatus(Snapshot(p), "LIVE_WSS", w) \/ AcceptAlert(p.stamp, w)
        \/ RejectStatus(Snapshot(p), "LIVE_WSS", w) \/ RejectAlert(p.stamp, w)
    BY <1>5 DEF DrainAccept, DrainReject, AcceptPacket, RejectPacket
  <2> HIDE DEF p
  <2> QED
    BY <2>2, <2>3 DEF FeedNext
<1>6. ASSUME NEW p \in Snapshots, NEW w \in BOOLEAN, FetchOk(p, w)
      PROVE  FeedNext
  BY <1>6 DEF FetchOk, FeedNext
<1>7. CASE \/ ReadRevision \/ Gate \/ Go \/ Check \/ OpenStarts \/ OpenFails \/ NoOpen
           \/ Drained \/ Poll \/ FetchFails
  BY <1>0, <1>7 DEF ReadRevision, Gate, Go, Check, OpenStarts, OpenFails, NoOpen, Drained,
                    Poll, FetchFails
<1>8. CASE WsStep
  <2>1. ASSUME NEW p, CbMessage(p) PROVE FeedIdle
    BY <2>1 DEF CbMessage, CbUnchanged
  <2> QED
    BY <1>0, <1>8, <2>1 DEF WsStep, CbConnected, CbDown, CbFragment, CbRejected, CbIgnored,
                            CbUnchanged
<1>9. CASE WifiStep
  <2>1. ASSUME NEW s, FormPosted(s) PROVE FeedIdle
    BY <2>1 DEF FormPosted, WifiUnchanged
  <2> QED
    BY <1>0, <1>9, <2>1 DEF WifiStep, PortalOpens, SaveConfig, SaveFails, PublishConfig,
                            PortalCloses, LinkUp, LinkDown, ClockSet, WifiUnchanged
<1>10. CASE OtaStep \/ Refresh
  BY <1>0, <1>10 DEF OtaStep, OtaPauses, OtaConnects, OtaGivesUp, OtaReleases, OtaInstalls,
                     OtaUnchanged, Refresh
<1>11. CASE UNCHANGED vars
  BY <1>11 DEF vars
<1> QED
  BY <1>1, <1>2, <1>3, <1>4, <1>5, <1>6, <1>7, <1>8, <1>9, <1>10, <1>11 DEF Next, MonitorStep

-----------------------------------------------------------------------------
(* Types of the task's own variables.                                      *)
LEMMA LoopTypeStep == TypeOK /\ [Next]_vars => LoopTypeOK'
<1> SUFFICES ASSUME TypeOK, [Next]_vars PROVE LoopTypeOK'
  OBVIOUS
<1>0. LoopTypeOK
  BY DEF TypeOK
<1> USE MonitorAssumption DEF LoopTypeOK, Steps
<1> DEFINE JoinTargets == {"wait", "reload", "idle", "check", "failed"}
<1>a. ASSUME NEW next \in JoinTargets, CloseThen(next)
      PROVE  pc' \in Steps /\ then' \in JoinTargets /\ silent' \in Int
  BY <1>0, <1>a DEF CloseThen, ClearSession
<1>b. ASSUME NEW next \in Steps, Goto(next)
      PROVE  pc' \in Steps /\ UNCHANGED <<then, silent>>
  BY <1>b DEF Goto
<1>c. KeepPass => UNCHANGED <<manual, config, revision, ready, saver, failures, retry, poll, lag, notified>>
  BY DEF KeepPass, inputs, timers, envVars
<1>d. BackOff => failures' \in 0 .. FailCap /\ retry' \in Nat /\ UNCHANGED poll
  BY <1>0 DEF BackOff, MoreFailures
<1>1. ASSUME NEW dt \in {0, 1}, Wake(dt) PROVE LoopTypeOK'
  <2>1. /\ pc' = "revision" /\ manual' = notified /\ notified' = FALSE /\ config' = stored
        /\ UNCHANGED <<then, revision, ready, saver, failures>> /\ lag' = 0
    BY <1>1 DEF Wake
  <2>2. stored \in Sources \cup {NoSource}
    BY DEF TypeOK, EnvTypeOK
  <2>3. lag + dt \in Nat
    BY <1>0
  <2>4. retry' \in Nat /\ poll' \in Nat
    BY <1>0, <1>1, <2>3 DEF Wake, Monus
  <2>5. silent' \in Int
    BY <1>0, <1>1, <2>3 DEF Wake
  <2> QED
    BY <1>0, <2>1, <2>2, <2>4, <2>5
<1>2. ASSUME NEW dt \in {0, 1}, JoinDone(dt) PROVE LoopTypeOK'
  BY <1>0, <1>2 DEF JoinDone, ClearSession, inputs, timers, envVars
<1>3. ASSUME NEW dt \in {0, 1}, FetchReturns(dt) PROVE LoopTypeOK'
  BY <1>0, <1>3 DEF FetchReturns, Goto, inputs, timers, envVars
<1>4. CASE ReadRevision
  <2>1. UNCHANGED <<manual, config, saver, timers, lag, notified>>
    BY <1>4 DEF ReadRevision, envVars
  <2>2. pc' \in Steps /\ then' \in JoinTargets /\ silent' \in Int
    BY <1>0, <1>4, <1>a, <1>b DEF ReadRevision
  <2>3. ready' \in BOOLEAN /\ revision' \in Nat
    BY <1>4 DEF ReadRevision, Ready, TypeOK, EnvTypeOK
  <2> QED
    BY <1>0, <2>1, <2>2, <2>3 DEF timers
<1>5. CASE Reload
  BY <1>0, <1>5 DEF Reload, Goto, inputs, envVars
<1>6. CASE Gate
  <2>1. pc' \in Steps /\ then' \in JoinTargets /\ silent' \in Int
    BY <1>0, <1>6, <1>a, <1>b DEF Gate
  <2> QED
    BY <1>0, <1>6, <1>c, <2>1 DEF Gate
<1>7. CASE Idle
  BY <1>0, <1>7 DEF Idle, Goto, inputs, timers
<1>8. CASE Go
  <2>1. pc' \in Steps /\ then' \in JoinTargets /\ silent' \in Int
    BY <1>0, <1>8, <1>a, <1>b DEF Go
  <2>2. saver' \in BOOLEAN
    BY <1>8 DEF Go
  <2> QED
    BY <1>0, <1>8, <2>1, <2>2 DEF Go, timers
<1>9. CASE Check
  <2>1. pc' \in Steps /\ then' \in JoinTargets /\ silent' \in Int
    BY <1>0, <1>9, <1>a, <1>b DEF Check
  <2> QED
    BY <1>0, <1>9, <1>c, <2>1 DEF Check
<1>10. CASE Failed
  BY <1>0, <1>10, <1>d DEF Failed, Goto, inputs, envVars
<1>11. CASE OpenStarts
  BY <1>0, <1>11, <1>c DEF OpenStarts
<1>12. CASE OpenFails
  BY <1>0, <1>12, <1>d DEF OpenFails, ClearSession, inputs, envVars
<1>13. CASE NoOpen \/ Drained \/ Poll
  BY <1>0, <1>13, <1>b, <1>c DEF NoOpen, Drained, Poll
<1>14. ASSUME NEW w \in BOOLEAN, DrainAccept(w) PROVE LoopTypeOK'
  BY <1>0, <1>14 DEF DrainAccept, inputs, envVars
<1>15. ASSUME NEW w \in BOOLEAN, DrainReject(w) PROVE LoopTypeOK'
  BY <1>0, <1>15 DEF DrainReject, loopVars, inputs, timers, envVars
<1>16. CASE ScheduleNextPoll
  BY <1>0, <1>16 DEF ScheduleNextPoll, Goto, inputs, envVars
<1>17. CASE Age
  BY <1>0, <1>17, <1>b, <1>c DEF Age
<1>18. CASE WsStep
  <2>1. ASSUME NEW p, CbMessage(p) PROVE UNCHANGED <<loopVars, notified>>
    BY <2>1 DEF CbMessage, CbUnchanged, envVars
  <2>2. UNCHANGED <<loopVars, notified>>
    BY <1>18, <2>1 DEF WsStep, CbConnected, CbDown, CbFragment, CbRejected, CbIgnored,
                       CbUnchanged, envVars
  <2> QED
    BY <1>0, <2>2 DEF loopVars, inputs, timers
<1>19. CASE WifiStep
  <2>1. ASSUME NEW s, FormPosted(s) PROVE UNCHANGED <<loopVars, notified>>
    BY <2>1 DEF FormPosted, WifiUnchanged
  <2>2. UNCHANGED <<loopVars, notified>>
    BY <1>19, <2>1 DEF WifiStep, PortalOpens, SaveConfig, SaveFails, PublishConfig,
                       PortalCloses, LinkUp, LinkDown, ClockSet, WifiUnchanged
  <2> QED
    BY <1>0, <2>2 DEF loopVars, inputs, timers
<1>20. CASE OtaStep \/ Refresh
  <2>1. UNCHANGED loopVars /\ notified' \in BOOLEAN
    BY <1>0, <1>20 DEF OtaStep, OtaPauses, OtaConnects, OtaGivesUp, OtaReleases, OtaInstalls,
                       OtaUnchanged, Refresh
  <2> QED
    BY <1>0, <2>1 DEF loopVars, inputs, timers
<1>21. CASE UNCHANGED vars
  BY <1>0, <1>21 DEF vars, loopVars, inputs, timers, envVars
<1> QED
  BY <1>1, <1>2, <1>3, <1>4, <1>5, <1>6, <1>7, <1>8, <1>9, <1>10, <1>11, <1>12, <1>13, <1>14,
     <1>15, <1>16, <1>17, <1>18, <1>19, <1>20, <1>21
     DEF Next, MonitorStep, FetchOk, FetchFails

-----------------------------------------------------------------------------
(* Types of the WSS client's variables: the message queue never outgrows   *)
(* its depth.                                                              *)
LEMMA WsTypeStep == TypeOK /\ [Next]_vars => WsTypeOK'
<1> SUFFICES ASSUME TypeOK, [Next]_vars PROVE WsTypeOK'
  OBVIOUS
<1>0. WsTypeOK
  BY DEF TypeOK
<1>1. ClearSession /\ wsFailed' \in BOOLEAN => WsTypeOK'
  <2> SUFFICES ASSUME ClearSession, wsFailed' \in BOOLEAN PROVE WsTypeOK'
    OBVIOUS
  <2>1. queue' \in Seq(Packets) /\ Len(queue') <= QueueDepth
    BY EmptyTyped, MonitorAssumption DEF ClearSession
  <2> QED
    BY <2>1 DEF ClearSession, WsTypeOK
<1>2. UNCHANGED wsVars => WsTypeOK'
  BY <1>0 DEF wsVars, WsTypeOK
<1>3. ASSUME NEW next, Goto(next) PROVE WsTypeOK'
  BY <1>2, <1>3 DEF Goto
<1>4. ASSUME NEW next, CloseThen(next) PROVE WsTypeOK'
  BY <1>0, <1>1, <1>2, <1>4 DEF CloseThen, WsTypeOK
<1>5. ASSUME NEW dt \in {0, 1}, Wake(dt) \/ JoinDone(dt) \/ FetchReturns(dt)
      PROVE  WsTypeOK'
  BY <1>0, <1>1, <1>2, <1>3, <1>5 DEF Wake, JoinDone, FetchReturns, WsTypeOK
<1>6. CASE ReadRevision \/ Gate \/ Go \/ Check
  BY <1>3, <1>4, <1>6 DEF ReadRevision, Gate, Go, Check
<1>7. CASE \/ Reload \/ Idle \/ Failed \/ NoOpen \/ Drained \/ Poll \/ ScheduleNextPoll \/ Age
  BY <1>3, <1>7 DEF Reload, Idle, Failed, NoOpen, Drained, Poll, ScheduleNextPoll, Age
<1>8. CASE OpenStarts
  <2>1. config \in Sources \cup {NoSource}
    BY DEF TypeOK, LoopTypeOK
  <2> QED
    BY <1>0, <1>8, <2>1 DEF OpenStarts, WsTypeOK
<1>9. CASE OpenFails
  BY <1>1, <1>9 DEF OpenFails
<1>10. ASSUME NEW w \in BOOLEAN, DrainAccept(w) \/ DrainReject(w)
       PROVE  WsTypeOK'
  <2>1. queue' \in Seq(Packets) /\ Len(queue') <= QueueDepth
    BY <1>0, <1>10, HeadTyped DEF DrainAccept, DrainReject
  <2> QED
    BY <1>0, <1>10, <2>1 DEF DrainAccept, DrainReject, WsTypeOK
<1>11. CASE CbConnected \/ CbDown \/ CbFragment \/ CbRejected \/ CbIgnored
  BY <1>0, <1>11 DEF CbConnected, CbDown, CbFragment, CbRejected, CbIgnored, WsTypeOK
<1>12. ASSUME NEW p \in Packets, CbMessage(p)
       PROVE  WsTypeOK'
  <2>1. /\ queue' \in Seq(Packets) /\ Len(queue') <= QueueDepth
        /\ wsFailed' \in BOOLEAN /\ dropped' \in BOOLEAN
    <3>1. CASE Len(queue) < QueueDepth
      BY <1>0, <1>12, <3>1, MonitorAssumption DEF CbMessage, WsTypeOK
    <3>2. CASE ~(Len(queue) < QueueDepth)
      BY <1>0, <1>12, <3>2 DEF CbMessage, QueueFull, WsTypeOK
    <3> QED
      BY <3>1, <3>2
  <2> QED
    BY <1>0, <1>12, <2>1 DEF CbMessage, WsTypeOK
<1>13. CASE WifiStep
  <2>1. ASSUME NEW s, FormPosted(s) PROVE UNCHANGED wsVars
    BY <2>1 DEF FormPosted, WifiUnchanged
  <2> QED
    BY <1>2, <1>13, <2>1 DEF WifiStep, PortalOpens, SaveConfig, SaveFails, PublishConfig,
                             PortalCloses, LinkUp, LinkDown, ClockSet, WifiUnchanged
<1>14. CASE OtaStep \/ Refresh
  BY <1>2, <1>14 DEF OtaStep, OtaPauses, OtaConnects, OtaGivesUp, OtaReleases, OtaInstalls,
                     OtaUnchanged, Refresh
<1>15. CASE UNCHANGED vars
  BY <1>2, <1>15 DEF vars
<1> QED
  BY <1>5, <1>6, <1>7, <1>8, <1>9, <1>10, <1>11, <1>12, <1>13, <1>14, <1>15
     DEF Next, MonitorStep, WsStep, FetchOk, FetchFails

(* Types of the Wi-Fi and OTA workers' variables.                          *)
LEMMA EnvTypeStep == TypeOK /\ [Next]_vars => EnvTypeOK'
<1> SUFFICES ASSUME TypeOK, [Next]_vars PROVE EnvTypeOK'
  OBVIOUS
<1>0. EnvTypeOK
  BY DEF TypeOK
<1>1. UNCHANGED <<wifiVars, paused, ota>> /\ quiescent' \in BOOLEAN => EnvTypeOK'
  BY <1>0 DEF wifiVars, EnvTypeOK
<1>2. UNCHANGED envVars => EnvTypeOK'
  BY <1>0, <1>1 DEF envVars, otaVars, EnvTypeOK
<1>3. ASSUME NEW dt \in {0, 1}, Wake(dt) \/ JoinDone(dt) \/ FetchReturns(dt)
      PROVE  EnvTypeOK'
  BY <1>0, <1>1, <1>2, <1>3 DEF Wake, JoinDone, FetchReturns, otaVars, EnvTypeOK
<1>4. CASE Idle \/ Go
  BY <1>0, <1>1, <1>4 DEF Idle, Go, EndsQuiescence, EnvTypeOK
<1>5. CASE \/ ReadRevision \/ Reload \/ Gate \/ Check \/ Failed \/ OpenStarts \/ OpenFails
           \/ NoOpen \/ Drained \/ Poll \/ ScheduleNextPoll \/ Age
  BY <1>2, <1>5 DEF ReadRevision, Reload, Gate, Check, Failed, OpenStarts, OpenFails, NoOpen,
                    Drained, Poll, ScheduleNextPoll, Age, KeepPass
<1>6. ASSUME NEW w \in BOOLEAN, DrainAccept(w) \/ DrainReject(w)
      PROVE  EnvTypeOK'
  BY <1>2, <1>6 DEF DrainAccept, DrainReject
<1>7. CASE WsStep
  <2>1. ASSUME NEW p, CbMessage(p) PROVE UNCHANGED envVars
    BY <2>1 DEF CbMessage, CbUnchanged
  <2> QED
    BY <1>2, <1>7, <2>1 DEF WsStep, CbConnected, CbDown, CbFragment, CbRejected, CbIgnored,
                            CbUnchanged
<1>8. CASE PortalOpens \/ PublishConfig \/ PortalCloses \/ LinkUp \/ LinkDown \/ ClockSet
  <2>1. UNCHANGED <<stored, configs, otaVars>>
    BY <1>8 DEF PortalOpens, PublishConfig, PortalCloses, LinkUp, LinkDown, ClockSet,
                WifiUnchanged
  <2>2. wifi' \in {"sta", "portal", "saved", "published"} /\ connected' \in BOOLEAN
    BY <1>0, <1>8 DEF PortalOpens, PublishConfig, PortalCloses, LinkUp, LinkDown, ClockSet,
                      EnvTypeOK
  <2>3. clock' \in BOOLEAN
    BY <1>0, <1>8 DEF PortalOpens, PublishConfig, PortalCloses, LinkUp, LinkDown, ClockSet,
                      EnvTypeOK
  <2>4. viewRev' \in Nat \ {0}
    BY <1>0, <1>8 DEF PortalOpens, PublishConfig, PortalCloses, LinkUp, LinkDown, ClockSet,
                      EnvTypeOK
  <2> QED
    BY <1>0, <2>1, <2>2, <2>3, <2>4 DEF otaVars, EnvTypeOK
<1>9. ASSUME NEW s \in Sources, FormPosted(s)
      PROVE  EnvTypeOK'
  <2>1. configs' \in Seq(Sources) /\ Len(configs') <= ConfigQueue
    BY <1>0, <1>9, MonitorAssumption DEF FormPosted, EnvTypeOK
  <2> QED
    BY <1>0, <1>9, <2>1 DEF FormPosted, WifiUnchanged, otaVars, EnvTypeOK
<1>10. CASE SaveConfig \/ SaveFails
  <2>1. /\ Head(configs) \in Sources
        /\ configs' \in Seq(Sources) /\ Len(configs') <= ConfigQueue
    <3>1. configs \in Seq(Sources) /\ configs # <<>> /\ configs' = Tail(configs)
      BY <1>0, <1>10 DEF SaveConfig, SaveFails, EnvTypeOK
    <3> QED
      BY <1>0, <3>1, RestTyped, MonitorAssumption DEF EnvTypeOK
  <2> QED
    BY <1>0, <1>10, <2>1 DEF SaveConfig, SaveFails, WifiUnchanged, otaVars, EnvTypeOK
<1>11. CASE OtaStep
  BY <1>0, <1>11 DEF OtaStep, OtaPauses, OtaConnects, OtaGivesUp, OtaReleases, OtaInstalls,
                     OtaUnchanged, wifiVars, EnvTypeOK
<1>12. CASE Refresh
  BY <1>0, <1>1, <1>12 DEF Refresh, otaVars, EnvTypeOK
<1>13. CASE UNCHANGED vars
  BY <1>2, <1>13 DEF vars
<1> QED
  BY <1>3, <1>4, <1>5, <1>6, <1>7, <1>8, <1>9, <1>10, <1>11, <1>12, <1>13
     DEF Next, MonitorStep, WifiStep, FetchOk, FetchFails

(* In every reachable state every variable of the firmware model has its   *)
(* type; s_messages and the command queue stay within their depths.        *)
THEOREM TypeCorrect == Spec => []TypeOK
<1>1. Init => TypeOK
  <2> SUFFICES ASSUME Init PROVE TypeOK
    OBVIOUS
  <2>1. FeedTypeOK
    BY FeedTypeInit DEF Init
  <2>2. LoopTypeOK
    <3>1. /\ pc = "wait" /\ then = "wait" /\ manual = FALSE /\ notified = FALSE
          /\ config = NoSource /\ ready = FALSE /\ saver = FALSE
      BY DEF Init
    <3>2. /\ revision = 0 /\ failures = 0 /\ retry = 0 /\ poll = 0
          /\ silent = 0 /\ lag = 0
      BY DEF Init
    <3>3. failures \in 0 .. FailCap
      BY <3>2, MonitorAssumption
    <3>4. pc \in Steps /\ then \in {"wait", "reload", "idle", "check", "failed"}
      BY <3>1 DEF Steps
    <3>5. /\ manual \in BOOLEAN /\ notified \in BOOLEAN /\ ready \in BOOLEAN
          /\ saver \in BOOLEAN /\ config \in Sources \cup {NoSource}
      BY <3>1
    <3>6. /\ revision \in Nat /\ retry \in Nat /\ poll \in Nat
          /\ silent \in Int /\ lag \in Nat
      BY <3>2
    <3> QED
      BY <3>3, <3>4, <3>5, <3>6 DEF LoopTypeOK
  <2>3. WsTypeOK
    <3>1. queue \in Seq(Packets) /\ Len(queue) <= QueueDepth
      BY EmptyTyped, MonitorAssumption DEF Init
    <3> QED
      BY <3>1 DEF Init, WsTypeOK
  <2>4. EnvTypeOK
    <3>1. configs \in Seq(Sources) /\ Len(configs) <= ConfigQueue
      BY EmptyTyped, MonitorAssumption DEF Init
    <3>2. stored \in Sources \cup {NoSource} /\ viewRev = 1 /\ 1 \in Nat \ {0}
      BY DEF Init
    <3>3. /\ wifi = "sta" /\ ota = "idle"
          /\ connected = FALSE /\ clock = FALSE /\ paused = FALSE /\ quiescent = FALSE
      BY DEF Init
    <3> QED
      BY <3>1, <3>2, <3>3 DEF EnvTypeOK
  <2> QED
    BY <2>1, <2>2, <2>3, <2>4 DEF TypeOK
<1>2. TypeOK /\ [Next]_vars => TypeOK'
  BY FeedStep, FeedTypeStep, LoopTypeStep, WsTypeStep, EnvTypeStep DEF TypeOK
<1> QED
  BY <1>1, <1>2, PTL DEF Spec

-----------------------------------------------------------------------------
(* The data a user sees behaves as StatusFeed.tla says, whatever the loop, *)
(* the callbacks and the other workers do.                                 *)
THEOREM ImplementsFeed == Spec => FeedSpec
<1>1. Init => FeedInit
  BY DEF Init
<1> QED
  BY <1>1, FeedStep, TypeCorrect, PTL DEF Spec, FeedSpec

(* So what holds of the feed holds of the firmware: the alarm memory and    *)
(* the announcements of server_monitor.c agree with what is on display,     *)
(* old snapshots never return and alarms are edges, with every transport,   *)
(* configuration and update going on around it.                             *)
THEOREM FirmwareKeepsFeed ==
  Spec => /\ [](AlarmsTrackSnapshot /\ AnnouncedMatchesStatus)
          /\ SnapshotsAdvance
          /\ AlertsAreEdges
<1>1. Spec => []AlarmsTrackSnapshot
  BY ImplementsFeed, AlarmsInStep
<1>2. Spec => []AnnouncedMatchesStatus
  BY ImplementsFeed, AnnouncedInStep
<1>3. Spec => SnapshotsAdvance /\ AlertsAreEdges
  BY ImplementsFeed, SnapshotsOnlyAdvance, AlertsOnlyOnEdges
<1> QED
  BY <1>1, <1>2, <1>3, PTL

-----------------------------------------------------------------------------
(* The inductive invariant of the pause handshake.  s_quiescent may stand  *)
(* for any time after the pass that set it; what makes it safe to rely on  *)
(* is that a paused task goes from every point of BeforeGo back to idle,   *)
(* and that nothing lets the OTA worker in at the one step between reading *)
(* s_paused and clearing s_quiescent.                                      *)
Handshake ==
  /\ QuiescentIsIdle
  /\ pc \in {"idle", "fetching"} => ws = "none"
  /\ ota \in {"waiting", "tls"} => paused
  /\ ota = "tls" => quiescent /\ pc # "go"

(* Every step of the task, its client and the other workers keeps it.      *)
LEMMA HandshakeStep == Handshake /\ [Next]_vars => Handshake'
<1> SUFFICES ASSUME Handshake, [Next]_vars PROVE Handshake'
  OBVIOUS
<1> USE DEF Handshake, QuiescentIsIdle, BeforeGo
<1>1. ASSUME NEW dt \in {0, 1}, Wake(dt) PROVE Handshake'
  BY <1>1 DEF Wake, wsVars, otaVars
<1>2. ASSUME NEW dt \in {0, 1}, JoinDone(dt) PROVE Handshake'
  BY <1>2 DEF JoinDone, ClearSession, envVars, otaVars
<1>3. ASSUME NEW dt \in {0, 1}, FetchReturns(dt) PROVE Handshake'
  BY <1>3 DEF FetchReturns, Goto, wsVars, envVars, otaVars
<1>4. CASE ReadRevision
  BY <1>4 DEF ReadRevision, CloseThen, ClearSession, Goto, wsVars, envVars, otaVars
<1>5. CASE Reload
  BY <1>5 DEF Reload, Goto, wsVars, envVars, otaVars
<1>6. CASE Gate
  BY <1>6 DEF Gate, MustIdle, CloseThen, ClearSession, Goto, KeepPass, wsVars, envVars, otaVars
<1>7. CASE Idle
  BY <1>7 DEF Idle, Goto, wsVars
<1>8. CASE Go
  BY <1>8 DEF Go, EndsQuiescence, CloseThen, ClearSession, Goto, wsVars
<1>9. CASE Check
  BY <1>9 DEF Check, CloseThen, ClearSession, Goto, KeepPass, wsVars, envVars, otaVars
<1>10. CASE Failed \/ NoOpen \/ Drained \/ ScheduleNextPoll \/ Age
  BY <1>10 DEF Failed, NoOpen, Drained, ScheduleNextPoll, Age, Goto, KeepPass, wsVars, envVars,
               otaVars
<1>11. CASE OpenStarts \/ OpenFails
  BY <1>11 DEF OpenStarts, OpenFails, ClearSession, KeepPass, envVars, otaVars
<1>12. CASE Poll
  BY <1>12 DEF Poll, WantsPoll, Goto, KeepPass, wsVars, envVars, otaVars
<1>13. ASSUME NEW w \in BOOLEAN, DrainAccept(w) \/ DrainReject(w) PROVE Handshake'
  BY <1>13 DEF DrainAccept, DrainReject, loopVars, envVars, otaVars
<1>14. ASSUME UNCHANGED <<loopVars, envVars>>, ws # "none" PROVE Handshake'
  BY <1>14 DEF loopVars, envVars, otaVars
<1>15. ASSUME NEW p, CbMessage(p) PROVE Handshake'
  BY <1>14, <1>15 DEF CbMessage, CbUnchanged
<1>16. CASE CbConnected \/ CbDown \/ CbFragment \/ CbRejected \/ CbIgnored
  BY <1>14, <1>16 DEF CbConnected, CbDown, CbFragment, CbRejected, CbIgnored, CbUnchanged
<1>17. ASSUME UNCHANGED <<pc, ws, otaVars>> PROVE Handshake'
  BY <1>17 DEF otaVars
<1>18. ASSUME NEW s, FormPosted(s) PROVE Handshake'
  BY <1>17, <1>18 DEF FormPosted, WifiUnchanged, loopVars, wsVars
<1>19. CASE \/ PortalOpens \/ SaveConfig \/ SaveFails \/ PublishConfig \/ PortalCloses
            \/ LinkUp \/ LinkDown \/ ClockSet \/ Refresh
  BY <1>17, <1>19 DEF PortalOpens, SaveConfig, SaveFails, PublishConfig, PortalCloses, LinkUp,
                      LinkDown, ClockSet, Refresh, WifiUnchanged, loopVars, wsVars
<1>20. CASE OtaStep
  BY <1>20 DEF OtaStep, OtaPauses, OtaConnects, OtaGivesUp, OtaReleases, OtaInstalls,
               OtaMayRun, Blocked, OtaUnchanged, loopVars, wsVars
<1>21. CASE UNCHANGED vars
  BY <1>17, <1>21 DEF vars, loopVars, wsVars, envVars
<1> QED
  BY <1>1, <1>2, <1>3, <1>4, <1>5, <1>6, <1>7, <1>8, <1>9, <1>10, <1>11, <1>12, <1>13, <1>15,
     <1>16, <1>18, <1>19, <1>20, <1>21
     DEF Next, MonitorStep, WsStep, WifiStep, FetchOk, FetchFails

(* server_monitor_pause / server_monitor_quiescent: the handshake holds in *)
(* every reachable state.                                                  *)
THEOREM HandshakeHolds == Spec => []Handshake
<1>1. Init => Handshake
  BY DEF Init, Handshake, QuiescentIsIdle
<1> QED
  BY <1>1, HandshakeStep, PTL DEF Spec

(* server_monitor_quiescent never lies to the OTA worker, however long ago *)
(* the idle pass was.                                                      *)
THEOREM QuiescenceIsSafe == Spec => []QuiescentIsIdle
<1>1. Handshake => QuiescentIsIdle
  BY DEF Handshake
<1> QED
  BY <1>1, HandshakeHolds, PTL

(* "Only one TLS transport exists": no two of the WSS client, the HTTPS    *)
(* poll and the OTA transfer at any moment, without a lock between them.   *)
THEOREM OneTlsTransport == Spec => []OneTransport
<1>1. Handshake => OneTransport
  BY DEF Handshake, QuiescentIsIdle, OneTransport, BeforeGo
<1> QED
  BY <1>1, HandshakeHolds, PTL

-----------------------------------------------------------------------------
(* The token of OneTls.tla: which steps may move it, and how.              *)
LEMMA TurnStep == TypeOK /\ Handshake /\ [Next]_vars => [Tls!Next]_TlsOwner
<1> SUFFICES ASSUME TypeOK, Handshake, [Next]_vars
             PROVE  TlsOwner' = TlsOwner \/ Tls!Next
  BY DEF Tls!Next
<1> DEFINE Turn == TlsOwner' = TlsOwner \/ Tls!Next
<1>a. (TlsOwner = "none" /\ TlsOwner' \in Tls!Users) => Tls!Next
  BY DEF Tls!Next, Tls!Acquire
<1>b. (TlsOwner \in Tls!Users /\ TlsOwner' = "none") => Tls!Next
  BY DEF Tls!Next, Tls!Release
<1>c. "wss" \in Tls!Users /\ "http" \in Tls!Users /\ "ota" \in Tls!Users
  BY DEF Tls!Users
<1>1. (ota' = ota /\ pc # "fetching" /\ pc' # "fetching" /\ (ws' = ws \/ ws' = "none")) => Turn
  BY <1>b, <1>c DEF TlsOwner
<1>2. (pc' = pc /\ ota' = ota /\ ws # "none" /\ ws' # "none") => Turn
  BY DEF TlsOwner
<1>3. (pc' = pc /\ ws' = ws /\ ota' = ota) => Turn
  BY DEF TlsOwner
<1>4. ASSUME NEW dt \in {0, 1}, Wake(dt) PROVE Turn
  BY <1>1, <1>4 DEF Wake, wsVars, otaVars
<1>5. ASSUME NEW dt \in {0, 1}, JoinDone(dt) PROVE Turn
  <2>1. ota' = ota /\ ws' = "none" /\ pc = "joining" /\ pc' # "fetching" /\ ota # "tls"
    BY <1>5 DEF TypeOK, LoopTypeOK, JoinDone, ClearSession, envVars, otaVars, Handshake,
                QuiescentIsIdle, BeforeGo
  <2> QED
    BY <2>1, <1>a, <1>b, <1>c DEF TlsOwner
<1>6. ASSUME NEW dt \in {0, 1}, FetchReturns(dt) PROVE Turn
  <2>1. TlsOwner = "http" /\ TlsOwner' = "none"
    BY <1>6 DEF FetchReturns, Goto, wsVars, envVars, otaVars, TlsOwner, Handshake,
                QuiescentIsIdle, BeforeGo
  <2> QED
    BY <2>1, <1>b, <1>c
<1>7. CASE ReadRevision \/ Gate \/ Go \/ Check
  <2>1. ota' = ota /\ pc # "fetching" /\ pc' # "fetching" /\ (ws' = ws \/ ws' = "none")
    BY <1>7 DEF ReadRevision, Gate, Go, Check, CloseThen, ClearSession, Goto, KeepPass,
                      wsVars, envVars, otaVars
  <2> QED
    BY <1>1, <2>1
<1>8. CASE Reload \/ Idle \/ Failed \/ NoOpen \/ Drained \/ ScheduleNextPoll \/ Age
  <2>1. ota' = ota /\ pc # "fetching" /\ pc' # "fetching" /\ (ws' = ws \/ ws' = "none")
    BY <1>8 DEF Reload, Idle, Failed, NoOpen, Drained, ScheduleNextPoll, Age, Goto, KeepPass,
                      wsVars, envVars, otaVars
  <2> QED
    BY <1>1, <2>1
<1>9. CASE OpenStarts
  <2>1. ota # "tls" /\ TlsOwner = "none" /\ TlsOwner' = "wss"
    BY <1>9 DEF OpenStarts, WantsSession, KeepPass, envVars, otaVars, TlsOwner, Handshake,
                QuiescentIsIdle, BeforeGo
  <2> QED
    BY <2>1, <1>a, <1>c
<1>10. CASE OpenFails
  <2>1. ota' = ota /\ pc # "fetching" /\ pc' # "fetching" /\ (ws' = ws \/ ws' = "none")
    BY <1>10 DEF OpenFails, ClearSession, envVars, otaVars
  <2> QED
    BY <1>1, <2>1
<1>11. CASE Poll
  <2>1. CASE WantsPoll
    <3>1. ota # "tls" /\ TlsOwner = "none" /\ TlsOwner' = "http"
      BY <1>11, <2>1 DEF Poll, WantsPoll, Goto, KeepPass, wsVars, envVars, otaVars, TlsOwner,
                         Handshake, QuiescentIsIdle, BeforeGo
    <3> QED
      BY <3>1, <1>a, <1>c
  <2>2. CASE ~WantsPoll
    <3>1. ota' = ota /\ pc # "fetching" /\ pc' # "fetching" /\ (ws' = ws \/ ws' = "none")
      BY <1>11, <2>2 DEF Poll, Goto, KeepPass, wsVars, envVars, otaVars
    <3> QED
      BY <1>1, <3>1
  <2> QED
    BY <2>1, <2>2
<1>12. ASSUME NEW w \in BOOLEAN, DrainAccept(w) \/ DrainReject(w) PROVE Turn
  BY <1>3, <1>12 DEF DrainAccept, DrainReject, loopVars, envVars, otaVars
<1>13. ASSUME NEW p, CbMessage(p) PROVE Turn
  BY <1>3, <1>13 DEF CbMessage, CbUnchanged, loopVars, envVars, otaVars
<1>14. CASE CbConnected \/ CbDown \/ CbFragment \/ CbRejected \/ CbIgnored
  <2>1. pc' = pc /\ ota' = ota /\ ws # "none" /\ ws' # "none"
    BY <1>14 DEF CbConnected, CbDown, CbFragment, CbRejected, CbIgnored, CbUnchanged,
                       loopVars, envVars, otaVars
  <2> QED
    BY <1>2, <2>1
<1>15. ASSUME NEW s, FormPosted(s) PROVE Turn
  BY <1>3, <1>15 DEF FormPosted, WifiUnchanged, loopVars, wsVars, otaVars
<1>16. CASE \/ PortalOpens \/ SaveConfig \/ SaveFails \/ PublishConfig \/ PortalCloses
            \/ LinkUp \/ LinkDown \/ ClockSet \/ Refresh
  <2>1. pc' = pc /\ ws' = ws /\ ota' = ota
    BY <1>16 DEF PortalOpens, SaveConfig, SaveFails, PublishConfig, PortalCloses, LinkUp,
                       LinkDown, ClockSet, Refresh, WifiUnchanged, loopVars, wsVars, otaVars
  <2> QED
    BY <1>3, <2>1
<1>17. CASE OtaStep
  <2>1. pc' = pc /\ ws' = ws
    BY <1>17 DEF OtaStep, OtaPauses, OtaConnects, OtaGivesUp, OtaReleases, OtaInstalls,
                 OtaUnchanged, loopVars, wsVars
  <2>2. CASE ota # "tls" /\ ota' # "tls"
    BY <2>1, <2>2 DEF TlsOwner
  <2>3. CASE OtaConnects
    <3>1. TlsOwner = "none" /\ TlsOwner' = "ota"
      BY <2>1, <2>3 DEF OtaConnects, TlsOwner, Handshake, QuiescentIsIdle, BeforeGo
    <3> QED
      BY <3>1, <1>a, <1>c
  <2>4. CASE OtaReleases \/ OtaInstalls
    <3>1. TlsOwner = "ota" /\ TlsOwner' = "none"
      BY <2>1, <2>4 DEF OtaReleases, OtaInstalls, TlsOwner, Handshake, QuiescentIsIdle, BeforeGo
    <3> QED
      BY <3>1, <1>b, <1>c
  <2> QED
    BY <1>17, <2>2, <2>3, <2>4 DEF OtaStep, OtaPauses, OtaGivesUp
<1>18. CASE UNCHANGED vars
  BY <1>3, <1>18 DEF vars, loopVars, wsVars, envVars, otaVars
<1> QED
  BY <1>4, <1>5, <1>6, <1>7, <1>8, <1>9, <1>10, <1>11, <1>12, <1>13, <1>14, <1>15, <1>16, <1>17,
     <1>18
     DEF Next, MonitorStep, WsStep, WifiStep, FetchOk, FetchFails

(* The firmware implements OneTls.tla: the single TLS session passes from  *)
(* one user to another only by way of being closed.                        *)
THEOREM TakesTurns == Spec => TurnsAtTls
<1>1. Init => Tls!Init
  BY DEF Init, Tls!Init, TlsOwner
<1> QED
  BY <1>1, TurnStep, TypeCorrect, HandshakeHolds, PTL DEF Spec, TurnsAtTls, Tls!Spec

-----------------------------------------------------------------------------
(* What a WSS session leaves behind.  A new client is built on what the    *)
(* join cleared, and clears the failure flag only because nothing has been *)
(* lost yet.                                                               *)
Sessions ==
  /\ FreshSession /\ LossForcesResync
  /\ ws \in {"none", "connecting"} => ~dropped

(* Every callback, join and new client keeps it.                           *)
LEMMA SessionsStep == TypeOK /\ Sessions /\ [Next]_vars => Sessions'
<1> SUFFICES ASSUME TypeOK, Sessions, [Next]_vars PROVE Sessions'
  OBVIOUS
<1>0. WsTypeOK
  BY DEF TypeOK
<1> USE DEF Sessions, FreshSession, LossForcesResync
<1>1. ClearSession => Sessions'
  BY DEF ClearSession
<1>2. UNCHANGED wsVars => Sessions'
  BY DEF wsVars
<1>3. ASSUME NEW next, Goto(next) \/ CloseThen(next) PROVE Sessions'
  BY <1>1, <1>2, <1>3 DEF Goto, CloseThen
<1>4. ASSUME NEW dt, Wake(dt) \/ JoinDone(dt) \/ FetchReturns(dt) PROVE Sessions'
  BY <1>1, <1>2, <1>3, <1>4 DEF Wake, JoinDone, FetchReturns
<1>5. CASE \/ ReadRevision \/ Reload \/ Gate \/ Idle \/ Go \/ Check \/ Failed
           \/ NoOpen \/ Drained \/ Poll \/ ScheduleNextPoll \/ Age
  BY <1>3, <1>5 DEF ReadRevision, Reload, Gate, Idle, Go, Check, Failed, NoOpen, Drained, Poll,
                    ScheduleNextPoll, Age
<1>6. CASE OpenStarts
  BY <1>6 DEF OpenStarts, WantsSession
<1>7. CASE OpenFails
  BY <1>1, <1>7 DEF OpenFails
<1>8. ASSUME NEW w, DrainAccept(w) \/ DrainReject(w) PROVE Sessions'
  BY <1>8 DEF DrainAccept, DrainReject
<1>9. CASE CbConnected \/ CbDown \/ CbFragment \/ CbRejected \/ CbIgnored
  BY <1>0, <1>9 DEF CbConnected, CbDown, CbFragment, CbRejected, CbIgnored, WsTypeOK
<1>10. ASSUME NEW p, CbMessage(p) PROVE Sessions'
  BY <1>10 DEF CbMessage, QueueFull
<1>11. ASSUME NEW s, FormPosted(s) PROVE Sessions'
  BY <1>2, <1>11 DEF FormPosted, WifiUnchanged
<1>12. CASE \/ PortalOpens \/ SaveConfig \/ SaveFails \/ PublishConfig \/ PortalCloses
            \/ LinkUp \/ LinkDown \/ ClockSet \/ Refresh \/ OtaStep
  BY <1>2, <1>12 DEF PortalOpens, SaveConfig, SaveFails, PublishConfig, PortalCloses, LinkUp,
                     LinkDown, ClockSet, Refresh, WifiUnchanged, OtaStep, OtaPauses,
                     OtaConnects, OtaGivesUp, OtaReleases, OtaInstalls, OtaUnchanged
<1>13. CASE UNCHANGED vars
  BY <1>2, <1>13 DEF vars
<1> QED
  BY <1>4, <1>5, <1>6, <1>7, <1>8, <1>9, <1>10, <1>11, <1>12, <1>13
     DEF Next, MonitorStep, WsStep, WifiStep, FetchOk, FetchFails

(* websocket_event and close_ws keep it in every reachable state.          *)
THEOREM SessionsHold == Spec => []Sessions
<1>1. Init => Sessions
  BY DEF Init, Sessions, FreshSession, LossForcesResync
<1> QED
  BY <1>1, SessionsStep, TypeCorrect, PTL DEF Spec

(* close_ws, websocket_event: a new client never sees the buffer, the      *)
(* queue or the connected flag of the one before.                          *)
THEOREM SessionsStartFresh == Spec => []FreshSession
<1>1. Sessions => FreshSession
  BY DEF Sessions
<1> QED
  BY <1>1, SessionsHold, PTL

(* websocket_event: a session that lost a message is always closed and     *)
(* synchronised anew.                                                      *)
THEOREM LossIsNoticed == Spec => []LossForcesResync
<1>1. Sessions => LossForcesResync
  BY DEF Sessions
<1> QED
  BY <1>1, SessionsHold, PTL

(* Sessions start clean and lose nothing without the loop being told.      *)
THEOREM SessionsAreWhole == Spec => []SessionsWhole
<1>1. TypeOK /\ FreshSession /\ LossForcesResync => SessionsWhole
  BY DEF SessionsWhole
<1> QED
  BY <1>1, TypeCorrect, SessionsStartFresh, LossIsNoticed, PTL

(* One user of TLS at a time, and a promise of quiescence that is kept.    *)
THEOREM HandshakeIsSafe == Spec => []TlsExclusive
<1>1. OneTransport /\ QuiescentIsIdle => TlsExclusive
  BY DEF TlsExclusive
<1> QED
  BY <1>1, OneTlsTransport, QuiescenceIsSafe, PTL
=============================================================================
