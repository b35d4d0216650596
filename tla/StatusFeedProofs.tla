--------------------------- MODULE StatusFeedProofs ---------------------------
(***************************************************************************)
(* Theorems about StatusFeed.tla, for every set of servers, stamps and     *)
(* channels and every pair of thresholds.                                  *)
(***************************************************************************)
EXTENDS StatusFeed, TLAPS

(* Stamps are ordered lexicographically; "no stamp" is below all of them.  *)
LEMMA NewerThanNone ==
  ASSUME NEW s \in Stamps
  PROVE  Newer(s, NoStamp)
  BY FeedAssumption DEF Newer, NoStamp

(* server_state_commit accepts a snapshot only into an empty state or over *)
(* an older one; an empty state carries no stamp.                          *)
EmptyIsBlank == ~state.has => state.stamp = NoStamp

(* A snapshot young enough to be on display was announced: ageing is the   *)
(* only way to OFFLINE, and it takes OfflineAfter.                         *)
FreshIsShown == state.has /\ age <= OfflineAfter => state.status # "OFFLINE"

(* The empty state of start-up and of a change of server.                  *)
LEMMA BlankTyped ==
  ASSUME NEW m \in Modes
  PROVE  Blank(m) \in [has : BOOLEAN, stamp : AllStamps, hot : SUBSET Channels,
                       src : Sources \cup {NoSource}, status : Statuses, mode : Modes]
  BY Zenon DEF Blank, AllStamps, Statuses

-----------------------------------------------------------------------------
(* The types of state, timers, alarm memory and announcements hold in      *)
(* every reachable state (server_monitor.c's s_state and its companions).  *)
LEMMA FeedTypeStep == FeedTypeOK /\ [FeedNext]_feedVars => FeedTypeOK'
<1> SUFFICES ASSUME FeedTypeOK, [FeedNext]_feedVars PROVE FeedTypeOK'
  OBVIOUS
<1> USE FeedAssumption DEF FeedTypeOK, AllStamps, Modes, Statuses
<1>1. ASSUME NEW p \in Snapshots, NEW w \in BOOLEAN, NEW m \in {"LIVE_WSS", "HTTPS_POLLING"},
             AcceptStatus(p, m, w)
      PROVE  FeedTypeOK'
  BY <1>1 DEF AcceptStatus, Committed, Snapshots, Edges, Latched
<1>2. ASSUME NEW p \in Snapshots, NEW w \in BOOLEAN, NEW m \in {"LIVE_WSS", "HTTPS_POLLING"},
             RejectStatus(p, m, w)
      PROVE  FeedTypeOK'
  BY <1>2 DEF RejectStatus
<1>3. ASSUME NEW s \in Stamps, NEW w \in BOOLEAN, AcceptAlert(s, w)
      PROVE  FeedTypeOK'
  BY <1>3 DEF AcceptAlert
<1>4. CASE FeedIdle
  BY <1>4 DEF FeedIdle, feedData, Quiet
<1>5. ASSUME NEW s \in Stamps, NEW w \in BOOLEAN, RejectAlert(s, w)
      PROVE  FeedTypeOK'
  BY <1>4, <1>5 DEF RejectAlert
<1>6. CASE ForgetServer
  <2>1. state' = Blank("RECONNECTING")
    BY <1>6 DEF ForgetServer
  <2>2. Blank("RECONNECTING") \in [has : BOOLEAN, stamp : AllStamps, hot : SUBSET Channels,
                       src : Sources \cup {NoSource}, status : Statuses, mode : Modes]
    BY ONLY BlankTyped DEF Modes
  <2>3. age' = 0 /\ age' \in 0 .. OfflineAfter + 1
    BY <1>6 DEF ForgetServer
  <2>4. alertActive' \in SUBSET Channels /\ alertStamp' \in AllStamps
    BY <1>6 DEF ForgetServer
  <2>5. events' = {} /\ alerts' = {} /\ wasOnline' = FALSE /\ UNCHANGED <<everOnline, firstSync>>
    BY <1>6 DEF ForgetServer, Quiet
  <2> QED
    BY <2>1, <2>2, <2>3, <2>4, <2>5
<1>7. ASSUME NEW m \in Modes, AgeState(m)
      PROVE  FeedTypeOK'
  BY <1>7 DEF AgeState, StatusAt, StillOnline
<1>8. CASE SetMode("RECONNECTING")
  BY <1>8 DEF SetMode, Quiet
<1>9. ASSUME NEW dt \in {0, 1}, Elapse(dt)
      PROVE  FeedTypeOK'
  BY <1>9 DEF Elapse, Older, Quiet
<1>10. CASE UNCHANGED feedVars
  BY <1>10 DEF feedVars, feedData, outputs
<1> QED
  BY <1>1, <1>2, <1>3, <1>4, <1>5, <1>6, <1>7, <1>8, <1>9, <1>10 DEF FeedNext

(* Start-up: nothing is known, nothing announced.                          *)
LEMMA FeedTypeInit == FeedInit => FeedTypeOK
<1> SUFFICES ASSUME FeedInit PROVE FeedTypeOK
  OBVIOUS
<1>1. state \in [has : BOOLEAN, stamp : AllStamps, hot : SUBSET Channels,
                 src : Sources \cup {NoSource}, status : Statuses, mode : Modes]
  BY BlankTyped DEF FeedInit, Modes
<1>2. age = 0 /\ 0 \in 0 .. OfflineAfter + 1
  BY FeedAssumption DEF FeedInit
<1> QED
  BY <1>1, <1>2 DEF FeedInit, FeedTypeOK, AllStamps

(* server_monitor.c's data types: in every reachable state the snapshot,   *)
(* the alarm memory and the announcements are what the code declares.      *)
THEOREM FeedTypeCorrect == FeedSpec => []FeedTypeOK
  BY FeedTypeInit, FeedTypeStep, PTL DEF FeedSpec

-----------------------------------------------------------------------------
(* The inductive invariant behind the two agreements.                      *)
FeedInv ==
  FeedTypeOK /\ AlarmsTrackSnapshot /\ AnnouncedMatchesStatus /\ EmptyIsBlank /\ FreshIsShown

(* It holds at start-up: nothing known, nothing announced.                 *)
LEMMA FeedInvInit == FeedInit => FeedInv
  BY FeedTypeInit, FeedAssumption
     DEF FeedInit, Blank, FeedInv, AlarmsTrackSnapshot, AnnouncedMatchesStatus, EmptyIsBlank,
          FreshIsShown

(* Every commit, rejection, ageing and reset of server_monitor.c keeps it. *)
LEMMA FeedInvStep == FeedInv /\ [FeedNext]_feedVars => FeedInv'
<1> SUFFICES ASSUME FeedInv, [FeedNext]_feedVars PROVE FeedInv'
  OBVIOUS
<1> FeedTypeOK'
  BY FeedTypeStep DEF FeedInv
<1> USE FeedAssumption
    DEF FeedInv, FeedTypeOK, AlarmsTrackSnapshot, AnnouncedMatchesStatus, EmptyIsBlank,
         FreshIsShown
<1>1. ASSUME NEW p \in Snapshots, NEW w \in BOOLEAN, NEW m \in {"LIVE_WSS", "HTTPS_POLLING"},
             AcceptStatus(p, m, w)
      PROVE  FeedInv'
  BY <1>1 DEF AcceptStatus, Committed, Snapshots, Latched
<1>2. ASSUME NEW p \in Snapshots, NEW w \in BOOLEAN, NEW m \in {"LIVE_WSS", "HTTPS_POLLING"},
             RejectStatus(p, m, w)
      PROVE  FeedInv'
  BY <1>2 DEF RejectStatus
<1>3. ASSUME NEW s \in Stamps, NEW w \in BOOLEAN, AcceptAlert(s, w)
      PROVE  FeedInv'
  BY <1>3 DEF AcceptAlert
<1>4. CASE FeedIdle
  BY <1>4 DEF FeedIdle, feedData
<1>5. ASSUME NEW s \in Stamps, NEW w \in BOOLEAN, RejectAlert(s, w)
      PROVE  FeedInv'
  BY <1>4, <1>5 DEF RejectAlert
<1>6. CASE ForgetServer
  BY <1>6 DEF ForgetServer, Blank
<1>7. ASSUME NEW m \in Modes, AgeState(m)
      PROVE  FeedInv'
  <2> DEFINE status == StatusAt(state.has, age)
  <2>1. /\ state'.has = state.has /\ state'.stamp = state.stamp
        /\ state'.hot = state.hot /\ state'.status = status
    BY <1>7 DEF AgeState
  <2>2. /\ UNCHANGED <<age, alertActive>>
        /\ wasOnline' = (wasOnline /\ status # "OFFLINE")
    BY <1>7 DEF AgeState, StillOnline
  <2>3. status = "OFFLINE" <=> ~(state.has /\ age <= OfflineAfter)
    BY DEF StatusAt
  <2>4. AlarmsTrackSnapshot' /\ EmptyIsBlank' /\ FreshIsShown'
    BY <2>1, <2>2, <2>3
  <2>5. AnnouncedMatchesStatus'
    BY <2>1, <2>2, <2>3
  <2> QED
    BY <2>4, <2>5
<1>8. CASE SetMode("RECONNECTING")
  BY <1>8 DEF SetMode
<1>9. ASSUME NEW dt \in {0, 1}, Elapse(dt)
      PROVE  FeedInv'
  BY <1>9 DEF Elapse, Older
<1>10. CASE UNCHANGED feedVars
  BY <1>10 DEF feedVars, feedData
<1>11. state.mode \in Modes /\ "CONNECTION_OFFLINE" \in Modes
  BY DEF Modes
<1> QED
  BY <1>1, <1>2, <1>3, <1>4, <1>5, <1>6, <1>7, <1>8, <1>9, <1>10, <1>11 DEF FeedNext

(* So it holds in every reachable state of the feed: the alarm memory and  *)
(* the announcements agree with s_state, an empty state is blank and a     *)
(* snapshot on display is not OFFLINE before its age says so.              *)
THEOREM FeedInvariant == FeedSpec => []FeedInv
  BY FeedInvInit, FeedInvStep, PTL DEF FeedSpec

(* monitor_alert_edges never loses track of the snapshot on display, so no *)
(* channel alarms twice for one crossing or misses one.                    *)
THEOREM AlarmsInStep == FeedSpec => []AlarmsTrackSnapshot
<1>1. FeedInv => AlarmsTrackSnapshot
  BY DEF FeedInv
<1> QED
  BY <1>1, FeedInvariant, PTL

(* s_server_was_online agrees with the stored status, so RECOVERED and     *)
(* OFFLINE announcements alternate.                                        *)
THEOREM AnnouncedInStep == FeedSpec => []AnnouncedMatchesStatus
<1>1. FeedInv => AnnouncedMatchesStatus
  BY DEF FeedInv
<1> QED
  BY <1>1, FeedInvariant, PTL

-----------------------------------------------------------------------------
(* server_state_commit under both transports: nothing old ever replaces    *)
(* what is on display, and only a new configuration clears it.             *)
THEOREM SnapshotsOnlyAdvance == FeedSpec => SnapshotsAdvance
<1> DEFINE A == state'.stamp # state.stamp =>
                  (Newer(state'.stamp, state.stamp) \/ ~state'.has)
<1>1. FeedInv /\ [FeedNext]_feedVars => [A]_feedVars
  <2> SUFFICES ASSUME FeedInv, FeedNext PROVE A
    OBVIOUS
  <2>1. ASSUME NEW p \in Snapshots, NEW w \in BOOLEAN,
               NEW m \in {"LIVE_WSS", "HTTPS_POLLING"}, AcceptStatus(p, m, w)
        PROVE  A
    <3>1. Newer(p.stamp, NoStamp)
      BY NewerThanNone DEF Snapshots
    <3>2. state'.stamp = p.stamp
      BY <2>1 DEF AcceptStatus, Committed
    <3> QED
      BY <2>1, <3>1, <3>2 DEF AcceptStatus, Accepts, FeedInv, EmptyIsBlank
  <2>2. ASSUME NEW p \in Snapshots, NEW w \in BOOLEAN,
               NEW m \in {"LIVE_WSS", "HTTPS_POLLING"}, RejectStatus(p, m, w)
        PROVE  A
    BY <2>2 DEF RejectStatus, FeedInv, FeedTypeOK
  <2>3. ASSUME NEW s \in Stamps, NEW w \in BOOLEAN, AcceptAlert(s, w) \/ RejectAlert(s, w)
        PROVE  A
    BY <2>3 DEF AcceptAlert, RejectAlert, FeedIdle, feedData, FeedInv, FeedTypeOK
  <2>4. CASE ForgetServer
    BY <2>4 DEF ForgetServer, Blank
  <2>5. ASSUME NEW m, AgeState(m) PROVE A
    BY <2>5 DEF AgeState, FeedInv, FeedTypeOK
  <2>6. CASE SetMode("RECONNECTING")
    BY <2>6 DEF SetMode, FeedInv, FeedTypeOK
  <2>7. CASE (\E dt \in {0, 1} : Elapse(dt)) \/ FeedIdle
    BY <2>7 DEF Elapse, FeedIdle, feedData
  <2> QED
    BY <2>1, <2>2, <2>3, <2>4, <2>5, <2>6, <2>7 DEF FeedNext
<1> QED
  BY <1>1, FeedInvariant, PTL DEF FeedSpec, SnapshotsAdvance

(* Local alarms are edges of the displayed snapshot, and an agent alert is *)
(* passed on at most once per server.                                      *)
THEOREM AlertsOnlyOnEdges == FeedSpec => AlertsAreEdges
<1> DEFINE A == /\ \A c \in alerts' \cap Channels : c \notin state.hot /\ c \in state'.hot
                /\ "agent" \in alerts' => Newer(alertStamp', alertStamp)
<1>1. FeedInv /\ [FeedNext]_feedVars => [A]_feedVars
  <2> SUFFICES ASSUME FeedInv, FeedNext PROVE A
    OBVIOUS
  <2>1. ASSUME NEW p \in Snapshots, NEW w \in BOOLEAN,
               NEW m \in {"LIVE_WSS", "HTTPS_POLLING"}, AcceptStatus(p, m, w)
        PROVE  A
    <3>1. alerts' = p.hot \ state.hot /\ state'.hot = p.hot
      BY <2>1 DEF AcceptStatus, Committed, Edges, FeedInv, AlarmsTrackSnapshot
    <3>2. p.hot \subseteq Channels
      BY DEF Snapshots
    <3> QED
      BY <3>1, <3>2, FeedAssumption
  <2>2. ASSUME NEW s \in Stamps, NEW w \in BOOLEAN, AcceptAlert(s, w)
        PROVE  A
    BY <2>2, FeedAssumption DEF AcceptAlert
  <2>3. CASE alerts' = {}
    BY <2>3
  <2>4. ASSUME NEW p, NEW w, NEW m, RejectStatus(p, m, w) PROVE alerts' = {}
    BY <2>4 DEF RejectStatus
  <2>5. ASSUME NEW s, NEW w, RejectAlert(s, w) PROVE alerts' = {}
    BY <2>5 DEF RejectAlert, FeedIdle, Quiet
  <2>6. ASSUME NEW m, AgeState(m) \/ SetMode(m) PROVE alerts' = {}
    BY <2>6 DEF AgeState, SetMode, Quiet
  <2>7. (\E dt \in {0, 1} : Elapse(dt)) \/ ForgetServer \/ FeedIdle => alerts' = {}
    BY DEF Elapse, ForgetServer, FeedIdle, Quiet
  <2> QED
    BY <2>1, <2>2, <2>3, <2>4, <2>5, <2>6, <2>7 DEF FeedNext
<1> QED
  BY <1>1, FeedInvariant, PTL DEF FeedSpec, AlertsAreEdges

(* The feed's bookkeeping stays in agreement.                              *)
THEOREM FeedAgrees == FeedSpec => []FeedAgreement
<1>1. FeedTypeOK /\ AlarmsTrackSnapshot /\ AnnouncedMatchesStatus => FeedAgreement
  BY DEF FeedAgreement
<1> QED
  BY <1>1, FeedTypeCorrect, AlarmsInStep, AnnouncedInStep, PTL
=============================================================================
