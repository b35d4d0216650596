------------------------ MODULE ReconfigurationProofs ------------------------
(***************************************************************************)
(* Two further theorems about ServerMonitor.tla, for every set of servers  *)
(* and every number of reconfigurations: that servers never mix, and what  *)
(* keeps a session alive.                                                  *)
(***************************************************************************)
EXTENDS ServerMonitorProofs

(* Everything on display, in the queue and on the wire is from server x.   *)
OnlyFrom(q, x) == \A i \in DOMAIN q : q[i].src = x
Data(x) ==
  /\ state.has => state.src = x
  /\ ws # "none" => wsSrc = x
  /\ OnlyFrom(queue, x)

(* The task knows the revision, and what is stored belongs to it.          *)
Current == revision = viewRev /\ wifi # "saved"

(* A new revision was read, and the old data is not cleared yet.           *)
Clearing == pc = "reload" \/ (pc = "joining" /\ then = "reload")
NotRead == pc \in {"wait", "revision"}

(* monitor_wifi.c: an address is only ever noted with nothing left to      *)
(* save, and any save is preceded by the loss of the address.              *)
Link ==
  /\ connected => wifi = "sta" /\ configs = <<>>
  /\ revision <= viewRev
  /\ pc = "revision" /\ connected => config = stored

(* server_monitor.c: the passes that go on are those that were ready when  *)
(* the revision was read; the configuration they copied is the stored one  *)
(* unless it has been replaced since.                                      *)
Pass ==
  /\ Active => ready
  /\ ~NotRead /\ ready /\ Current => config = stored

(* What is there was brought by the configuration of this revision, and    *)
(* by the one the pass works with.                                         *)
Origin ==
  /\ pc = "reload" => ws = "none" /\ queue = <<>>
  /\ Current /\ ~Clearing => Data(stored)
  /\ Active \/ (pc = "gate" /\ ready) => Data(config)

Inv == Link /\ Pass /\ Origin

-----------------------------------------------------------------------------
LEMMA QueueFrom ==
  ASSUME NEW q \in Seq(Packets), NEW x
  PROVE  /\ OnlyFrom(<<>>, x)
         /\ q # <<>> /\ OnlyFrom(q, x) => Head(q).src = x /\ OnlyFrom(Tail(q), x)
         /\ \A p \in Packets : OnlyFrom(q, x) /\ p.src = x => OnlyFrom(Append(q, p), x)
<1>1. OnlyFrom(<<>>, x)
  BY DEF OnlyFrom
<1>2. ASSUME q # <<>>, OnlyFrom(q, x) PROVE Head(q).src = x /\ OnlyFrom(Tail(q), x)
  <2>1. 1 \in DOMAIN q /\ Head(q) = q[1]
    BY <1>2
  <2>2. \A i \in DOMAIN Tail(q) : i + 1 \in DOMAIN q /\ Tail(q)[i] = q[i + 1]
    BY <1>2
  <2> QED
    BY <1>2, <2>1, <2>2 DEF OnlyFrom
<1>3. ASSUME NEW p \in Packets, OnlyFrom(q, x), p.src = x PROVE OnlyFrom(Append(q, p), x)
  <2>1. \A i \in DOMAIN Append(q, p) : (i \in DOMAIN q /\ Append(q, p)[i] = q[i]) \/ Append(q, p)[i] = p
    OBVIOUS
  <2> QED
    BY <1>3, <2>1 DEF OnlyFrom
<1> QED
  BY <1>1, <1>2, <1>3

LEMMA Start == Init => Inv
<1> SUFFICES ASSUME Init PROVE Inv
  OBVIOUS
<1> QED
  BY DEF Init, Inv, Link, Pass, Origin, Active, Current, Clearing, NotRead

(* Closing a client takes nothing away from where the rest comes from.     *)
LEMMA ClosedFrom ==
  ASSUME ClearSession, UNCHANGED state, NEW x, Data(x)
  PROVE  Data(x)'
  BY DEF ClearSession, Data, OnlyFrom

LEMMA SameFrom ==
  ASSUME UNCHANGED <<state, wsVars>>, NEW x
  PROVE  Data(x)' <=> Data(x)
  BY DEF wsVars, Data, OnlyFrom

(* close_ws, whether it returns at once or joins.                          *)
LEMMA CloseFrom ==
  ASSUME NEW next, CloseThen(next) \/ Goto(next), UNCHANGED state, NEW x, Data(x)
  PROVE  Data(x)'
<1>1. CASE ClearSession
  BY <1>1, ClosedFrom
<1>2. CASE UNCHANGED wsVars
  BY <1>2, SameFrom
<1> QED
  BY <1>1, <1>2 DEF CloseThen, Goto

(* A step of a pass that has read its inputs: it is enough to see where it *)
(* goes, and that what it adds is the configured server's.                 *)
LEMMA PassStep ==
  ASSUME Inv, UNCHANGED <<config, revision, ready, wifiVars>>,
         ~NotRead, ~Clearing, ~Clearing', pc' \notin {"revision", "gate", "reload"},
         Active' => Active \/ (pc = "gate" /\ ready),
         \A x : Data(x) /\ (Active => x = config) => Data(x)'
  PROVE  Inv'
<1> USE DEF Inv
<1>1. Link' /\ (Current' <=> Current)
  BY DEF Link, Current, wifiVars
<1>2. Pass'
  BY <1>1 DEF Pass, wifiVars
<1>3. Active \/ (pc = "gate" /\ ready) => Data(config)'
  <2> SUFFICES ASSUME Active \/ (pc = "gate" /\ ready) PROVE Data(config)'
    OBVIOUS
  <2>1. PICK x : x = config
    OBVIOUS
  <2>2. Data(x)
    BY <2>1 DEF Origin
  <2>3. (state'.has => state'.src = x) /\ (ws' # "none" => wsSrc' = x) /\ OnlyFrom(queue', x)
    BY <2>1, <2>2 DEF Data
  <2> QED
    BY <2>1, <2>3 DEF Data
<1>4. Current => Data(stored)'
  <2> SUFFICES ASSUME Current PROVE Data(stored)'
    OBVIOUS
  <2>1. PICK x : x = stored
    OBVIOUS
  <2>2. Data(x) /\ (Active => x = config)
    BY <2>1 DEF Origin, Pass
  <2>3. (state'.has => state'.src = x) /\ (ws' # "none" => wsSrc' = x) /\ OnlyFrom(queue', x)
    BY <2>2 DEF Data
  <2> QED
    BY <2>1, <2>3 DEF Data, wifiVars
<1> QED
  BY <1>1, <1>2, <1>3, <1>4 DEF Origin

(* The head of a pass: the configuration is copied, the revision is read   *)
(* under the lock, and what another server said is forgotten.              *)
LEMMA HeadStep ==
  ASSUME TypeOK, Inv, ReadRevision \/ Reload \/ \E dt \in {0, 1} : Wake(dt) \/ JoinDone(dt)
  PROVE  Inv'
<1> USE DEF Inv
<1>1. ASSUME NEW dt \in {0, 1}, Wake(dt) PROVE Inv'
  <2>1. /\ pc = "wait" /\ pc' = "revision" /\ config' = stored
        /\ UNCHANGED <<state, revision, ready, then, wsVars, wifiVars>>
    BY <1>1 DEF Wake, Elapse
  <2>2. Data(stored) => Data(stored)'
    BY <2>1 DEF Data, OnlyFrom, wsVars, wifiVars
  <2> QED
    BY <2>1, <2>2 DEF Link, Pass, Origin, NotRead, Active, Current, Clearing, wifiVars
<1>2. ASSUME NEW dt \in {0, 1}, JoinDone(dt) PROVE Inv'
  <2>1. /\ pc = "joining" /\ pc' = then /\ then' = "wait" /\ ClearSession
        /\ then \in {"wait", "reload", "idle", "check", "failed"}
        /\ UNCHANGED <<state, config, revision, ready, wifiVars>>
    BY <1>2 DEF JoinDone, Elapse, inputs, envVars, TypeOK, LoopTypeOK
  <2>2. (Data(stored) => Data(stored)') /\ (Data(config) => Data(config)')
    BY <2>1 DEF ClearSession, Data, OnlyFrom, wifiVars
  <2>3. (Active' => Active) /\ (Clearing' <=> Clearing) /\ (Current' <=> Current)
        /\ pc' # "gate" /\ pc' # "revision"
    BY <2>1 DEF Active, Clearing, Current, wifiVars
  <2>4. pc' = "reload" => ws' = "none" /\ queue' = <<>>
    BY <2>1 DEF ClearSession
  <2> QED
    BY <2>1, <2>2, <2>3, <2>4 DEF Link, Pass, Origin, NotRead, wifiVars
<1>3. CASE ReadRevision
  <2>0. /\ pc = "revision" /\ ready' = Ready /\ revision' = viewRev /\ viewRev \in Nat
        /\ UNCHANGED <<state, config, wifiVars>>
    BY <1>3 DEF ReadRevision, FeedIdle, feedData, envVars, TypeOK, EnvTypeOK
  <2>1. Link' /\ Pass' /\ (ready' => connected /\ wifi = "sta" /\ config = stored)
    <3>1. \/ pc' = "reload" \/ pc' = "gate"
          \/ pc' = "joining" /\ then' = "reload"
      BY <1>3 DEF ReadRevision, CloseThen, Goto
    <3>2. ~Active' /\ pc' # "revision"
      BY <3>1 DEF Active
    <3>3. Link'
      BY <2>0, <3>2 DEF Link, wifiVars
    <3>4. ready' => connected /\ wifi = "sta" /\ config = stored
      BY <2>0 DEF Ready, Link
    <3> QED
      BY <2>0, <3>2, <3>3, <3>4 DEF Pass, wifiVars
  <2>2. CASE viewRev # revision
    <3>1. (pc' = "reload" /\ ClearSession) \/ (pc' = "joining" /\ then' = "reload")
      BY <1>3, <2>2 DEF ReadRevision, CloseThen
    <3>2. Clearing' /\ ~Active' /\ pc' # "gate" /\ (pc' = "reload" => ws' = "none" /\ queue' = <<>>)
      BY <3>1 DEF Clearing, Active, ClearSession
    <3> QED
      BY <2>1, <3>2 DEF Origin
  <2>3. CASE viewRev = revision
    <3>1. pc' = "gate" /\ UNCHANGED wsVars
      BY <1>3, <2>3 DEF ReadRevision, Goto
    <3>2. (Current' <=> Current) /\ ~Clearing /\ (Data(stored) => Data(stored)')
      BY <2>0, <2>3, <3>1 DEF Current, Clearing, Data, OnlyFrom, wsVars, wifiVars
    <3>3. Current => Data(stored)'
      BY <3>2 DEF Origin
    <3>4. ready' => Data(config)'
      <4> SUFFICES ASSUME ready' PROVE Data(config)'
        OBVIOUS
      <4>1. Current /\ config' = stored'
        BY <2>0, <2>1, <2>3 DEF Current, wifiVars
      <4> QED
        BY <3>3, <4>1 DEF Data
    <3> QED
      BY <2>1, <3>1, <3>2, <3>3, <3>4 DEF Origin, Active
  <2> QED
    BY <2>2, <2>3
<1>4. CASE Reload
  <2>1. /\ pc = "reload" /\ pc' = "gate" /\ UNCHANGED <<config, revision, ready, wifiVars, wsVars>>
        /\ state'.has = FALSE
    BY <1>4 DEF Reload, Goto, ForgetServer, Blank, inputs, envVars
  <2>2. ws' = "none" /\ queue' = <<>>
    BY <2>1 DEF Origin, wsVars
  <2>3. Data(stored)' /\ Data(config)'
    BY <2>1, <2>2 DEF Data, OnlyFrom
  <2> QED
    BY <2>1, <2>3 DEF Link, Pass, Origin, NotRead, Active, Current, Clearing, wifiVars
<1> QED
  BY <1>1, <1>2, <1>3, <1>4

(* The rest of the pass.                                                   *)
LEMMA BodyStep ==
  ASSUME TypeOK, Inv,
         \/ Gate \/ Idle \/ Go \/ Check \/ Failed \/ OpenStarts \/ OpenFails \/ NoOpen
         \/ \E w \in BOOLEAN : DrainAccept(w) \/ DrainReject(w)
         \/ Drained \/ Poll \/ Age \/ FetchFails \/ \E dt \in {0, 1} : FetchReturns(dt)
         \/ \E p \in Snapshots, w \in BOOLEAN : FetchOk(p, w)
  PROVE  Inv'
<1>1. CASE Gate
  <2>1. /\ pc = "gate" /\ UNCHANGED <<state, config, revision, ready, wifiVars>>
        /\ CloseThen("idle") \/ (Goto("go") /\ ready)
    BY <1>1 DEF Gate, MustIdle, FeedIdle, feedData, KeepPass, inputs, envVars
  <2>2. pc' \in {"idle", "go", "joining"} /\ (pc' = "joining" => then' = "idle") /\ (pc' = "go" => ready)
    BY <2>1 DEF CloseThen, Goto
  <2>3. \A x : Data(x) => Data(x)'
    BY <2>1, CloseFrom
  <2> QED
    BY <2>1, <2>2, <2>3, PassStep DEF NotRead, Clearing, Active
<1>2. CASE Idle \/ Age
  <2>1. /\ pc \in {"idle", "age"} /\ pc' = "wait" /\ UNCHANGED <<config, revision, ready, wifiVars, wsVars>>
    BY <1>2 DEF Idle, Age, Goto, KeepPass, inputs, envVars
  <2>2. state'.has = state.has /\ state'.src = state.src
    BY <1>2 DEF Idle, Age, AgeState, TypeOK, FeedTypeOK
  <2>3. \A x : Data(x) => Data(x)'
    BY <2>1, <2>2 DEF Data, OnlyFrom, wsVars
  <2> QED
    BY <2>1, <2>3, PassStep DEF NotRead, Clearing, Active
<1>3. CASE Go \/ Check
  <2>1. /\ pc \in {"go", "check"} /\ UNCHANGED <<state, config, revision, ready, wifiVars>>
        /\ \E next \in {"check", "failed", "open"} : (CloseThen(next) /\ next # "open") \/ Goto(next)
    BY <1>3 DEF Go, Check, FeedIdle, feedData, KeepPass, inputs, envVars
  <2>2. /\ pc' \in {"check", "failed", "open", "joining"}
        /\ pc' = "joining" => then' \in {"check", "failed"}
    BY <2>1 DEF CloseThen, Goto
  <2>3. \A x : Data(x) => Data(x)'
    BY <2>1, CloseFrom
  <2> QED
    BY <2>1, <2>2, <2>3, PassStep DEF NotRead, Clearing, Active
<1>4. CASE Failed \/ NoOpen \/ Drained \/ Poll \/ FetchFails \/ \E dt \in {0, 1} : FetchReturns(dt)
  <2>1. /\ pc \in {"failed", "open", "drain", "poll", "fetching", "fetched"}
        /\ pc' \in {"open", "drain", "poll", "fetching", "fetched", "age"}
        /\ UNCHANGED <<config, revision, ready, wifiVars, wsVars>>
    BY <1>4 DEF Failed, NoOpen, Drained, Poll, FetchFails, ScheduleNextPoll, FetchReturns, Goto,
                KeepPass, inputs, envVars
  <2>2. state'.has = state.has /\ state'.src = state.src
    BY <1>4 DEF Failed, NoOpen, Drained, Poll, FetchFails, FetchReturns, SetMode, FeedIdle,
       feedData,
                Elapse, TypeOK, FeedTypeOK
  <2>3. \A x : Data(x) => Data(x)'
    BY <2>1, <2>2 DEF Data, OnlyFrom, wsVars
  <2> QED
    BY <2>1, <2>3, PassStep DEF NotRead, Clearing, Active
<1>5. CASE OpenStarts \/ OpenFails
  <2>1. pc = "open" /\ pc' = "drain" /\ UNCHANGED <<state, config, revision, ready, wifiVars>>
    BY <1>5 DEF OpenStarts, OpenFails, FeedIdle, feedData, KeepPass, inputs, envVars
  <2>2. ASSUME NEW x, Data(x), Active => x = config PROVE Data(x)'
    <3>1. x = config
      BY <2>1, <2>2 DEF Active
    <3>2. CASE OpenStarts
      BY <2>1, <2>2, <3>1, <3>2 DEF OpenStarts, Data, OnlyFrom
    <3>3. CASE OpenFails
      BY <2>1, <2>2, <3>3, ClosedFrom DEF OpenFails
    <3> QED
      BY <1>5, <3>2, <3>3
  <2> QED
    BY <2>1, <2>2, PassStep DEF NotRead, Clearing, Active
<1>6. ASSUME NEW w \in BOOLEAN, DrainAccept(w) \/ DrainReject(w) PROVE Inv'
  <2>1. /\ pc = "drain" /\ pc' = "drain" /\ queue # <<>> /\ queue' = Tail(queue)
        /\ UNCHANGED <<then, ws, wsSrc, config, revision, ready, wifiVars>>
    BY <1>6 DEF DrainAccept, DrainReject, loopVars, inputs, envVars
  <2>2. \/ state'.has = state.has /\ state'.src = state.src
        \/ state'.src = Head(queue).src
    BY <1>6 DEF DrainAccept, DrainReject, AcceptPacket, RejectPacket, AcceptStatus, RejectStatus,
                AcceptAlert, RejectAlert, Committed, Snapshot, FeedIdle, feedData, TypeOK, FeedTypeOK
  <2>3. ASSUME NEW x, Data(x) PROVE Data(x)'
    <3>1. Head(queue).src = x /\ OnlyFrom(Tail(queue), x)
      BY <2>1, <2>3, QueueFrom DEF Data, TypeOK, WsTypeOK
    <3> QED
      BY <2>1, <2>2, <2>3, <3>1 DEF Data
  <2> QED
    BY <2>1, <2>3, PassStep DEF NotRead, Clearing, Active
<1>7. ASSUME NEW p \in Snapshots, NEW w \in BOOLEAN, FetchOk(p, w) PROVE Inv'
  <2>1. /\ pc = "fetched" /\ pc' = "age" /\ p.src = config
        /\ UNCHANGED <<config, revision, ready, wifiVars, wsVars>>
    BY <1>7 DEF FetchOk, ScheduleNextPoll, Goto, inputs, envVars
  <2>2. \/ state'.has = state.has /\ state'.src = state.src
        \/ state'.src = p.src
    BY <1>7 DEF FetchOk, AcceptStatus, RejectStatus, Committed, TypeOK, FeedTypeOK
  <2>3. ASSUME NEW x, Data(x), Active => x = config PROVE Data(x)'
    <3>1. x = config
      BY <2>1, <2>3 DEF Active
    <3> QED
      BY <2>1, <2>2, <2>3, <3>1 DEF Data, OnlyFrom, wsVars
  <2> QED
    BY <2>1, <2>3, PassStep DEF NotRead, Clearing, Active
<1> QED
  BY <1>1, <1>2, <1>3, <1>4, <1>5, <1>6, <1>7

(* Whatever the client's task delivers comes from the server the client    *)
(* was built for.                                                          *)
LEMMA CallbackStep == ASSUME TypeOK, Inv, WsStep PROVE Inv'
<1>1. UNCHANGED <<loopVars, envVars, state>> /\ ws # "none" /\ wsSrc' = wsSrc
  <2>1. ASSUME NEW p, CbMessage(p) PROVE UNCHANGED <<loopVars, envVars, state>> /\ ws # "none" /\ wsSrc' = wsSrc
    BY <2>1 DEF CbMessage, CbUnchanged, FeedIdle, feedData
  <2> QED
    BY <2>1 DEF WsStep, CbConnected, CbDown, CbFragment, CbRejected, CbIgnored, CbUnchanged,
       FeedIdle,
                feedData
<1>2. ASSUME NEW x, Data(x) PROVE Data(x)'
  <2>1. OnlyFrom(queue', x)
    <3>1. CASE queue' = queue
      BY <1>2, <3>1 DEF Data
    <3>2. ASSUME NEW p \in Packets, p.src = wsSrc, queue' = Append(queue, p) PROVE OnlyFrom(queue', x)
      BY <1>1, <1>2, <3>2, QueueFrom DEF Data, TypeOK, WsTypeOK
    <3>3. queue' = queue \/ \E p \in Packets : p.src = wsSrc /\ queue' = Append(queue, p)
      <4>1. ASSUME NEW p \in Packets, CbMessage(p)
            PROVE  queue' = queue \/ (p.src = wsSrc /\ queue' = Append(queue, p))
        BY <4>1 DEF CbMessage, QueueFull
      <4> QED
        BY <4>1 DEF WsStep, CbConnected, CbDown, CbFragment, CbRejected, CbIgnored
    <3> QED
      BY <3>1, <3>2, <3>3
  <2> QED
    BY <1>1, <1>2, <2>1 DEF Data
<1>3. (Data(stored) => Data(stored)') /\ (Data(config) => Data(config)')
  <2>1. UNCHANGED <<stored, config>>
    BY <1>1 DEF loopVars, inputs, envVars, wifiVars
  <2>2. PICK x, y : x = stored /\ y = config
    OBVIOUS
  <2>3. (Data(x) => Data(x)') /\ (Data(y) => Data(y)')
    BY <1>2
  <2> QED
    BY <2>1, <2>2, <2>3 DEF Data
<1> QED
  BY <1>1, <1>3 DEF Inv, Link, Pass, Origin, NotRead, Active, Current, Clearing, loopVars, inputs,
                    envVars, wifiVars

(* The Wi-Fi worker: what is stored changes only without an address, and   *)
(* no address comes before the monitor has blocked again.                  *)
LEMMA WifiInvStep == ASSUME TypeOK, Inv, WifiStep PROVE Inv'
<1> USE DEF Inv
<1>1. UNCHANGED <<loopVars, wsVars, state>>
  <2>1. ASSUME NEW s, FormPosted(s) PROVE UNCHANGED <<loopVars, wsVars, state>>
    BY <2>1 DEF FormPosted, WifiUnchanged, FeedIdle, feedData
  <2> QED
    BY <2>1 DEF WifiStep, PortalOpens, SaveConfig, SaveFails, PublishConfig, PortalCloses, LinkUp,
                LinkDown, ClockSet, WifiUnchanged, FeedIdle, feedData
<1>2. /\ UNCHANGED <<pc, then, config, revision, ready>> /\ (Active' <=> Active)
      /\ (Clearing' <=> Clearing) /\ (NotRead' <=> NotRead)
      /\ revision \in Nat /\ viewRev \in Nat
  BY <1>1 DEF loopVars, inputs, Active, Clearing, NotRead, TypeOK, LoopTypeOK, EnvTypeOK
<1>3. Link'
  <2>1. CASE PortalOpens \/ LinkDown \/ ClockSet \/ PortalCloses
    BY <1>2, <2>1 DEF Link, PortalOpens, LinkDown, ClockSet, PortalCloses
  <2>2. ASSUME NEW s, FormPosted(s) PROVE Link'
    BY <1>2, <2>2 DEF Link, FormPosted
  <2>3. CASE SaveConfig \/ SaveFails \/ PublishConfig
    BY <1>2, <2>3 DEF Link, SaveConfig, SaveFails, PublishConfig
  <2>4. CASE LinkUp
    BY <1>2, <2>4 DEF Link, LinkUp, Blocked
  <2> QED
    BY <2>1, <2>2, <2>3, <2>4 DEF WifiStep
<1>4. Current' => Current /\ stored' = stored
  <2>1. CASE PortalOpens \/ LinkDown \/ ClockSet \/ PortalCloses \/ LinkUp \/ SaveFails
    BY <1>2, <2>1 DEF Current, PortalOpens, LinkDown, ClockSet, PortalCloses, LinkUp, SaveFails
  <2>2. ASSUME NEW s, FormPosted(s) PROVE Current' => Current /\ stored' = stored
    BY <1>2, <2>2 DEF Current, FormPosted
  <2>3. CASE SaveConfig \/ PublishConfig
    BY <1>2, <2>3 DEF Current, Link, SaveConfig, PublishConfig
  <2> QED
    BY <2>1, <2>2, <2>3 DEF WifiStep
<1>5. Pass'
  BY <1>2, <1>4 DEF Pass
<1>6. Origin'
  <2>1. Data(config) <=> Data(config)'
    BY <1>1, <1>2 DEF Data, OnlyFrom, wsVars
  <2>2. stored' = stored => (Data(stored) <=> Data(stored)')
    BY <1>1 DEF Data, OnlyFrom, wsVars
  <2> QED
    BY <1>1, <1>2, <1>4, <2>1, <2>2 DEF Origin, wsVars
<1> QED
  BY <1>3, <1>5, <1>6

LEMMA InvStep == TypeOK /\ Inv /\ [Next]_vars => Inv'
<1> SUFFICES ASSUME TypeOK, Inv, [Next]_vars PROVE Inv'
  OBVIOUS
<1>1. CASE OtaStep \/ Refresh \/ UNCHANGED vars
  <2>1. UNCHANGED <<loopVars, wsVars, state, wifiVars>>
    BY <1>1 DEF OtaStep, OtaPauses, OtaConnects, OtaGivesUp, OtaReleases, OtaInstalls,
       OtaUnchanged,
                Refresh, FeedIdle, feedData, vars, feedVars, envVars
  <2>2. (Data(stored) <=> Data(stored)') /\ (Data(config) <=> Data(config)')
    BY <2>1 DEF Data, OnlyFrom, wsVars, wifiVars, loopVars, inputs
  <2> QED
    BY <2>1, <2>2 DEF Inv, Link, Pass, Origin, NotRead, Active, Current, Clearing, loopVars,
       inputs,
                      wsVars, wifiVars
<1>2. CASE MonitorStep
  BY <1>2, HeadStep, BodyStep DEF MonitorStep
<1> QED
  BY <1>1, <1>2, CallbackStep, WifiInvStep DEF Next

-----------------------------------------------------------------------------
(* server_monitor.c, monitor_wifi.c: whatever is reconfigured at whatever  *)
(* moment, in a pass that uses the network everything on display, queued   *)
(* and on the wire is from the server of the configuration the pass read.  *)
THEOREM ServersNeverMix == Spec => []OneServer
<1>1. Inv => OneServer
  BY DEF Inv, Origin, OneServer, Data, OnlyFrom
<1> QED
  BY <1>1, Start, InvStep, TypeCorrect, PTL DEF Spec

-----------------------------------------------------------------------------
(* The silence of a session saturates one past the deadline, so that time  *)
(* alone never shortens it.                                                *)
Silence == silent <= ZombieTicks + 1

LEMMA SilenceStep ==
  ASSUME TypeOK, FeedInv, Silence, [Next]_vars
  PROVE  /\ Silence'
         /\ ws # "none" /\ ws' # "none" /\ silent' < silent
              => state'.stamp # state.stamp \/ alertStamp' # alertStamp
<1> USE MonitorAssumption DEF Silence
<1>0. silent \in Int /\ lag \in Nat
  BY DEF TypeOK, LoopTypeOK
<1>1. CASE silent' = silent
  BY <1>0, <1>1
<1>2. CASE silent' = 0 /\ (ws = "none" \/ ws' = "none")
  BY <1>2
<1>3. ASSUME NEW dt \in {0, 1}, Wake(dt)
      PROVE  (silent' = 0 /\ ws = "none") \/ (ws # "none" /\ Silence' /\ ~(silent' < silent))
  BY <1>0, <1>3 DEF Wake
<1>4. ASSUME NEW w \in BOOLEAN, DrainAccept(w)
      PROVE  Silence' /\ (state'.stamp # state.stamp \/ alertStamp' # alertStamp)
  <2>1. Silence'
    BY <1>0, <1>4 DEF DrainAccept
  <2>2. Head(queue) \in Packets
    BY <1>4, HeadTyped DEF DrainAccept, TypeOK
  <2>3. CASE AcceptStatus(Snapshot(Head(queue)), "LIVE_WSS", w)
    <3>1. PICK fresh \in Snapshots : fresh = Snapshot(Head(queue)) /\ AcceptStatus(fresh, "LIVE_WSS", w)
      BY <2>2, <2>3, SnapshotTyped
    <3>2. fresh.stamp \in Stamps /\ state'.stamp = fresh.stamp /\ (~state.has \/ Newer(fresh.stamp, state.stamp))
      BY <3>1 DEF AcceptStatus, Accepts, Committed, Snapshots
    <3>3. Newer(fresh.stamp, state.stamp)
      BY <3>2, NewerThanNone DEF FeedInv, EmptyIsBlank
    <3>4. state.stamp \in AllStamps
      BY DEF TypeOK, FeedTypeOK
    <3>5. fresh.stamp # state.stamp
      BY <3>2, <3>3, <3>4, FeedAssumption DEF Newer, AllStamps, NoStamp
    <3> QED
      BY <2>1, <3>2, <3>5
  <2>4. CASE AcceptAlert(Head(queue).stamp, w)
    <3>1. Newer(alertStamp', alertStamp) /\ alertStamp' \in Stamps /\ alertStamp \in AllStamps
      BY <2>2, <2>4 DEF AcceptAlert, Packets, TypeOK, FeedTypeOK
    <3>2. alertStamp' # alertStamp
      BY <3>1, FeedAssumption DEF Newer, AllStamps, NoStamp
    <3> QED
      BY <2>1, <3>2
  <2> QED
    BY <1>4, <2>3, <2>4 DEF DrainAccept, AcceptPacket
<1>a. ASSUME NEW next, Goto(next) PROVE silent' = silent
  BY <1>a DEF Goto
<1>b. ASSUME NEW next, CloseThen(next) PROVE silent' = silent \/ (silent' = 0 /\ ws' = "none")
  BY <1>b DEF CloseThen, ClearSession
<1>5. CASE ReadRevision \/ Gate \/ Go \/ Check
  BY <1>1, <1>2, <1>5, <1>a, <1>b DEF ReadRevision, Gate, Go, Check
<1>6. CASE Reload \/ Idle \/ Failed \/ NoOpen \/ Drained \/ Poll \/ ScheduleNextPoll \/ Age
  BY <1>1, <1>6, <1>a DEF Reload, Idle, Failed, NoOpen, Drained, Poll, ScheduleNextPoll, Age
<1>7. ASSUME NEW dt \in {0, 1}, JoinDone(dt) \/ FetchReturns(dt)
      PROVE  silent' = silent \/ (silent' = 0 /\ ws' = "none")
  BY <1>7, <1>a DEF JoinDone, FetchReturns, ClearSession
<1>8. CASE OpenStarts \/ OpenFails
  BY <1>2, <1>8 DEF OpenStarts, OpenFails, WantsSession, ClearSession
<1>9. ASSUME NEW w \in BOOLEAN, DrainReject(w) PROVE silent' = silent
  BY <1>9 DEF DrainReject, loopVars
<1>10. CASE WsStep
  <2>1. ASSUME NEW p, CbMessage(p) PROVE silent' = silent
    BY <2>1 DEF CbMessage, CbUnchanged, loopVars
  <2> QED
    BY <1>1, <1>10, <2>1 DEF WsStep, CbConnected, CbDown, CbFragment, CbRejected, CbIgnored,
       CbUnchanged,
                             loopVars
<1>11. CASE WifiStep
  <2>1. ASSUME NEW s, FormPosted(s) PROVE silent' = silent
    BY <2>1 DEF FormPosted, WifiUnchanged, loopVars
  <2> QED
    BY <1>1, <1>11, <2>1 DEF WifiStep, PortalOpens, SaveConfig, SaveFails, PublishConfig,
       PortalCloses,
                             LinkUp, LinkDown, ClockSet, WifiUnchanged, loopVars
<1>12. CASE OtaStep \/ Refresh \/ UNCHANGED vars
  BY <1>1, <1>12 DEF OtaStep, OtaPauses, OtaConnects, OtaGivesUp, OtaReleases, OtaInstalls,
     OtaUnchanged,
                     Refresh, loopVars, vars
<1> QED
  BY <1>1, <1>2, <1>3, <1>4, <1>5, <1>6, <1>7, <1>8, <1>9, <1>10, <1>11, <1>12
     DEF Next, MonitorStep, FetchOk, FetchFails

(* The zombie deadline of server_monitor_task: a session is kept alive     *)
(* only by a snapshot or an alert that is new.                             *)
THEOREM OnlyNewDataCounts == Spec => OnlyDataKeepsAlive
<1> DEFINE Kept == ws # "none" /\ ws' # "none" /\ silent' < silent
                     => state'.stamp # state.stamp \/ alertStamp' # alertStamp
<1>1. Init => Silence
  <2> SUFFICES ASSUME Init PROVE Silence
    OBVIOUS
  <2>1. silent = 0
    BY DEF Init
  <2> QED
    BY <2>1, MonitorAssumption DEF Silence
<1>2. TypeOK /\ FeedInv /\ Silence /\ [Next]_vars => Silence' /\ [Kept]_vars
  BY SilenceStep
<1>3. Spec => []FeedInv
  BY ImplementsFeed, FeedInvariant, PTL
<1> QED
  BY <1>1, <1>2, <1>3, TypeCorrect, PTL DEF Spec, OnlyDataKeepsAlive
=============================================================================
