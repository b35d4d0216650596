----------------------------- MODULE WifiWorker -----------------------------
(***************************************************************************)
(* main/monitor_wifi.c: the Wi-Fi worker, its setup portal, and the event  *)
(* handler that tells it what the driver did.                              *)
(*                                                                         *)
(* The worker takes one command or waits 100 ms, then looks at the portal  *)
(* and at the two event bits.  Handlers of the driver's events run above   *)
(* it and between any two of its steps.  Times are counted down in ticks   *)
(* of about two seconds; 0 is "reached".  Signal strength, address, SNTP,  *)
(* screen messages and voice events are left out, and so is                *)
(* WIFI_CMD_RECONNECT, which nothing sends.                                *)
(*                                                                         *)
(* The driver (ESP-IDF, external) takes a tick or more to bring the        *)
(* station up, may fail or stay without an address for ever, and reports a *)
(* disconnection asked for some time after the call.  When the environment *)
(* has become calm it joins at once, answers DHCP and drops nothing.       *)
(***************************************************************************)
EXTENDS Integers, Sequences

CONSTANTS
  Depth,      \* xQueueCreate(2, ...)
  SetupTicks, \* the portal's 300 s
  JoinTicks,  \* the 20 s a connection attempt may take
  Retry,      \* Retry[n]: wifi_retry_seconds(n), in ticks
  MaxFailures \* failures < 4

WifiAssumption ==
  /\ Depth \in Nat \ {0} /\ SetupTicks \in Nat \ {0}
  /\ JoinTicks \in Nat \ {0, 1} /\ MaxFailures \in Nat
  /\ Retry \in [0 .. MaxFailures -> Nat \ {0}]

VARIABLES
  cmds,       \* s_commands
  pc,         \* the worker's place in its loop
  got, lost,  \* the event bits GOT_IP and LOST_IP
  bits,       \* the copy the worker took of them
  httpd,      \* s_httpd # NULL
  dns,        \* captive_dns_enable's switch
  setupLeft,  \* until setup_deadline
  provisioning, connected, \* of s_view
  connecting, joinLeft,    \* connecting, until connect_deadline
  next,       \* until the next attempt
  failures,
  valid,      \* the saved configuration is complete
  sta,        \* the driver's station: "idle", "asked", "joining", "joined", "up"
  leaving,    \* a disconnection asked for and not reported yet
  calm        \* the environment behaves from here on

bitVars == <<got, lost>>
portal == <<httpd, dns, setupLeft, provisioning>>
attempt == <<connecting, joinLeft, next, failures>>
driver == <<sta, leaving>>
vars == <<cmds, pc, bitVars, bits, portal, connected, attempt, valid, driver, calm>>

NoBits == [got |-> FALSE, lost |-> FALSE]

Init ==
  /\ cmds = <<>> /\ pc = "boot" /\ got = FALSE /\ lost = FALSE /\ bits = NoBits
  /\ httpd = FALSE /\ dns = FALSE /\ setupLeft = 0 /\ provisioning = FALSE
  /\ connected = FALSE /\ connecting = FALSE /\ joinLeft = 0 /\ next = 0 /\ failures = 0
  /\ valid \in BOOLEAN /\ sta = "idle" /\ leaving = FALSE /\ calm = FALSE

-----------------------------------------------------------------------------
(* The other side of the queue: the setup key, and a phone's form, which   *)
(* is refused unless it carries the nonce of the portal that is open.      *)
Send(c) == Len(cmds) < Depth /\ cmds' = Append(cmds, c)

AskSetup ==
  /\ ~calm /\ pc # "boot" /\ Send("setup")
  /\ UNCHANGED <<pc, bitVars, bits, portal, connected, attempt, valid, driver, calm>>

PostForm ==
  /\ ~calm /\ httpd /\ Send("config")
  /\ UNCHANGED <<pc, bitVars, bits, portal, connected, attempt, valid, driver, calm>>

-----------------------------------------------------------------------------
(* The driver and wifi_event().                                            *)
GotIp == got' = TRUE /\ lost' = FALSE
\* Mutant: the handler leaves the bit of the address standing.
LostOnly == lost' = TRUE /\ UNCHANGED got
LostIp == got' = FALSE /\ lost' = TRUE

Driver(s) ==
  /\ sta' = s
  /\ UNCHANGED <<cmds, pc, bits, portal, connected, attempt, valid, leaving, calm>>

Associate == sta = "joining" /\ ~leaving /\ Driver("joined") /\ UNCHANGED bitVars
Lease == sta = "joined" /\ Driver("up") /\ GotIp
Settle == Associate \/ Lease

JoinFails == ~calm /\ sta \in {"asked", "joining"} /\ ~leaving /\ Driver("idle") /\ LostIp
LinkDrops == ~calm /\ sta \in {"joined", "up"} /\ Driver("idle") /\ LostIp
LeaseEnds == ~calm /\ sta = "up" /\ Driver("joined") /\ LostIp

Left ==
  /\ leaving /\ leaving' = FALSE /\ LostIp
  /\ UNCHANGED <<cmds, pc, bits, portal, connected, attempt, valid, sta, calm>>

CalmDown ==
  /\ ~calm /\ calm' = TRUE
  /\ UNCHANGED <<cmds, pc, bitVars, bits, portal, connected, attempt, valid, driver>>

(* Time passes while the worker waits, scans, or has answered a form that  *)
(* left the portal open.  The rest of a pass takes no time worth counting, *)
(* and a command that waits is taken at once.                              *)
Less(n) == IF n > 0 THEN n - 1 ELSE 0
Tick ==
  /\ \/ pc = "wait" /\ cmds = <<>>
     \/ pc = "scan"
     \/ pc = "look" /\ httpd
  /\ calm => sta \notin {"joining", "joined"} /\ ~leaving
  /\ setupLeft' = Less(setupLeft) /\ joinLeft' = Less(joinLeft) /\ next' = Less(next)
  /\ sta' = IF sta = "asked" THEN "joining" ELSE sta
  /\ UNCHANGED <<cmds, pc, bitVars, bits, httpd, dns, provisioning, connected,
                 connecting, failures, valid, leaving, calm>>

-----------------------------------------------------------------------------
(* Helpers of the worker.  esp_wifi_disconnect(): if the station was doing *)
(* anything, the report follows.                                           *)
Disconnect ==
  /\ sta' = "idle"
  /\ leaving' = (leaving \/ sta # "idle")

ClearBits == got' = FALSE /\ lost' = FALSE
PortalDown == httpd' = FALSE /\ dns' = FALSE /\ provisioning' = FALSE

\* Mutant: the portal opens without taking the station off the air.
StayConnected == UNCHANGED driver
(* portal_start, first half: disconnect, clear the bits, scan for networks *)
(* (some seconds).  An open portal is stopped first.                       *)
Isolate == Disconnect
PortalStart ==
  /\ Isolate /\ ClearBits /\ PortalDown /\ pc' = "scan" /\ UNCHANGED setupLeft

\* Mutant: a failed registration returns without portal_stop.
NoCleanup == httpd' = TRUE /\ ClearBits /\ UNCHANGED <<dns, provisioning, setupLeft>>
(* Second half: the access point, the HTTP server and its four handlers.   *)
(* Any of them may fail, and everything is taken down again.               *)
Cleanup == PortalDown /\ ClearBits /\ UNCHANGED setupLeft

PortalReady(ok) ==
  /\ pc = "scan" /\ pc' = "look" /\ connecting' = FALSE
  /\ IF ok
     THEN /\ httpd' = TRUE /\ dns' = TRUE /\ provisioning' = TRUE
          /\ setupLeft' = SetupTicks /\ connected' = FALSE /\ UNCHANGED bitVars
     ELSE Cleanup /\ UNCHANGED connected
  /\ UNCHANGED <<cmds, bits, joinLeft, next, failures, valid, driver, calm>>

Boot ==
  /\ pc = "boot"
  /\ IF valid THEN pc' = "wait" /\ UNCHANGED <<bitVars, portal, driver>> ELSE PortalStart
  /\ UNCHANGED <<cmds, bits, connected, attempt, valid, calm>>

TakeSetup ==
  /\ pc = "wait" /\ cmds # <<>> /\ Head(cmds) = "setup" /\ cmds' = Tail(cmds)
  /\ PortalStart
  /\ UNCHANGED <<bits, connected, attempt, valid, calm>>

(* A form: saved and published, the portal closed, the station next; or    *)
(* not saved, and everything as before.                                    *)
TakeForm(saved) ==
  /\ pc = "wait" /\ cmds # <<>> /\ Head(cmds) = "config" /\ cmds' = Tail(cmds)
  /\ pc' = "look"
  /\ IF saved
     THEN /\ valid' = TRUE /\ PortalDown /\ ClearBits
          /\ next' = 0 /\ connecting' = FALSE
     ELSE UNCHANGED <<valid, httpd, dns, provisioning, bitVars, next, connecting>>
  /\ UNCHANGED <<bits, setupLeft, connected, joinLeft, failures, driver, calm>>

NoCommand ==
  /\ pc = "wait" /\ cmds = <<>> /\ pc' = "look"
  /\ UNCHANGED <<cmds, bitVars, bits, portal, connected, attempt, valid, driver, calm>>

\* Mutant: the portal stays for as long as the device has no configuration.
ExpiresIfSet == setupLeft = 0 /\ valid
(* An open portal ends the pass, until its time is over.                   *)
Expires == setupLeft = 0

Sample == bits' = [got |-> got', lost |-> lost'] /\ connected' = got' /\ pc' = "act"

Look ==
  /\ pc = "look"
  /\ \/ httpd /\ ~Expires /\ pc' = "wait" /\ UNCHANGED <<bits, connected, next, portal, bitVars>>
     \/ /\ httpd /\ Expires
        /\ PortalDown /\ ClearBits /\ next' = Retry[0] /\ UNCHANGED setupLeft /\ Sample
     \/ ~httpd /\ UNCHANGED <<next, portal, bitVars>> /\ Sample
  /\ UNCHANGED <<cmds, connecting, joinLeft, failures, valid, driver, calm>>

\* Mutant: the limit is forgotten.
MoreAndMore == failures + 1
(* The rest of the pass works on the copy, in up to three steps: a lost    *)
(* link, an attempt out of time, and the next attempt.                     *)
More == IF failures < MaxFailures THEN failures + 1 ELSE failures

Act ==
  /\ pc = "act" /\ bits.got
  /\ failures' = 0 /\ connecting' = FALSE /\ pc' = "wait"
  /\ UNCHANGED <<cmds, bitVars, bits, portal, connected, joinLeft, next, valid, driver, calm>>

\* Mutant: both bits are cleared, an address that came meanwhile with them.
ClearBoth == lost' = FALSE /\ got' = FALSE
ClearLost == lost' = FALSE /\ UNCHANGED got

HandleLost ==
  /\ pc = "act" /\ ~bits.got /\ pc' = "deadline"
  /\ IF bits.lost
     THEN ClearLost /\ next' = Retry[failures] /\ failures' = More /\ connecting' = FALSE
     ELSE UNCHANGED <<bitVars, next, failures, connecting>>
  /\ UNCHANGED <<cmds, bits, portal, connected, joinLeft, valid, driver, calm>>

HandleDeadline ==
  /\ pc = "deadline" /\ pc' = "retry"
  /\ IF connecting /\ joinLeft = 0
     THEN Disconnect /\ connecting' = FALSE /\ next' = Retry[failures] /\ failures' = More
     ELSE UNCHANGED <<driver, connecting, next, failures>>
  /\ UNCHANGED <<cmds, bitVars, bits, portal, connected, joinLeft, valid, calm>>

(* connect_station(): without a configuration, or if the driver refuses    *)
(* (as it may when the station is not idle), there is no attempt.          *)
Connect(ok) ==
  /\ pc = "retry" /\ pc' = "wait"
  /\ calm /\ sta = "idle" => ok
  /\ IF ~connecting /\ next = 0
     THEN /\ connecting' = (valid /\ ok)
          /\ sta' = IF valid /\ ok /\ sta = "idle" THEN "asked" ELSE sta
          /\ joinLeft' = JoinTicks /\ next' = Retry[failures]
          /\ failures' = IF valid /\ ok THEN failures ELSE More
     ELSE UNCHANGED <<sta, attempt>>
  /\ UNCHANGED <<cmds, bitVars, bits, portal, connected, valid, leaving, calm>>

Worker ==
  \/ Boot \/ TakeSetup \/ NoCommand \/ Look \/ Act \/ HandleLost \/ HandleDeadline
  \/ \E ok \in BOOLEAN : PortalReady(ok) \/ TakeForm(ok) \/ Connect(ok)

Next ==
  \/ AskSetup \/ PostForm \/ Settle \/ JoinFails \/ LinkDrops \/ LeaseEnds \/ Left
  \/ CalmDown \/ Tick \/ Worker

(* The worker waits for nothing but its own polls, and time passes in      *)
(* them (each is too short for a tick of its own: strong fairness); the    *)
(* driver's report follows a disconnection.  A join and a lease come for   *)
(* certain only when the air is calm.                                      *)
Spec == Init /\ [][Next]_vars /\ WF_vars(Worker) /\ SF_vars(Tick) /\ WF_vars(Left)
             /\ WF_vars(calm /\ Settle)

-----------------------------------------------------------------------------
(* Types: the queue within its depth, the retry index within its table.    *)
TypeOK ==
  /\ cmds \in Seq({"setup", "config"}) /\ Len(cmds) <= Depth
  /\ pc \in {"boot", "scan", "wait", "look", "act", "deadline", "retry"}
  /\ got \in BOOLEAN /\ lost \in BOOLEAN /\ bits \in [got : BOOLEAN, lost : BOOLEAN]
  /\ httpd \in BOOLEAN /\ dns \in BOOLEAN /\ setupLeft \in Nat /\ provisioning \in BOOLEAN
  /\ connected \in BOOLEAN /\ connecting \in BOOLEAN /\ joinLeft \in Nat /\ next \in Nat
  /\ failures \in 0 .. MaxFailures /\ valid \in BOOLEAN
  /\ sta \in {"idle", "asked", "joining", "joined", "up"} /\ leaving \in BOOLEAN /\ calm \in BOOLEAN

(* README "the STA is disconnected during setup": while the portal is      *)
(* offered the station does nothing and is not shown as connected, through *)
(* forms, failed saves, late driver events and restarts of the portal.     *)
SetupIsolated == provisioning => sta = "idle" /\ ~connected

(* Between two passes the portal is all there or all gone: HTTP server,    *)
(* DNS answers and the setup screen, on every path by which opening fails. *)
PortalWhole == pc = "wait" => httpd = provisioning /\ dns = provisioning

(* README "Setup closes after five minutes": an open portal always closes, *)
(* whatever its visitors post.                                             *)
SetupCloses == httpd ~> ~httpd

(* A link that is gone does not stay on display as connected.              *)
LossShown == (connected /\ sta # "up") ~> (~connected \/ sta = "up")

(* Once the air is calm and a configuration is saved the device ends up    *)
(* connected, and knows it: no leftover bit, timer or flag of the attempts *)
(* before can keep it from trying or from noticing.                        *)
StationServed == <>[](calm /\ valid) => <>[](connected /\ sta = "up")

(* Setup mode as a whole: the portal is there completely or not at all,    *)
(* and the station is silent behind it.                                    *)
SetupSafe == TypeOK /\ SetupIsolated /\ PortalWhole

(* The link as a whole: shown when it is lost, and found again.            *)
StationKept == LossShown /\ StationServed
=============================================================================
