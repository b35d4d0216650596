---------------------------- MODULE HttpDeadline ----------------------------
(***************************************************************************)
(* fetch() and deadline_task() of main/server_monitor.c: a worker that     *)
(* ends a slow HTTPS exchange by shutting down its socket, by number, from *)
(* outside.  Numbers are reused as soon as a socket is closed, by the next *)
(* exchange or by any other task of the firmware.                          *)
(*                                                                         *)
(* The server may be slow, silent, or send one byte at a time: a read      *)
(* returns when it likes, and at once when the socket has been shut down.  *)
(* Times are ticks that are left; a deadline of 0 has passed.              *)
(***************************************************************************)
EXTENDS Integers, FiniteSets

CONSTANTS
  Sockets,  \* socket numbers
  Patience, \* the three seconds of an exchange, in ticks
  MaxBody   \* SERVER_JSON_MAX

DeadlineAssumption == Sockets \subseteq Nat /\ Patience \in Nat \ {0} /\ MaxBody \in Nat \ {0}

None == -1

VARIABLES
  owner,    \* owner[n]: "free", "fetch" or "other"
  cut,      \* sockets that have been shut down
  lock,     \* s_deadline_lock
  active,   \* s_active_socket
  due,      \* until s_deadline
  fetching, \* where fetch() is
  sock,     \* the socket of its client
  left,     \* until its own deadline
  used,     \* bytes of the body
  declared, \* the length the header announced
  worker    \* where deadline_task is

fetchVars == <<fetching, sock, left, used, declared>>
vars == <<owner, cut, lock, active, due, fetchVars, worker>>

Init ==
  /\ owner \in [Sockets -> {"free", "other"}] /\ cut = {} /\ lock = "free"
  /\ active = None /\ due = 0 /\ fetching = "idle" /\ sock = None /\ left = 0
  /\ used = 0 /\ declared = 0 /\ worker = "sleep"

-----------------------------------------------------------------------------
(* The rest of the firmware, and time.                                     *)

OtherOpens(n) ==
  /\ owner[n] = "free" /\ owner' = [owner EXCEPT ![n] = "other"]
  /\ UNCHANGED <<cut, lock, active, due, fetchVars, worker>>

OtherCloses(n) ==
  /\ owner[n] = "other" /\ owner' = [owner EXCEPT ![n] = "free"] /\ cut' = cut \ {n}
  /\ UNCHANGED <<lock, active, due, fetchVars, worker>>

Less(n) == IF n > 0 THEN n - 1 ELSE 0
Tick ==
  /\ due' = Less(due) /\ left' = Less(left)
  /\ UNCHANGED <<owner, cut, lock, active, fetching, sock, used, declared, worker>>

-----------------------------------------------------------------------------
(* fetch()                                                                 *)

Fetch(from, to) == fetching = from /\ fetching' = to

\* esp_http_client_open, which has timeouts of its own.
Open ==
  /\ fetching = "idle" /\ left' \in 0 .. Patience /\ used' = 0 /\ declared' = 0
  /\ \/ \E n \in Sockets :
          /\ owner[n] = "free" /\ owner' = [owner EXCEPT ![n] = "fetch"]
          /\ sock' = n /\ fetching' = "arm"
     \/ fetching' = "disarm" /\ UNCHANGED <<owner, sock>>
  /\ UNCHANGED <<cut, lock, active, due, worker>>

\* Mutant: the socket is armed without the lock.
Unlocked == TRUE
Lockable == lock = "free"

ArmTake ==
  /\ Fetch("arm", "socket") /\ Lockable /\ lock' = "fetch"
  /\ UNCHANGED <<owner, cut, active, due, sock, left, used, declared, worker>>
ArmSocket ==
  /\ Fetch("socket", "deadline") /\ active' = sock
  /\ UNCHANGED <<owner, cut, lock, due, sock, left, used, declared, worker>>
ArmDeadline ==
  /\ Fetch("deadline", "headers") /\ due' = left /\ lock' = "free"
  /\ UNCHANGED <<owner, cut, active, sock, left, used, declared, worker>>

\* remaining(), and headers that come, or do not.
Headers ==
  /\ fetching = "headers"
  /\ \/ left > 0 /\ sock \notin cut /\ declared' \in 0 .. MaxBody + 2
        /\ fetching' = IF declared' > MaxBody THEN "disarm" ELSE "body"
     \/ fetching' = "disarm" /\ UNCHANGED declared
  /\ UNCHANGED <<owner, cut, lock, active, due, sock, left, used, worker>>

\* Mutant: the limit is looked at after one byte more.
FitsWithOneMore(n) == n <= MaxBody + 1
Fits(n) == n <= MaxBody

(* One byte; a body without a declared length ends when the server says.   *)
Body ==
  /\ fetching = "body"
  /\ \/ left > 0 /\ sock \notin cut /\ used' = used + 1
        /\ fetching' = IF Fits(used') THEN "body" ELSE "disarm"
     \/ fetching' = "disarm" /\ UNCHANGED used
  /\ UNCHANGED <<owner, cut, lock, active, due, sock, left, declared, worker>>

\* disarm_deadline()
DisarmTake ==
  /\ Fetch("disarm", "clear") /\ Lockable /\ lock' = "fetch"
  /\ UNCHANGED <<owner, cut, active, due, sock, left, used, declared, worker>>
\* Mutant: the number stays armed.
StaysArmed == active
Disarmed == None
DisarmClear ==
  /\ Fetch("clear", "close") /\ active' = Disarmed /\ lock' = "free"
  /\ UNCHANGED <<owner, cut, due, sock, left, used, declared, worker>>

\* esp_http_client_close, and the number is free.
Close ==
  /\ Fetch("close", "idle") /\ sock' = None
  /\ owner' = [n \in Sockets |-> IF n = sock THEN "free" ELSE owner[n]]
  /\ cut' = cut \ {sock}
  /\ UNCHANGED <<lock, active, due, left, used, declared, worker>>

-----------------------------------------------------------------------------
(* deadline_task()                                                         *)

Take ==
  /\ worker = "sleep" /\ lock = "free" /\ lock' = "worker" /\ worker' = "look"
  /\ UNCHANGED <<owner, cut, active, due, fetchVars>>

\* Mutant: a socket is cut only while there is time left.
WhileTime == due > 0
Passed == due = 0
Look ==
  /\ worker = "look"
  /\ IF active # None /\ Passed THEN worker' = "shut" /\ UNCHANGED lock
                                ELSE worker' = "sleep" /\ lock' = "free"
  /\ UNCHANGED <<owner, cut, active, due, fetchVars>>

\* shutdown() on a number nobody has open fails and does nothing.
Shut ==
  /\ worker = "shut" /\ worker' = "sleep" /\ lock' = "free" /\ active' = None
  /\ cut' = IF active # None /\ owner[active] # "free" THEN cut \cup {active} ELSE cut
  /\ UNCHANGED <<owner, due, fetchVars>>

-----------------------------------------------------------------------------
Worker == Take \/ Look \/ Shut
\* What does not wait for the server.
Own == Open \/ ArmSocket \/ ArmDeadline \/ DisarmClear \/ Close
Reads == Headers \/ Body
Next ==
  \/ Tick \/ Worker \/ Own \/ ArmTake \/ DisarmTake \/ Reads
  \/ \E n \in Sockets : OtherOpens(n) \/ OtherCloses(n)

(* The mutex serves those who wait for it; a read returns when its socket  *)
(* has been shut down; nothing else is assumed of the server.              *)
Spec ==
  /\ Init /\ [][Next]_vars /\ WF_vars(Tick) /\ WF_vars(Look \/ Shut) /\ SF_vars(Take)
  /\ WF_vars(Own) /\ SF_vars(ArmTake) /\ SF_vars(DisarmTake)
  /\ WF_vars(sock \in cut /\ Reads)

-----------------------------------------------------------------------------
(* Types; no byte is written past the end of s_body.                       *)
TypeOK ==
  /\ owner \in [Sockets -> {"free", "fetch", "other"}] /\ cut \subseteq Sockets
  /\ lock \in {"free", "fetch", "worker"} /\ active \in Sockets \cup {None} /\ due \in 0 .. Patience
  /\ fetching \in {"idle", "arm", "socket", "deadline", "headers", "body", "disarm", "clear", "close"}
  /\ sock \in Sockets \cup {None} /\ left \in 0 .. Patience
  /\ used \in 0 .. MaxBody + 1 /\ declared \in 0 .. MaxBody + 2
  /\ worker \in {"sleep", "look", "shut"}

(* "The mutex prevents shutdown of a closed/reused socket descriptor": the *)
(* worker never shuts down a connection that is not the fetch's own.       *)
OthersUntouched == \A n \in cut : owner[n] = "fetch"

(* A fetch is interrupted only when its time is over, not by the deadline  *)
(* of the exchange before it.                                              *)
NotCutEarly == \A n \in cut : left = 0

(* "Interrupts slow headers/chunks": a fetch always ends, though the       *)
(* server sends a byte now and then for ever.                              *)
FetchEnds == (fetching # "idle") ~> (fetching = "idle")

(* The worker cuts a connection that is the fetch's own and late, or none; *)
(* s_body is never overrun.                                                *)
CutsOnlyLate == TypeOK /\ OthersUntouched /\ NotCutEarly
=============================================================================
