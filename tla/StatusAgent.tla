----------------------------- MODULE StatusAgent -----------------------------
(***************************************************************************)
(* server/passport_status.py: the sampler thread, the cached snapshot, and *)
(* the asyncio tasks that serve it: one handler for each WebSocket, one    *)
(* broadcaster, and one send task for each client in a round.              *)
(*                                                                         *)
(* A step is what runs between two awaits.  A frame is on its way once     *)
(* send_str has been called; the await that follows only waits for room    *)
(* and ends in a timeout when the peer does not read.  A connection is     *)
(* authenticated already.  The readings of a sample are the set of         *)
(* channels at 90% or more.                                                *)
(***************************************************************************)
EXTENDS Integers, Sequences, FiniteSets, SequencesExt

CONSTANTS
  Conns,    \* connections
  Channels, \* "cpu", "ram", "disk"
  Limit,    \* sixteen WebSocket clients
  MaxSeq    \* bound: samples taken

AgentAssumption ==
  IsFiniteSet(Channels) /\ Limit \in Nat \ {0} /\ MaxSeq \in Nat

Nothing == [seq |-> 0, hot |-> {}]

VARIABLES
  seq,      \* the collector's counter
  snap,     \* the cached snapshot; Nothing when none or older than ten seconds
  lastSeq,  \* broadcast(): last_seq
  active,   \* AlertEngine.active
  alertSeq, \* AlertEngine.seq
  gather,   \* the broadcaster waits for the send tasks of its round
  outbox,   \* outbox[c]: what the send task of c has not sent yet
  drain,    \* drain[c]: the send task waits for room
  handler,  \* handler[c]: "none", "prepare", "first", "open"
  first,    \* first[c]: sequence number of the body the handler sends, or 0
  clients,  \* the set clients
  reserved, \* reservations
  reads,    \* reads[c]: the peer reads what it gets
  seen,     \* history: last status sent on the connection
  heard     \* history: last alert sent on the connection

sampler == <<seq, snap>>
engine == <<lastSeq, active, alertSeq>>
tasks == <<gather, outbox, drain>>
sockets == <<handler, first, clients, reserved>>
history == <<seen, heard>>
vars == <<sampler, engine, tasks, sockets, reads, history>>

Init ==
  /\ seq = 0 /\ snap = Nothing /\ lastSeq = 0 /\ active = {} /\ alertSeq = 0
  /\ gather = FALSE /\ outbox = [c \in Conns |-> <<>>] /\ drain = [c \in Conns |-> FALSE]
  /\ handler = [c \in Conns |-> "none"] /\ first = [c \in Conns |-> 0]
  /\ clients = {} /\ reserved = 0 /\ reads = [c \in Conns |-> TRUE]
  /\ seen = [c \in Conns |-> 0] /\ heard = [c \in Conns |-> 0]

-----------------------------------------------------------------------------
(* The sampler: a sample is stored about every second; one that fails or   *)
(* is too large leaves the old one, which expires.                         *)
Sample ==
  /\ seq < MaxSeq /\ seq' = seq + 1
  /\ \E hot \in SUBSET Channels : snap' = [seq |-> seq', hot |-> hot]
  /\ UNCHANGED <<engine, tasks, sockets, reads, history>>

Expire ==
  /\ snap # Nothing /\ snap' = Nothing
  /\ UNCHANGED <<seq, engine, tasks, sockets, reads, history>>

-----------------------------------------------------------------------------
(* websocket(): a reservation, the handshake, the first snapshot, and then *)
(* the wait for the peer to go.  finally gives everything back.            *)
Room == reserved < Limit

Accept(c) ==
  /\ handler[c] = "none" /\ outbox[c] = <<>> /\ ~drain[c]
  /\ Room /\ reserved' = reserved + 1
  /\ handler' = [handler EXCEPT ![c] = "prepare"]
  /\ UNCHANGED <<sampler, engine, tasks, first, clients, reads, history>>

\* 503: nothing is kept of a connection that is refused.
Refuse == ~Room /\ UNCHANGED vars

\* Mutant: between reading the body and sending it the handler waits.
AfterAnAwait == FALSE
AtOnce == TRUE

Prepared(c) ==
  /\ handler[c] = "prepare" /\ clients' = clients \cup {c}
  /\ handler' = [handler EXCEPT ![c] = IF snap = Nothing THEN "open" ELSE "first"]
  /\ first' = [first EXCEPT ![c] = snap.seq]
  /\ seen' = IF AtOnce /\ snap # Nothing THEN [seen EXCEPT ![c] = snap.seq] ELSE seen
  /\ UNCHANGED <<sampler, engine, tasks, reserved, reads, heard>>

FirstSent(c) ==
  /\ handler[c] = "first" /\ reads[c]
  /\ handler' = [handler EXCEPT ![c] = "open"]
  /\ seen' = IF AtOnce THEN seen ELSE [seen EXCEPT ![c] = first[c]]
  /\ first' = [first EXCEPT ![c] = 0]
  /\ UNCHANGED <<sampler, engine, tasks, clients, reserved, reads, heard>>

\* Mutant: a connection that never got through the handshake has no client to
\* discard, and returns without giving its reservation back.
OnlyClients(c) == reserved - (IF c \in clients THEN 1 ELSE 0)
GivenBack(c) == reserved - 1

(* The handler ends: the handshake fails, the first send times out, the    *)
(* peer speaks (1008), goes, or is silent for 35 seconds, the broadcaster  *)
(* has closed the socket, or the server shuts down and cancels it.         *)
Ends(c) ==
  /\ handler[c] # "none"
  /\ handler' = [handler EXCEPT ![c] = "none"] /\ first' = [first EXCEPT ![c] = 0]
  /\ clients' = clients \ {c} /\ reserved' = GivenBack(c)
  /\ reads' = [reads EXCEPT ![c] = TRUE]
  /\ seen' = [seen EXCEPT ![c] = 0] /\ heard' = [heard EXCEPT ![c] = 0]
  /\ UNCHANGED <<sampler, engine, tasks>>

\* The peer stops reading, for ever.
Stall(c) ==
  /\ handler[c] # "none" /\ reads[c] /\ reads' = [reads EXCEPT ![c] = FALSE]
  /\ UNCHANGED <<sampler, engine, tasks, sockets, history>>

-----------------------------------------------------------------------------
(* broadcast() and AlertEngine.edges(): the snapshot and one alert for     *)
(* each channel that has just become hot, numbered one after the other.    *)
\* Mutant: one number for all the alerts of a sample.
SameNumber(i) == (IF alertSeq >= snap.seq THEN alertSeq ELSE snap.seq) + 1
Number(i) == (IF alertSeq >= snap.seq THEN alertSeq ELSE snap.seq) + i

Edges == snap.hot \ active
Alerts == [i \in 1 .. Cardinality(Edges) |-> [type |-> "alert", seq |-> Number(i)]]
Messages == <<[type |-> "status", seq |-> snap.seq]>> \o Alerts

Round ==
  /\ ~gather /\ snap # Nothing /\ snap.seq # lastSeq
  /\ lastSeq' = snap.seq /\ active' = snap.hot
  /\ alertSeq' = IF Edges = {} THEN alertSeq ELSE Last(Alerts).seq
  /\ gather' = TRUE
  /\ outbox' = [c \in Conns |-> IF c \in clients THEN Messages ELSE <<>>]
  /\ UNCHANGED <<sampler, drain, sockets, reads, history>>

(* send(): one message after the other, each within three seconds.         *)
SendNext(c) ==
  /\ outbox[c] # <<>> /\ ~drain[c]
  /\ outbox' = [outbox EXCEPT ![c] = Tail(@)]
  /\ IF handler[c] = "none"
     THEN UNCHANGED <<drain, history>>
     ELSE LET m == Head(outbox[c]) IN
          /\ drain' = [drain EXCEPT ![c] = TRUE]
          /\ IF m.type = "status"
             THEN seen' = [seen EXCEPT ![c] = m.seq] /\ UNCHANGED heard
             ELSE heard' = [heard EXCEPT ![c] = m.seq] /\ UNCHANGED seen
  /\ UNCHANGED <<sampler, engine, gather, sockets, reads>>

Drained(c) ==
  /\ drain[c] /\ reads[c] /\ handler[c] # "none"
  /\ drain' = [drain EXCEPT ![c] = FALSE]
  /\ UNCHANGED <<sampler, engine, gather, outbox, sockets, reads, history>>

\* Mutant: the task tries its other messages after a timeout, for ever.
KeepTrying(c) == UNCHANGED <<drain, outbox>>
GiveUp(c) == drain' = [drain EXCEPT ![c] = FALSE] /\ outbox' = [outbox EXCEPT ![c] = <<>>]

SendFails(c) ==
  /\ drain[c] /\ (~reads[c] \/ handler[c] = "none")
  /\ GiveUp(c) /\ clients' = clients \ {c}
  /\ UNCHANGED <<sampler, engine, gather, handler, first, reserved, reads, history>>

RoundDone ==
  /\ gather /\ \A c \in Conns : outbox[c] = <<>> /\ ~drain[c]
  /\ gather' = FALSE
  /\ UNCHANGED <<sampler, engine, outbox, drain, sockets, reads, history>>

Sending(c) == SendNext(c) \/ Drained(c) \/ SendFails(c)

Next ==
  \/ Sample \/ Expire \/ Round \/ RoundDone \/ Refuse
  \/ \E c \in Conns : Accept(c) \/ Prepared(c) \/ FirstSent(c) \/ Ends(c)
                      \/ Stall(c) \/ Sending(c)

(* The loop runs every ready task; a send is over within three seconds,    *)
(* one way or the other; a peer that does not read is closed or times out. *)
Spec ==
  /\ Init /\ [][Next]_vars /\ WF_vars(Round) /\ WF_vars(RoundDone)
  /\ \A c \in Conns : WF_vars(Sending(c)) /\ WF_vars(~reads[c] /\ Ends(c))

-----------------------------------------------------------------------------
(* Types.  Reservations are exactly the handlers that run, and only those  *)
(* are clients, whatever way the handlers end.                             *)
TypeOK ==
  /\ seq \in 0 .. MaxSeq /\ snap \in [seq : 0 .. MaxSeq, hot : SUBSET Channels]
  /\ lastSeq \in 0 .. MaxSeq /\ active \subseteq Channels /\ alertSeq \in Nat
  /\ gather \in BOOLEAN /\ outbox \in [Conns -> Seq([type : {"status", "alert"}, seq : Nat])]
  /\ drain \in [Conns -> BOOLEAN]
  /\ handler \in [Conns -> {"none", "prepare", "first", "open"}]
  /\ first \in [Conns -> 0 .. MaxSeq] /\ clients \subseteq {c \in Conns : handler[c] # "none"}
  /\ reserved \in 0 .. Limit
  /\ reads \in [Conns -> BOOLEAN] /\ seen \in [Conns -> Nat] /\ heard \in [Conns -> Nat]

(* server/README "at most 16 WSS clients": the limit counts the handlers   *)
(* that exist, so no failed handshake, timeout or shutdown uses a place up *)
(* for good or gives one back twice.                                       *)
Accounted == reserved = Cardinality({c \in Conns : handler[c] # "none"})

(* A client never gets an older snapshot after a newer one, although its   *)
(* handler and the broadcaster write to the same socket.                   *)
InOrder == [][\A c \in Conns : handler'[c] # "none" => seen'[c] >= seen[c]]_vars

(* Every alert a client gets is numbered above all it got before, status   *)
(* or alert: the device drops any other as a replay.                       *)
AlertsNewer ==
  \A c \in Conns : \A i \in DOMAIN outbox[c] :
    handler[c] # "none" /\ outbox[c][i].type = "alert" =>
      /\ outbox[c][i].seq > heard[c] /\ outbox[c][i].seq > seen[c]
      /\ \A j \in 1 .. i - 1 : outbox[c][i].seq > outbox[c][j].seq

(* A slow or dead client delays a round but never ends the broadcasts.     *)
RoundsEnd == gather ~> ~gather

(* However connections end, the limit is not used up for good: whenever a  *)
(* peer has stopped reading there is soon room for another.                *)
PlacesReturn == \A c \in Conns : (handler[c] # "none" /\ ~reads[c]) ~> reserved < Limit

(* The clients, their places and their messages: no place is lost or given *)
(* back twice, no alert is numbered so that its device takes it for old.   *)
ClientsServed == TypeOK /\ Accounted /\ AlertsNewer

(* Neither a client that is slow, dead or silent nor the way it goes stops *)
(* the broadcasts or uses up the places.                                   *)
AgentGoesOn == RoundsEnd /\ PlacesReturn
=============================================================================
