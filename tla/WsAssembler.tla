----------------------------- MODULE WsAssembler -----------------------------
(***************************************************************************)
(* monitor_ws_chunk (main/monitor/monitor_logic.c): reassembly of WSS      *)
(* frames into one fixed buffer of SERVER_JSON_MAX bytes, against the      *)
(* Espressif client that delivers them: a message is a text frame and its  *)
(* continuations, a frame comes in chunks of at most the client's buffer,  *)
(* and close_ws may cut a session off anywhere.  The server may send       *)
(* messages that are too long or binary; after a rejection the client goes *)
(* on delivering the rest of them until it is joined.                      *)
(*                                                                         *)
(* A byte is the pair of its message and its position in it, so that the   *)
(* content of the buffer can be compared with what was sent.               *)
(***************************************************************************)
EXTENDS Integers, Sequences

CONSTANTS
  JsonMax,      \* SERVER_JSON_MAX
  ChunkMax,     \* buffer_size of the client
  FrameMax,     \* bound: longest frame a server sends
  MessageMax    \* bound: longest message a server sends

ASSUME AssemblerAssumption ==
  JsonMax \in Nat /\ ChunkMax \in Nat \ {0} /\ FrameMax \in Nat /\ MessageMax \in Nat

VARIABLES
  used, frameOffset, active,   \* monitor_ws_buffer_t
  content,                     \* b->data[0 .. used-1]
  result                       \* of the latest call

buffer == <<used, frameOffset, active, content, result>>

VARIABLES
  message,   \* identity of the message being sent, alternating 0 and 1
  sent,      \* its bytes delivered so far
  frame,     \* its current frame: [op, fin, size, off], off the bytes delivered
  spoiled,   \* it is binary or has outgrown the buffer
  done       \* its last chunk has been delivered

sender == <<message, sent, frame, spoiled, done>>
vars == <<buffer, sender>>

NoFrame == [op |-> 0, fin |-> TRUE, size |-> 0, off |-> 0]
Frames == [op : {0, 1, 2}, fin : BOOLEAN, size : Nat, off : Nat]

Init ==
  /\ used = 0 /\ frameOffset = 0 /\ active = FALSE /\ content = <<>> /\ result = 0
  /\ message = 0 /\ sent = 0 /\ frame = NoFrame /\ spoiled = FALSE /\ done = TRUE

-----------------------------------------------------------------------------
\* The first chunk of a text frame starts a message, unless one is open.
Starts(op, off) == op = 1 /\ off = 0

\* Mutant: the room left in the buffer is not checked.
FitsFrame(u, fo, size, off, n) == off = fo /\ off <= size /\ n <= size - off

\* The guard of the memcpy, for a buffer that holds u bytes.
Fits(u, fo, size, off, n) ==
  /\ off = fo /\ off <= size /\ n <= size - off
  /\ size <= JsonMax - u + off /\ n <= JsonMax - u

\* Mutant: a rejected chunk leaves the message open.
RejectChunkOnly == result' = -1 /\ UNCHANGED <<used, frameOffset, active, content>>

Reject ==
  /\ used' = 0 /\ frameOffset' = 0 /\ active' = FALSE /\ content' = <<>>
  /\ result' = -1

\* monitor_ws_chunk(&s_rx, op, fin, size, off, bytes)
Chunk(op, fin, size, off, bytes) ==
  LET n   == Len(bytes)
      u   == IF Starts(op, off) THEN 0 ELSE used
      fo  == IF Starts(op, off) THEN 0 ELSE frameOffset
      old == IF Starts(op, off) THEN <<>> ELSE content
      open == IF Starts(op, off) THEN ~active ELSE active
  IN IF op \in {0, 1} /\ open /\ Fits(u, fo, size, off, n)
     THEN LET whole == off + n = size IN
          /\ used' = u + n /\ content' = old \o bytes
          /\ frameOffset' = IF whole THEN 0 ELSE fo + n
          /\ active' = ~(whole /\ fin)
          /\ result' = IF whole /\ fin THEN 1 ELSE 0
     ELSE Reject

\* Mutant: the buffer survives the session.
KeepBuffer == UNCHANGED <<used, frameOffset, active, content>> /\ result' = 0

\* memset(&s_rx, 0, sizeof(s_rx))
ClearBuffer ==
  used' = 0 /\ frameOffset' = 0 /\ active' = FALSE /\ content' = <<>> /\ result' = 0

\* close_ws clears the buffer after the join; the next session begins with a
\* message of its own.
CloseSession ==
  /\ ClearBuffer
  /\ message' = 1 - message /\ sent' = 0 /\ frame' = NoFrame /\ spoiled' = FALSE /\ done' = TRUE

-----------------------------------------------------------------------------
Bytes(m, from, n) == [i \in 1 .. n |-> <<m, from + i>>]

\* The first chunk of a frame f of message m, of which s bytes went before.
Deliver(m, s, f, n, bad) ==
  /\ n <= f.size - f.off /\ n <= ChunkMax /\ (n = 0 => f.size = 0)
  /\ Chunk(f.op, f.fin, f.size, f.off, Bytes(m, s, n))
  /\ message' = m /\ sent' = s + n
  /\ frame' = [f EXCEPT !.off = f.off + n]
  /\ spoiled' = bad
  /\ done' = (f.fin /\ f.off + n = f.size)

FrameDone == frame.off = frame.size

\* A new message, binary or text.
StartMessage(op, fin, size, n) ==
  /\ done /\ op \in {1, 2}
  /\ Deliver(1 - message, 0, [op |-> op, fin |-> fin, size |-> size, off |-> 0], n,
             op = 2 \/ size > JsonMax)

\* A continuation frame.
StartFrame(fin, size, n) ==
  /\ ~done /\ FrameDone /\ sent + size <= MessageMax
  /\ Deliver(message, sent, [op |-> 0, fin |-> fin, size |-> size, off |-> 0], n,
             spoiled \/ sent + size > JsonMax)

\* The rest of a frame.
ContinueFrame(n) ==
  /\ ~FrameDone /\ n > 0
  /\ Deliver(message, sent, frame, n, spoiled)

Next ==
  \/ \E n \in 0 .. ChunkMax :
       \/ \E fin \in BOOLEAN, size \in 0 .. FrameMax :
            StartFrame(fin, size, n) \/ \E op \in {1, 2} : StartMessage(op, fin, size, n)
       \/ ContinueFrame(n)
  \/ CloseSession

Spec == Init /\ [][Next]_vars

-----------------------------------------------------------------------------
\* Every variable has its type, and the terminator data[used] = 0 is inside
\* data[SERVER_JSON_MAX + 1] whatever is received.
TypeOK ==
  /\ used \in 0 .. JsonMax /\ frameOffset \in Nat /\ active \in BOOLEAN
  /\ result \in {-1, 0, 1}
  /\ message \in {0, 1} /\ sent \in Nat /\ frame \in Frames
  /\ spoiled \in BOOLEAN /\ done \in BOOLEAN

\* A message is handed to the parser exactly when its last chunk arrives and
\* it is a text that fits: nothing good is rejected, not even the first
\* message of a session whose predecessor was cut off inside a message, and
\* the tail of a rejected message never passes for a message.
DeliversExactlyGood ==
  /\ result = 1 => done /\ ~spoiled
  /\ result = -1 => spoiled
  /\ (done /\ sent > 0 /\ ~spoiled) => result = 1

\* What is handed over is the message as sent: no byte of another message,
\* none missing, none twice.
DeliversWhole ==
  result = 1 => used = sent /\ content = Bytes(message, 0, sent)

\* The sender is where its frame says it is, and an unspoiled message has
\* room for the rest of its frame.
SenderOK ==
  /\ frame.off <= frame.size
  /\ frame.off < frame.size => frame.off > 0
  /\ done <=> (frame.fin /\ frame.off = frame.size)
  /\ ~spoiled => frame.op \in {0, 1} /\ sent + (frame.size - frame.off) <= JsonMax
  /\ frame.op # 0 => frame.off = sent

\* The inductive core of both: buffer and sender agree on where they are
\* inside a good message, and between good messages no message is open.
InStep ==
  /\ SenderOK
  /\ active => ~spoiled /\ ~done /\ used = sent /\ content = Bytes(message, 0, sent)
               /\ frameOffset = (IF FrameDone THEN 0 ELSE frame.off)
  /\ ~active => done \/ spoiled

(* What monitor_ws_chunk hands over is exactly the good messages, as sent, *)
(* from a buffer that is never overrun.                                    *)
Delivers == TypeOK /\ DeliversExactlyGood /\ DeliversWhole
=============================================================================
