--------------------------- MODULE StatusPathProofs ---------------------------
(***************************************************************************)
(* Theorems about StatusPath.tla: the assembler for every size of the      *)
(* buffer, of the client's chunks, of frames and of messages; the deadline *)
(* for any socket numbers, any patience and any size of the body buffer;   *)
(* the agent for any number of connections, channels and places.  What     *)
(* each of them keeps, StatusPath keeps: a step of the whole is a step of  *)
(* one part and changes nothing of the others.                             *)
(***************************************************************************)
EXTENDS StatusPath, StatusFeedProofs, SequenceTheorems, FiniteSetTheorems, TLAPS

ByteSet == {0, 1} \X Nat

(* A stretch of bytes of one message is a sequence of them, in order.      *)
LEMMA BytesTyped ==
  ASSUME NEW m \in {0, 1}, NEW s \in Nat, NEW n \in Nat
  PROVE  /\ Bytes(m, s, n) \in Seq(ByteSet) /\ Len(Bytes(m, s, n)) = n
         /\ \A i \in 1 .. n : Bytes(m, s, n)[i] = <<m, s + i>>
  BY DEF Bytes, ByteSet

(* A stretch of n bytes has length n.                                      *)
LEMMA BytesLength ==
  ASSUME NEW m \in {0, 1}, NEW s \in Nat, NEW n \in Nat
  PROVE  Len(Bytes(m, s, n)) = n
  BY DEF Bytes

(* Consecutive stretches of one message join to a longer stretch.          *)
LEMMA BytesJoin ==
  ASSUME NEW m \in {0, 1}, NEW s \in Nat, NEW n \in Nat
  PROVE  Bytes(m, 0, s) \o Bytes(m, s, n) = Bytes(m, 0, s + n)
<1> DEFINE l == Bytes(m, 0, s)  r == Bytes(m, s, n)  w == Bytes(m, 0, s + n)
<1>1. /\ l \in Seq(ByteSet) /\ Len(l) = s /\ \A i \in 1 .. s : l[i] = <<m, i>>
      /\ r \in Seq(ByteSet) /\ Len(r) = n /\ \A i \in 1 .. n : r[i] = <<m, s + i>>
      /\ w \in Seq(ByteSet) /\ Len(w) = s + n /\ \A i \in 1 .. s + n : w[i] = <<m, i>>
  <2>1. \A k \in Nat : /\ Bytes(m, 0, k) \in Seq(ByteSet) /\ Len(Bytes(m, 0, k)) = k
                       /\ \A i \in 1 .. k : Bytes(m, 0, k)[i] = <<m, 0 + i>>
    <3> TAKE k \in Nat
    <3> 0 \in Nat
      OBVIOUS
    <3> QED
      BY BytesTyped, Zenon
  <2>2. \A k \in Nat : \A i \in 1 .. k : Bytes(m, 0, k)[i] = <<m, i>>
    <3> TAKE k \in Nat
    <3> TAKE i \in 1 .. k
    <3>1. Bytes(m, 0, k)[i] = <<m, 0 + i>>
      BY <2>1
    <3>2. 0 + i = i
      OBVIOUS
    <3> QED
      BY <3>1, <3>2
  <2>3. s + n \in Nat
    OBVIOUS
  <2> QED
    BY <2>1, <2>2, <2>3, BytesTyped
<1> HIDE DEF l, r, w
<1>2. /\ l \o r \in Seq(ByteSet) /\ Len(l \o r) = s + n
      /\ \A i \in 1 .. s + n : (l \o r)[i] = IF i <= s THEN l[i] ELSE r[i - s]
  BY <1>1, ConcatProperties
<1>3. ASSUME NEW i \in 1 .. s + n PROVE (l \o r)[i] = w[i]
  <2>1. CASE i <= s
    <3>1. i \in 1 .. s
      BY <2>1
    <3> QED
      BY <1>1, <1>2, <2>1, <3>1
  <2>2. CASE ~(i <= s)
    <3>1. i - s \in 1 .. n /\ s + (i - s) = i
      BY <2>2
    <3>2. r[i - s] = <<m, s + (i - s)>>
      BY <1>1, <3>1
    <3> QED
      BY <1>1, <1>2, <2>2, <3>1, <3>2
  <2> QED
    BY <2>1, <2>2
<1>4. l \o r = w
  BY <1>1, <1>2, <1>3, SeqEqual
<1> QED
  BY <1>4 DEF l, r, w

(* The first stretch of a message joins to the empty buffer.               *)
LEMMA NothingBefore ==
  ASSUME NEW m \in {0, 1}, NEW n \in Nat
  PROVE  <<>> \o Bytes(m, 0, n) = Bytes(m, 0, n)
  BY BytesTyped, ConcatEmptySeq

-----------------------------------------------------------------------------
(* The inductive invariant.                                                *)
WsInv == TypeOK /\ InStep /\ DeliversExactlyGood /\ DeliversWhole

(* A chunk of a message that is text and fits is taken, and completes the  *)
(* message exactly when it is the last.                                    *)
LEMMA GoodChunk ==
  ASSUME NEW m \in {0, 1}, NEW s \in Nat, NEW f \in Frames, NEW n \in Nat,
         Deliver(m, s, f, n, FALSE),
         f.off <= f.size, f.op \in {0, 1}, f.op # 0 => f.off = s, s + (f.size - f.off) <= JsonMax,
         Starts(f.op, f.off) => ~active /\ s = 0,
         ~Starts(f.op, f.off) =>
            active /\ used = s /\ content = Bytes(m, 0, s) /\ frameOffset = f.off
  PROVE  WsInv'
<1> USE AssemblerAssumption
<1>a. f.off \in Nat /\ f.size \in Nat /\ f.fin \in BOOLEAN
  BY DEF Frames
<1>b. /\ n <= f.size - f.off /\ (n = 0 => f.size = 0)
      /\ Chunk(f.op, f.fin, f.size, f.off, Bytes(m, s, n))
      /\ message' = m /\ sent' = s + n /\ spoiled' = FALSE
      /\ frame' = [f EXCEPT !.off = f.off + n]
  BY DEF Deliver
<1>c. /\ done' \in BOOLEAN
      /\ f.fin /\ f.off + n = f.size => done' = TRUE
      /\ ~(f.fin /\ f.off + n = f.size) => done' = FALSE
  BY <1>a DEF Deliver
<1>2. Len(Bytes(m, s, n)) = n
  BY BytesLength
<1> DEFINE whole == f.off + n = f.size
<1>3. /\ used' = s + n
      /\ content' = Bytes(m, 0, s + n)
      /\ whole => frameOffset' = 0
      /\ ~whole => frameOffset' = f.off + n
      /\ whole /\ f.fin => active' = FALSE /\ result' = 1
      /\ ~(whole /\ f.fin) => active' = TRUE /\ result' = 0
  <2>1. CASE Starts(f.op, f.off)
    <3>1. f.off = 0 /\ f.op = 1 /\ s = 0 /\ ~active
      BY <2>1 DEF Starts
    <3>2. Fits(0, 0, f.size, f.off, n)
      BY <1>a, <1>b, <1>c, <3>1 DEF Fits
    <3>3. <<>> \o Bytes(m, s, n) = Bytes(m, 0, s + n)
      BY <3>1, NothingBefore
    <3> QED
      BY <1>a, <1>b, <1>c, <1>2, <2>1, <3>1, <3>2, <3>3 DEF Chunk
  <2>2. CASE ~Starts(f.op, f.off)
    <3>1. active /\ used = s /\ content = Bytes(m, 0, s) /\ frameOffset = f.off
      BY <2>2
    <3>2. Fits(used, frameOffset, f.size, f.off, n)
      BY <1>a, <1>b, <1>c, <3>1 DEF Fits
    <3>3. content \o Bytes(m, s, n) = Bytes(m, 0, s + n)
      BY <3>1, BytesJoin
    <3> QED
      BY <1>a, <1>b, <1>c, <1>2, <2>2, <3>1, <3>2, <3>3 DEF Chunk
  <2> QED
    BY <2>1, <2>2
<1>4. /\ frame'.op = f.op /\ frame'.fin = f.fin /\ frame'.size = f.size
      /\ frame'.off = f.off + n /\ frame' \in Frames
  <2>1. f \in [op : {0, 1, 2}, fin : BOOLEAN, size : Nat, off : Nat] /\ f.off + n \in Nat
    BY <1>a DEF Frames
  <2>2. frame' = [f EXCEPT !.off = f.off + n]
    BY <1>b
  <2> QED
    BY <2>1, <2>2 DEF Frames
<1>5. TypeOK'
  <2>1. used' \in 0 .. JsonMax
    BY <1>a, <1>b, <1>3
  <2>2. frameOffset' \in Nat
    BY <1>a, <1>3
  <2>3. active' \in BOOLEAN
    BY <1>3
  <2>4. result' \in {-1, 0, 1}
    BY <1>3
  <2>5. message' \in {0, 1} /\ sent' \in Nat /\ frame' \in Frames
    BY <1>b, <1>4
  <2>6. spoiled' \in BOOLEAN /\ done' \in BOOLEAN
    BY <1>b, <1>c
  <2> QED
    BY <2>1, <2>2, <2>3, <2>4, <2>5, <2>6 DEF TypeOK
<1>6. InStep'
  BY <1>a, <1>b, <1>c, <1>3, <1>4 DEF InStep, SenderOK, FrameDone
<1>7. DeliversExactlyGood' /\ DeliversWhole'
  BY <1>a, <1>b, <1>c, <1>3 DEF DeliversExactlyGood, DeliversWhole
<1> QED
  BY <1>5, <1>6, <1>7 DEF WsInv

(* A chunk of a binary message, of one that is too long, or of the rest of *)
(* a rejected one is turned down.                                          *)
LEMMA BadChunk ==
  ASSUME NEW m \in {0, 1}, NEW s \in Nat, NEW f \in Frames, NEW n \in Nat,
         Deliver(m, s, f, n, TRUE),
         f.off <= f.size, f.op # 0 => f.off = s,
         \/ f.op = 2
         \/ Starts(f.op, f.off) /\ f.size > JsonMax
         \/ ~Starts(f.op, f.off) /\ ~active
         \/ ~Starts(f.op, f.off) /\ used = s /\ f.off = 0 /\ s + f.size > JsonMax
  PROVE  WsInv'
<1> USE AssemblerAssumption
<1>a. f.off \in Nat /\ f.size \in Nat /\ f.fin \in BOOLEAN
  BY DEF Frames
<1>b. /\ n <= f.size - f.off /\ (n = 0 => f.size = 0)
      /\ Chunk(f.op, f.fin, f.size, f.off, Bytes(m, s, n))
      /\ message' = m /\ sent' = s + n /\ spoiled' = TRUE
      /\ frame' = [f EXCEPT !.off = f.off + n]
  BY DEF Deliver
<1>c. /\ done' \in BOOLEAN
      /\ f.fin /\ f.off + n = f.size => done' = TRUE
      /\ ~(f.fin /\ f.off + n = f.size) => done' = FALSE
  BY <1>a DEF Deliver
<1>2. Len(Bytes(m, s, n)) = n
  BY BytesLength
<1>3. Reject
  <2>1. CASE f.op = 2
    BY <1>a, <1>b, <1>c, <2>1 DEF Chunk, Starts
  <2>2. CASE Starts(f.op, f.off) /\ f.size > JsonMax
    <3>1. ~Fits(0, 0, f.size, f.off, n)
      BY <1>a, <1>b, <1>c, <2>2 DEF Fits, Starts
    <3> QED
      BY <1>a, <1>b, <1>c, <1>2, <2>2, <3>1 DEF Chunk
  <2>3. CASE ~Starts(f.op, f.off) /\ ~active
    BY <1>a, <1>b, <1>c, <1>2, <2>3 DEF Chunk
  <2>4. CASE ~Starts(f.op, f.off) /\ used = s /\ f.off = 0 /\ s + f.size > JsonMax
    <3>1. ~Fits(used, frameOffset, f.size, f.off, n)
      BY <1>a, <1>b, <1>c, <2>4 DEF Fits
    <3> QED
      BY <1>a, <1>b, <1>c, <1>2, <2>4, <3>1 DEF Chunk
  <2> QED
    BY <2>1, <2>2, <2>3, <2>4
<1>4. /\ frame'.op = f.op /\ frame'.fin = f.fin /\ frame'.size = f.size
      /\ frame'.off = f.off + n /\ frame' \in Frames
  <2>1. f \in [op : {0, 1, 2}, fin : BOOLEAN, size : Nat, off : Nat] /\ f.off + n \in Nat
    BY <1>a DEF Frames
  <2>2. frame' = [f EXCEPT !.off = f.off + n]
    BY <1>b
  <2> QED
    BY <2>1, <2>2 DEF Frames
<1>5. TypeOK'
  <2>1. used' \in 0 .. JsonMax /\ frameOffset' \in Nat
    <3>1. used' = 0 /\ frameOffset' = 0
      BY <1>3 DEF Reject
    <3> QED
      BY <3>1
  <2>2. active' \in BOOLEAN
    BY <1>3 DEF Reject
  <2>3. result' \in {-1, 0, 1}
    BY <1>3 DEF Reject
  <2>4. message' \in {0, 1} /\ sent' \in Nat /\ frame' \in Frames
    BY <1>b, <1>4
  <2>5. spoiled' \in BOOLEAN /\ done' \in BOOLEAN
    BY <1>b, <1>c
  <2> QED
    BY <2>1, <2>2, <2>3, <2>4, <2>5 DEF TypeOK
<1>6. InStep'
  <2>1. SenderOK'
    <3>1. frame'.off <= frame'.size /\ (frame'.off < frame'.size => frame'.off > 0)
      BY <1>a, <1>b, <1>4
    <3>2. done' <=> (frame'.fin /\ frame'.off = frame'.size)
      BY <1>a, <1>c, <1>4
    <3>3. frame'.op # 0 => frame'.off = sent'
      BY <1>a, <1>b, <1>4
    <3> QED
      BY <1>b, <3>1, <3>2, <3>3 DEF SenderOK
  <2>2. active' = FALSE /\ spoiled' = TRUE
    BY <1>b, <1>3 DEF Reject
  <2> QED
    BY <2>1, <2>2 DEF InStep
<1>7. DeliversExactlyGood' /\ DeliversWhole'
  BY <1>a, <1>b, <1>c, <1>3 DEF DeliversExactlyGood, DeliversWhole, Reject
<1> QED
  BY <1>5, <1>6, <1>7 DEF WsInv

-----------------------------------------------------------------------------
(* Every chunk of every frame, and closing the session, keeps buffer and   *)
(* sender in step.                                                         *)
LEMMA WsStep == WsInv /\ [Next]_vars => WsInv'
<1> SUFFICES ASSUME WsInv, [Next]_vars PROVE WsInv'
  OBVIOUS
<1> USE AssemblerAssumption
<1>0. /\ TypeOK /\ InStep /\ SenderOK
      /\ message \in {0, 1} /\ 1 - message \in {0, 1} /\ sent \in Nat /\ frame \in Frames
      /\ frame.off \in Nat /\ frame.size \in Nat
  BY DEF WsInv, InStep, TypeOK, Frames
<1>1. ASSUME NEW n \in 0 .. ChunkMax, NEW fin \in BOOLEAN, NEW size \in 0 .. FrameMax,
             NEW op \in {1, 2}, StartMessage(op, fin, size, n)
      PROVE  WsInv'
  <2> DEFINE f == [op |-> op, fin |-> fin, size |-> size, off |-> 0]
             bad == op = 2 \/ size > JsonMax
  <2>1. f \in Frames /\ f.op = op /\ f.size = size /\ f.off = 0
    BY DEF Frames
  <2>2. Deliver(1 - message, 0, f, n, bad) /\ ~active
    BY <1>0, <1>1 DEF StartMessage, InStep
  <2> HIDE DEF f
  <2>3. CASE bad
    <3>1. Deliver(1 - message, 0, f, n, TRUE)
      BY <2>2, <2>3 DEF Deliver
    <3>2. \/ f.op = 2
          \/ Starts(f.op, f.off) /\ f.size > JsonMax
          \/ ~Starts(f.op, f.off) /\ ~active
          \/ ~Starts(f.op, f.off) /\ used = 0 /\ f.off = 0 /\ 0 + f.size > JsonMax
      BY <2>1, <2>3 DEF Starts
    <3>3. n \in Nat /\ 0 \in Nat /\ f.off <= f.size /\ (f.op # 0 => f.off = 0)
      BY <2>1
    <3> QED
      BY <1>0, <2>1, <3>1, <3>2, <3>3, BadChunk, Zenon
  <2>4. CASE ~bad
    <3>1. op = 1 /\ size <= JsonMax /\ Starts(f.op, f.off)
      BY <2>1, <2>4 DEF Starts
    <3>2. Deliver(1 - message, 0, f, n, FALSE)
      BY <2>2, <2>4 DEF Deliver
    <3>3. n \in Nat /\ f.off <= f.size /\ f.op \in {0, 1} /\ (f.op # 0 => f.off = 0)
      BY <2>1, <3>1
    <3>0. 0 \in Nat
      OBVIOUS
    <3>4. 0 + (f.size - f.off) <= JsonMax
      BY <1>0, <2>1, <3>1
    <3>5. Starts(f.op, f.off) => ~active /\ 0 = 0
      BY <2>1, <2>2
    <3>6. ~Starts(f.op, f.off) =>
            active /\ used = 0 /\ content = Bytes(1 - message, 0, 0) /\ frameOffset = f.off
      BY <2>1, <2>2, <3>1
    <3> QED
      BY <1>0, <2>1, <3>0, <3>2, <3>3, <3>4, <3>5, <3>6, GoodChunk, Zenon
  <2> QED
    BY <2>3, <2>4
<1>2. ASSUME NEW n \in 0 .. ChunkMax, NEW fin \in BOOLEAN, NEW size \in 0 .. FrameMax,
             StartFrame(fin, size, n)
      PROVE  WsInv'
  <2> DEFINE f == [op |-> 0, fin |-> fin, size |-> size, off |-> 0]
             bad == spoiled \/ sent + size > JsonMax
  <2>1. f \in Frames /\ f.op = 0 /\ f.size = size /\ f.off = 0 /\ ~Starts(f.op, f.off)
    BY DEF Frames, Starts
  <2>2. /\ Deliver(message, sent, f, n, bad) /\ ~done /\ FrameDone
        /\ active => /\ ~spoiled /\ used = sent /\ content = Bytes(message, 0, sent)
                     /\ frameOffset = 0
        /\ ~active => spoiled
    BY <1>0, <1>2 DEF StartFrame, InStep
  <2> HIDE DEF f
  <2>3. CASE bad
    <3>1. Deliver(message, sent, f, n, TRUE)
      BY <2>2, <2>3 DEF Deliver
    <3>2. \/ f.op = 2
          \/ Starts(f.op, f.off) /\ f.size > JsonMax
          \/ ~Starts(f.op, f.off) /\ ~active
          \/ ~Starts(f.op, f.off) /\ used = sent /\ f.off = 0 /\ sent + f.size > JsonMax
      BY <2>1, <2>2, <2>3
    <3>3. n \in Nat /\ f.off <= f.size /\ (f.op # 0 => f.off = sent)
      BY <2>1
    <3> QED
      BY <1>0, <2>1, <3>1, <3>2, <3>3, BadChunk, Zenon
  <2>4. CASE ~bad
    <3>1. ~spoiled /\ sent + size <= JsonMax
      BY <1>0, <2>4
    <3>2. Deliver(message, sent, f, n, FALSE)
      BY <2>2, <2>4 DEF Deliver
    <3>3. n \in Nat /\ f.off <= f.size /\ f.op \in {0, 1} /\ (f.op # 0 => f.off = sent)
      BY <2>1, <3>1
    <3>4. sent + (f.size - f.off) <= JsonMax
      BY <1>0, <2>1, <3>1
    <3>5. Starts(f.op, f.off) => ~active /\ sent = 0
      BY <2>1, <2>2
    <3>6. ~Starts(f.op, f.off) =>
            active /\ used = sent /\ content = Bytes(message, 0, sent) /\ frameOffset = f.off
      BY <2>1, <2>2, <3>1
    <3> QED
      BY <1>0, <2>1, <3>2, <3>3, <3>4, <3>5, <3>6, GoodChunk, Zenon
  <2> QED
    BY <2>3, <2>4
<1>3. ASSUME NEW n \in 0 .. ChunkMax, ContinueFrame(n)
      PROVE  WsInv'
  <2>1. /\ Deliver(message, sent, frame, n, spoiled) /\ ~FrameDone
        /\ frame.off <= frame.size /\ frame.off > 0 /\ ~done
        /\ frame.op # 0 => frame.off = sent
    BY <1>0, <1>3 DEF ContinueFrame, FrameDone, SenderOK
  <2>2. /\ active => /\ ~spoiled /\ used = sent /\ content = Bytes(message, 0, sent)
                     /\ frameOffset = frame.off
        /\ ~active => spoiled
        /\ ~Starts(frame.op, frame.off)
    BY <1>0, <2>1 DEF InStep, Starts
  <2>3. CASE spoiled
    <3>1. Deliver(message, sent, frame, n, TRUE) /\ ~active
      BY <2>1, <2>2, <2>3 DEF Deliver
    <3>2. \/ frame.op = 2
          \/ Starts(frame.op, frame.off) /\ frame.size > JsonMax
          \/ ~Starts(frame.op, frame.off) /\ ~active
          \/ ~Starts(frame.op, frame.off) /\ used = sent /\ frame.off = 0 /\ sent + frame.size > JsonMax
      BY <2>2, <3>1
    <3>3. n \in Nat
      OBVIOUS
    <3> QED
      BY <1>0, <2>1, <3>1, <3>2, <3>3, BadChunk, Zenon
  <2>4. CASE ~spoiled
    <3>1. /\ Deliver(message, sent, frame, n, FALSE) /\ active
          /\ frame.op \in {0, 1} /\ sent + (frame.size - frame.off) <= JsonMax
      BY <1>0, <2>1, <2>2, <2>4 DEF Deliver, SenderOK
    <3>2. n \in Nat
      OBVIOUS
    <3>3. Starts(frame.op, frame.off) => ~active /\ sent = 0
      BY <2>2
    <3>4. ~Starts(frame.op, frame.off) =>
            active /\ used = sent /\ content = Bytes(message, 0, sent) /\ frameOffset = frame.off
      BY <2>2, <3>1
    <3> QED
      BY <1>0, <2>1, <3>1, <3>2, <3>3, <3>4, GoodChunk, Zenon
  <2> QED
    BY <2>3, <2>4
<1>4. CASE CloseSession
  <2>1. /\ used' = 0 /\ frameOffset' = 0 /\ active' = FALSE /\ result' = 0
        /\ message' = 1 - message /\ sent' = 0 /\ frame' = NoFrame
        /\ spoiled' = FALSE /\ done' = TRUE
    BY <1>4 DEF CloseSession, ClearBuffer
  <2>2. NoFrame \in Frames /\ NoFrame.off = 0 /\ NoFrame.size = 0 /\ NoFrame.op = 0
        /\ NoFrame.fin = TRUE
    BY DEF NoFrame, Frames
  <2> QED
    <3>1. TypeOK'
      <4>1. used' \in 0 .. JsonMax /\ frameOffset' \in Nat /\ sent' \in Nat
        BY <2>1
      <4>2. active' \in BOOLEAN /\ spoiled' \in BOOLEAN /\ done' \in BOOLEAN
        BY <2>1
      <4>3. result' \in {-1, 0, 1} /\ message' \in {0, 1} /\ frame' \in Frames
        BY <1>0, <2>1, <2>2
      <4> QED
        BY <4>1, <4>2, <4>3 DEF TypeOK
    <3>2. InStep'
      BY <2>1, <2>2 DEF InStep, SenderOK
    <3>3. DeliversExactlyGood' /\ DeliversWhole'
      BY <2>1 DEF DeliversExactlyGood, DeliversWhole
    <3> QED
      BY <3>1, <3>2, <3>3 DEF WsInv
<1>5. CASE UNCHANGED vars
  BY <1>5 DEF vars, buffer, sender, WsInv, TypeOK, InStep, SenderOK, FrameDone,
              DeliversExactlyGood, DeliversWhole
<1> QED
  BY <1>1, <1>2, <1>3, <1>4, <1>5 DEF Next

(* So monitor_ws_chunk and the client agree in every reachable state.      *)
THEOREM WsHolds == Spec => []WsInv
<1>1. Init => WsInv
  <2> SUFFICES ASSUME Init PROVE WsInv
    OBVIOUS
  <2>1. NoFrame \in Frames /\ NoFrame.off = 0 /\ NoFrame.size = 0 /\ NoFrame.op = 0
        /\ NoFrame.fin = TRUE
    BY DEF NoFrame, Frames
  <2>2. TypeOK
    <3>1. used \in 0 .. JsonMax /\ frameOffset \in Nat /\ sent \in Nat
      BY AssemblerAssumption DEF Init
    <3>2. active \in BOOLEAN /\ spoiled \in BOOLEAN /\ done \in BOOLEAN
      BY DEF Init
    <3>3. result \in {-1, 0, 1} /\ message \in {0, 1} /\ frame \in Frames
      BY <2>1 DEF Init
    <3> QED
      BY <3>1, <3>2, <3>3 DEF TypeOK
  <2>3. InStep
    BY <2>1, AssemblerAssumption DEF Init, InStep, SenderOK
  <2>4. DeliversExactlyGood /\ DeliversWhole
    BY DEF Init, DeliversExactlyGood, DeliversWhole
  <2> QED
    BY <2>2, <2>3, <2>4 DEF WsInv
<1> QED
  BY <1>1, WsStep, PTL DEF Spec

(* monitor_ws_chunk: used never passes SERVER_JSON_MAX, whatever the server *)
(* sends and wherever a session is cut off.                                *)
THEOREM BufferBounded == Spec => []TypeOK
<1>1. WsInv => TypeOK
  BY DEF WsInv
<1> QED
  BY <1>1, WsHolds, PTL

(* monitor_ws_chunk and the client stay in step about the message that is  *)
(* being received.                                                         *)
THEOREM StaysInStep == Spec => []InStep
<1>1. WsInv => InStep
  BY DEF WsInv
<1> QED
  BY <1>1, WsHolds, PTL

(* monitor_ws_chunk returns 1 for exactly the complete texts that fit.     *)
THEOREM DeliveredExactly == Spec => []DeliversExactlyGood
<1>1. WsInv => DeliversExactlyGood
  BY DEF WsInv
<1> QED
  BY <1>1, WsHolds, PTL

(* What the parser sees is the message as it was sent.                     *)
THEOREM DeliveredWhole == Spec => []DeliversWhole
<1>1. WsInv => DeliversWhole
  BY DEF WsInv
<1> QED
  BY <1>1, WsHolds, PTL

(* monitor_ws_chunk hands over exactly the good messages, as sent, and     *)
(* stays inside its buffer.                                                *)
THEOREM DeliveryIsRight == Spec => []Delivers
<1>1. TypeOK /\ DeliversExactlyGood /\ DeliversWhole => Delivers
  BY DEF Delivers
<1> QED
  BY <1>1, BufferBounded, DeliveredExactly, DeliveredWhole, PTL

-----------------------------------------------------------------------------
(* What makes the worker safe.  The mutex tells apart who is between       *)
(* taking and giving it; a number is armed only from the middle of         *)
(* arm_deadline to disarm_deadline, and is then that of the fetch's own    *)
(* connection; and outside arm_deadline the worker's clock is the          *)
(* fetch's.                                                                *)
Exclusion ==
  /\ lock = "fetch" <=> fetching \in {"socket", "deadline", "clear"}
  /\ lock = "worker" <=> worker \in {"look", "shut"}
OwnSocket ==
  /\ fetching = "idle" => sock = Http!None
  /\ sock # Http!None => owner[sock] = "fetch"
  /\ fetching \in {"arm", "socket", "deadline", "headers"} => bodyUsed = 0
  /\ fetching = "body" => bodyUsed <= MaxBody
Armed ==
  /\ armed # Http!None => armed = sock /\ fetching \in {"deadline", "headers", "body", "disarm", "clear"}
  /\ armed # Http!None /\ fetching # "deadline" => due = left
  /\ worker = "shut" => armed # Http!None /\ due = 0
Cut == \A n \in cut : n = sock /\ left = 0
HttpInv == Http!TypeOK /\ Exclusion /\ OwnSocket /\ Armed /\ Cut

-----------------------------------------------------------------------------
(* "None" is no socket, and time does not go below zero.                   *)
LEMMA NoSocket == Http!None \notin Sockets
  BY PathAssumption DEF Http!DeadlineAssumption, Http!None

LEMMA HttpDown ==
  ASSUME NEW n \in 0 .. Patience
  PROVE  /\ Http!Less(n) \in 0 .. Patience /\ (n = 0 => Http!Less(n) = 0)
         /\ 0 \in 0 .. Patience
  BY PathAssumption DEF Http!DeadlineAssumption, Http!Less

LEMMA HttpStart == Http!Init => HttpInv
<1> SUFFICES ASSUME Http!Init PROVE HttpInv
  OBVIOUS
<1>1. owner \in [Sockets -> {"free", "fetch", "other"}]
  BY DEF Http!Init
<1>2. Http!TypeOK
  BY PathAssumption, <1>1, HttpDown DEF Http!Init, Http!TypeOK, Http!DeadlineAssumption
<1> QED
  BY <1>2 DEF Http!Init, HttpInv, Exclusion, OwnSocket, Armed, Cut

(* The invariant says more than the property: a socket that was cut is the *)
(* fetch's, and late.                                                      *)
LEMMA HttpEnough == HttpInv => CutsOnlyLate
  BY NoSocket DEF HttpInv, Http!TypeOK, OwnSocket, Cut, CutsOnlyLate, Http!CutsOnlyLate,
     Http!OthersUntouched, Http!NotCutEarly

-----------------------------------------------------------------------------
(* Time, and the connections of others.                                    *)
LEMMA HttpOthers ==
  ASSUME HttpInv,
         Http!Tick \/ (\E n \in Sockets : Http!OtherOpens(n) \/ Http!OtherCloses(n)) \/ UNCHANGED Http!vars
  PROVE  HttpInv'
<1> USE DEF HttpInv, Http!TypeOK, Exclusion, OwnSocket, Armed, Cut
<1>1. CASE Http!Tick
  <2>1. due' \in 0 .. Patience /\ left' \in 0 .. Patience
    BY <1>1, HttpDown DEF Http!Tick
  <2>2. (due = left => due' = left') /\ (due = 0 => due' = 0) /\ (left = 0 => left' = 0)
    BY <1>1, HttpDown DEF Http!Tick
  <2> QED
    BY <1>1, <2>1, <2>2 DEF Http!Tick
<1>2. ASSUME NEW n \in Sockets, Http!OtherOpens(n) PROVE HttpInv'
  <2>1. owner' \in [Sockets -> {"free", "fetch", "other"}] /\ (sock # Http!None => owner'[sock] = "fetch")
    BY <1>2 DEF Http!OtherOpens
  <2> QED
    BY <1>2, <2>1 DEF Http!OtherOpens, Http!fetchVars
<1>3. ASSUME NEW n \in Sockets, Http!OtherCloses(n) PROVE HttpInv'
  <2>1. owner' \in [Sockets -> {"free", "fetch", "other"}] /\ (sock # Http!None => owner'[sock] = "fetch")
    BY <1>3 DEF Http!OtherCloses
  <2> QED
    BY <1>3, <2>1 DEF Http!OtherCloses, Http!fetchVars
<1>4. CASE UNCHANGED Http!vars
  BY <1>4 DEF Http!vars, Http!fetchVars
<1> QED
  BY <1>1, <1>2, <1>3, <1>4

(* The worker: the number it shuts down is that of a fetch whose time is   *)
(* over, because nobody can have disarmed it or armed another since it     *)
(* looked.                                                                 *)
LEMMA HttpWorker == ASSUME HttpInv, Http!Worker PROVE HttpInv'
<1> USE DEF HttpInv, Http!TypeOK, Exclusion, OwnSocket, Armed, Cut
<1>1. CASE Http!Take
  BY <1>1 DEF Http!Take, Http!fetchVars
<1>2. CASE Http!Look
  BY <1>2 DEF Http!Look, Http!Passed, Http!fetchVars
<1>3. CASE Http!Shut
  <2>1. lock = "worker" /\ fetching # "deadline" /\ armed # Http!None /\ armed = sock /\ left = 0
    BY <1>3 DEF Http!Shut
  <2>2. cut' \subseteq cut \cup {sock} /\ cut' \subseteq Sockets
    BY <1>3, <2>1 DEF Http!Shut
  <2> QED
    BY <1>3, <2>1, <2>2 DEF Http!Shut, Http!fetchVars
<1> QED
  BY <1>1, <1>2, <1>3 DEF Http!Worker

(* fetch(), its helpers included.                                          *)
LEMMA HttpFetch ==
  ASSUME HttpInv, Http!Own \/ Http!ArmTake \/ Http!DisarmTake \/ Http!Reads
  PROVE  HttpInv'
<1> USE DEF HttpInv, Http!TypeOK, Exclusion, OwnSocket, Armed, Cut
<1>0. Http!None \notin Sockets
  BY NoSocket
<1>1. CASE Http!Open
  <2>1. sock = Http!None /\ armed = Http!None /\ cut = {} /\ lock # "fetch" /\ worker # "shut"
    BY <1>0, <1>1 DEF Http!Open
  <2>2. owner' \in [Sockets -> {"free", "fetch", "other"}] /\ (sock' # Http!None => owner'[sock'] = "fetch")
        /\ sock' \in Sockets \cup {Http!None} /\ fetching' \in {"arm", "disarm"}
    BY <1>1, <2>1 DEF Http!Open
  <2>3. bodyUsed' \in 0 .. MaxBody + 1 /\ declared' \in 0 .. MaxBody + 2
    BY PathAssumption, <1>1 DEF Http!Open, Http!DeadlineAssumption
  <2> QED
    BY <1>1, <2>1, <2>2, <2>3 DEF Http!Open
<1>2. CASE Http!ArmTake
  BY <1>2 DEF Http!ArmTake, Http!Fetch, Http!Lockable
<1>3. CASE Http!ArmSocket
  BY <1>3 DEF Http!ArmSocket, Http!Fetch
<1>4. CASE Http!ArmDeadline
  BY <1>4 DEF Http!ArmDeadline, Http!Fetch
<1>5. CASE Http!Headers
  BY PathAssumption, <1>5 DEF Http!Headers, Http!DeadlineAssumption
<1>6. CASE Http!Body
  <2>1. bodyUsed' \in 0 .. MaxBody + 1 /\ (fetching' = "body" => bodyUsed' <= MaxBody)
    BY PathAssumption, <1>6 DEF Http!Body, Http!Fits, Http!DeadlineAssumption
  <2> QED
    BY <1>6, <2>1 DEF Http!Body
<1>7. CASE Http!DisarmTake
  BY <1>7 DEF Http!DisarmTake, Http!Fetch, Http!Lockable
<1>8. CASE Http!DisarmClear
  BY <1>8 DEF Http!DisarmClear, Http!Fetch, Http!Disarmed
<1>9. CASE Http!Close
  <2>1. owner' \in [Sockets -> {"free", "fetch", "other"}]
    BY <1>9 DEF Http!Close
  <2>2. cut' = {}
    BY <1>9 DEF Http!Close
  <2> QED
    BY <1>9, <2>1, <2>2 DEF Http!Close, Http!Fetch
<1> QED
  BY <1>1, <1>2, <1>3, <1>4, <1>5, <1>6, <1>7, <1>8, <1>9 DEF Http!Own, Http!Reads

LEMMA HttpStep == HttpInv /\ [Http!Next]_Http!vars => HttpInv'
  BY HttpOthers, HttpWorker, HttpFetch DEF Http!Next

LEMMA HttpHolds == Http!Init /\ [][Http!Next]_Http!vars => []HttpInv
  BY HttpStart, HttpStep, PTL

-----------------------------------------------------------------------------
(* The agent (StatusAgent).  Reservations are counted on the set of the    *)
(* handlers, which is finite however many connections there may be; nobody *)
(* has been sent a number that has not been given yet; and of what a send  *)
(* task still has, only the first message may be a status, and that is no  *)
(* older than what the connection got before.                              *)
Handlers == {c \in Conns : handler[c] # "none"}
Numbered ==
  /\ snap # Agent!Nothing => snap.seq = seq
  /\ \A c \in Conns : seen[c] <= seq /\ heard[c] <= alertSeq
Boxed(c) ==
  /\ handler[c] = "prepare" => outbox[c] = <<>> /\ c \notin clients
  /\ \A i \in DOMAIN outbox[c] :
       /\ outbox[c][i].type = "status" =>
            /\ i = 1 /\ outbox[c][i].seq <= seq
            /\ handler[c] # "none" => outbox[c][i].seq >= seen[c]
       /\ outbox[c][i].type = "alert" => outbox[c][i].seq <= alertSeq
Newest(c) ==
  \A i \in DOMAIN outbox[c] :
    handler[c] # "none" /\ outbox[c][i].type = "alert" =>
      /\ outbox[c][i].seq > heard[c] /\ outbox[c][i].seq > seen[c]
      /\ \A j \in 1 .. i - 1 : outbox[c][i].seq > outbox[c][j].seq
AgentInv ==
  /\ Agent!TypeOK /\ IsFiniteSet(Handlers) /\ Agent!Accounted
  /\ Numbered /\ \A c \in Conns : Boxed(c) /\ Newest(c)

MessageSet == [type : {"status", "alert"}, seq : Nat]

(* The agent counts with the operators of FiniteSets.                      *)
LEMMA SameCount ==
  ASSUME NEW S
  PROVE  /\ Agent!IsFiniteSet(S) <=> IsFiniteSet(S)
         /\ Agent!Cardinality(S) = Cardinality(S)
<1>1. Agent!IsFiniteSet(S) <=> IsFiniteSet(S)
  BY DEF Agent!IsFiniteSet, IsFiniteSet
<1>2. Agent!Cardinality(S) = Cardinality(S)
  BY DEF Agent!Cardinality, Cardinality
<1> QED
  BY <1>1, <1>2

LEMMA AgentStart == Agent!Init => AgentInv
<1> SUFFICES ASSUME Agent!Init PROVE AgentInv
  OBVIOUS
<1> USE PathAssumption DEF Agent!AgentAssumption, Agent!Init
<1>1. Handlers = {}
  BY DEF Handlers
<1>2. Agent!TypeOK
  <2>1. 0 \in 0 .. MaxSeq /\ 0 \in 0 .. Limit /\ <<>> \in Seq(MessageSet)
    OBVIOUS
  <2>2. snap \in [seq : 0 .. MaxSeq, hot : SUBSET Channels]
    BY <2>1 DEF Agent!Nothing
  <2>3. outbox \in [Conns -> Seq(MessageSet)]
    BY <2>1
  <2> QED
    BY <2>1, <2>2, <2>3 DEF Agent!TypeOK, MessageSet
<1>3. IsFiniteSet(Handlers) /\ Agent!Accounted
  <2>1. Cardinality(Handlers) = 0 /\ IsFiniteSet(Handlers)
    BY <1>1, FS_EmptySet
  <2>2. Agent!Accounted <=> reserved = Cardinality(Handlers)
    BY SameCount DEF Agent!Accounted, Handlers
  <2> QED
    BY <2>1, <2>2
<1>4. Numbered /\ \A c \in Conns : Boxed(c) /\ Newest(c)
  BY DEF Numbered, Boxed, Newest
<1> QED
  BY <1>2, <1>3, <1>4 DEF AgentInv

LEMMA AgentEnough == AgentInv => ClientsServed
  BY DEF AgentInv, Newest, ClientsServed, Agent!ClientsServed, Agent!AlertsNewer

-----------------------------------------------------------------------------
(* A handler begins or ends: the reservations and the handlers move        *)
(* together.                                                               *)
LEMMA Counted ==
  ASSUME AgentInv, NEW c \in Conns,
         \/ /\ handler[c] = "none" /\ reserved' = reserved + 1
            /\ handler' = [handler EXCEPT ![c] = "prepare"]
         \/ /\ handler[c] # "none" /\ reserved' = reserved - 1
            /\ handler' = [handler EXCEPT ![c] = "none"]
  PROVE  IsFiniteSet(Handlers') /\ Agent!Accounted' /\ reserved' >= 0
<1>0. /\ handler \in [Conns -> {"none", "prepare", "first", "open"}]
      /\ IsFiniteSet(Handlers) /\ Cardinality(Handlers) = reserved
      /\ Agent!Accounted' <=> reserved' = Cardinality(Handlers')
  BY SameCount DEF AgentInv, Agent!TypeOK, Handlers, Agent!Accounted
<1>1. CASE handler[c] = "none"
  <2>1. Handlers' = Handlers \cup {c} /\ c \notin Handlers
    BY <1>0, <1>1 DEF Handlers
  <2>2. /\ IsFiniteSet(Handlers') /\ Cardinality(Handlers') = Cardinality(Handlers) + 1
        /\ Cardinality(Handlers') \in Nat
    BY <1>0, <2>1, FS_AddElement, FS_CardinalityType
  <2> QED
    BY <1>0, <1>1, <2>2
<1>2. CASE handler[c] # "none"
  <2>1. Handlers' = Handlers \ {c} /\ c \in Handlers
    BY <1>0, <1>2 DEF Handlers
  <2>2. /\ IsFiniteSet(Handlers') /\ Cardinality(Handlers') = Cardinality(Handlers) - 1
        /\ Cardinality(Handlers') \in Nat
    BY <1>0, <2>1, FS_RemoveElement, FS_CardinalityType
  <2> QED
    BY <1>0, <1>2, <2>2
<1> QED
  BY <1>1, <1>2

(* Where no handler begins or ends there is nothing to count.              *)
LEMMA SameHandlers ==
  ASSUME AgentInv, reserved' = reserved, \A c \in Conns : handler'[c] # "none" <=> handler[c] # "none"
  PROVE  IsFiniteSet(Handlers') /\ Agent!Accounted'
<1>1. Handlers' = Handlers
  BY DEF Handlers
<1> QED
  BY <1>1, SameCount DEF AgentInv, Agent!Accounted, Handlers

(* What a send task has left is a sequence of messages.                    *)
LEMMA BoxTyped ==
  ASSUME AgentInv, NEW c \in Conns
  PROVE  /\ outbox[c] \in Seq(MessageSet) /\ Len(outbox[c]) \in Nat
         /\ DOMAIN outbox[c] = 1 .. Len(outbox[c])
         /\ \A i \in DOMAIN outbox[c] : outbox[c][i] \in MessageSet
<1>1. outbox[c] \in Seq(MessageSet)
  BY DEF AgentInv, Agent!TypeOK, MessageSet
<1> QED
  BY <1>1, LenProperties, ElementOfSeq

-----------------------------------------------------------------------------
(* The sampler; requests that are refused; peers that stop reading.        *)
LEMMA AgentIdles ==
  ASSUME AgentInv,
         \/ Agent!Sample \/ Agent!Expire \/ Agent!RoundDone \/ Agent!Refuse
         \/ (\E c \in Conns : Agent!Stall(c) \/ Agent!Drained(c)) \/ UNCHANGED Agent!vars
  PROVE  AgentInv'
<1> USE PathAssumption DEF Agent!AgentAssumption, Agent!sampler, Agent!engine, Agent!tasks,
        Agent!sockets, Agent!history
<1>0. UNCHANGED <<outbox, handler, clients, reserved, seen, heard, alertSeq>>
  BY DEF Agent!Sample, Agent!Expire, Agent!RoundDone, Agent!Refuse, Agent!Stall,
     Agent!Drained, Agent!vars
<1>1. /\ seq' \in 0 .. MaxSeq /\ seq' >= seq /\ (snap' # Agent!Nothing => snap'.seq = seq')
      /\ snap' \in [seq : 0 .. MaxSeq, hot : SUBSET Channels]
  <2> USE DEF AgentInv, Numbered, Agent!TypeOK
  <2>1. CASE Agent!Sample
    BY <2>1 DEF Agent!Sample
  <2>2. CASE Agent!Expire
    BY <2>2 DEF Agent!Expire, Agent!Nothing
  <2>3. CASE Agent!RoundDone \/ Agent!Refuse \/ (\E c \in Conns : Agent!Stall(c) \/ Agent!Drained(c)) \/ UNCHANGED Agent!vars
    BY <2>3 DEF Agent!RoundDone, Agent!Refuse, Agent!Stall, Agent!Drained, Agent!vars
  <2> QED
    BY <2>1, <2>2, <2>3
<1>2. Agent!TypeOK'
  <2>1. /\ lastSeq' = lastSeq /\ agentActive' = agentActive /\ first' = first
        /\ gather' \in BOOLEAN /\ drain' \in [Conns -> BOOLEAN] /\ reads' \in [Conns -> BOOLEAN]
    BY DEF AgentInv, Agent!TypeOK, Agent!Sample, Agent!Expire, Agent!RoundDone, Agent!Refuse,
           Agent!Stall, Agent!Drained, Agent!vars
  <2> QED
    BY <1>0, <1>1, <2>1 DEF AgentInv, Agent!TypeOK
<1>3. IsFiniteSet(Handlers') /\ Agent!Accounted'
  BY <1>0, SameHandlers
<1>4. Numbered' /\ \A c \in Conns : Boxed(c)' /\ Newest(c)'
  <2>1. \A c \in Conns : seen[c] \in Nat /\ seq \in Nat
    BY DEF AgentInv, Agent!TypeOK
  <2>2. Numbered'
    BY <1>0, <1>1, <2>1 DEF AgentInv, Numbered
  <2>3. ASSUME NEW c \in Conns PROVE Newest(c)'
    BY <1>0 DEF AgentInv, Newest
  <2>4. ASSUME NEW c \in Conns PROVE Boxed(c)'
    <3>1. \A i \in DOMAIN outbox[c] : outbox[c][i].seq \in Nat
      BY BoxTyped DEF MessageSet
    <3> QED
      BY <1>0, <1>1, <2>1, <3>1 DEF AgentInv, Boxed
  <2> QED
    BY <2>2, <2>3, <2>4
<1> QED
  BY <1>2, <1>3, <1>4 DEF AgentInv

(* websocket(): a handler begins, sends its first snapshot, and ends.      *)
LEMMA AgentServes ==
  ASSUME AgentInv, NEW c \in Conns,
         Agent!Accept(c) \/ Agent!Prepared(c) \/ Agent!FirstSent(c) \/ Agent!Ends(c)
  PROVE  AgentInv'
<1> USE PathAssumption DEF Agent!AgentAssumption, Agent!sampler, Agent!engine, Agent!tasks,
        Agent!sockets, Agent!history
<1>0. UNCHANGED <<seq, snap, lastSeq, agentActive, alertSeq, gather, outbox, drain>>
  BY DEF Agent!Accept, Agent!Prepared, Agent!FirstSent, Agent!Ends
<1>a. snap.seq \in 0 .. MaxSeq /\ (snap # Agent!Nothing => snap.seq = seq) /\ seq \in Nat
  BY DEF AgentInv, Agent!TypeOK, Numbered
<1>1. /\ Agent!TypeOK' /\ IsFiniteSet(Handlers') /\ Agent!Accounted'
  <2>1. CASE Agent!Accept(c)
    <3>1. IsFiniteSet(Handlers') /\ Agent!Accounted'
      BY <2>1, Counted DEF Agent!Accept
    <3> QED
      BY <2>1, <3>1 DEF Agent!Accept, Agent!Room, AgentInv, Agent!TypeOK
  <2>2. CASE Agent!Prepared(c)
    <3>1. IsFiniteSet(Handlers') /\ Agent!Accounted'
      BY <2>2, SameHandlers DEF Agent!Prepared, AgentInv, Agent!TypeOK
    <3>2. seen' \in [Conns -> Nat]
      BY <2>2, <1>a DEF Agent!Prepared, AgentInv, Agent!TypeOK
    <3> QED
      BY <2>2, <1>a, <3>1, <3>2 DEF Agent!Prepared, AgentInv, Agent!TypeOK
  <2>3. CASE Agent!FirstSent(c)
    <3>1. IsFiniteSet(Handlers') /\ Agent!Accounted'
      BY <2>3, SameHandlers DEF Agent!FirstSent, AgentInv, Agent!TypeOK
    <3> QED
      BY <2>3, <3>1 DEF Agent!FirstSent, Agent!AtOnce, AgentInv, Agent!TypeOK
  <2>4. CASE Agent!Ends(c)
    <3>1. IsFiniteSet(Handlers') /\ Agent!Accounted' /\ reserved' >= 0
      BY <2>4, Counted DEF Agent!Ends, Agent!GivenBack
    <3> QED
      BY <2>4, <3>1 DEF Agent!Ends, Agent!GivenBack, AgentInv, Agent!TypeOK
  <2> QED
    BY <2>1, <2>2, <2>3, <2>4
<1>2. Numbered'
  <2> USE DEF AgentInv, Agent!TypeOK, Numbered
  <2>1. CASE Agent!Prepared(c)
    BY <2>1, <1>0, <1>a DEF Agent!Prepared
  <2>2. CASE Agent!Accept(c) \/ Agent!FirstSent(c)
    BY <2>2, <1>0 DEF Agent!Accept, Agent!FirstSent, Agent!AtOnce
  <2>3. CASE Agent!Ends(c)
    BY <2>3, <1>0 DEF Agent!Ends
  <2> QED
    BY <2>1, <2>2, <2>3
<1>3. ASSUME NEW d \in Conns PROVE Boxed(d)' /\ Newest(d)'
  <2> USE DEF Boxed, Newest
  <2>0. Boxed(d) /\ Newest(d)
    BY DEF AgentInv
  <2>1. CASE d # c
    <3>1. /\ handler'[d] = handler[d] /\ seen'[d] = seen[d] /\ heard'[d] = heard[d]
          /\ outbox'[d] = outbox[d] /\ seq' = seq /\ alertSeq' = alertSeq
      BY <2>1, <1>0 DEF AgentInv, Agent!TypeOK, Agent!Accept, Agent!Prepared, Agent!FirstSent,
         Agent!Ends
    <3>2. d \in clients' <=> d \in clients
      BY <2>1 DEF Agent!Accept, Agent!Prepared, Agent!FirstSent, Agent!Ends
    <3> QED
      BY <2>0, <3>1, <3>2
  <2>2. CASE d = c /\ (Agent!Accept(c) \/ Agent!Prepared(c))
    <3>1. outbox'[d] = <<>> /\ (handler'[d] = "prepare" => d \notin clients')
      BY <2>0, <2>2, <1>0 DEF AgentInv, Agent!TypeOK, Agent!Accept, Agent!Prepared
    <3> QED
      BY <3>1
  <2>3. CASE d = c /\ Agent!FirstSent(c)
    BY <2>0, <2>3, <1>0 DEF AgentInv, Agent!TypeOK, Agent!FirstSent, Agent!AtOnce
  <2>4. CASE d = c /\ Agent!Ends(c)
    BY <2>0, <2>4, <1>0 DEF AgentInv, Agent!TypeOK, Agent!Ends
  <2> QED
    BY <2>1, <2>2, <2>3, <2>4
<1> QED
  BY <1>1, <1>2, <1>3 DEF AgentInv

-----------------------------------------------------------------------------
(* broadcast(): the messages of a round are the status, numbered by its    *)
(* sample, and alerts numbered upwards from above the sample and every     *)
(* alert before.                                                           *)
LEMMA Alerted ==
  ASSUME AgentInv
  PROVE  /\ Cardinality(Agent!Edges) \in Nat
         /\ Cardinality(Agent!Edges) = 0 <=> Agent!Edges = {}
         /\ Agent!Messages \in Seq(MessageSet)
         /\ Len(Agent!Messages) = Cardinality(Agent!Edges) + 1
         /\ Agent!Messages[1] = [type |-> "status", seq |-> snap.seq]
         /\ \A i \in 2 .. Cardinality(Agent!Edges) + 1 :
              Agent!Messages[i] = [type |-> "alert", seq |-> Agent!Number(i - 1)]
         /\ Agent!Edges # {} => Agent!Last(Agent!Alerts).seq = Agent!Number(Cardinality(Agent!Edges))
         /\ \A i \in Nat : /\ Agent!Number(i) \in Nat
                           /\ i > 0 => Agent!Number(i) > alertSeq /\ Agent!Number(i) > snap.seq
                           /\ \A j \in Nat : j < i => Agent!Number(j) < Agent!Number(i)
<1> DEFINE n == Cardinality(Agent!Edges)
           status == <<[type |-> "status", seq |-> snap.seq]>>
<1>0. snap.seq \in Nat /\ alertSeq \in Nat /\ snap.hot \subseteq Channels
  BY PathAssumption DEF AgentInv, Agent!TypeOK, Agent!AgentAssumption
<1>1. IsFiniteSet(Agent!Edges) /\ n \in Nat /\ (n = 0 <=> Agent!Edges = {})
  <2>1. Agent!Edges \in SUBSET Channels /\ IsFiniteSet(Channels)
    BY <1>0, PathAssumption, SameCount DEF Agent!Edges, Agent!AgentAssumption
  <2>2. IsFiniteSet(Agent!Edges)
    BY <2>1, FS_Subset
  <2> QED
    BY <2>2, FS_CardinalityType, FS_EmptySet
<1>2. \A i \in Nat : /\ Agent!Number(i) \in Nat
                     /\ i > 0 => Agent!Number(i) > alertSeq /\ Agent!Number(i) > snap.seq
                     /\ \A j \in Nat : j < i => Agent!Number(j) < Agent!Number(i)
  BY <1>0 DEF Agent!Number
<1> HIDE DEF n
<1>3. Agent!Alerts = [i \in 1 .. n |-> [type |-> "alert", seq |-> Agent!Number(i)]]
  BY SameCount DEF Agent!Alerts, n
<1>4. Agent!Alerts \in Seq(MessageSet) /\ Len(Agent!Alerts) = n
  BY <1>1, <1>2, <1>3 DEF MessageSet
<1>5. status \in Seq(MessageSet) /\ Len(status) = 1 /\ status[1] = [type |-> "status", seq |-> snap.seq]
  BY <1>0 DEF MessageSet
<1> HIDE DEF status
<1>6. Agent!Messages = status \o Agent!Alerts
  BY DEF Agent!Messages, status
<1>7. /\ Agent!Messages \in Seq(MessageSet) /\ Len(Agent!Messages) = n + 1
      /\ \A i \in 1 .. n + 1 : Agent!Messages[i] = IF i <= 1 THEN status[i] ELSE Agent!Alerts[i - 1]
  <2>1. /\ status \o Agent!Alerts \in Seq(MessageSet)
        /\ Len(status \o Agent!Alerts) = Len(status) + Len(Agent!Alerts)
        /\ \A i \in 1 .. Len(status) + Len(Agent!Alerts) : (status \o Agent!Alerts)[i] =
              IF i <= Len(status) THEN status[i] ELSE Agent!Alerts[i - Len(status)]
    BY <1>4, <1>5, ConcatProperties
  <2>2. Len(status) + Len(Agent!Alerts) = n + 1
    BY <1>1, <1>4, <1>5
  <2> QED
    BY <1>5, <1>6, <2>1, <2>2
<1>8. \A i \in 2 .. n + 1 : Agent!Messages[i] = [type |-> "alert", seq |-> Agent!Number(i - 1)]
  BY <1>1, <1>3, <1>7
<1>9. Agent!Messages[1] = [type |-> "status", seq |-> snap.seq]
  BY <1>1, <1>5, <1>7
<1>10. Agent!Edges # {} => Agent!Last(Agent!Alerts).seq = Agent!Number(n)
  BY <1>1, <1>3, <1>4 DEF Agent!Last
<1> QED
  BY <1>1, <1>2, <1>7, <1>8, <1>9, <1>10 DEF n

LEMMA AgentRound == ASSUME AgentInv, Agent!Round PROVE AgentInv'
<1> DEFINE n == Cardinality(Agent!Edges)
<1> USE DEF Agent!sampler, Agent!engine, Agent!tasks, Agent!sockets, Agent!history
<1>0. UNCHANGED <<seq, snap, drain, handler, first, clients, reserved, reads, seen, heard>>
  BY DEF Agent!Round
<1>1. snap.seq = seq /\ seq \in 0 .. MaxSeq /\ alertSeq \in Nat /\ snap.hot \subseteq Channels
  BY DEF Agent!Round, AgentInv, Agent!TypeOK, Numbered
<1>2. n \in Nat /\ (n = 0 <=> Agent!Edges = {})
  BY Alerted
<1> HIDE DEF n
<1>3. /\ Agent!Messages \in Seq(MessageSet) /\ Len(Agent!Messages) = n + 1
      /\ Agent!Messages[1] = [type |-> "status", seq |-> seq]
      /\ \A i \in 2 .. n + 1 : Agent!Messages[i] = [type |-> "alert", seq |-> Agent!Number(i - 1)]
  BY <1>1, Alerted DEF n
<1>4. \A i \in Nat : /\ Agent!Number(i) \in Nat
                     /\ i > 0 => Agent!Number(i) > alertSeq /\ Agent!Number(i) > seq
                     /\ \A j \in Nat : j < i => Agent!Number(j) < Agent!Number(i)
  BY <1>1, Alerted
<1>5. /\ alertSeq' \in Nat /\ alertSeq' >= alertSeq
      /\ \A i \in 1 .. n : Agent!Number(i) <= alertSeq'
  <2>1. CASE Agent!Edges = {}
    BY <1>1, <1>2, <2>1 DEF Agent!Round
  <2>2. CASE Agent!Edges # {}
    <3>1. alertSeq' = Agent!Number(n)
      BY <2>2, Alerted DEF Agent!Round, n
    <3>2. n > 0
      BY <1>2, <2>2
    <3> QED
      BY <1>1, <1>2, <1>4, <3>1, <3>2
  <2> QED
    BY <2>1, <2>2
<1>6. \A c \in Conns : outbox'[c] = IF c \in clients THEN Agent!Messages ELSE <<>>
  BY DEF Agent!Round
<1>7. Agent!TypeOK'
  <2>1. outbox' \in [Conns -> Seq(MessageSet)]
    BY <1>3 DEF Agent!Round
  <2>2. lastSeq' \in 0 .. MaxSeq /\ agentActive' \subseteq Channels /\ gather' \in BOOLEAN
    BY <1>1 DEF Agent!Round
  <2> QED
    BY <1>0, <1>5, <2>1, <2>2 DEF AgentInv, Agent!TypeOK, MessageSet
<1>8. IsFiniteSet(Handlers') /\ Agent!Accounted'
  BY <1>0, SameHandlers
<1>9. Numbered'
  BY <1>0, <1>1, <1>5 DEF AgentInv, Agent!TypeOK, Numbered
<1>10. ASSUME NEW c \in Conns PROVE Boxed(c)' /\ Newest(c)'
  <2>0. seen[c] <= seq /\ heard[c] <= alertSeq /\ seen[c] \in Nat /\ heard[c] \in Nat
    BY DEF AgentInv, Agent!TypeOK, Numbered
  <2>1. CASE c \notin clients
    <3>1. outbox'[c] = <<>> /\ c \notin clients'
      BY <1>0, <1>6, <2>1
    <3> QED
      BY <3>1 DEF Boxed, Newest
  <2>2. CASE c \in clients
    <3>1. outbox'[c] = Agent!Messages /\ handler'[c] # "prepare" /\ DOMAIN outbox'[c] = 1 .. n + 1
      BY <1>0, <1>2, <1>3, <1>6, <2>2, LenProperties DEF AgentInv, Boxed
    <3>2. ASSUME NEW i \in 1 .. n + 1, i # 1
          PROVE  /\ Agent!Messages[i].type = "alert" /\ Agent!Messages[i].seq = Agent!Number(i - 1)
                 /\ i - 1 \in 1 .. n /\ Agent!Number(i - 1) \in Nat
      <4>1. i \in 2 .. n + 1 /\ i - 1 \in 1 .. n
        BY <1>2, <3>2
      <4>2. Agent!Messages[i] = [type |-> "alert", seq |-> Agent!Number(i - 1)]
        BY <1>3, <4>1
      <4>3. i - 1 \in Nat
        BY <1>2, <4>1
      <4> QED
        BY <1>4, <4>1, <4>2, <4>3
    <3>3. Agent!Messages[1].type = "status" /\ Agent!Messages[1].seq = seq
      BY <1>3
    <3>4. Boxed(c)'
      <4>1. ASSUME NEW i \in 1 .. n + 1
            PROVE  /\ Agent!Messages[i].type = "status" => i = 1
                   /\ Agent!Messages[i].type = "alert" => Agent!Messages[i].seq <= alertSeq'
        BY <1>5, <3>2, <3>3
      <4> QED
        BY <1>0, <1>1, <2>0, <3>1, <3>3, <4>1 DEF Boxed
    <3>5. ASSUME NEW i \in 1 .. n + 1, Agent!Messages[i].type = "alert"
          PROVE  /\ Agent!Messages[i].seq > heard[c] /\ Agent!Messages[i].seq > seen[c]
                 /\ \A j \in 1 .. i - 1 : Agent!Messages[i].seq > Agent!Messages[j].seq
      <4>1. i # 1
        BY <3>3, <3>5
      <4>2. /\ Agent!Messages[i].seq = Agent!Number(i - 1) /\ i - 1 \in 1 .. n
            /\ Agent!Number(i - 1) > alertSeq /\ Agent!Number(i - 1) > seq /\ Agent!Number(i - 1) \in Nat
        BY <1>2, <1>4, <3>2, <4>1
      <4>3. ASSUME NEW j \in 1 .. i - 1 PROVE Agent!Messages[i].seq > Agent!Messages[j].seq
        <5>1. CASE j = 1
          BY <3>3, <4>2, <5>1
        <5>2. CASE j # 1
          <6>1. j \in 1 .. n + 1 /\ j - 1 \in Nat /\ i - 1 \in Nat /\ j - 1 < i - 1
            BY <1>2, <5>2
          <6>2. Agent!Messages[j].seq = Agent!Number(j - 1)
            BY <3>2, <5>2, <6>1
          <6>3. Agent!Number(j - 1) < Agent!Number(i - 1) /\ Agent!Number(j - 1) \in Nat
            BY <1>4, <6>1
          <6> QED
            BY <4>2, <6>2, <6>3
        <5> QED
          BY <5>1, <5>2
      <4> QED
        BY <1>1, <2>0, <4>2, <4>3
    <3> QED
      BY <1>0, <3>1, <3>4, <3>5 DEF Newest
  <2> QED
    BY <2>1, <2>2
<1> QED
  BY <1>7, <1>8, <1>9, <1>10 DEF AgentInv

(* send(): one message after the other, until a timeout or an error.       *)
LEMMA AgentSends ==
  ASSUME AgentInv, NEW c \in Conns, Agent!SendNext(c) \/ Agent!SendFails(c)
  PROVE  AgentInv'
<1> USE DEF Agent!sampler, Agent!engine, Agent!tasks, Agent!sockets, Agent!history
<1>0. UNCHANGED <<seq, snap, lastSeq, agentActive, alertSeq, gather, handler, first, reserved, reads>>
  BY DEF Agent!SendNext, Agent!SendFails
<1>1. IsFiniteSet(Handlers') /\ Agent!Accounted'
  BY <1>0, SameHandlers
<1>2. CASE Agent!SendFails(c)
  <2>1. /\ outbox' = [outbox EXCEPT ![c] = <<>>] /\ drain' = [drain EXCEPT ![c] = FALSE]
        /\ clients' = clients \ {c} /\ UNCHANGED <<seen, heard>>
    BY <1>2 DEF Agent!SendFails, Agent!GiveUp
  <2>2. Agent!TypeOK'
    <3>1. outbox' \in [Conns -> Seq(MessageSet)]
      BY <2>1 DEF AgentInv, Agent!TypeOK, MessageSet
    <3> QED
      BY <1>0, <2>1, <3>1 DEF AgentInv, Agent!TypeOK, MessageSet
  <2>3. Numbered'
    BY <1>0, <2>1 DEF AgentInv, Numbered
  <2>4. ASSUME NEW d \in Conns PROVE Boxed(d)' /\ Newest(d)'
    <3>1. outbox'[d] = IF d = c THEN <<>> ELSE outbox[d]
      BY <2>1 DEF AgentInv, Agent!TypeOK
    <3> QED
      BY <1>0, <2>1, <3>1 DEF AgentInv, Boxed, Newest
  <2> QED
    BY <1>1, <2>2, <2>3, <2>4 DEF AgentInv
<1>3. CASE Agent!SendNext(c)
  <2> DEFINE m == Head(outbox[c])
  <2>1. /\ outbox[c] \in Seq(MessageSet) /\ outbox[c] # <<>> /\ Len(outbox[c]) \in Nat \ {0}
        /\ outbox' = [outbox EXCEPT ![c] = Tail(outbox[c])] /\ UNCHANGED clients
    BY <1>3, BoxTyped, EmptySeq DEF Agent!SendNext
  <2>2. /\ m \in MessageSet /\ m = outbox[c][1] /\ 1 \in DOMAIN outbox[c]
        /\ Tail(outbox[c]) \in Seq(MessageSet) /\ Len(Tail(outbox[c])) = Len(outbox[c]) - 1
        /\ \A i \in 1 .. Len(Tail(outbox[c])) : Tail(outbox[c])[i] = outbox[c][i + 1]
    BY <2>1, HeadTailProperties, LenProperties
  <2> HIDE DEF m
  <2>3. \/ handler[c] = "none" /\ UNCHANGED <<drain, seen, heard>>
        \/ /\ handler[c] # "none" /\ drain' = [drain EXCEPT ![c] = TRUE]
           /\ m.type = "status" /\ seen' = [seen EXCEPT ![c] = m.seq] /\ heard' = heard
        \/ /\ handler[c] # "none" /\ drain' = [drain EXCEPT ![c] = TRUE]
           /\ m.type = "alert" /\ heard' = [heard EXCEPT ![c] = m.seq] /\ seen' = seen
    BY <1>3, <2>2 DEF Agent!SendNext, m, MessageSet
  <2>4. m.seq \in Nat /\ (m.type = "status" => m.seq <= seq) /\ (m.type = "alert" => m.seq <= alertSeq)
    BY <2>2 DEF AgentInv, Boxed, MessageSet
  <2>5. /\ seen' \in [Conns -> Nat] /\ heard' \in [Conns -> Nat] /\ drain' \in [Conns -> BOOLEAN]
        /\ outbox' \in [Conns -> Seq(MessageSet)]
    BY <2>1, <2>2, <2>3, <2>4 DEF AgentInv, Agent!TypeOK, MessageSet
  <2>6. Agent!TypeOK'
    BY <1>0, <2>1, <2>5 DEF AgentInv, Agent!TypeOK, MessageSet
  <2>7. Numbered'
    BY <1>0, <2>3, <2>4 DEF AgentInv, Agent!TypeOK, Numbered
  <2>8. ASSUME NEW d \in Conns, d # c PROVE Boxed(d)' /\ Newest(d)'
    <3>1. outbox'[d] = outbox[d] /\ seen'[d] = seen[d] /\ heard'[d] = heard[d]
      BY <2>1, <2>3, <2>8 DEF AgentInv, Agent!TypeOK
    <3> QED
      BY <1>0, <2>1, <3>1 DEF AgentInv, Boxed, Newest
  <2>9. Boxed(c)' /\ Newest(c)'
    <3>1. /\ outbox'[c] = Tail(outbox[c]) /\ DOMAIN outbox'[c] = 1 .. Len(outbox[c]) - 1
          /\ DOMAIN outbox[c] = 1 .. Len(outbox[c])
      BY <2>1, <2>2, LenProperties DEF AgentInv, Agent!TypeOK
    <3>2. ASSUME NEW i \in DOMAIN outbox'[c]
          PROVE  /\ i \in Nat /\ i + 1 \in DOMAIN outbox[c] /\ i + 1 # 1
                 /\ outbox'[c][i] = outbox[c][i + 1] /\ outbox[c][i + 1] \in MessageSet
      BY <2>1, <2>2, <3>1, ElementOfSeq
    <3>3. ASSUME NEW i \in DOMAIN outbox'[c]
          PROVE  outbox'[c][i].type = "alert" /\ outbox'[c][i].seq <= alertSeq
      BY <3>2 DEF AgentInv, Boxed, MessageSet
    <3>4. Boxed(c)'
      BY <1>0, <2>1, <3>3 DEF AgentInv, Boxed
    <3>5. ASSUME NEW i \in DOMAIN outbox'[c], handler[c] # "none"
          PROVE  /\ outbox'[c][i].seq > heard'[c] /\ outbox'[c][i].seq > seen'[c]
                 /\ \A j \in 1 .. i - 1 : outbox'[c][i].seq > outbox'[c][j].seq
      <4>1. /\ outbox[c][i + 1].seq > heard[c] /\ outbox[c][i + 1].seq > seen[c]
            /\ \A j \in 1 .. (i + 1) - 1 : outbox[c][i + 1].seq > outbox[c][j].seq
        BY <3>2, <3>3, <3>5 DEF AgentInv, Newest
      <4>2. outbox[c][i + 1].seq > m.seq
        BY <2>2, <3>2, <4>1
      <4>3. outbox'[c][i].seq > heard'[c] /\ outbox'[c][i].seq > seen'[c]
        BY <2>3, <3>2, <4>1, <4>2 DEF AgentInv, Agent!TypeOK
      <4>4. ASSUME NEW j \in 1 .. i - 1 PROVE outbox'[c][i].seq > outbox'[c][j].seq
        <5>1. j \in DOMAIN outbox'[c] /\ j + 1 \in 1 .. (i + 1) - 1
          BY <2>1, <3>1
        <5> QED
          BY <3>2, <4>1, <5>1
      <4> QED
        BY <4>3, <4>4
    <3> QED
      BY <1>0, <3>4, <3>5 DEF Newest
  <2> QED
    BY <1>1, <2>6, <2>7, <2>8, <2>9 DEF AgentInv
<1> QED
  BY <1>2, <1>3

LEMMA AgentStep == AgentInv /\ [Agent!Next]_Agent!vars => AgentInv'
  BY AgentIdles, AgentServes, AgentRound, AgentSends DEF Agent!Next, Agent!Sending

LEMMA AgentHolds == Agent!Init /\ [][Agent!Next]_Agent!vars => []AgentInv
  BY AgentStart, AgentStep, PTL

(* What a connection gets only grows older while its handler lives.        *)
LEMMA AgentAdvances ==
  AgentInv /\ [Agent!Next]_Agent!vars => [\A c \in Conns : handler'[c] # "none" => seen'[c] >= seen[c]]_Agent!vars
<1> SUFFICES ASSUME AgentInv, Agent!Next, NEW c \in Conns, handler'[c] # "none"
             PROVE  seen'[c] >= seen[c]
  BY DEF AgentInv
<1> USE DEF Agent!sampler, Agent!engine, Agent!tasks, Agent!sockets, Agent!history
<1>0. seen[c] \in Nat /\ seen[c] <= seq
  BY DEF AgentInv, Agent!TypeOK, Numbered
<1>1. CASE seen'[c] = seen[c]
  BY <1>0, <1>1
<1>2. ASSUME NEW d \in Conns, Agent!Prepared(d) PROVE seen'[c] >= seen[c]
  BY <1>0, <1>2 DEF Agent!Prepared, AgentInv, Agent!TypeOK, Numbered
<1>3. ASSUME NEW d \in Conns, Agent!FirstSent(d) PROVE seen'[c] >= seen[c]
  BY <1>0, <1>3 DEF Agent!FirstSent, Agent!AtOnce
<1>4. ASSUME NEW d \in Conns, Agent!Ends(d) PROVE seen'[c] >= seen[c]
  <2>1. d # c
    BY <1>4 DEF Agent!Ends, AgentInv, Agent!TypeOK
  <2> QED
    BY <1>0, <1>4, <2>1 DEF Agent!Ends, AgentInv, Agent!TypeOK
<1>5. ASSUME NEW d \in Conns, Agent!SendNext(d) PROVE seen'[c] >= seen[c]
  <2>1. handler'[c] = handler[c]
    BY <1>5 DEF Agent!SendNext
  <2>2. /\ outbox[d] \in Seq(MessageSet) /\ outbox[d] # <<>>
        /\ Head(outbox[d]) = outbox[d][1] /\ 1 \in DOMAIN outbox[d]
    BY <1>5, BoxTyped, EmptySeq DEF Agent!SendNext
  <2>3. \/ seen' = seen
        \/ outbox[d][1].type = "status" /\ seen' = [seen EXCEPT ![d] = outbox[d][1].seq]
    BY <1>5, <2>2 DEF Agent!SendNext
  <2>4. outbox[d][1].type = "status" /\ handler[d] # "none" => outbox[d][1].seq >= seen[d]
    BY <2>2 DEF AgentInv, Boxed
  <2> QED
    <3>1. seen[c] \in Int /\ seen \in [Conns -> Nat]
      BY <1>0 DEF AgentInv, Agent!TypeOK
    <3>2. CASE seen' = seen
      BY <3>1, <3>2
    <3>3. CASE d = c /\ seen' = [seen EXCEPT ![d] = outbox[d][1].seq] /\ outbox[d][1].type = "status"
      BY <1>0, <2>1, <2>4, <3>1, <3>3
    <3>4. CASE d # c /\ seen' = [seen EXCEPT ![d] = outbox[d][1].seq]
      BY <3>1, <3>4
    <3> QED
      BY <2>3, <3>2, <3>3, <3>4
<1>6. CASE ~\E d \in Conns : Agent!Prepared(d) \/ Agent!FirstSent(d) \/ Agent!Ends(d) \/ Agent!SendNext(d)
  BY <1>0, <1>6 DEF Agent!Next, Agent!Sending, Agent!Sample, Agent!Expire, Agent!Round,
     Agent!RoundDone,
     Agent!Refuse, Agent!Accept, Agent!Stall, Agent!Drained, Agent!SendFails, Agent!vars
<1> QED
  BY <1>1, <1>2, <1>3, <1>4, <1>5, <1>6

-----------------------------------------------------------------------------
(* The whole.  A step of StatusPath is for each part a step of its own or  *)
(* none, so what was proved of the parts holds.                            *)
LEMMA PathParts ==
  PathSpec => /\ Spec /\ FeedSpec
              /\ Agent!Init /\ [][Agent!Next]_Agent!vars
              /\ Http!Init /\ [][Http!Next]_Http!vars
<1> USE DEF PathNext, RunFeed, RunAssembler, RunAgent, RunHttp, parts
<1>1. PathInit => Init /\ FeedInit /\ Agent!Init /\ Http!Init
  BY DEF PathInit
<1>2. [PathNext]_parts => [Next]_vars
  OBVIOUS
<1>3. [PathNext]_parts => [FeedNext]_feedVars
  OBVIOUS
<1>4. [PathNext]_parts => [Agent!Next]_Agent!vars
  BY DEF agent, Agent!vars, Agent!sampler, Agent!engine, Agent!tasks, Agent!sockets, Agent!history
<1>5. [PathNext]_parts => [Http!Next]_Http!vars
  BY DEF deadline, Http!vars, Http!fetchVars
<1> HIDE DEF PathNext, RunFeed, RunAssembler, RunAgent, RunHttp, parts
<1> QED
  BY <1>1, <1>2, <1>3, <1>4, <1>5, PTL DEF PathSpec, Spec, FeedSpec

(* passport_status.py: no place is lost or given back twice however a      *)
(* connection ends, and every alert a client gets is numbered above all    *)
(* it got before.                                                          *)
THEOREM ClientsAreServed == PathSpec => []ClientsServed
  BY PathParts, AgentHolds, AgentEnough, PTL

(* passport_status.py: whatever the handler and the broadcaster do at the  *)
(* same time, a client never gets an older snapshot after a newer one.     *)
THEOREM SnapshotsInOrder == PathSpec => InOrder
<1> DEFINE A == \A c \in Conns : handler'[c] # "none" => seen'[c] >= seen[c]
<1>1. AgentInv /\ [Agent!Next]_Agent!vars => [A]_Agent!vars
  BY AgentAdvances
<1> QED
  BY <1>1, PathParts, AgentHolds, PTL DEF InOrder, Agent!InOrder

(* "The mutex prevents shutdown of a closed/reused socket descriptor"      *)
(* (server_monitor.c): whatever the server, the clock and the other users  *)
(* of the socket numbers do, the worker cuts only the fetch's own          *)
(* connection, only when its three seconds are over, and no byte is        *)
(* written past the end of s_body.                                         *)
THEOREM DeadlineCutsOnlyLate == PathSpec => []CutsOnlyLate
  BY PathParts, HttpHolds, HttpEnough, PTL

(* The status path from the agent to the display: each part keeps its      *)
(* promise while all the others run.                                       *)
THEOREM PathIsSafe == PathSpec => [](FeedAgreement /\ Delivers /\ ClientsServed /\ CutsOnlyLate)
  BY PathParts, FeedAgrees, DeliveryIsRight, ClientsAreServed, DeadlineCutsOnlyLate, PTL
=============================================================================
