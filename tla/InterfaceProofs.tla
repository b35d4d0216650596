--------------------------- MODULE InterfaceProofs ---------------------------
(***************************************************************************)
(* Theorems about Interface.tla: the voice alerts, for any clips of which  *)
(* one is critical and any depths, lengths and cooldowns; the dark screen, *)
(* for any gestures, depth of the input queue and timeout; the menus, for  *)
(* any depths of the two queues a setting passes through.  A step of the   *)
(* whole is a step of one of them and changes nothing of the others.       *)
(***************************************************************************)
EXTENDS Interface, SequenceTheorems, TLAPS

(* The voice alerts (VoiceAlerts).                                         *)
Places == Scans \cup {"open", "tone", "read", "write"}
Types ==
  /\ bus \in Seq(Clips \cup {NoClip}) /\ Len(bus) <= BusDepth /\ lost \in BOOLEAN
  /\ config \in Configs /\ cool \in [Clips -> Nat] /\ discarded \subseteq Levels
Queues ==
  /\ queue \in [Levels -> Seq(Clips)]
  /\ \A l \in Levels : /\ Len(queue[l]) <= QueueDepth
                       /\ \A i \in 1 .. Len(queue[l]) : Level[queue[l][i]] = l
WorkerTypes ==
  /\ at \in Places /\ item \in Clips \cup {NoClip} /\ (at \in Scans <=> item = NoClip)
  /\ tone \in 0 .. ToneChunks /\ left \in Nat /\ spent \in BOOLEAN /\ overrun \in Nat

Critical(c) == c \in Clips /\ Level[c] = 2

(* A chunk is on its way only if the clip might go on when it was read;    *)
(* before a tone and between two clips nothing is owed.                    *)
Chunk ==
  /\ overrun <= 1
  /\ at = "write" => overrun = 0
  /\ at = "tone" => Critical(item)
  /\ at \in Scans => ~spent

(* What is left of the cooldown.  While a critical clip waits, no tick     *)
(* passes: what is spoken gives way.  While it is spoken, one does.        *)
Patience ==
  /\ 2 \notin discarded
  /\ queue[2] = <<>> \/ Len(queue[2]) = 1
  /\ Len(queue[2]) = 1 => ~Critical(item) /\ cool[queue[2][1]] >= 2
  /\ Critical(item) => cool[item] >= 1 /\ (~spent => cool[item] >= 2)

Inv == Types /\ Queues /\ WorkerTypes /\ Chunk /\ Patience

-----------------------------------------------------------------------------
LEMMA CriticalQueue ==
  ASSUME Queues
  PROVE  /\ 2 \in Levels /\ queue[2] \in Seq(Clips) /\ Len(queue[2]) \in Nat
         /\ Len(queue[2]) = 0 <=> queue[2] = <<>>
<1>1. 2 \in Levels
  BY DEF Levels
<1>2. queue[2] \in Seq(Clips)
  BY <1>1 DEF Queues
<1> QED
  BY <1>1, <1>2

LEMMA Start == Init => Inv
<1> SUFFICES ASSUME Init PROVE Inv
  OBVIOUS
<1>a. <<>> \in Seq(Clips) /\ <<>> \in Seq(Clips \cup {NoClip}) /\ Len(<<>>) = 0
  OBVIOUS
<1>b. queue \in [Levels -> Seq(Clips)] /\ \A l \in Levels : queue[l] = <<>>
  BY <1>a DEF Init
<1>c. Queues
  BY <1>a, <1>b, VoiceAssumption DEF Queues
<1>d. cool \in [Clips -> Nat] /\ discarded = {} /\ bus = <<>> /\ lost = FALSE /\ config \in Configs
  BY DEF Init
<1>e. Types
  <2>1. Len(bus) <= BusDepth
    BY <1>a, <1>d, VoiceAssumption
  <2> QED
    BY <1>a, <1>d, <2>1 DEF Types
<1>1. Queues /\ Types
  BY <1>c, <1>e
<1>f. at = "scan2" /\ item = NoClip /\ tone = 0 /\ left = 0 /\ spent = FALSE /\ overrun = 0
  BY DEF Init
<1>g. WorkerTypes
  <2>1. tone \in 0 .. ToneChunks /\ left \in Nat /\ overrun \in Nat
    BY <1>f, VoiceAssumption
  <2> QED
    BY <1>f, <2>1 DEF WorkerTypes, Places, Scans
<1>h. Chunk
  BY <1>f DEF Chunk
<1>2. WorkerTypes /\ Chunk
  BY <1>g, <1>h
<1>3. Patience
  BY VoiceAssumption DEF Init, Patience, Critical, NoClip, Levels
<1> QED
  BY <1>1, <1>2, <1>3 DEF Inv

(* The sentinel is no clip; no queue outranks the critical one.            *)
LEMMA NoClipIsNone == NoClip \notin Clips
  BY VoiceAssumption DEF NoClip

LEMMA CriticalUncleared == ASSUME Inv, NEW c \in Clips PROVE Cleared(Level[c])[2] = queue[2]
  BY VoiceAssumption DEF Cleared, Preempts, Levels

(* Clearing queues leaves queues.                                          *)
LEMMA ClearedTyped ==
  ASSUME Inv, NEW c \in Clips
  PROVE  /\ Cleared(Level[c]) \in [Levels -> Seq(Clips)]
         /\ \A l \in Levels : /\ Len(Cleared(Level[c])[l]) <= QueueDepth
                              /\ \A i \in 1 .. Len(Cleared(Level[c])[l]) : Level[Cleared(Level[c])[l][i]] = l
<1>1. ASSUME NEW l \in Levels
      PROVE  Cleared(Level[c])[l] = <<>> \/ Cleared(Level[c])[l] = queue[l]
  BY DEF Cleared
<1> QED
  BY <1>1, VoiceAssumption DEF Cleared, Inv, Queues

(* A clip that is put in its queue finds the critical queue empty if it is *)
(* critical, and leaves it alone otherwise.                                *)
LEMMA EnqueueKeeps ==
  ASSUME Inv, NEW c \in Clips, cool[c] = 0, Enqueue(c)
  PROVE  /\ Queues' /\ discarded' \subseteq Levels /\ 2 \notin discarded'
         /\ IF Level[c] = 2 THEN queue[2] = <<>> /\ queue'[2] = <<c>> /\ ~Critical(item)
            ELSE queue'[2] = queue[2]
<1>0. Level[c] \in Levels /\ 2 \in Levels /\ QueueDepth \in Nat \ {0}
  BY VoiceAssumption DEF Levels
<1> DEFINE q == Cleared(Level[c])
<1>1. /\ q \in [Levels -> Seq(Clips)] /\ q[2] = queue[2]
      /\ \A l \in Levels : Len(q[l]) <= QueueDepth /\ \A i \in 1 .. Len(q[l]) : Level[q[l][i]] = l
  BY ClearedTyped, CriticalUncleared
<1>2. CASE Len(q[Level[c]]) < QueueDepth
  <2>1. queue' = [q EXCEPT ![Level[c]] = Append(@, c)] /\ discarded' = discarded
    BY <1>2 DEF Enqueue
  <2> HIDE DEF q
  <2>2. queue'[Level[c]] = Append(q[Level[c]], c) /\ \A l \in Levels \ {Level[c]} : queue'[l] = q[l]
    BY <1>0, <1>1, <2>1
  <2>3. Queues'
    <3>1. queue' \in [Levels -> Seq(Clips)]
      BY <1>0, <1>1, <2>1
    <3>2. ASSUME NEW l \in Levels
          PROVE  Len(queue'[l]) <= QueueDepth /\ \A i \in 1 .. Len(queue'[l]) : Level[queue'[l][i]] = l
      <4>1. CASE l = Level[c]
        <5>1. q[l] \in Seq(Clips) /\ queue'[l] = Append(q[l], c)
          BY <1>1, <2>2, <4>1
        <5>2. \A i \in 1 .. Len(q[l]) : Level[q[l][i]] = l
          BY <1>1
        <5> QED
          BY <1>0, <1>2, <4>1, <5>1, <5>2
      <4>2. CASE l # Level[c]
        BY <1>1, <2>2, <4>2
      <4> QED
        BY <4>1, <4>2
    <3> QED
      BY <3>1, <3>2 DEF Queues
  <2>4. CASE Level[c] = 2
    <3>1. queue[2] = <<>> /\ ~Critical(item)
      <4>1. ~Critical(item)
        <5> SUFFICES ASSUME Critical(item) PROVE FALSE
          OBVIOUS
        <5>1. item = c /\ cool[item] >= 1
          BY <2>4, VoiceAssumption DEF Inv, Patience, Critical
        <5> QED
          BY <5>1
      <4>2. Len(queue[2]) # 1
        <5> SUFFICES ASSUME Len(queue[2]) = 1 PROVE FALSE
          OBVIOUS
        <5>1. queue[2][1] \in Clips /\ Level[queue[2][1]] = 2
          BY <1>0 DEF Inv, Queues
        <5>2. queue[2][1] = c
          BY <2>4, <5>1, VoiceAssumption
        <5> QED
          BY <5>2 DEF Inv, Patience
      <4> QED
        BY <4>1, <4>2, CriticalQueue DEF Inv, Patience
    <3>2. queue'[2] = <<c>>
      BY <1>1, <2>2, <2>4, <3>1
    <3> QED
      BY <2>1, <2>3, <2>4, <3>1, <3>2 DEF Inv, Types, Patience
  <2> QED
    BY <1>0, <1>1, <2>1, <2>2, <2>3, <2>4 DEF Inv, Types, Patience
<1>3. CASE ~(Len(q[Level[c]]) < QueueDepth)
  <2>1. queue' = q /\ discarded' = discarded \cup {Level[c]}
    BY <1>3 DEF Enqueue
  <2>2. Level[c] # 2
    <3> SUFFICES ASSUME Level[c] = 2 PROVE FALSE
      OBVIOUS
    <3>1. Len(queue[2]) = 1
      BY <1>0, <1>1, <1>3, CriticalQueue DEF Inv, Patience
    <3>2. queue[2][1] \in Clips /\ Level[queue[2][1]] = 2
      BY <1>0, <3>1 DEF Inv, Queues
    <3>3. queue[2][1] = c
      BY <3>2, VoiceAssumption
    <3> QED
      BY <3>1, <3>3 DEF Inv, Patience
  <2>3. Queues'
    <3> HIDE DEF q
    <3> QED
      BY <1>1, <2>1 DEF Queues
  <2> QED
    BY <1>0, <1>1, <2>1, <2>2, <2>3 DEF Inv, Types, Patience
<1> QED
  BY <1>2, <1>3

(* The producers: the bus, its handler, and the settings.                  *)
LEMMA ProducerStep ==
  ASSUME Inv, Dispatch \/ Configure \/ \E e \in Clips \cup {NoClip} : Emit(e)
  PROVE  Inv' /\ 2 \notin discarded' /\ ~(Len(queue'[2]) < Len(queue[2]))
<1> USE DEF Inv
<1>0. 2 \in Levels /\ Len(queue[2]) \in Nat
  BY DEF Levels, Queues
<1>1. ASSUME NEW e \in Clips \cup {NoClip}, Emit(e) PROVE Inv' /\ UNCHANGED <<queue, discarded>>
  <2>1. UNCHANGED <<config, cool, queue, at, item, tone, left, spent, overrun, discarded>>
    BY <1>1 DEF Emit, workerVars
  <2>2. Queues' /\ WorkerTypes' /\ Chunk' /\ Patience'
    BY <2>1 DEF Queues, WorkerTypes, Chunk, Patience, Critical
  <2>3. bus' \in Seq(Clips \cup {NoClip}) /\ Len(bus') <= BusDepth /\ lost' \in BOOLEAN
    <3>1. CASE Len(bus) < BusDepth
      <4>1. bus' = Append(bus, e) /\ lost' = lost /\ bus \in Seq(Clips \cup {NoClip})
        BY <1>1, <3>1 DEF Emit, Types
      <4>2. bus' \in Seq(Clips \cup {NoClip}) /\ Len(bus') = Len(bus) + 1 /\ Len(bus) \in Nat
        BY <4>1
      <4> QED
        BY <3>1, <4>1, <4>2, VoiceAssumption DEF Types
    <3>2. CASE ~(Len(bus) < BusDepth)
      BY <1>1, <3>2 DEF Emit, Types
    <3> QED
      BY <3>1, <3>2
  <2> QED
    BY <2>1, <2>2, <2>3 DEF Types
<1>2. CASE Configure
  <2>1. Inv' /\ UNCHANGED <<queue, discarded>>
    BY <1>2 DEF Configure, Types, Queues, WorkerTypes, Chunk, Patience, workerVars
  <2> QED
    BY <1>0, <2>1 DEF Patience
<1>3. CASE Dispatch
  <2>0. UNCHANGED <<lost, config, at, item, tone, left, spent, overrun>> /\ bus' = Tail(bus) /\ bus # <<>>
    BY <1>3 DEF Dispatch, workerVars
  <2>1. bus' \in Seq(Clips \cup {NoClip}) /\ Len(bus') <= BusDepth
    BY <2>0, VoiceAssumption DEF Types
  <2>2. WorkerTypes' /\ Chunk'
    BY <2>0 DEF WorkerTypes, Chunk
  <2>3. CASE UNCHANGED <<cool, queue, discarded>>
    <3>1. Types' /\ Queues' /\ Patience'
      BY <2>0, <2>1, <2>3 DEF Types, Queues, Patience
    <3> QED
      BY <1>0, <2>2, <2>3, <3>1 DEF Patience
  <2>4. ASSUME NEW c \in Clips, cool[c] = 0, cool' = [cool EXCEPT ![c] = Window(c)], Enqueue(c)
        PROVE  Inv' /\ 2 \notin discarded' /\ ~(Len(queue'[2]) < Len(queue[2]))
    <3>1. /\ Queues' /\ discarded' \subseteq Levels /\ 2 \notin discarded'
          /\ IF Level[c] = 2 THEN queue[2] = <<>> /\ queue'[2] = <<c>> /\ ~Critical(item)
             ELSE queue'[2] = queue[2]
      BY <2>4, EnqueueKeeps
    <3>2. cool' \in [Clips -> Nat] /\ cool'[c] = Window(c) /\ \A d \in Clips \ {c} : cool'[d] = cool[d]
      BY <2>4, VoiceAssumption DEF Types, Window
    <3>3. Types'
      BY <2>0, <2>1, <3>1, <3>2 DEF Types
    <3>4. Patience' /\ ~(Len(queue'[2]) < Len(queue[2]))
      <4>1. CASE Level[c] = 2
        <5>1. queue'[2] = <<c>> /\ queue[2] = <<>> /\ Window(c) >= 2
          BY <3>1, <4>1, VoiceAssumption DEF Window
        <5> QED
          BY <2>0, <3>1, <3>2, <4>1, <5>1 DEF Patience, Critical
      <4>2. CASE Level[c] # 2
        <5>1. queue'[2] = queue[2] /\ ~Critical(c)
          BY <3>1, <4>2 DEF Critical
        <5>2. Len(queue[2]) = 1 => queue[2][1] \in Clips /\ queue[2][1] # c
          BY <1>0, <4>2 DEF Queues
        <5>3. Critical(item) => item \in Clips /\ item # c
          BY <5>1 DEF Critical
        <5> QED
          BY <1>0, <2>0, <3>1, <3>2, <5>1, <5>2, <5>3 DEF Patience, Critical
      <4> QED
        BY <4>1, <4>2
    <3> QED
      BY <2>2, <3>1, <3>3, <3>4
  <2>5. Head(bus) \in Clips \cup {NoClip}
    BY <2>0 DEF Types
  <2> QED
    BY <1>3, <2>3, <2>4, <2>5 DEF Dispatch
<1> QED
  BY <1>0, <1>1, <1>2, <1>3 DEF Patience

(* The worker takes clips from the front of a queue, and only those.       *)
LEMMA ReceiveStep ==
  ASSUME Inv, Receive
  PROVE  Inv' /\ 2 \notin discarded' /\ (Len(queue'[2]) < Len(queue[2]) => item' = queue[2][1])
<1> USE DEF Inv
<1> DEFINE l == LevelOf(at)
<1>0. l \in Levels /\ 2 \in Levels /\ queue[l] # <<>> /\ queue[l] \in Seq(Clips)
  BY DEF Receive, LevelOf, Levels, Queues
<1>1. /\ UNCHANGED <<bus, lost, config, cool, tone, left, spent, overrun, discarded>>
      /\ item' = Head(queue[l]) /\ queue' = [queue EXCEPT ![l] = Tail(@)] /\ at' = "open" /\ at \in Scans
  BY DEF Receive, producer
<1> HIDE DEF l
<1>2. item' = queue[l][1] /\ item' \in Clips /\ Level[item'] = l
  BY <1>0, <1>1 DEF Queues
<1>3. queue'[l] = Tail(queue[l]) /\ \A k \in Levels \ {l} : queue'[k] = queue[k]
  BY <1>0, <1>1 DEF Queues
<1>4. Queues'
  <2>1. queue' \in [Levels -> Seq(Clips)]
    BY <1>0, <1>1 DEF Queues
  <2>2. ASSUME NEW k \in Levels
        PROVE  Len(queue'[k]) <= QueueDepth /\ \A i \in 1 .. Len(queue'[k]) : Level[queue'[k][i]] = k
    <3>1. CASE k = l
      <4>1. Len(queue'[k]) = Len(queue[l]) - 1 /\ \A i \in 1 .. Len(queue'[k]) : queue'[k][i] = queue[l][i + 1]
        <5> SUFFICES Len(Tail(queue[l])) = Len(queue[l]) - 1
                     /\ \A i \in 1 .. Len(Tail(queue[l])) : Tail(queue[l])[i] = queue[l][i + 1]
          BY <1>3, <3>1
        <5> QED
          BY <1>0
      <4>2. \A i \in 1 .. Len(queue'[k]) : i + 1 \in 1 .. Len(queue[l])
        BY <1>0, <4>1
      <4> QED
        BY <1>0, <3>1, <4>1, <4>2, VoiceAssumption DEF Queues
    <3>2. CASE k # l
      BY <1>3, <3>2 DEF Queues
    <3> QED
      BY <3>1, <3>2
  <2> QED
    BY <2>1, <2>2 DEF Queues
<1>5. Types' /\ WorkerTypes' /\ Chunk'
  BY <1>1, <1>2, NoClipIsNone DEF Types, WorkerTypes, Chunk, Places, Scans
<1>6. Patience' /\ (Len(queue'[2]) < Len(queue[2]) => item' = queue[2][1])
  <2>1. CASE l = 2
    <3>1. Len(queue[2]) = 1 /\ Len(queue'[2]) = 0
      <4>1. Len(queue[2]) = 1
        BY <1>0, <2>1, CriticalQueue DEF Patience
      <4>2. Len(Tail(queue[2])) = Len(queue[2]) - 1
        BY <1>0, <2>1
      <4>3. queue'[2] = Tail(queue[2])
        BY <1>3, <2>1
      <4> QED
        BY <4>1, <4>2, <4>3
    <3>2. cool'[item'] >= 2
      BY <1>1, <1>2, <2>1, <3>1 DEF Patience
    <3> QED
      <4>1. Patience'
        <5>1. queue'[2] = <<>> /\ cool'[item'] >= 1
          BY <1>1, <1>2, <1>4, <3>1, <3>2, CriticalQueue DEF Queues, Types
        <5>2. 2 \notin discarded' /\ queue'[2] = <<>> /\ Len(queue'[2]) # 1
          BY <1>1, <3>1, <5>1 DEF Patience
        <5> QED
          BY <3>2, <5>1, <5>2 DEF Patience
      <4> QED
        BY <1>2, <2>1, <4>1
  <2>2. CASE l # 2
    <3>1. queue'[2] = queue[2] /\ ~Critical(item') /\ Len(queue[2]) \in Nat
      BY <1>0, <1>2, <1>3, <2>2 DEF Critical, Queues
    <3>2. ~(Len(queue'[2]) < Len(queue[2]))
      BY <3>1
    <3>3. Patience'
      BY <1>1, <3>1 DEF Patience, Critical
    <3> QED
      BY <3>2, <3>3
  <2> QED
    BY <2>1, <2>2
<1> QED
  BY <1>1, <1>4, <1>5, <1>6 DEF Patience

(* Every other step of the worker leaves the queues alone.                 *)
LEMMA SpeakStep ==
  ASSUME Inv, LookBelow \/ Read \/ \E ok \in BOOLEAN : Open(ok) \/ Tone(ok) \/ Write(ok)
  PROVE  Inv' /\ UNCHANGED <<queue, discarded>>
<1> USE NoClipIsNone DEF Inv, producer
<1>1. UNCHANGED <<bus, lost, config, cool, queue, discarded>>
  BY DEF LookBelow, Read, Open, Tone, Write
<1>2. Types' /\ Queues'
  BY <1>1 DEF Types, Queues
<1>3. \/ item' = item /\ spent' = spent
      \/ item' = NoClip
  BY DEF LookBelow, Read, Open, Tone, Write, Back
<1>4. Patience'
  BY <1>1, <1>3 DEF Patience, Critical
<1>5. WorkerTypes' /\ Chunk'
  <2> USE DEF WorkerTypes, Chunk, Places, Scans
  <2>0. ASSUME Back PROVE WorkerTypes' /\ Chunk'
    <3>1. tone' \in 0 .. ToneChunks /\ left' \in Nat /\ overrun' \in Nat /\ overrun' <= 1
      BY <2>0, VoiceAssumption DEF Back
    <3>2. at' = "scan2" /\ item' = NoClip /\ spent' = FALSE
      BY <2>0 DEF Back
    <3> QED
      BY <3>1, <3>2
  <2>1. CASE LookBelow
    BY <2>1 DEF LookBelow, Below
  <2>2. CASE Read
    <3>1. CASE left > 0 /\ MayWrite
      <4>1. at' = "write" /\ left' = left - 1 /\ overrun' = 0 /\ UNCHANGED <<item, tone, spent>> /\ at = "read"
        BY <2>2, <3>1 DEF Read, MayWrite
      <4>2. left' \in Nat /\ overrun' \in Nat /\ overrun' <= 1
        BY <3>1, <4>1
      <4> QED
        BY <4>1, <4>2
    <3> QED
      BY <2>0, <2>2, <3>1 DEF Read
  <2>3. ASSUME NEW ok \in BOOLEAN, Open(ok) PROVE WorkerTypes' /\ Chunk'
    <3>1. CASE Permitted(item) /\ ok
      <4>1. /\ at = "open" /\ left' \in 0 .. ClipChunks /\ UNCHANGED <<item, spent, overrun>>
            /\ \/ at' = "read" /\ tone' = tone
               \/ Level[item] = 2 /\ at' = "tone" /\ tone' = ToneChunks
        BY <2>3, <3>1 DEF Open
      <4>2. left' \in Nat /\ tone' \in 0 .. ToneChunks /\ overrun' \in Nat /\ overrun' <= 1
        BY <4>1, VoiceAssumption
      <4>3. item \in Clips
        BY <4>1
      <4> QED
        BY <4>1, <4>2, <4>3 DEF Critical
    <3> QED
      BY <2>0, <2>3, <3>1 DEF Open
  <2>4. ASSUME NEW ok \in BOOLEAN, Tone(ok) PROVE WorkerTypes' /\ Chunk'
    BY <2>4, VoiceAssumption DEF Tone
  <2>5. ASSUME NEW ok \in BOOLEAN, Write(ok) PROVE WorkerTypes' /\ Chunk'
    <3>1. CASE ok
      <4>1. /\ at = "write" /\ at' = "read" /\ UNCHANGED <<item, tone, left, spent>>
            /\ overrun' = overrun \/ overrun' = overrun + 1
        BY <2>5, <3>1 DEF Write
      <4>2. overrun' \in Nat /\ overrun' <= 1
        BY <4>1
      <4> QED
        BY <4>1, <4>2
    <3> QED
      BY <2>0, <2>5, <3>1 DEF Write
  <2> QED
    BY <2>1, <2>2, <2>3, <2>4, <2>5
<1> QED
  BY <1>1, <1>2, <1>4, <1>5

(* No tick passes while a critical clip waits, and one while it is spoken. *)
LEMMA TickStep == ASSUME Inv, Tick PROVE Inv' /\ UNCHANGED <<queue, discarded>>
<1> USE DEF Inv
<1>1. /\ UNCHANGED <<bus, lost, config, queue, at, item, tone, left, overrun, discarded>>
      /\ cool' \in [Clips -> Nat] /\ \A c \in Clips : cool'[c] >= cool[c] - 1 /\ spent' \in BOOLEAN
  <2>1. UNCHANGED <<bus, lost, config, queue, at, item, tone, left, overrun, discarded>> /\ spent' \in BOOLEAN
    BY DEF Tick, producer, WorkerTypes
  <2>2. cool' = [c \in Clips |-> IF cool[c] > 0 THEN cool[c] - 1 ELSE 0] /\ \A c \in Clips : cool[c] \in Nat
    BY DEF Tick, Types
  <2>3. \A c \in Clips : cool'[c] \in Nat /\ cool'[c] >= cool[c] - 1
    BY <2>2
  <2>4. cool' \in [Clips -> Nat]
    BY <2>2, <2>3
  <2> QED
    BY <2>1, <2>3, <2>4
<1>2. CASE at \in {"tone", "write"} /\ ~spent /\ spent' = TRUE /\ (at = "write" => Should(item))
  <2>1. Len(queue[2]) # 1
    <3> SUFFICES ASSUME Len(queue[2]) = 1 PROVE FALSE
      OBVIOUS
    <3>1. at = "write" /\ Should(item) /\ item \in Clips
      BY <1>2 DEF Patience, Chunk, WorkerTypes, Scans
    <3>2. Level[item] < 2 /\ 2 \in Levels /\ queue[2] # <<>>
      BY <3>1, VoiceAssumption DEF Patience, Critical, Levels
    <3> QED
      BY <3>1, <3>2 DEF Should, Higher, Preempts
  <2>2. Critical(item) => cool'[item] >= 1
    BY <1>1, <1>2 DEF Patience, Critical, Types
  <2> QED
    BY <1>1, <1>2, <2>1, <2>2 DEF Types, Queues, WorkerTypes, Chunk, Patience, Scans
<1>3. CASE at = "scan2" /\ (\A k \in Levels : queue[k] = <<>>) /\ UNCHANGED spent
  <2>1. queue[2] = <<>> /\ ~Critical(item)
    BY <1>3, NoClipIsNone DEF Levels, WorkerTypes, Scans, Critical
  <2> QED
    BY <1>1, <1>3, <2>1 DEF Types, Queues, WorkerTypes, Chunk, Patience
<1> QED
  BY <1>2, <1>3 DEF Tick

LEMMA InvStep == Inv /\ [Next]_vars => Inv' /\ [2 \notin discarded' /\ (Len(queue'[2]) < Len(queue[2]) => item' = queue[2][1])]_vars
<1> SUFFICES ASSUME Inv, [Next]_vars
             PROVE  Inv' /\ [2 \notin discarded' /\ (Len(queue'[2]) < Len(queue[2]) => item' = queue[2][1])]_vars
  OBVIOUS
<1>0. 2 \notin discarded /\ ~(Len(queue[2]) < Len(queue[2]))
  BY DEF Inv, Patience, Queues, Levels
<1>1. CASE UNCHANGED vars
  BY <1>1 DEF vars, producer, workerVars, Inv, Types, Queues, WorkerTypes, Chunk, Patience
<1>2. CASE Dispatch \/ Configure \/ \E e \in Clips \cup {NoClip} : Emit(e)
  BY <1>2, ProducerStep
<1>3. CASE Receive
  BY <1>3, ReceiveStep
<1>4. CASE LookBelow \/ Read \/ \E ok \in BOOLEAN : Open(ok) \/ Tone(ok) \/ Write(ok)
  BY <1>0, <1>4, SpeakStep
<1>5. CASE Tick
  BY <1>0, <1>5, TickStep
<1> QED
  BY <1>1, <1>2, <1>3, <1>4, <1>5 DEF Next, Worker

LEMMA Enough == Inv => VoiceSafe
<1> SUFFICES ASSUME Inv PROVE VoiceSafe
  OBVIOUS
<1> USE DEF Inv
<1>1. TypeOK
  BY DEF TypeOK, Types, Queues, WorkerTypes, Places
<1>2. CriticalOnce
  <2>1. 2 \in Levels /\ (Len(queue[2]) = 0 \/ Len(queue[2]) = 1)
    BY CriticalQueue DEF Patience
  <2>2. ASSUME Len(queue[2]) = 1 PROVE item # queue[2][1]
    BY <2>1, <2>2 DEF Queues, Patience, Critical
  <2> QED
    BY <2>1, <2>2 DEF CriticalOnce
<1> QED
  BY <1>1, <1>2 DEF VoiceSafe, StopsByNextChunk, Chunk

-----------------------------------------------------------------------------
(* What is spoken (monitor_audio.c): once a clip must not go on, at most   *)
(* the chunk on its way is still written, and the critical clip is never   *)
(* queued or spoken twice for one cause.                                   *)
THEOREM AlertsAreSafe == Spec => []VoiceSafe
<1>1. Inv /\ [Next]_vars => Inv'
  BY InvStep
<1> QED
  BY Start, <1>1, Enough, PTL DEF Spec

(* A critical alert that was let through by permission and cooldown always *)
(* finds room and leaves its queue only to be spoken.                      *)
THEOREM CriticalIsKept == Spec => CriticalKept
<1>1. Inv /\ [Next]_vars => Inv'
  BY InvStep
<1>2. Inv /\ [Next]_vars => [2 \notin discarded' /\ (Len(queue'[2]) < Len(queue[2]) => item' = queue[2][1])]_vars
  BY InvStep
<1> QED
  BY Start, <1>1, <1>2, PTL DEF Spec, CriticalKept

-----------------------------------------------------------------------------
(* The screen (UiTask).  Events stay in the order of the gestures they     *)
(* belong to, from the button through the queue to the task, and what ends *)
(* a gesture is the last of it.                                            *)
Kinds == {"press"} \cup Screen!Ends
Reports == [ev : Kinds, gesture : 1 .. MaxGestures]
Before(e, f) == e.gesture <= f.gesture /\ (e.ev \in Screen!Ends => e.gesture < f.gesture)
Done(e, m, h) == e.gesture <= m /\ (h # <<>> /\ e.ev \in Screen!Ends => e.gesture < m)
Taken == pc = "power" /\ key # Screen!NoKey
HandInOrder ==
  /\ \A i \in 1 .. Len(hand) : hand[i] \in Screen!Ends => i = Len(hand)
  /\ hand # <<>> => made >= 1
InputInOrder ==
  \A i \in 1 .. Len(input) :
    Done(input[i], made, hand) /\ \A j \in 1 .. Len(input) : i < j => Before(input[i], input[j])
KeyInOrder ==
  Taken => key \in Reports /\ Done(key, made, hand) /\ \A i \in 1 .. Len(input) : Before(key, input[i])

(* While it is guarded nothing older than the gesture that woke the screen *)
(* is on its way; when the guard has gone, nothing of that gesture either. *)
Past(g) == g >= woke /\ (~guard => g > woke)
Guarded ==
  /\ woke <= made
  /\ \A i \in 1 .. Len(input) : Past(input[i].gesture)
  /\ Taken => Past(key.gesture)
  /\ hand # <<>> => Past(made)
ScreenInv ==
  /\ Screen!TypeOK /\ woke \in Nat /\ Screen!WakeIsConsumed
  /\ HandInOrder /\ InputInOrder /\ KeyInOrder /\ Guarded

(* What a step of the buttons or of the clock leaves alone.                *)
ScreenTypes ==
  /\ clock \in 1 .. MaxClock /\ made \in 0 .. MaxGestures
  /\ hand \in Seq(Kinds) /\ input \in Seq(Reports) /\ Len(input) <= InputDepth
  /\ screenTimeout \in {0, TimeoutTicks} /\ pc \in {"wait", "power", "snapshot", "draw"}
  /\ now \in 0 .. clock /\ lastKey \in 0 .. now /\ guard \in BOOLEAN /\ ambient \in BOOLEAN

LEMMA ScreenTyped == (ScreenTypes <=> Screen!TypeOK) /\ (ScreenTypes' <=> Screen!TypeOK')
  BY DEF ScreenTypes, Screen!TypeOK, Kinds, Reports

(* A gesture reports one to three events, and at most the last ends it.    *)
LEMMA Reported ==
  ASSUME NEW g \in Gestures
  PROVE  /\ Screen!Events(g) \in Seq(Kinds) /\ Screen!Events(g) # <<>>
         /\ \A i \in 1 .. Len(Screen!Events(g)) : Screen!Events(g)[i] \in Screen!Ends => i = Len(Screen!Events(g))
<1>1. g \in {"click", "double", "long", "triple"}
  BY InterfaceAssumption DEF Screen!UiAssumption
<1>2. CASE g = "click"
  BY <1>2 DEF Screen!Events, Kinds, Screen!Ends
<1>3. CASE g = "double"
  BY <1>3 DEF Screen!Events, Kinds, Screen!Ends
<1>4. CASE g = "long"
  BY <1>4 DEF Screen!Events, Kinds, Screen!Ends
<1>5. CASE g = "triple"
  BY <1>5 DEF Screen!Events, Kinds, Screen!Ends
<1> QED
  BY <1>1, <1>2, <1>3, <1>4, <1>5

LEMMA ScreenStart == Screen!Init => ScreenInv
<1> SUFFICES ASSUME Screen!Init PROVE ScreenInv
  OBVIOUS
<1>1. /\ hand = <<>> /\ input = <<>> /\ Len(hand) = 0 /\ Len(input) = 0 /\ ~Taken /\ woke = 0 /\ made = 0
      /\ <<>> \in Seq(Kinds) /\ <<>> \in Seq(Reports)
  BY DEF Screen!Init, Taken
<1>2. clock \in 1 .. MaxClock
  BY InterfaceAssumption DEF Screen!Init, Screen!UiAssumption
<1>3. /\ MaxGestures \in Nat /\ InputDepth \in Nat /\ now = 0 /\ lastKey = 0 /\ clock = 1
      /\ screenTimeout \in {0, TimeoutTicks} /\ pc = "wait" /\ guard = FALSE /\ ambient = FALSE
  BY InterfaceAssumption DEF Screen!Init, Screen!UiAssumption
<1>4. ScreenTypes
  <2>1. made \in 0 .. MaxGestures /\ Len(input) <= InputDepth /\ now \in 0 .. clock /\ lastKey \in 0 .. now
    BY <1>1, <1>3
  <2>2. hand \in Seq(Kinds) /\ input \in Seq(Reports) /\ guard \in BOOLEAN /\ ambient \in BOOLEAN
    BY <1>1, <1>3
  <2> QED
    BY <1>2, <1>3, <2>1, <2>2 DEF ScreenTypes
<1> QED
  BY <1>1, <1>4, ScreenTyped
     DEF Screen!Init, ScreenInv, Screen!WakeIsConsumed, HandInOrder, InputInOrder, KeyInOrder,
          Guarded

LEMMA ScreenEnough == ScreenInv => ScreenSafe
  BY DEF ScreenInv, ScreenSafe, Screen!ScreenSafe

-----------------------------------------------------------------------------
(* The button component begins a gesture: all that is under way is older.  *)
LEMMA ScreenGesture == ASSUME ScreenInv, Screen!Gesture PROVE ScreenInv'
<1>0. ScreenTypes /\ woke \in Nat
  BY ScreenTyped DEF ScreenInv
<1>1. PICK g \in Gestures : hand' = Screen!Events(g)
  BY DEF Screen!Gesture
<1>2. /\ hand = <<>> /\ made' = made + 1 /\ made' \in 1 .. MaxGestures /\ hand' \in Seq(Kinds)
      /\ UNCHANGED <<clock, input, screenTimeout, pc, key, now, guard, ambient, lastKey, woke, verdict>>
  BY <1>0, <1>1, Reported, InterfaceAssumption
     DEF Screen!Gesture, Screen!task, Screen!power, ScreenTypes, Screen!UiAssumption
<1>3. ScreenTypes'
  BY <1>0, <1>2 DEF ScreenTypes
<1>4. \A i \in 1 .. Len(input) : input[i] \in Reports
  BY <1>0 DEF ScreenTypes
<1>5. HandInOrder'
  BY <1>0, <1>1, <1>2, Reported DEF HandInOrder, ScreenTypes
<1>6. InputInOrder'
  BY <1>0, <1>2, <1>4 DEF ScreenInv, InputInOrder, Done, Before, Reports, ScreenTypes
<1>7. KeyInOrder'
  BY <1>0, <1>2, <1>4 DEF ScreenInv, KeyInOrder, Taken, Done, Before, Reports, ScreenTypes
<1>8. Guarded'
  BY <1>0, <1>2, <1>4 DEF ScreenInv, Guarded, Taken, Past, Reports, ScreenTypes
<1> QED
  BY <1>0, <1>2, <1>3, <1>5, <1>6, <1>7, <1>8, ScreenTyped DEF ScreenInv, Screen!WakeIsConsumed

(* on_button: the next event of the gesture goes to the end of the queue,  *)
(* or is lost.                                                             *)
LEMMA ScreenButton == ASSUME ScreenInv, Screen!OnButton PROVE ScreenInv'
<1> DEFINE e == [ev |-> Head(hand), gesture |-> made]
<1>0. ScreenTypes /\ woke \in Nat
  BY ScreenTyped DEF ScreenInv
<1>1. /\ hand # <<>> /\ hand' = Tail(hand) /\ (input' = input \/ (Len(input) < InputDepth /\ input' = Append(input, e)))
      /\ UNCHANGED <<clock, made, screenTimeout, pc, key, now, guard, ambient, lastKey, woke, verdict>>
  BY DEF Screen!OnButton, Screen!Room, Screen!task, Screen!power
<1>2. /\ Len(hand) \in Nat \ {0} /\ Head(hand) = hand[1] /\ hand[1] \in Kinds
      /\ hand' \in Seq(Kinds) /\ Len(hand') = Len(hand) - 1
      /\ \A i \in 1 .. Len(hand') : hand'[i] = hand[i + 1]
      /\ (hand' = <<>> <=> Len(hand') = 0)
  <2>1. hand \in Seq(Kinds) /\ hand # <<>> /\ hand' = Tail(hand)
    BY <1>0, <1>1 DEF ScreenTypes
  <2>2. /\ Head(hand) \in Kinds /\ Tail(hand) \in Seq(Kinds) /\ Len(Tail(hand)) = Len(hand) - 1
        /\ \A i \in 1 .. Len(Tail(hand)) : Tail(hand)[i] = hand[i + 1]
    BY <2>1, HeadTailProperties
  <2>3. Len(hand) \in Nat /\ Len(hand) # 0 /\ Head(hand) = hand[1]
    BY <2>1, EmptySeq, LenProperties
  <2>4. hand' = <<>> <=> Len(hand') = 0
    BY <2>1, <2>2, EmptySeq
  <2> QED
    BY <2>1, <2>2, <2>3, <2>4
<1>3. e \in Reports /\ Len(input) \in Nat /\ InputDepth \in Nat /\ made \in Nat
  <2>1. made \in 1 .. MaxGestures /\ Len(input) \in Nat /\ InputDepth \in Nat
    BY <1>0, <1>1, InterfaceAssumption, LenProperties
       DEF ScreenTypes, ScreenInv, HandInOrder, Screen!UiAssumption
  <2> QED
    BY <1>2, <2>1 DEF Reports
<1>4. Done(e, made', hand') /\ e.gesture = made /\ (e.ev \in Screen!Ends => hand' = <<>>)
  <2>1. e.gesture = made /\ e.ev = hand[1] /\ 1 \in 1 .. Len(hand)
    BY <1>2
  <2>2. e.ev \in Screen!Ends => hand' = <<>>
    BY <1>2, <2>1 DEF ScreenInv, HandInOrder
  <2> QED
    BY <1>1, <1>3, <2>1, <2>2 DEF Done
<1>5. \A i \in 1 .. Len(input) : input[i] \in Reports /\ Done(input[i], made', hand') /\ Before(input[i], e)
  <2>1. \A i \in 1 .. Len(input) : input[i] \in Reports /\ Done(input[i], made, hand)
    BY <1>0 DEF ScreenInv, InputInOrder, ScreenTypes
  <2> QED
    BY <1>0, <1>1, <1>4, <2>1 DEF Done, Before, Reports, ScreenTypes
<1>6. Taken => key \in Reports /\ Done(key, made', hand') /\ Before(key, e)
  <2>1. Taken => key \in Reports /\ Done(key, made, hand)
    BY DEF ScreenInv, KeyInOrder
  <2> QED
    BY <1>0, <1>1, <1>4, <2>1 DEF Done, Before, Reports, ScreenTypes
<1>7. Taken' = Taken
  BY <1>1 DEF Taken
<1>8. HandInOrder'
  <2>1. ASSUME NEW i \in 1 .. Len(hand'), hand'[i] \in Screen!Ends PROVE i = Len(hand')
    <3>1. i + 1 \in 1 .. Len(hand) /\ hand[i + 1] \in Screen!Ends
      BY <1>2, <2>1
    <3>2. i + 1 = Len(hand)
      BY <3>1 DEF ScreenInv, HandInOrder
    <3> QED
      BY <1>2, <3>2
  <2> QED
    BY <1>1, <2>1 DEF ScreenInv, HandInOrder
<1>9. CASE input' = input
  <2>1. ScreenTypes'
    BY <1>0, <1>1, <1>2, <1>9 DEF ScreenTypes
  <2>2. InputInOrder'
    BY <1>1, <1>5, <1>9 DEF ScreenInv, InputInOrder, Before
  <2>3. KeyInOrder'
    BY <1>1, <1>6, <1>7, <1>9 DEF ScreenInv, KeyInOrder, Before
  <2>4. Guarded'
    BY <1>1, <1>7, <1>9 DEF ScreenInv, Guarded, Past
  <2> QED
    BY <1>1, <1>8, <2>1, <2>2, <2>3, <2>4, ScreenTyped DEF ScreenInv, Screen!WakeIsConsumed
<1>10. CASE Len(input) < InputDepth /\ input' = Append(input, e)
  <2>1. /\ input' \in Seq(Reports) /\ Len(input') = Len(input) + 1
        /\ \A i \in 1 .. Len(input) : input'[i] = input[i]
        /\ input'[Len(input) + 1] = e
    BY <1>0, <1>3, <1>10, AppendProperties DEF ScreenTypes
  <2>2. ScreenTypes'
    BY <1>0, <1>1, <1>2, <1>3, <1>10, <2>1 DEF ScreenTypes
  <2>3. \A i \in 1 .. Len(input') : i \in 1 .. Len(input) \/ i = Len(input) + 1
    BY <1>3, <2>1
  <2>4. ASSUME NEW i \in 1 .. Len(input')
        PROVE  Done(input'[i], made', hand') /\ \A j \in 1 .. Len(input') : i < j => Before(input'[i], input'[j])
    <3>1. Done(input'[i], made', hand')
      BY <1>4, <1>5, <2>1, <2>3 DEF Done
    <3>2. ASSUME NEW j \in 1 .. Len(input'), i < j PROVE Before(input'[i], input'[j])
      <4>1. i \in 1 .. Len(input)
        BY <1>3, <2>1, <3>2
      <4>2. CASE j \in 1 .. Len(input)
        BY <2>1, <3>2, <4>1, <4>2 DEF ScreenInv, InputInOrder, Before
      <4>3. CASE j = Len(input) + 1
        BY <1>5, <2>1, <4>1, <4>3
      <4> QED
        BY <2>3, <4>2, <4>3
    <3> QED
      BY <3>1, <3>2 DEF Before
  <2>5. InputInOrder'
    BY <2>4 DEF InputInOrder
  <2>6. KeyInOrder'
    <3>1. Taken => \A i \in 1 .. Len(input') : Before(key, input'[i])
      BY <1>6, <2>1, <2>3 DEF ScreenInv, KeyInOrder
    <3> QED
      BY <1>1, <1>6, <1>7, <3>1 DEF KeyInOrder, Before
  <2>7. Guarded'
    <3>1. \A i \in 1 .. Len(input') : Past(input'[i].gesture)
      BY <1>1, <1>4, <2>1, <2>3 DEF ScreenInv, Guarded
    <3> QED
      BY <1>1, <1>7, <3>1 DEF ScreenInv, Guarded, Past
  <2> QED
    BY <1>1, <1>8, <2>2, <2>5, <2>6, <2>7, ScreenTyped DEF ScreenInv, Screen!WakeIsConsumed
<1> QED
  BY <1>1, <1>9, <1>10

(* The UI task takes the oldest event of the queue, if there is one.       *)
LEMMA ScreenTakes == ASSUME ScreenInv, Screen!TakeKey PROVE ScreenInv'
<1>0. ScreenTypes /\ woke \in Nat
  BY ScreenTyped DEF ScreenInv
<1>1. /\ pc' = "power" /\ now' = clock
      /\ UNCHANGED <<clock, hand, made, screenTimeout, guard, ambient, lastKey, woke, verdict>>
  BY DEF Screen!TakeKey, Screen!power
<1>2. HandInOrder' /\ Screen!WakeIsConsumed'
  BY <1>1 DEF ScreenInv, HandInOrder, Screen!WakeIsConsumed
<1>3. CASE input = <<>> /\ key' = Screen!NoKey /\ input' = input
  <2>1. ScreenTypes'
    BY <1>0, <1>1, <1>3 DEF ScreenTypes
  <2>2. ~Taken' /\ InputInOrder' /\ Guarded'
    BY <1>1, <1>3 DEF ScreenInv, InputInOrder, Guarded, Taken, Done, Before, Past
  <2> QED
    BY <1>0, <1>1, <1>2, <2>1, <2>2, ScreenTyped DEF ScreenInv, KeyInOrder
<1>4. CASE input # <<>> /\ key' = Head(input) /\ input' = Tail(input)
  <2>1. /\ Len(input) \in Nat \ {0} /\ key' = input[1] /\ input[1] \in Reports /\ 1 \in 1 .. Len(input)
        /\ input' \in Seq(Reports) /\ Len(input') = Len(input) - 1
        /\ \A i \in 1 .. Len(input') : input'[i] = input[i + 1]
    BY <1>0, <1>4, HeadTailProperties, EmptySeq, ElementOfSeq, LenProperties DEF ScreenTypes
  <2>2. \A i \in 1 .. Len(input') : i + 1 \in 1 .. Len(input) /\ 1 < i + 1
    BY <2>1
  <2>3. ScreenTypes'
    <3>1. Len(input') <= InputDepth
      BY <1>0, <2>1, InterfaceAssumption DEF ScreenTypes, Screen!UiAssumption
    <3> QED
      BY <1>0, <1>1, <2>1, <3>1 DEF ScreenTypes
  <2>4. InputInOrder'
    <3>1. ASSUME NEW i \in 1 .. Len(input')
          PROVE  Done(input'[i], made', hand') /\ \A j \in 1 .. Len(input') : i < j => Before(input'[i], input'[j])
      <4>1. i + 1 \in 1 .. Len(input) /\ input'[i] = input[i + 1]
        BY <2>1, <2>2
      <4>2. Done(input'[i], made', hand')
        BY <1>1, <4>1 DEF ScreenInv, InputInOrder, Done
      <4>3. ASSUME NEW j \in 1 .. Len(input'), i < j PROVE Before(input'[i], input'[j])
        <5>1. j + 1 \in 1 .. Len(input) /\ input'[j] = input[j + 1] /\ i + 1 < j + 1
          BY <2>1, <2>2, <4>3
        <5> QED
          BY <4>1, <5>1 DEF ScreenInv, InputInOrder
      <4> QED
        BY <4>2, <4>3 DEF Before
    <3> QED
      BY <3>1 DEF InputInOrder
  <2>5. KeyInOrder'
    <3>1. Done(key', made', hand') /\ \A i \in 1 .. Len(input') : Before(key', input'[i])
      BY <1>1, <2>1, <2>2 DEF ScreenInv, InputInOrder, Done
    <3> QED
      BY <2>1, <3>1 DEF KeyInOrder, Before, Done
  <2>6. Guarded'
    <3>1. Past(key'.gesture) /\ \A i \in 1 .. Len(input') : Past(input'[i].gesture)
      BY <2>1, <2>2 DEF ScreenInv, Guarded
    <3> QED
      BY <1>1, <3>1 DEF ScreenInv, Guarded, Past
  <2> QED
    BY <1>0, <1>1, <1>2, <2>3, <2>4, <2>5, <2>6, ScreenTyped DEF ScreenInv
<1> QED
  BY <1>3, <1>4 DEF Screen!TakeKey

(* monitor_power_key, the guard and monitor_power_tick.                    *)
LEMMA ScreenPower == ASSUME ScreenInv, Screen!Power PROVE ScreenInv'
<1> DEFINE caught == guard \/ ambient
           waking == IF ambient THEN key.gesture ELSE woke
<1>0. ScreenTypes /\ woke \in Nat
  BY ScreenTyped DEF ScreenInv
<1>1. /\ pc = "power" /\ pc' = "snapshot" /\ UNCHANGED <<clock, hand, made, input, screenTimeout, now>>
  BY DEF Screen!Power, Screen!world
<1>2. ~Taken' /\ HandInOrder' /\ InputInOrder' /\ KeyInOrder'
  BY <1>1 DEF Taken, ScreenInv, HandInOrder, InputInOrder, KeyInOrder, Done, Before
<1>3. CASE key = Screen!NoKey
  <2>1. /\ ambient' = Screen!Blank(lastKey) /\ verdict' = "none" /\ UNCHANGED <<key, guard, lastKey, woke>>
    BY <1>3 DEF Screen!Power
  <2>2. ScreenTypes'
    BY <1>0, <1>1, <2>1 DEF ScreenTypes, Screen!Blank
  <2>3. Guarded'
    BY <1>1, <1>2, <2>1 DEF ScreenInv, Guarded, Past
  <2> QED
    BY <1>0, <1>2, <2>1, <2>2, <2>3, ScreenTyped DEF ScreenInv, Screen!WakeIsConsumed
<1>4. CASE key # Screen!NoKey
  <2>1. /\ lastKey' = now /\ ambient' = Screen!Blank(now)
        /\ guard' = (caught /\ ~Screen!GuardEnds(key.ev)) /\ woke' = waking
        /\ verdict' = CASE caught /\ key.gesture # waking -> "swallowed"
                        [] ~caught /\ key.gesture = waking -> "leaked" [] OTHER -> "right"
    BY <1>4 DEF Screen!Power
  <2>2. /\ Taken /\ key \in Reports /\ Done(key, made, hand) /\ Past(key.gesture) /\ key.gesture \in Nat
        /\ \A i \in 1 .. Len(input) : Before(key, input[i])
    BY <1>1, <1>4 DEF Taken, ScreenInv, KeyInOrder, Guarded, Reports
  <2>3. woke' \in Nat /\ woke' <= key.gesture /\ woke' >= woke
    BY <1>0, <2>1, <2>2 DEF Past
  <2>4. ScreenTypes'
    BY <1>0, <1>1, <2>1 DEF ScreenTypes, Screen!Blank
  <2>5. Screen!WakeIsConsumed'
    <3>1. ~caught => key.gesture # waking
      BY <1>0, <2>2 DEF Past, ScreenTypes
    <3> QED
      BY <2>1, <3>1 DEF Screen!WakeIsConsumed
  <2>6. ~guard' => ~caught \/ key.ev \in Screen!Ends
    BY <2>1 DEF Screen!GuardEnds
  <2>7. ~caught => woke' = woke /\ ~guard /\ key.gesture > woke
    BY <1>0, <2>1, <2>2 DEF Past, ScreenTypes
  <2>8. ASSUME NEW i \in 1 .. Len(input) PROVE input[i].gesture >= woke' /\ (~guard' => input[i].gesture > woke')
    <3>1. input[i] \in Reports /\ Before(key, input[i])
      BY <1>0, <2>2, ElementOfSeq DEF ScreenTypes
    <3>2. input[i].gesture \in Nat
      BY <3>1 DEF Reports
    <3> QED
      BY <2>2, <2>3, <2>6, <2>7, <3>1, <3>2 DEF Before
  <2>9. hand # <<>> => made >= woke' /\ (~guard' => made > woke')
    BY <1>0, <2>2, <2>3, <2>6, <2>7 DEF Done, ScreenTypes
  <2>10. Guarded'
    <3>1. woke' <= made
      BY <1>0, <2>2, <2>3 DEF Done, ScreenTypes
    <3> QED
      BY <1>1, <1>2, <2>8, <2>9, <3>1 DEF Guarded, Past
  <2> QED
    BY <1>2, <2>3, <2>4, <2>5, <2>10, ScreenTyped DEF ScreenInv
<1> QED
  BY <1>3, <1>4

(* The clock, the setting, and the rest of the pass.                       *)
LEMMA ScreenRest ==
  ASSUME ScreenInv, Screen!Tick \/ Screen!SetTimeout \/ Screen!Snapshot \/ Screen!Draw \/ UNCHANGED Screen!vars
  PROVE  ScreenInv'
<1> USE DEF Screen!world, Screen!task, Screen!power
<1>0. ScreenTypes /\ woke \in Nat
  BY ScreenTyped DEF ScreenInv
<1>1. /\ UNCHANGED <<hand, made, input, guard, ambient, lastKey, woke, verdict, now>>
      /\ Taken' => Taken /\ key' = key
  BY DEF Screen!Tick, Screen!SetTimeout, Screen!Snapshot, Screen!Draw, Screen!vars, Taken
<1>2. clock' \in 1 .. MaxClock /\ clock' >= clock
  BY <1>0, InterfaceAssumption DEF Screen!Tick, Screen!SetTimeout, Screen!Snapshot,
     Screen!Draw, Screen!vars, ScreenTypes, Screen!UiAssumption
<1>3. screenTimeout' \in {0, TimeoutTicks} /\ pc' \in {"wait", "power", "snapshot", "draw"}
  BY <1>0 DEF Screen!Tick, Screen!SetTimeout, Screen!Snapshot, Screen!Draw, Screen!vars,
     ScreenTypes
<1>4. ScreenTypes'
  BY <1>0, <1>1, <1>2, <1>3 DEF ScreenTypes
<1>5. HandInOrder' /\ InputInOrder' /\ KeyInOrder' /\ Guarded' /\ Screen!WakeIsConsumed'
  BY <1>1 DEF ScreenInv, HandInOrder, InputInOrder, KeyInOrder, Guarded, Done, Before, Past,
     Screen!WakeIsConsumed
<1> QED
  BY <1>0, <1>1, <1>4, <1>5, ScreenTyped DEF ScreenInv

LEMMA ScreenStep == ScreenInv /\ [Screen!Next]_Screen!vars => ScreenInv'
  BY ScreenGesture, ScreenButton, ScreenTakes, ScreenPower, ScreenRest DEF Screen!Next, Screen!Ui

LEMMA ScreenHolds == Screen!Init /\ [][Screen!Next]_Screen!vars => []ScreenInv
  BY ScreenStart, ScreenStep, PTL

-----------------------------------------------------------------------------
(* The menus (UiMenu).  What a key says and what a setting may hold.       *)
Space == [Menu!Settings -> Int]
Brightnesses == {10, 20, 30, 40, 50, 60, 70, 80, 90, 100}
Delays == {0, 30, 60, 300, 600}
OnOff == {0, 2, 3, 4, 5, 6, 7}
Commands ==
  {c \in [cmd : {"mute", "setting", "setup", "refresh", "install", "check"},
          setting : Menu!Settings, value : Int] :
     c.cmd = "setting" =>
       /\ c.setting = 8 => c.value \in Brightnesses
       /\ c.setting = 9 => c.value \in Delays
       /\ c.setting = 10 => c.value \in 0 .. 2
       /\ c.setting \in OnOff => c.value \in 0 .. 1}
Orders == {c \in Commands : Menu!Changing(c)}
Stored(c) ==
  /\ c \in Space /\ c[1] \in 0 .. 100 /\ c[8] \in Brightnesses /\ c[9] \in Delays /\ c[10] \in 0 .. 2
  /\ \A s \in OnOff : c[s] \in 0 .. 1

(* What the commands of a queue, one after the other, make of a            *)
(* configuration: a is the first and b the last of a chain of them.        *)
After(c, order) == IF Menu!Changing(order) THEN Menu!Applied(c, order) ELSE c
Chain(f, q) == \A i \in 1 .. Len(q) : f[i] = After(f[i - 1], q[i])
Leads(a, q, b) ==
  \E f \in [0 .. Len(q) -> Space] : f[0] = a /\ f[Len(q)] = b /\ Chain(f, q)

Entries ==
  /\ page \in 0 .. 5 /\ section \in -1 .. 5 /\ choice \in 0 .. 7
  /\ confirm \in BOOLEAN /\ diagnostic \in BOOLEAN /\ seen \in BOOLEAN
  /\ Menu!CursorOnEntry
  /\ confirm /\ section >= 0 => section = 4 /\ seen
Queued ==
  /\ commands \in Seq(Commands) /\ Len(commands) <= BusDepth
  /\ control \in Seq(Orders) /\ Len(control) <= ControlDepth
  /\ changes \in 0 .. MaxChanges /\ dropped \in BOOLEAN
OnTheWay == ~dropped => \E m \in Space : Leads(stored, control, m) /\ Leads(m, commands, wanted)
Kept == Stored(stored) /\ Stored(shown) /\ Stored(wanted) /\ setup \in BOOLEAN /\ drawn \in BOOLEAN
MenuInv == Entries /\ Queued /\ OnTheWay /\ Kept
StepsInv == MenuInv /\ Menu!OneStepAhead

LEMMA StoredLegal == ASSUME NEW c, Stored(c) PROVE Menu!Legal(c)
<1>1. \A s \in Menu!Settings \ {1, 8, 9, 10} : s \in OnOff
  BY DEF Menu!Settings, OnOff
<1>2. {Menu!Timeouts[i] : i \in 1 .. 5} = Delays
  <2>1. 1 .. 5 = {1, 2, 3, 4, 5}
    OBVIOUS
  <2> QED
    BY <2>1 DEF Menu!Timeouts, Delays
<1>3. c[8] \in 10 .. 100
  BY DEF Stored, Brightnesses
<1> QED
  BY <1>1, <1>2, <1>3
     DEF Stored, Menu!Legal, Menu!Volume, Menu!Brightness, Menu!Timeout, Menu!Power

LEMMA AppliedStored ==
  ASSUME NEW c, Stored(c), NEW order \in Orders PROVE Stored(Menu!Applied(c, order))
<1> USE DEF Menu!Settings, Menu!Voice, Menu!Volume
<1>1. CASE order.cmd = "mute"
  <2>1. Menu!Applied(c, order) = [c EXCEPT ![0] = 1 - @] /\ c[0] \in 0 .. 1
    BY <1>1 DEF Menu!Applied, Stored, OnOff
  <2> QED
    BY <2>1 DEF Stored, Space, OnOff
<1>2. CASE order.cmd = "setting"
  <2> DEFINE v == Menu!Value(order)
  <2>1. Menu!Applied(c, order) = [c EXCEPT ![order.setting] = v]
    BY <1>2 DEF Menu!Applied
  <2>2. /\ order.setting \in 0 .. 10 /\ v \in Int
        /\ order.setting = 1 => v \in 0 .. 100
        /\ order.setting = 8 => v \in Brightnesses
        /\ order.setting = 9 => v \in Delays
        /\ order.setting = 10 => v \in 0 .. 2
        /\ order.setting \in OnOff => v \in 0 .. 1
    BY <1>2 DEF Orders, Commands, Menu!Clamped, Menu!Value, OnOff
  <2>3. [c EXCEPT ![order.setting] = v] \in Space
    BY <2>2 DEF Stored, Space
  <2> HIDE DEF v
  <2>4. \A s \in 0 .. 10 : [c EXCEPT ![order.setting] = v][s] = IF s = order.setting THEN v ELSE c[s]
    BY <2>2 DEF Stored, Space
  <2>5. OnOff \subseteq 0 .. 10
    BY DEF OnOff
  <2> QED
    BY <2>1, <2>2, <2>3, <2>4, <2>5 DEF Stored
<1> QED
  BY <1>1, <1>2 DEF Orders, Menu!Changing

LEMMA AfterTyped == ASSUME NEW c \in Space, NEW order \in Commands PROVE After(c, order) \in Space
  BY DEF After, Menu!Applied, Menu!Value, Menu!Changing, Space, Commands, Menu!Settings, Menu!Voice,
     Menu!Volume,
         Menu!Clamped

(* Chains: of no command, of one more, of one less.                        *)
LEMMA ChainNone ==
  /\ \A a \in Space : Leads(a, <<>>, a)
  /\ \A a, b : Leads(a, <<>>, b) => a = b
<1>1. Len(<<>>) = 0
  OBVIOUS
<1>2. ASSUME NEW a \in Space PROVE Leads(a, <<>>, a)
  <2> DEFINE f == [i \in 0 .. 0 |-> a]
  <2>1. f \in [0 .. 0 -> Space] /\ f[0] = a
    OBVIOUS
  <2>2. Chain(f, <<>>)
    BY <1>1 DEF Chain
  <2> QED
    BY <1>1, <2>1, <2>2 DEF Leads
<1> QED
  BY <1>1, <1>2 DEF Leads

LEMMA ChainMore ==
  ASSUME NEW q \in Seq(Commands), NEW order \in Commands, NEW a, NEW b, Leads(a, q, b)
  PROVE  Leads(a, Append(q, order), After(b, order))
<1> DEFINE r == Append(q, order)
           n == Len(q)
<1>1. PICK f \in [0 .. n -> Space] : f[0] = a /\ f[n] = b /\ Chain(f, q)
  BY DEF Leads
<1> DEFINE g == [i \in 0 .. n + 1 |-> IF i = n + 1 THEN After(b, order) ELSE f[i]]
<1>2. /\ n \in Nat /\ Len(r) = n + 1 /\ r[n + 1] = order
      /\ \A i \in 1 .. n : r[i] = q[i]
  BY AppendProperties, LenProperties
<1>3. b \in Space /\ After(b, order) \in Space
  BY <1>1, <1>2, AfterTyped
<1>4. g \in [0 .. n + 1 -> Space] /\ g[0] = a /\ g[n + 1] = After(b, order)
  BY <1>1, <1>2, <1>3
<1>5. \A i \in 0 .. n : g[i] = f[i]
  BY <1>2
<1> HIDE DEF g
<1>6. ASSUME NEW i \in 1 .. n + 1 PROVE g[i] = After(g[i - 1], r[i])
  <2>1. CASE i = n + 1
    BY <1>1, <1>2, <1>4, <1>5, <2>1
  <2>2. CASE i # n + 1
    <3>1. i \in 1 .. n /\ i - 1 \in 0 .. n /\ i \in 0 .. n
      BY <1>2, <2>2
    <3> QED
      BY <1>1, <1>2, <1>5, <3>1 DEF Chain
  <2> QED
    BY <2>1, <2>2
<1> QED
  BY <1>2, <1>4, <1>6 DEF Leads, Chain

LEMMA ChainLess ==
  ASSUME NEW q \in Seq(Commands), q # <<>>, NEW a, NEW b, Leads(a, q, b)
  PROVE  Leads(After(a, Head(q)), Tail(q), b)
<1> DEFINE r == Tail(q)
           n == Len(r)
<1>1. PICK f \in [0 .. Len(q) -> Space] : f[0] = a /\ f[Len(q)] = b /\ Chain(f, q)
  BY DEF Leads
<1> DEFINE g == [i \in 0 .. n |-> f[i + 1]]
<1>2. n = Len(q) - 1 /\ \A i \in 1 .. n : r[i] = q[i + 1]
  BY HeadTailProperties
<1>3. Len(q) \in Nat /\ Len(q) # 0 /\ Head(q) = q[1]
  BY EmptySeq, LenProperties
<1>4. n \in Nat
  BY <1>2, <1>3
<1>5. f[1] = After(a, Head(q))
  BY <1>1, <1>3 DEF Chain
<1> HIDE DEF r, n
<1>6. g \in [0 .. n -> Space] /\ g[0] = After(a, Head(q)) /\ g[n] = b
  BY <1>1, <1>2, <1>3, <1>4, <1>5
<1>7. ASSUME NEW i \in 1 .. n PROVE g[i] = After(g[i - 1], r[i])
  <2>1. i + 1 \in 1 .. Len(q) /\ g[i] = f[i + 1] /\ g[i - 1] = f[i]
    BY <1>2, <1>4
  <2>2. f[i + 1] = After(f[i], q[i + 1])
    BY <1>1, <2>1 DEF Chain
  <2> QED
    BY <1>2, <2>1, <2>2
<1>8. Chain(g, r)
  BY <1>7 DEF Chain, n
<1> QED
  BY <1>6, <1>8 DEF Leads, n, r

-----------------------------------------------------------------------------
LEMMA MenuStart == Menu!Init => MenuInv
<1> SUFFICES ASSUME Menu!Init PROVE MenuInv
  OBVIOUS
<1> USE DEF Menu!Settings, Menu!Volume, Menu!Brightness, Menu!Timeout, Menu!Power
<1>1. /\ page = 0 /\ section = -1 /\ choice = 0 /\ confirm = FALSE /\ diagnostic = FALSE /\ seen = FALSE
      /\ commands = <<>> /\ control = <<>> /\ changes = 0 /\ dropped = FALSE
      /\ shown = stored /\ wanted = stored /\ setup = FALSE /\ drawn = TRUE
  BY DEF Menu!Init
<1>2. Entries
  <2>1. Menu!CursorOnEntry
    BY <1>1 DEF Menu!CursorOnEntry
  <2>2. page \in 0 .. 5 /\ section \in -1 .. 5 /\ choice \in 0 .. 7
    BY <1>1
  <2> QED
    BY <1>1, <2>1, <2>2 DEF Entries
<1>3. Queued
  <2>1. <<>> \in Seq(Commands) /\ <<>> \in Seq(Orders) /\ Len(<<>>) = 0
    OBVIOUS
  <2>2. BusDepth \in Nat /\ ControlDepth \in Nat /\ MaxChanges \in Nat
    BY InterfaceAssumption DEF Menu!MenuAssumption
  <2>3. changes \in 0 .. MaxChanges /\ Len(commands) <= BusDepth /\ Len(control) <= ControlDepth
    BY <1>1, <2>1, <2>2
  <2> QED
    BY <1>1, <2>1, <2>3 DEF Queued
<1>4. Stored(stored)
  <2>1. PICK v \in FirstVolumes :
          stored = [s \in Menu!Settings |-> CASE s = Menu!Volume -> v [] s = Menu!Brightness -> 80
                                           [] s = Menu!Timeout -> 60 [] s = Menu!Power -> 0 [] OTHER -> 1]
    BY DEF Menu!Init
  <2>2. v \in 0 .. 100
    BY InterfaceAssumption DEF Menu!MenuAssumption
  <2>3. stored[1] = v /\ stored[8] = 80 /\ stored[9] = 60 /\ stored[10] = 0
    BY <2>1
  <2>4. \A s \in OnOff : stored[s] = 1
    BY <2>1 DEF OnOff
  <2>5. stored \in Space
    BY <2>1, <2>2 DEF Space
  <2> QED
    BY <2>2, <2>3, <2>4, <2>5 DEF Stored, Brightnesses, Delays
<1>5. OnTheWay
  BY <1>1, <1>4, ChainNone DEF OnTheWay, Stored
<1> QED
  BY <1>1, <1>2, <1>3, <1>4, <1>5 DEF MenuInv, Kept

LEMMA MenuEnough == StepsInv => MenuSafe
<1> SUFFICES ASSUME StepsInv PROVE MenuSafe
  OBVIOUS
<1> USE DEF StepsInv
<1>1. Menu!Legal(stored) /\ Menu!Legal(shown) /\ Menu!Legal(wanted)
  BY StoredLegal DEF MenuInv, Kept
<1>2. Menu!TypeOK
  BY <1>1 DEF MenuInv, Entries, Queued, Kept, Menu!TypeOK
<1>3. Menu!KeysTakeEffect
  BY ChainNone DEF MenuInv, OnTheWay, Menu!KeysTakeEffect
<1> QED
  BY <1>2, <1>3 DEF MenuInv, Entries, StepsInv, MenuSafe, Menu!MenuSafe

(* A command on its way, or none: what a key says.  The one that installs  *)
(* is said only when OK was pressed on the update page before; one that    *)
(* sets a value takes it one step on from what is shown.                   *)
Stepwise(order) ==
  \A s \in Menu!Graded : Menu!Sets(order, s) => Menu!Value(order) = Menu!NextValue(s, shown[s])
Says ==
  \/ Menu!Quiet
  \/ \E order \in Commands :
       Menu!Send(order) /\ (order.cmd = "install" => seen) /\ Stepwise(order)
SeenNow == seen' = (section' = Menu!Update /\ (seen \/ section = Menu!Update))

LEMMA Spoken ==
  /\ Menu!Mute \in Commands
  /\ \A name \in {"setup", "refresh", "install", "check"} : Menu!Other(name) \in Commands
  BY DEF Menu!Mute, Menu!Other, Commands, Menu!Settings, Menu!Voice

LEMMA SaysOther ==
  ASSUME NEW name \in {"setup", "refresh", "install", "check"}, Menu!Send(Menu!Other(name)),
         name = "install" => seen
  PROVE  Says
<1>1. Stepwise(Menu!Other(name))
  BY DEF Stepwise, Menu!Sets, Menu!Other
<1> QED
  BY <1>1, Spoken DEF Says, Menu!Other

LEMMA SaysSetting ==
  ASSUME NEW s \in Menu!Settings, NEW v \in Int, Menu!Send(Menu!Set(s, v)),
         s = 8 => v \in Brightnesses, s = 9 => v \in Delays, s = 10 => v \in 0 .. 2,
         s \in OnOff => v \in 0 .. 1,
         s \in Menu!Graded => Menu!Value(Menu!Set(s, v)) = Menu!NextValue(s, shown[s])
  PROVE  Says
<1>1. Menu!Set(s, v) \in Commands /\ Menu!Set(s, v).cmd # "install"
  BY DEF Menu!Set, Commands
<1>2. Stepwise(Menu!Set(s, v))
  BY DEF Stepwise, Menu!Sets, Menu!Set
<1> QED
  BY <1>1, <1>2 DEF Says

LEMMA Stays == ASSUME MenuInv, SeenNow, Menu!Stay PROVE Entries'
<1>1. UNCHANGED <<page, section, choice, confirm, diagnostic>>
  BY DEF Menu!Stay, Menu!menu
<1>2. seen' \in BOOLEAN /\ (confirm' /\ section' >= 0 => section' = 4 /\ seen')
  BY <1>1 DEF MenuInv, Entries, SeenNow, Menu!Update
<1> QED
  BY <1>1, <1>2 DEF MenuInv, Entries, Menu!CursorOnEntry

(* A page, outside of the sections.                                        *)
LEMMA Goes ==
  ASSUME MenuInv, SeenNow, NEW p \in 0 .. 5, Menu!GoTo(p, -1, 0), NEW c \in BOOLEAN, confirm' = c,
         diagnostic' = diagnostic
  PROVE  Entries'
<1>1. page' = p /\ section' = -1 /\ choice' = 0 /\ seen' \in BOOLEAN
  BY DEF Menu!GoTo, SeenNow
<1>2. Menu!CursorOnEntry'
  BY <1>1 DEF Menu!CursorOnEntry, Menu!Audio, Menu!Display
<1>3. page' \in 0 .. 5 /\ section' \in -1 .. 5 /\ choice' \in 0 .. 7 /\ ~(section' >= 0)
  BY <1>1
<1>4. confirm' \in BOOLEAN /\ diagnostic' \in BOOLEAN
  BY DEF MenuInv, Entries
<1> QED
  BY <1>1, <1>2, <1>3, <1>4 DEF Entries

(* The next entry of a section.                                            *)
LEMMA Turns ==
  ASSUME MenuInv, SeenNow, section \in {1, 2}, NEW c \in 0 .. 7, section = 2 => c <= 1,
         Menu!GoTo(page, section, c), Menu!KeepFlags
  PROVE  Entries'
<1>1. page' = page /\ section' = section /\ choice' = c /\ UNCHANGED <<confirm, diagnostic>>
  BY DEF Menu!GoTo, Menu!KeepFlags
<1>2. page = 5 /\ ~confirm
  BY DEF MenuInv, Entries, Menu!CursorOnEntry
<1>3. seen' \in BOOLEAN
  BY DEF SeenNow
<1>4. Menu!CursorOnEntry'
  BY <1>1, <1>2 DEF Menu!CursorOnEntry, Menu!Audio, Menu!Display
<1> QED
  BY <1>1, <1>2, <1>3, <1>4 DEF MenuInv, Entries

LEMMA KeyLong == ASSUME MenuInv, SeenNow, NEW b, Menu!Long(b) PROVE Entries' /\ Says
<1>1. CASE b = "ok"
  BY <1>1, Stays, SaysOther DEF Menu!Long
<1>2. CASE b = "up"
  <2>1. Menu!Send(Menu!Mute) /\ Menu!Stay
    BY <1>2 DEF Menu!Long
  <2>2. Menu!Mute \in Commands /\ Menu!Mute.cmd # "install"
    BY Spoken DEF Menu!Mute
  <2>3. Stepwise(Menu!Mute)
    BY DEF Stepwise, Menu!Sets, Menu!Mute
  <2> QED
    BY <2>1, <2>2, <2>3, Stays DEF Says
<1>3. CASE b # "ok" /\ b # "up"
  <2>1. Menu!GoTo(5, -1, 0) /\ UNCHANGED <<confirm, diagnostic>> /\ Menu!Quiet
    BY <1>3 DEF Menu!Long, Menu!KeepFlags
  <2> QED
    BY <2>1, Goes DEF Says, MenuInv, Entries
<1> QED
  BY <1>1, <1>2, <1>3

LEMMA KeyOnPage == ASSUME MenuInv, SeenNow, NEW b, Menu!OnPage(b) PROVE Entries' /\ Says
<1>1. CASE b = "ok"
  BY <1>1, Stays, SaysOther DEF Menu!OnPage
<1>2. CASE b # "ok"
  <2> DEFINE p == (page + (IF b = "down" THEN 1 ELSE 5)) % 6
  <2>1. Menu!GoTo(p, -1, 0) /\ UNCHANGED <<confirm, diagnostic>> /\ Menu!Quiet
    BY <1>2 DEF Menu!OnPage, Menu!KeepFlags
  <2>2. p \in 0 .. 5
    BY DEF MenuInv, Entries
  <2> HIDE DEF p
  <2> QED
    BY <2>1, <2>2, Goes DEF Says, MenuInv, Entries
<1> QED
  BY <1>1, <1>2

LEMMA KeyInList ==
  ASSUME MenuInv, SeenNow, NEW b, page = 5, section < 0, Menu!InList(b) PROVE Entries' /\ Says
<1>0. section = -1 /\ choice \in 0 .. 5 /\ Says /\ diagnostic \in BOOLEAN /\ confirm \in BOOLEAN
  <2>1. section \in -1 .. 5 /\ choice \in 0 .. 7
    BY DEF MenuInv, Entries
  <2>2. section = -1
    BY <2>1
  <2>3. choice <= 5
    BY <2>2 DEF MenuInv, Entries, Menu!CursorOnEntry, Menu!Audio, Menu!Display
  <2> QED
    BY <2>1, <2>2, <2>3 DEF MenuInv, Entries, Menu!InList, Says
<1>1. CASE b = "ok"
  <2>1. section' = choice /\ choice' = 0 /\ confirm' = FALSE /\ UNCHANGED <<page, diagnostic>>
    BY <1>1 DEF Menu!InList, Menu!Enter
  <2>2. Menu!CursorOnEntry'
    BY <1>0, <2>1 DEF Menu!CursorOnEntry, Menu!Audio, Menu!Display
  <2>3. seen' \in BOOLEAN /\ diagnostic' \in BOOLEAN
    BY <1>0, <2>1 DEF SeenNow
  <2>4. page' \in 0 .. 5 /\ section' \in -1 .. 5 /\ choice' \in 0 .. 7
    BY <1>0, <2>1
  <2> QED
    BY <1>0, <2>1, <2>2, <2>3, <2>4 DEF Entries
<1>2. CASE b # "ok"
  <2> DEFINE n == Menu!Next7(b = "down")
  <2>1. n \in 0 .. 6
    BY <1>0 DEF Menu!Next7
  <2>2. UNCHANGED <<confirm, diagnostic, section>>
    BY <1>2 DEF Menu!InList, Menu!KeepFlags
  <2>3. \/ page' = 0 /\ choice' = 0
        \/ n # 6 /\ page' = page /\ choice' = n
    BY <1>2 DEF Menu!InList
  <2> HIDE DEF n
  <2>4. Menu!CursorOnEntry' /\ page' \in 0 .. 5 /\ choice' \in 0 .. 7
    BY <1>0, <2>1, <2>2, <2>3 DEF Menu!CursorOnEntry, Menu!Audio, Menu!Display
  <2>5. seen' \in BOOLEAN
    BY DEF SeenNow
  <2> QED
    BY <1>0, <2>2, <2>4, <2>5 DEF Says, MenuInv, Entries
<1> QED
  BY <1>1, <1>2

LEMMA KeyInAudio ==
  ASSUME MenuInv, SeenNow, NEW b, section = 1, Menu!InAudio(b) PROVE Entries' /\ Says
<1>0. choice \in 0 .. 7 /\ Stored(shown)
  BY DEF MenuInv, Entries, Kept
<1>1. CASE b = "down"
  <2>1. Menu!GoTo(page, section, (choice + 1) % 8) /\ Menu!KeepFlags /\ Menu!Quiet
    BY <1>1 DEF Menu!InAudio
  <2>2. (choice + 1) % 8 \in 0 .. 7
    BY <1>0
  <2> QED
    BY <2>1, <2>2, Turns DEF Says
<1>2. CASE b # "down"
  <2> DEFINE v == IF choice = Menu!Volume THEN Menu!Step(shown[Menu!Volume]) ELSE 1 - shown[choice]
  <2>1. Menu!Stay /\ Menu!Send(Menu!Set(choice, v))
    BY <1>2 DEF Menu!InAudio
  <2>2. choice = 1 => v \in Int
    BY <1>0 DEF Menu!Volume, Menu!Step, Stored
  <2>3. choice # 1 => choice \in OnOff /\ v \in 0 .. 1
    BY <1>0 DEF Menu!Volume, OnOff, Stored
  <2>4. choice \in Menu!Settings /\ choice # 8 /\ choice # 9 /\ choice # 10 /\ v \in Int
        /\ (choice \in OnOff => v \in 0 .. 1)
    BY <1>0, <2>2, <2>3 DEF Menu!Settings, OnOff
  <2>5. choice \in Menu!Graded => choice = 1
    BY <2>4 DEF Menu!Graded, Menu!Volume, Menu!Brightness, Menu!Timeout, Menu!Power
  <2>6. choice = 1 => Menu!Value(Menu!Set(choice, v)) = Menu!NextValue(choice, shown[choice])
    <3>1. Menu!Set(choice, v).setting = choice /\ Menu!Set(choice, v).value = v
      BY DEF Menu!Set
    <3>2. choice = 1 => v = Menu!Step(shown[1])
      BY DEF Menu!Volume
    <3> HIDE DEF v
    <3>3. choice = 1 => Menu!Value(Menu!Set(choice, v)) = Menu!Clamped(v)
      BY <3>1 DEF Menu!Value, Menu!Volume
    <3>4. \A t : Menu!NextValue(1, t) = Menu!Clamped(Menu!Step(t))
      BY DEF Menu!NextValue, Menu!Volume, Menu!Brightness, Menu!Timeout
    <3> QED
      BY <3>2, <3>3, <3>4
  <2> HIDE DEF v
  <2>7. choice \in Menu!Graded => Menu!Value(Menu!Set(choice, v)) = Menu!NextValue(choice, shown[choice])
    BY <2>5, <2>6
  <2>8. Menu!Send(Menu!Set(choice, v))
    BY <2>1
  <2>9. Says
    BY <2>4, <2>7, <2>8, SaysSetting
  <2> QED
    BY <2>1, <2>9, Stays
<1> QED
  BY <1>1, <1>2

(* The list of timeouts goes round.                                        *)
LEMMA NextTimeoutListed == ASSUME NEW t PROVE Menu!NextTimeout(t) \in Delays
<1> DEFINE P(i) == (i = 4 \/ Menu!Timeouts[i + 1] = t) /\ \A j \in 0 .. i - 1 : Menu!Timeouts[j + 1] # t
           c == CHOOSE i \in 0 .. 4 : P(i)
<1>1. \E i \in 0 .. 4 : P(i)
  <2>1. CASE t = 0
    <3>1. P(0)
      BY <2>1 DEF Menu!Timeouts
    <3> QED
      BY <3>1
  <2>2. CASE t = 30
    <3>1. P(1)
      BY <2>2 DEF Menu!Timeouts
    <3> QED
      BY <3>1
  <2>3. CASE t = 60
    <3>1. P(2)
      BY <2>3 DEF Menu!Timeouts
    <3> QED
      BY <3>1
  <2>4. CASE t = 300
    <3>1. P(3)
      BY <2>4 DEF Menu!Timeouts
    <3> QED
      BY <3>1
  <2>5. CASE t \notin {0, 30, 60, 300}
    <3>1. \A j \in 0 .. 3 : Menu!Timeouts[j + 1] \in {0, 30, 60, 300}
      BY DEF Menu!Timeouts
    <3>2. P(4)
      BY <2>5, <3>1
    <3> QED
      BY <3>2
  <2> QED
    BY <2>1, <2>2, <2>3, <2>4, <2>5
<1>2. c \in 0 .. 4
  BY <1>1
<1>3. Menu!NextTimeout(t) = Menu!Timeouts[((c + 1) % 5) + 1]
  BY DEF Menu!NextTimeout
<1> HIDE DEF c
<1> QED
  BY <1>2, <1>3 DEF Menu!Timeouts, Delays

LEMMA KeyInDisplay ==
  ASSUME MenuInv, SeenNow, NEW b, section = 2, Menu!InDisplay(b) PROVE Entries' /\ Says
<1>0. choice \in 0 .. 1 /\ Stored(shown)
  BY DEF MenuInv, Entries, Kept, Menu!CursorOnEntry, Menu!Audio, Menu!Display
<1>1. CASE b = "down"
  <2>1. Menu!GoTo(page, section, (choice + 1) % 2) /\ Menu!KeepFlags /\ Menu!Quiet
    BY <1>1 DEF Menu!InDisplay
  <2>2. (choice + 1) % 2 \in 0 .. 7 /\ (choice + 1) % 2 <= 1
    BY <1>0
  <2> QED
    BY <2>1, <2>2, Turns DEF Says
<1>2. CASE b # "down" /\ choice = 0
  <2> DEFINE v == IF shown[8] >= 100 THEN 10 ELSE shown[8] + 10
  <2>1. Menu!Stay /\ Menu!Send(Menu!Set(8, v))
    BY <1>2 DEF Menu!InDisplay, Menu!Brightness
  <2>2. v \in Brightnesses /\ v \in Int
    BY <1>0 DEF Stored, Brightnesses
  <2>3. Menu!Value(Menu!Set(8, v)) = Menu!NextValue(8, shown[8])
    BY DEF Menu!Value, Menu!Set, Menu!NextValue, Menu!Volume, Menu!Brightness, Menu!Timeout
  <2> HIDE DEF v
  <2> QED
    BY <2>1, <2>2, <2>3, Stays, SaysSetting DEF Menu!Settings, OnOff
<1>3. CASE b # "down" /\ choice # 0
  <2> DEFINE v == Menu!NextTimeout(shown[9])
  <2>1. Menu!Stay /\ Menu!Send(Menu!Set(9, v))
    BY <1>3 DEF Menu!InDisplay, Menu!Timeout
  <2>2. v \in Delays
    BY NextTimeoutListed
  <2>3. Menu!Value(Menu!Set(9, v)) = Menu!NextValue(9, shown[9])
    BY DEF Menu!Value, Menu!Set, Menu!NextValue, Menu!Volume, Menu!Brightness, Menu!Timeout
  <2> HIDE DEF v
  <2>4. v \in Int
    BY <2>2 DEF Delays
  <2> QED
    BY <2>1, <2>2, <2>3, <2>4, Stays, SaysSetting DEF Menu!Settings, OnOff
<1> QED
  BY <1>1, <1>2, <1>3

LEMMA KeyInUpdate ==
  ASSUME MenuInv, SeenNow, section = 4, NEW busy \in BOOLEAN, NEW available \in BOOLEAN,
         Menu!InUpdate(busy, available)
  PROVE  Entries' /\ Says
<1>1. CASE busy
  BY <1>1, Stays DEF Menu!InUpdate, Says
<1>2. CASE ~busy
  <2>1. UNCHANGED <<page, section, choice, diagnostic>> /\ confirm' \in BOOLEAN
    BY <1>2 DEF Menu!InUpdate
  <2>2. seen' = TRUE
    BY <2>1 DEF SeenNow, Menu!Update
  <2>3. Entries'
    BY <2>1, <2>2 DEF MenuInv, Entries, Menu!CursorOnEntry
  <2>4. CASE available /\ ~confirm
    BY <1>2, <2>3, <2>4 DEF Menu!InUpdate, Says
  <2>5. CASE available /\ confirm
    <3>1. Menu!Send(Menu!Other("install")) /\ seen
      BY <1>2, <2>5 DEF Menu!InUpdate, MenuInv, Entries
    <3> QED
      BY <2>3, <3>1, SaysOther
  <2>6. CASE ~available
    <3>1. Menu!Send(Menu!Other("check"))
      BY <1>2, <2>6 DEF Menu!InUpdate
    <3> QED
      BY <2>3, <3>1, SaysOther
  <2> QED
    BY <2>4, <2>5, <2>6
<1> QED
  BY <1>1, <1>2

LEMMA KeyInSection == ASSUME MenuInv, SeenNow, NEW b, Menu!InSection(b) PROVE Entries' /\ Says
<1> USE DEF Menu!Audio, Menu!Display, Menu!Update
<1>1. CASE b = "up"
  <2>1. Menu!GoTo(page, -1, 0) /\ confirm' = FALSE /\ diagnostic' = diagnostic /\ Menu!Quiet
    BY <1>1 DEF Menu!InSection
  <2>2. page \in 0 .. 5
    BY DEF MenuInv, Entries
  <2> QED
    BY <2>1, <2>2, Goes DEF Says
<1>2. CASE b # "up" /\ section = 1
  BY <1>2, KeyInAudio DEF Menu!InSection
<1>3. CASE b # "up" /\ section = 2
  BY <1>3, KeyInDisplay DEF Menu!InSection
<1>4. CASE b = "ok" /\ section = 3
  <2> DEFINE v == (shown[10] + 1) % 3
  <2>1. Menu!Stay /\ Menu!Send(Menu!Set(10, v))
    BY <1>4 DEF Menu!InSection, Menu!Power
  <2>2. v \in 0 .. 2 /\ v \in Int
    BY DEF MenuInv, Kept, Stored
  <2>3. Menu!Value(Menu!Set(10, v)) = Menu!NextValue(10, shown[10])
    BY DEF Menu!Value, Menu!Set, Menu!NextValue, Menu!Volume, Menu!Brightness, Menu!Timeout
  <2> HIDE DEF v
  <2> QED
    BY <2>1, <2>2, <2>3, Stays, SaysSetting DEF Menu!Settings, OnOff
<1>5. CASE b = "ok" /\ section = 0
  BY <1>5, Stays, SaysOther DEF Menu!InSection
<1>6. CASE b = "ok" /\ section = 4
  BY <1>6, KeyInUpdate DEF Menu!InSection
<1>7. CASE b = "down" /\ section = 5
  <2>1. diagnostic' = ~diagnostic /\ UNCHANGED <<page, section, choice, confirm>> /\ Menu!Quiet
    BY <1>7 DEF Menu!InSection
  <2>2. seen' \in BOOLEAN /\ ~confirm
    BY <1>7 DEF SeenNow, MenuInv, Entries
  <2> QED
    BY <2>1, <2>2 DEF MenuInv, Entries, Menu!CursorOnEntry, Says
<1>8. CASE /\ b # "up" /\ section # 1 /\ section # 2
           /\ ~(b = "ok" /\ section \in {0, 3, 4}) /\ ~(b = "down" /\ section = 5)
  <2>1. Menu!Stay /\ Menu!Quiet
    BY <1>8 DEF Menu!InSection
  <2> QED
    BY <2>1, Stays DEF Says
<1> QED
  BY <1>1, <1>2, <1>3, <1>4, <1>5, <1>6, <1>7, <1>8

LEMMA KeyClick == ASSUME MenuInv, SeenNow, NEW b, Menu!Click(b) PROVE Entries' /\ Says
<1>1. CASE setup
  BY <1>1, Stays DEF Menu!Click, Says
<1>2. CASE ~setup /\ page # 5
  BY <1>2, KeyOnPage DEF Menu!Click
<1>3. CASE ~setup /\ page = 5 /\ section < 0
  BY <1>3, KeyInList DEF Menu!Click
<1>4. CASE ~setup /\ page = 5 /\ ~(section < 0)
  BY <1>4, KeyInSection DEF Menu!Click
<1> QED
  BY <1>1, <1>2, <1>3, <1>4

LEMMA KeySays == ASSUME MenuInv, Menu!Key PROVE Entries' /\ Says
  BY KeyLong, KeyClick DEF Menu!Key, SeenNow

-----------------------------------------------------------------------------
(* What is said goes to the end of the bus, and the configuration the keys *)
(* want grows with it; or the bus was full.                                *)
LEMMA Sending ==
  ASSUME MenuInv, Says, UNCHANGED <<control, stored>>
  PROVE  Queued' /\ OnTheWay' /\ Stored(wanted)'
<1>0. /\ commands \in Seq(Commands) /\ Len(commands) \in Nat /\ BusDepth \in Nat /\ MaxChanges \in Nat
      /\ Stored(wanted) /\ wanted \in Space
  BY InterfaceAssumption, LenProperties DEF MenuInv, Queued, Kept, Stored, Menu!MenuAssumption
<1>1. CASE Menu!Quiet
  BY <1>1 DEF Menu!Quiet, MenuInv, Queued, OnTheWay, Kept
<1>2. ASSUME NEW order \in Commands, Menu!Send(order) PROVE Queued' /\ OnTheWay' /\ Stored(wanted)'
  <2>1. changes' \in 0 .. MaxChanges
    BY <1>0, <1>2 DEF Menu!Send, MenuInv, Queued
  <2>2. CASE Len(commands) < BusDepth
    <3>1. commands' = Append(commands, order) /\ dropped' = dropped /\ wanted' = After(wanted, order)
      BY <1>2, <2>2 DEF Menu!Send, After
    <3>2. commands' \in Seq(Commands) /\ Len(commands') = Len(commands) + 1
      BY <1>0, <3>1, AppendProperties
    <3>3. Stored(wanted')
      BY <1>0, <3>1, AppliedStored DEF After, Orders
    <3>4. OnTheWay'
      BY <1>0, <3>1, ChainMore DEF MenuInv, OnTheWay
    <3>5. Queued'
      BY <1>0, <2>1, <2>2, <3>1, <3>2 DEF MenuInv, Queued
    <3> QED
      BY <3>3, <3>4, <3>5
  <2>3. CASE ~(Len(commands) < BusDepth)
    <3>1. dropped' = TRUE /\ UNCHANGED <<commands, wanted>>
      BY <1>2, <2>3 DEF Menu!Send
    <3> QED
      BY <1>0, <2>1, <3>1 DEF MenuInv, Queued, OnTheWay
  <2> QED
    BY <2>2, <2>3
<1> QED
  BY <1>1, <1>2 DEF Says

LEMMA MenuKey == ASSUME MenuInv, Menu!Key PROVE MenuInv'
<1>1. Entries' /\ Says /\ UNCHANGED <<setup, shown, control, stored>> /\ drawn' = FALSE
  BY KeySays DEF Menu!Key
<1>2. Queued' /\ OnTheWay' /\ Stored(wanted)'
  BY <1>1, Sending
<1> QED
  BY <1>1, <1>2 DEF MenuInv, Kept

LEMMA MenuDraw == ASSUME MenuInv, Menu!Draw \/ UNCHANGED Menu!vars PROVE MenuInv'
<1>1. /\ UNCHANGED <<page, section, choice, confirm, diagnostic, commands, control, stored, changes, wanted,
                     dropped, seen>>
      /\ shown' \in {shown, stored} /\ setup' \in BOOLEAN /\ drawn' \in BOOLEAN
  BY DEF Menu!Draw, Menu!vars, Menu!menu, MenuInv, Kept
<1> QED
  BY <1>1 DEF MenuInv, Entries, Queued, OnTheWay, Kept, Menu!CursorOnEntry

LEMMA MenuAppEvent == ASSUME MenuInv, Menu!AppEvent PROVE MenuInv'
<1>1. /\ commands # <<>> /\ commands' = Tail(commands)
      /\ UNCHANGED <<page, section, choice, confirm, diagnostic, setup, shown, drawn, stored, changes, wanted, seen>>
  BY DEF Menu!AppEvent, Menu!menu
<1>2. /\ commands \in Seq(Commands) /\ Len(commands) \in Nat /\ Head(commands) \in Commands
      /\ commands' \in Seq(Commands) /\ Len(commands') = Len(commands) - 1 /\ Len(commands') <= BusDepth
      /\ control \in Seq(Orders) /\ Len(control) \in Nat /\ ControlDepth \in Nat
  <2>1. commands \in Seq(Commands) /\ commands # <<>> /\ control \in Seq(Orders) /\ Len(commands) <= BusDepth
    BY <1>1 DEF MenuInv, Queued
  <2>2. Head(commands) \in Commands /\ Tail(commands) \in Seq(Commands) /\ Len(Tail(commands)) = Len(commands) - 1
    BY <2>1, HeadTailProperties
  <2>3. Len(commands) \in Nat /\ Len(control) \in Nat /\ ControlDepth \in Nat /\ BusDepth \in Nat
    BY <2>1, LenProperties, InterfaceAssumption DEF Menu!MenuAssumption
  <2> QED
    BY <1>1, <2>1, <2>2, <2>3
<1>3. Entries' /\ Kept'
  BY <1>1 DEF MenuInv, Entries, Kept, Menu!CursorOnEntry
<1>4. ASSUME ~dropped PROVE \E m \in Space : /\ Leads(stored, control, m)
                                            /\ Leads(After(m, Head(commands)), commands', wanted)
  BY <1>1, <1>2, <1>4, ChainLess DEF MenuInv, OnTheWay
<1>5. CASE ~Menu!Forwarded(Head(commands))
  <2>1. UNCHANGED <<control, dropped>>
    BY <1>5 DEF Menu!AppEvent
  <2>2. OnTheWay'
    BY <1>1, <1>4, <1>5, <2>1 DEF OnTheWay, After, Menu!Forwarded
  <2> QED
    BY <1>1, <1>2, <1>3, <2>1, <2>2 DEF MenuInv, Queued
<1>6. CASE Menu!Forwarded(Head(commands)) /\ Len(control) < ControlDepth
  <2>1. control' = Append(control, Head(commands)) /\ dropped' = dropped
    BY <1>6 DEF Menu!AppEvent
  <2>2. Head(commands) \in Orders
    BY <1>2, <1>6 DEF Orders, Menu!Forwarded
  <2>3. control' \in Seq(Orders) /\ Len(control') = Len(control) + 1 /\ control \in Seq(Commands)
    <3>1. control' \in Seq(Orders) /\ Len(control') = Len(control) + 1
      BY <1>2, <2>1, <2>2, AppendProperties
    <3>2. control \in Seq(Commands)
      BY <1>2 DEF Orders
    <3> QED
      BY <3>1, <3>2
  <2>4. OnTheWay'
    <3>1. ASSUME ~dropped' PROVE \E m \in Space : Leads(stored, control', m) /\ Leads(m, commands', wanted)
      <4>1. PICK m \in Space : /\ Leads(stored, control, m)
                               /\ Leads(After(m, Head(commands)), commands', wanted)
        BY <1>4, <2>1, <3>1
      <4>2. Leads(stored, control', After(m, Head(commands)))
        BY <1>2, <2>1, <2>3, <4>1, ChainMore
      <4>3. After(m, Head(commands)) \in Space
        BY <1>2, AfterTyped
      <4> QED
        BY <4>1, <4>2, <4>3
    <3> QED
      BY <1>1, <3>1 DEF OnTheWay
  <2>5. Queued'
    BY <1>1, <1>2, <1>6, <2>1, <2>3 DEF MenuInv, Queued
  <2> QED
    BY <1>3, <2>4, <2>5 DEF MenuInv
<1>7. CASE Menu!Forwarded(Head(commands)) /\ ~(Len(control) < ControlDepth)
  <2>1. dropped' = TRUE /\ control' = control
    BY <1>7 DEF Menu!AppEvent
  <2> QED
    BY <1>1, <1>2, <1>3, <2>1 DEF MenuInv, Queued, OnTheWay
<1> QED
  BY <1>5, <1>6, <1>7

LEMMA MenuControl == ASSUME MenuInv, Menu!Control PROVE MenuInv'
<1>1. /\ control # <<>> /\ control' = Tail(control)
      /\ UNCHANGED <<page, section, choice, confirm, diagnostic, setup, shown, drawn, commands, changes, wanted, seen>>
  BY DEF Menu!Control, Menu!Forgotten, Menu!menu
<1>2. /\ control \in Seq(Orders) /\ control \in Seq(Commands) /\ Head(control) \in Orders
      /\ control' \in Seq(Orders) /\ Len(control') <= ControlDepth
  <2>1. control \in Seq(Orders) /\ control # <<>> /\ Len(control) <= ControlDepth
    BY <1>1 DEF MenuInv, Queued
  <2>2. Head(control) \in Orders /\ Tail(control) \in Seq(Orders) /\ Len(Tail(control)) = Len(control) - 1
    BY <2>1, HeadTailProperties
  <2>3. Len(control) \in Nat /\ ControlDepth \in Nat
    BY <2>1, LenProperties, InterfaceAssumption DEF Menu!MenuAssumption
  <2>4. control \in Seq(Commands)
    BY <2>1 DEF Orders
  <2> QED
    BY <1>1, <2>1, <2>2, <2>3, <2>4
<1>3. Entries'
  BY <1>1 DEF MenuInv, Entries, Menu!CursorOnEntry
<1>4. CASE stored' = Menu!Applied(stored, Head(control)) /\ dropped' = dropped
  <2>1. stored' = After(stored, Head(control))
    BY <1>2, <1>4 DEF After, Orders
  <2>2. Stored(stored')
    BY <1>2, <1>4, AppliedStored DEF MenuInv, Kept
  <2>3. OnTheWay'
    BY <1>1, <1>2, <1>4, <2>1, ChainLess DEF MenuInv, OnTheWay
  <2> QED
    BY <1>1, <1>2, <1>3, <1>4, <2>2, <2>3 DEF MenuInv, Queued, Kept
<1>5. CASE dropped' = TRUE /\ stored' = stored
  BY <1>1, <1>2, <1>3, <1>5 DEF MenuInv, Queued, Kept, OnTheWay
<1> QED
  BY <1>4, <1>5 DEF Menu!Control

LEMMA MenuStep == MenuInv /\ [Menu!Next]_Menu!vars => MenuInv'
  BY MenuKey, MenuDraw, MenuAppEvent, MenuControl DEF Menu!Next

-----------------------------------------------------------------------------
(* Commands that take a setting one step: of a queue that has lost some,   *)
(* of one more, and of those that are left when the first is carried out.  *)
LEMMA ClimbsFewer ==
  ASSUME NEW q \in Seq(Commands), NEW r \in Seq(Commands), NEW s, NEW a, NEW b,
         Menu!Climbs(q, s, a, b), NEW f \in [1 .. Len(r) -> 1 .. Len(q)],
         \A i \in 1 .. Len(r) : r[i] = q[f[i]],
         \A i, j \in 1 .. Len(r) : i <= j => f[i] <= f[j]
  PROVE  Menu!Climbs(r, s, a, b)
<1> SUFFICES ASSUME NEW i \in 1 .. Len(r), Menu!Sets(r[i], s)
             PROVE  /\ Menu!Value(r[i]) \in {a, b}
                    /\ Menu!Value(r[i]) = b =>
                         \A j \in i .. Len(r) : Menu!Sets(r[j], s) => Menu!Value(r[j]) = b
  BY DEF Menu!Climbs
<1>1. f[i] \in 1 .. Len(q) /\ r[i] = q[f[i]] /\ Len(r) \in Nat /\ Len(q) \in Nat
  BY LenProperties
<1>2. Menu!Value(r[i]) \in {a, b}
  BY <1>1 DEF Menu!Climbs
<1>3. ASSUME Menu!Value(r[i]) = b, NEW j \in i .. Len(r), Menu!Sets(r[j], s)
      PROVE  Menu!Value(r[j]) = b
  <2>1. j \in 1 .. Len(r) /\ i <= j
    BY <1>1
  <2>2. f[j] \in 1 .. Len(q) /\ r[j] = q[f[j]] /\ f[i] <= f[j]
    BY <1>1, <2>1
  <2>3. f[j] \in f[i] .. Len(q) /\ Menu!Sets(q[f[i]], s) /\ Menu!Sets(q[f[j]], s)
    BY <1>1, <1>3, <2>2
  <2>4. Menu!Value(q[f[i]]) = b
    BY <1>1, <1>3
  <2>5. Menu!Value(q[f[j]]) = b
    BY <1>1, <2>3, <2>4 DEF Menu!Climbs
  <2> QED
    BY <2>2, <2>5
<1> QED
  BY <1>2, <1>3

LEMMA ClimbsSame ==
  ASSUME NEW q \in Seq(Commands), NEW r \in Seq(Commands), NEW s, NEW a, NEW b,
         Menu!Climbs(q, s, a, b), Len(r) = Len(q), \A i \in 1 .. Len(q) : r[i] = q[i]
  PROVE  Menu!Climbs(r, s, a, b)
<1>1. Len(q) = Len(r) /\ Len(q) \in Nat
  BY LenProperties
<1> QED
  BY <1>1 DEF Menu!Climbs

LEMMA ClimbsMore ==
  ASSUME NEW q \in Seq(Commands), NEW order \in Commands, NEW s, NEW a, NEW b,
         Menu!Climbs(q, s, a, b), Menu!Sets(order, s) => Menu!Value(order) = b
  PROVE  Menu!Climbs(Append(q, order), s, a, b)
<1> DEFINE n == Len(q)
           r == Append(q, order)
<1>1. n \in Nat /\ Len(r) = n + 1 /\ r[n + 1] = order /\ \A i \in 1 .. n : r[i] = q[i]
  BY AppendProperties, LenProperties
<1> HIDE DEF r
<1> SUFFICES ASSUME NEW i \in 1 .. Len(r), Menu!Sets(r[i], s)
             PROVE  /\ Menu!Value(r[i]) \in {a, b}
                    /\ Menu!Value(r[i]) = b =>
                         \A j \in i .. Len(r) : Menu!Sets(r[j], s) => Menu!Value(r[j]) = b
  BY DEF Menu!Climbs, r
<1>2. CASE i = n + 1
  <2>1. \A j \in i .. Len(r) : j = i
    BY <1>1, <1>2
  <2> QED
    BY <1>1, <1>2, <2>1
<1>3. CASE i # n + 1
  <2>1. i \in 1 .. n /\ r[i] = q[i]
    BY <1>1, <1>3
  <2>2. Menu!Value(r[i]) \in {a, b}
    BY <2>1 DEF Menu!Climbs
  <2>3. ASSUME Menu!Value(r[i]) = b, NEW j \in i .. Len(r), Menu!Sets(r[j], s)
        PROVE  Menu!Value(r[j]) = b
    <3>1. CASE j = n + 1
      BY <1>1, <2>3, <3>1
    <3>2. CASE j # n + 1
      <4>1. j \in i .. n /\ r[j] = q[j]
        BY <1>1, <2>1, <3>2
      <4> QED
        BY <2>1, <2>3, <4>1 DEF Menu!Climbs
    <3> QED
      BY <3>1, <3>2
  <2> QED
    BY <2>2, <2>3
<1> QED
  BY <1>2, <1>3

LEMMA ClimbsRest ==
  ASSUME NEW q \in Seq(Commands), q # <<>>, NEW s, NEW a, NEW b, Menu!Climbs(q, s, a, b)
  PROVE  /\ Menu!Climbs(Tail(q), s, a, b)
         /\ Menu!Sets(Head(q), s) => /\ Menu!Value(Head(q)) \in {a, b}
                                    /\ Menu!Climbs(Tail(q), s, Menu!Value(Head(q)), b)
<1> DEFINE r == Tail(q)
           f == [i \in 1 .. Len(r) |-> i + 1]
<1>1. /\ r \in Seq(Commands) /\ Len(q) \in Nat /\ Len(q) >= 1 /\ Len(r) = Len(q) - 1
      /\ Head(q) = q[1] /\ \A i \in 1 .. Len(r) : r[i] = q[i + 1]
  BY HeadTailProperties, LenProperties, EmptySeq
<1>2. Menu!Climbs(r, s, a, b)
  <2>1. f \in [1 .. Len(r) -> 1 .. Len(q)]
    BY <1>1
  <2>2. /\ \A i \in 1 .. Len(r) : r[i] = q[f[i]]
        /\ \A i, j \in 1 .. Len(r) : i <= j => f[i] <= f[j]
    BY <1>1
  <2> HIDE DEF f, r
  <2> QED
    BY <1>1, <2>1, <2>2, ClimbsFewer
<1>3. ASSUME Menu!Sets(Head(q), s)
      PROVE  Menu!Value(Head(q)) \in {a, b} /\ Menu!Climbs(r, s, Menu!Value(Head(q)), b)
  <2> DEFINE v == Menu!Value(Head(q))
  <2>1. v \in {a, b} /\ (v = b => \A j \in 1 .. Len(q) : Menu!Sets(q[j], s) => Menu!Value(q[j]) = b)
    BY <1>1, <1>3 DEF Menu!Climbs
  <2>2. CASE v = a
    BY <1>2, <2>1, <2>2
  <2>3. CASE v = b
    <3>1. \A j \in 1 .. Len(r) : Menu!Sets(r[j], s) => Menu!Value(r[j]) = b
      BY <1>1, <2>1, <2>3
    <3>2. \A i \in 1 .. Len(r) : \A j \in i .. Len(r) : j \in 1 .. Len(r)
      BY <1>1
    <3> HIDE DEF r, v
    <3>3. Menu!Climbs(r, s, v, b)
      BY <3>1, <3>2 DEF Menu!Climbs
    <3> QED
      BY <2>1, <3>3 DEF v
  <2> QED
    BY <2>1, <2>2, <2>3
<1> QED
  BY <1>2, <1>3

(* What was to come of the whole way stands in the same order after a      *)
(* command has moved on from one queue to the other, or was lost there.    *)
LEMMA WayThins ==
  ASSUME NEW x \in Seq(Commands), NEW y \in Seq(Commands), y # <<>>, NEW s, NEW a, NEW b,
         Menu!Climbs(x \o y, s, a, b)
  PROVE  /\ Menu!Climbs(x \o Tail(y), s, a, b)
         /\ Menu!Climbs(Append(x, Head(y)) \o Tail(y), s, a, b)
<1> DEFINE m == Len(x)
           n == Len(y)
           t == Tail(y)
           q == x \o y
<1>1. /\ t \in Seq(Commands) /\ m \in Nat /\ n \in Nat /\ n >= 1 /\ Len(t) = n - 1
      /\ Head(y) = y[1] /\ Head(y) \in Commands /\ \A i \in 1 .. n - 1 : t[i] = y[i + 1]
  BY HeadTailProperties, LenProperties, EmptySeq
<1>2. /\ q \in Seq(Commands) /\ Len(q) = m + n
      /\ \A i \in 1 .. m + n : q[i] = IF i <= m THEN x[i] ELSE y[i - m]
  BY ConcatProperties
<1> HIDE DEF t, q
<1>3. Menu!Climbs(x \o t, s, a, b)
  <2> DEFINE r == x \o t
             f == [i \in 1 .. Len(r) |-> IF i <= m THEN i ELSE i + 1]
  <2>1. /\ r \in Seq(Commands) /\ Len(r) = m + n - 1
        /\ \A i \in 1 .. m + n - 1 : r[i] = IF i <= m THEN x[i] ELSE t[i - m]
    <3>1. /\ r \in Seq(Commands) /\ Len(r) = m + Len(t)
          /\ \A i \in 1 .. m + Len(t) : r[i] = IF i <= m THEN x[i] ELSE t[i - m]
      BY <1>1, ConcatProperties
    <3> QED
      BY <1>1, <3>1
  <2> HIDE DEF r
  <2>2. f \in [1 .. Len(r) -> 1 .. Len(q)]
    BY <1>1, <1>2, <2>1
  <2>3. \A i, j \in 1 .. Len(r) : i <= j => f[i] <= f[j]
    BY <1>1, <2>1
  <2>4. ASSUME NEW i \in 1 .. Len(r) PROVE r[i] = q[f[i]]
    <3>1. CASE i <= m
      BY <1>1, <1>2, <2>1, <3>1
    <3>2. CASE ~(i <= m)
      <4>1. r[i] = t[i - m] /\ i - m \in 1 .. n - 1 /\ f[i] = i + 1
        BY <1>1, <2>1, <3>2
      <4>2. t[i - m] = y[(i - m) + 1]
        BY <1>1, <4>1
      <4>3. i + 1 \in 1 .. m + n /\ ~(i + 1 <= m) /\ (i - m) + 1 = (i + 1) - m
        BY <1>1, <2>1, <3>2
      <4>4. q[i + 1] = y[(i + 1) - m]
        BY <1>2, <4>3
      <4> QED
        BY <4>1, <4>2, <4>3, <4>4
    <3> QED
      BY <3>1, <3>2
  <2> HIDE DEF f
  <2>5. Menu!Climbs(r, s, a, b)
    BY <1>2, <2>1, <2>2, <2>3, <2>4, ClimbsFewer DEF q
  <2> QED
    BY <2>5 DEF r
<1>4. Menu!Climbs(Append(x, Head(y)) \o t, s, a, b)
  <2> DEFINE z == Append(x, Head(y))
             r == z \o t
  <2>1. z \in Seq(Commands) /\ Len(z) = m + 1 /\ z[m + 1] = y[1] /\ \A i \in 1 .. m : z[i] = x[i]
    BY <1>1, AppendProperties
  <2> HIDE DEF z
  <2>2. /\ r \in Seq(Commands) /\ Len(r) = m + n
        /\ \A i \in 1 .. m + n : r[i] = IF i <= m + 1 THEN z[i] ELSE t[i - (m + 1)]
    <3>1. /\ r \in Seq(Commands) /\ Len(r) = Len(z) + Len(t)
          /\ \A i \in 1 .. Len(z) + Len(t) : r[i] = IF i <= Len(z) THEN z[i] ELSE t[i - Len(z)]
      BY <1>1, <2>1, ConcatProperties
    <3>2. Len(z) + Len(t) = m + n
      BY <1>1, <2>1
    <3> QED
      BY <2>1, <3>1, <3>2
  <2> HIDE DEF r
  <2>3. ASSUME NEW i \in 1 .. Len(q) PROVE r[i] = q[i]
    <3>0. i \in 1 .. m + n
      BY <1>2
    <3>1. CASE i <= m
      <4>1. q[i] = x[i] /\ i \in 1 .. m
        BY <1>1, <1>2, <3>0, <3>1
      <4>2. r[i] = z[i] /\ z[i] = x[i]
        BY <1>1, <2>1, <2>2, <3>0, <3>1, <4>1
      <4> QED
        BY <4>1, <4>2
    <3>2. CASE i = m + 1
      <4>1. q[i] = y[i - m] /\ i - m = 1
        BY <1>1, <1>2, <3>0, <3>2
      <4>2. r[i] = z[m + 1]
        BY <1>1, <2>2, <3>0, <3>2
      <4> QED
        BY <2>1, <4>1, <4>2
    <3>3. CASE i > m + 1
      <4>1. r[i] = t[i - (m + 1)] /\ q[i] = y[i - m] /\ i - (m + 1) \in 1 .. n - 1
        BY <1>1, <1>2, <2>2, <3>0, <3>3
      <4>2. t[i - (m + 1)] = y[(i - (m + 1)) + 1] /\ (i - (m + 1)) + 1 = i - m
        BY <1>1, <4>1, <3>0
      <4> QED
        BY <4>1, <4>2
    <3> QED
      BY <1>1, <3>0, <3>1, <3>2, <3>3
  <2>4. Menu!Climbs(r, s, a, b)
    BY <1>2, <2>2, <2>3, ClimbsSame DEF q
  <2> QED
    BY <2>4 DEF r, z
<1> QED
  BY <1>3, <1>4 DEF t

LEMMA WayGrows ==
  ASSUME NEW x \in Seq(Commands), NEW y \in Seq(Commands), NEW order \in Commands, NEW s,
         NEW a, NEW b, Menu!Climbs(x \o y, s, a, b), Menu!Sets(order, s) => Menu!Value(order) = b
  PROVE  Menu!Climbs(x \o Append(y, order), s, a, b)
<1>1. x \o y \in Seq(Commands)
  BY ConcatProperties
<1>2. Menu!Climbs(Append(x \o y, order), s, a, b)
  BY <1>1, ClimbsMore
<1>3. x \o Append(y, order) = Append(x \o y, order)
  BY AppendIsConcat, ConcatAssociative, AppendProperties
<1> QED
  BY <1>2, <1>3

LEMMA WayShortens ==
  ASSUME NEW x \in Seq(Commands), x # <<>>, NEW y \in Seq(Commands), NEW s, NEW a, NEW b,
         Menu!Climbs(x \o y, s, a, b)
  PROVE  /\ Menu!Climbs(Tail(x) \o y, s, a, b)
         /\ Menu!Sets(Head(x), s) => /\ Menu!Value(Head(x)) \in {a, b}
                                    /\ Menu!Climbs(Tail(x) \o y, s, Menu!Value(Head(x)), b)
<1> DEFINE m == Len(x)
           n == Len(y)
           t == Tail(x)
           q == x \o y
           p == Tail(q)
           r == t \o y
<1>1. /\ t \in Seq(Commands) /\ m \in Nat /\ n \in Nat /\ m >= 1 /\ Len(t) = m - 1
      /\ Head(x) = x[1] /\ \A i \in 1 .. m - 1 : t[i] = x[i + 1]
  BY HeadTailProperties, LenProperties, EmptySeq
<1>2. /\ q \in Seq(Commands) /\ Len(q) = m + n
      /\ \A i \in 1 .. m + n : q[i] = IF i <= m THEN x[i] ELSE y[i - m]
  BY ConcatProperties
<1>3. /\ r \in Seq(Commands) /\ Len(r) = Len(t) + n
      /\ \A i \in 1 .. Len(t) + n : r[i] = IF i <= Len(t) THEN t[i] ELSE y[i - Len(t)]
  BY <1>1, ConcatProperties
<1> HIDE DEF t, q, r
<1>4. q # <<>>
  BY <1>1, <1>2, EmptySeq
<1>5. /\ p \in Seq(Commands) /\ Head(q) = q[1] /\ Len(p) = m + n - 1
      /\ \A i \in 1 .. m + n - 1 : p[i] = q[i + 1]
  BY <1>1, <1>2, <1>4, HeadTailProperties
<1>6. Head(q) = Head(x)
  BY <1>1, <1>2, <1>5
<1>7. /\ Menu!Climbs(p, s, a, b)
      /\ Menu!Sets(Head(q), s) => /\ Menu!Value(Head(q)) \in {a, b}
                                 /\ Menu!Climbs(p, s, Menu!Value(Head(q)), b)
  BY <1>2, <1>4, ClimbsRest DEF q
<1> HIDE DEF p
<1>8. Len(r) = Len(p)
  BY <1>1, <1>3, <1>5
<1>9. ASSUME NEW i \in 1 .. Len(p) PROVE r[i] = p[i]
  <2>1. i \in 1 .. m + n - 1 /\ p[i] = q[i + 1] /\ i + 1 \in 1 .. m + n
    BY <1>1, <1>5
  <2>2. CASE i <= m - 1
    <3>1. r[i] = t[i] /\ t[i] = x[i + 1]
      BY <1>1, <1>3, <2>1, <2>2
    <3>2. q[i + 1] = x[i + 1]
      BY <1>1, <1>2, <2>1, <2>2
    <3> QED
      BY <2>1, <3>1, <3>2
  <2>3. CASE ~(i <= m - 1)
    <3>1. r[i] = y[i - (m - 1)]
      BY <1>1, <1>3, <2>1, <2>3
    <3>2. q[i + 1] = y[(i + 1) - m] /\ (i + 1) - m = i - (m - 1)
      BY <1>1, <1>2, <2>1, <2>3
    <3> QED
      BY <2>1, <3>1, <3>2
  <2> QED
    BY <2>2, <2>3
<1>10. \A c : Menu!Climbs(p, s, c, b) => Menu!Climbs(r, s, c, b)
  BY <1>3, <1>5, <1>8, <1>9, ClimbsSame
<1> QED
  BY <1>6, <1>7, <1>10 DEF r, t

(* Every step of the menus keeps the settings within one step of what is   *)
(* shown, what waits in the queues included.                               *)
LEMMA StepsStart == Menu!Init => Menu!OneStepAhead
<1> SUFFICES ASSUME Menu!Init PROVE Menu!OneStepAhead
  OBVIOUS
<1>1. control = <<>> /\ commands = <<>> /\ shown = stored
  BY DEF Menu!Init
<1>2. Len(control \o commands) = 0
  BY <1>1
<1> HIDE DEF Menu!Init
<1>3. \A s, a, b : Menu!Climbs(control \o commands, s, a, b)
  BY <1>2 DEF Menu!Climbs
<1> QED
  BY <1>1, <1>3 DEF Menu!OneStepAhead

LEMMA WayTyped == ASSUME MenuInv PROVE control \in Seq(Commands) /\ commands \in Seq(Commands)
<1>1. control \in Seq(Orders) /\ commands \in Seq(Commands)
  BY DEF MenuInv, Queued
<1>2. Orders \subseteq Commands
  BY DEF Orders
<1> QED
  BY <1>1, <1>2

LEMMA StepsKey == ASSUME StepsInv, Menu!Key PROVE Menu!OneStepAhead'
<1>1. MenuInv /\ Menu!OneStepAhead /\ control \in Seq(Commands) /\ commands \in Seq(Commands)
  BY WayTyped DEF StepsInv
<1>2. Says /\ UNCHANGED <<shown, control, stored>>
  BY <1>1, KeySays DEF Menu!Key
<1> SUFFICES ASSUME NEW s \in Menu!Graded
             PROVE  /\ stored[s] \in {shown[s], Menu!NextValue(s, shown[s])}
                    /\ Menu!Climbs(control \o commands', s, stored[s], Menu!NextValue(s, shown[s]))
  BY <1>2 DEF Menu!OneStepAhead
<1>3. /\ stored[s] \in {shown[s], Menu!NextValue(s, shown[s])}
      /\ Menu!Climbs(control \o commands, s, stored[s], Menu!NextValue(s, shown[s]))
  BY <1>1 DEF Menu!OneStepAhead
<1>4. CASE commands' = commands
  BY <1>3, <1>4
<1>5. ASSUME NEW order \in Commands, Stepwise(order), commands' = Append(commands, order)
      PROVE  Menu!Climbs(control \o commands', s, stored[s], Menu!NextValue(s, shown[s]))
  <2>1. Menu!Sets(order, s) => Menu!Value(order) = Menu!NextValue(s, shown[s])
    BY <1>5 DEF Stepwise
  <2> QED
    BY <1>1, <1>3, <1>5, <2>1, WayGrows
<1>6. \/ commands' = commands
      \/ \E order \in Commands : Stepwise(order) /\ commands' = Append(commands, order)
  BY <1>2 DEF Says, Menu!Quiet, Menu!Send
<1> QED
  BY <1>3, <1>4, <1>5, <1>6

LEMMA StepsDraw ==
  ASSUME StepsInv, Menu!Draw \/ UNCHANGED Menu!vars PROVE Menu!OneStepAhead'
<1>1. UNCHANGED <<commands, control, stored>> /\ shown' \in {shown, stored}
  BY DEF Menu!Draw, Menu!vars
<1>2. CASE shown' = shown
  BY <1>1, <1>2 DEF StepsInv, Menu!OneStepAhead
<1>3. CASE shown' = stored
  <2> DEFINE q == control \o commands
  <2> SUFFICES ASSUME NEW s \in Menu!Graded
               PROVE  Menu!Climbs(q, s, stored[s], Menu!NextValue(s, stored[s]))
    BY <1>1, <1>3 DEF Menu!OneStepAhead
  <2>1. /\ stored[s] \in {shown[s], Menu!NextValue(s, shown[s])}
        /\ Menu!Climbs(q, s, stored[s], Menu!NextValue(s, shown[s]))
    BY DEF StepsInv, Menu!OneStepAhead
  <2> HIDE DEF q
  <2>2. CASE stored[s] = shown[s]
    BY <2>1, <2>2
  <2>3. CASE stored[s] = Menu!NextValue(s, shown[s])
    <3>1. \A i \in 1 .. Len(q) : Menu!Sets(q[i], s) => Menu!Value(q[i]) = stored[s]
      BY <2>1, <2>3 DEF Menu!Climbs
    <3>2. Len(q) \in Nat
      BY WayTyped, ConcatProperties, LenProperties DEF StepsInv, q
    <3>3. \A i \in 1 .. Len(q) : \A j \in i .. Len(q) : j \in 1 .. Len(q)
      BY <3>2
    <3> QED
      BY <3>1, <3>3 DEF Menu!Climbs
  <2> QED
    BY <2>1, <2>2, <2>3
<1> QED
  BY <1>1, <1>2, <1>3

LEMMA StepsAppEvent == ASSUME StepsInv, Menu!AppEvent PROVE Menu!OneStepAhead'
<1>1. /\ commands # <<>> /\ commands' = Tail(commands) /\ UNCHANGED <<shown, stored>>
      /\ control' = control \/ control' = Append(control, Head(commands))
  BY DEF Menu!AppEvent
<1>2. Menu!OneStepAhead /\ control \in Seq(Commands) /\ commands \in Seq(Commands)
  BY WayTyped DEF StepsInv
<1> SUFFICES ASSUME NEW s \in Menu!Graded
             PROVE  /\ stored[s] \in {shown[s], Menu!NextValue(s, shown[s])}
                    /\ Menu!Climbs(control' \o Tail(commands), s, stored[s], Menu!NextValue(s, shown[s]))
  BY <1>1 DEF Menu!OneStepAhead
<1>3. /\ stored[s] \in {shown[s], Menu!NextValue(s, shown[s])}
      /\ Menu!Climbs(control \o commands, s, stored[s], Menu!NextValue(s, shown[s]))
  BY <1>2 DEF Menu!OneStepAhead
<1> QED
  BY <1>1, <1>2, <1>3, WayThins

LEMMA StepsControl == ASSUME StepsInv, Menu!Control PROVE Menu!OneStepAhead'
<1>1. /\ control # <<>> /\ control' = Tail(control) /\ UNCHANGED <<shown, commands>>
      /\ stored' = stored \/ stored' = Menu!Applied(stored, Head(control))
  BY DEF Menu!Control, Menu!Forgotten
<1>2. /\ Menu!OneStepAhead /\ control \in Seq(Commands) /\ commands \in Seq(Commands)
      /\ stored \in Space /\ Head(control) \in Orders
  <2>1. control \in Seq(Orders) /\ stored \in Space
    BY DEF StepsInv, MenuInv, Queued, Kept, Stored
  <2>2. Head(control) \in Orders
    BY <1>1, <2>1, HeadTailProperties
  <2> QED
    BY <2>1, <2>2, WayTyped DEF StepsInv
<1> DEFINE order == Head(control)
<1> SUFFICES ASSUME NEW s \in Menu!Graded
             PROVE  /\ stored'[s] \in {shown[s], Menu!NextValue(s, shown[s])}
                    /\ Menu!Climbs(Tail(control) \o commands, s, stored'[s], Menu!NextValue(s, shown[s]))
  BY <1>1 DEF Menu!OneStepAhead
<1> DEFINE new == Menu!NextValue(s, shown[s])
<1>3. stored[s] \in {shown[s], new} /\ Menu!Climbs(control \o commands, s, stored[s], new)
  BY <1>2 DEF Menu!OneStepAhead
<1>4. s \in Menu!Settings /\ s # Menu!Voice
  BY DEF Menu!Graded, Menu!Settings, Menu!Voice, Menu!Volume, Menu!Brightness, Menu!Timeout, Menu!Power
<1> HIDE DEF new, order
<1>5. /\ Menu!Climbs(Tail(control) \o commands, s, stored[s], new)
      /\ Menu!Sets(order, s) => /\ Menu!Value(order) \in {stored[s], new}
                               /\ Menu!Climbs(Tail(control) \o commands, s, Menu!Value(order), new)
  BY <1>1, <1>2, <1>3, WayShortens DEF order
<1>6. CASE stored' = stored
  BY <1>3, <1>5, <1>6 DEF new
<1>7. CASE stored' = Menu!Applied(stored, order)
  <2>1. order.cmd \in {"mute", "setting"} /\ order.setting \in Menu!Settings
    BY <1>2 DEF order, Orders, Commands, Menu!Changing
  <2>2. stored'[s] = IF Menu!Sets(order, s) THEN Menu!Value(order) ELSE stored[s]
    <3>1. CASE order.cmd = "mute"
      BY <1>2, <1>4, <1>7, <3>1 DEF Menu!Applied, Menu!Sets, Space
    <3>2. CASE order.cmd = "setting"
      BY <1>2, <1>4, <1>7, <2>1, <3>2 DEF Menu!Applied, Menu!Sets, Space
    <3> QED
      BY <2>1, <3>1, <3>2
  <2> QED
    BY <1>3, <1>5, <2>2 DEF new
<1> QED
  BY <1>1, <1>6, <1>7 DEF order

LEMMA StepsHolds == Menu!Init /\ [][Menu!Next]_Menu!vars => []StepsInv
<1>1. Menu!Init => StepsInv
  BY MenuStart, StepsStart DEF StepsInv
<1>2. StepsInv /\ [Menu!Next]_Menu!vars => StepsInv'
  <2>1. StepsInv /\ [Menu!Next]_Menu!vars => Menu!OneStepAhead'
    BY StepsKey, StepsDraw, StepsAppEvent, StepsControl DEF Menu!Next
  <2>2. StepsInv /\ [Menu!Next]_Menu!vars => MenuInv'
    BY MenuStep DEF StepsInv
  <2> QED
    BY <2>1, <2>2 DEF StepsInv
<1> QED
  BY <1>1, <1>2, PTL

LEMMA MenuHolds == Menu!Init /\ [][Menu!Next]_Menu!vars => []MenuInv
  BY MenuStart, MenuStep, PTL

(* Only a key lengthens the bus, and only by what it says.                 *)
LEMMA InstallStep ==
  ASSUME MenuInv, [Menu!Next]_Menu!vars, Len(commands') > Len(commands),
         commands'[Len(commands')].cmd = "install"
  PROVE  seen
<1>0. commands \in Seq(Commands) /\ Len(commands) \in Nat
  BY LenProperties DEF MenuInv, Queued
<1>1. CASE Menu!Key
  <2>1. CASE Menu!Quiet
    BY <1>0, <2>1 DEF Menu!Quiet
  <2>2. ASSUME NEW order \in Commands, Menu!Send(order), order.cmd = "install" => seen PROVE seen
    <3>1. commands' = Append(commands, order)
      BY <1>0, <2>2 DEF Menu!Send
    <3>2. commands'[Len(commands')] = order
      BY <1>0, <3>1, AppendProperties
    <3> QED
      BY <2>2, <3>2
  <2> QED
    BY <1>1, <2>1, <2>2, KeySays DEF Says
<1>2. CASE Menu!AppEvent
  <2>1. commands # <<>> /\ commands' = Tail(commands)
    BY <1>2 DEF Menu!AppEvent
  <2>2. Len(commands') = Len(commands) - 1
    BY <1>0, <2>1, HeadTailProperties
  <2> QED
    BY <1>0, <2>2
<1>3. CASE Menu!Draw \/ Menu!Control \/ UNCHANGED Menu!vars
  BY <1>0, <1>3 DEF Menu!Draw, Menu!Control, Menu!vars
<1> QED
  BY <1>1, <1>2, <1>3 DEF Menu!Next

-----------------------------------------------------------------------------
(* The whole: a step of Interface is for each part a step of its own or    *)
(* none.                                                                   *)
LEMMA InterfaceParts ==
  InterfaceSpec => /\ Spec
                   /\ Screen!Init /\ [][Screen!Next]_Screen!vars
                   /\ Menu!Init /\ [][Menu!Next]_Menu!vars
<1> USE DEF InterfaceNext, RunVoice, RunScreen, RunMenu, parts
<1>1. InterfaceInit => Init /\ Screen!Init /\ Menu!Init
  BY DEF InterfaceInit
<1>2. [InterfaceNext]_parts => [Next]_vars
  BY DEF voice
<1>3. [InterfaceNext]_parts => [Screen!Next]_Screen!vars
  BY DEF screen, Screen!vars, Screen!world, Screen!task, Screen!power
<1>4. [InterfaceNext]_parts => [Menu!Next]_Menu!vars
  BY DEF menu, Menu!vars, Menu!menu
<1> HIDE DEF InterfaceNext, RunVoice, RunScreen, RunMenu, parts
<1> QED
  BY <1>1, <1>2, <1>3, <1>4, PTL DEF InterfaceSpec, Spec

(* README "that first press is consumed" (monitor_app.c): whatever the     *)
(* gesture that wakes the dark screen reports, in whatever order and       *)
(* whatever the queue loses of it, none of it reaches the pages.           *)
THEOREM ScreenIsSafe == InterfaceSpec => []ScreenSafe
  BY InterfaceParts, ScreenHolds, ScreenEnough, PTL

(* The menus (monitor_ui.c): the cursor is on an entry of the list shown,  *)
(* every value that is sent, waits or is stored is in its range, and when  *)
(* both queues are empty and nothing was dropped, the configuration is the *)
(* one the keys asked for, in their order; and whatever the queues or a    *)
(* save lose, no setting goes back or further than a step from what is     *)
(* shown.                                                                  *)
THEOREM MenuIsSafe == InterfaceSpec => []MenuSafe
  BY InterfaceParts, StepsHolds, MenuEnough, PTL

(* README "a second confirmation on the device is needed to install": the  *)
(* press that installs is never the first one on the update page since it  *)
(* was entered.                                                            *)
THEOREM InstallNeedsTwo == InterfaceSpec => InstallTakesTwo
<1>1. MenuInv /\ [Menu!Next]_Menu!vars =>
        [Len(commands') > Len(commands) /\ commands'[Len(commands')].cmd = "install" => seen]_Menu!vars
  BY InstallStep
<1> QED
  BY InterfaceParts, MenuHolds, <1>1, PTL DEF InstallTakesTwo, Menu!InstallTakesTwo

(* What is heard, seen and pressed, all three while they run beside each   *)
(* other.                                                                  *)
THEOREM InterfaceIsSafe == InterfaceSpec => [](VoiceSafe /\ ScreenSafe /\ MenuSafe)
  BY InterfaceParts, AlertsAreSafe, ScreenIsSafe, MenuIsSafe, PTL
=============================================================================
