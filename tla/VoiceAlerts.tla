----------------------------- MODULE VoiceAlerts -----------------------------
(***************************************************************************)
(* main/events and main/audio: the event bus, the handler that turns       *)
(* events into clips, and the audio worker that speaks them.               *)
(*                                                                         *)
(* The bus is a queue of 24 with one dispatcher (priority 4); the handler  *)
(* runs in it, so one event at a time.  It puts a clip in the queue of its *)
(* priority (0 information, 1 warning, 2 critical), after clearing the     *)
(* queues below.  The worker (priority 2) looks into the queues from the   *)
(* top, and reads the configuration and the queues again before every      *)
(* chunk of 256 samples it writes to the codec.                            *)
(*                                                                         *)
(* A clip stands for a number of VoiceFS; its priority and its category    *)
(* are constants.  EV_SERVER_ALERT is the one event whose clip is chosen   *)
(* by its data, one clip for each level, so an event is its clip, or NoClip*)
(* for the events the handler ignores.  One tick of the clock is the time  *)
(* the longest clip may take; cooldowns are the ticks that are left.       *)
(***************************************************************************)
EXTENDS Integers, Sequences, FiniteSets

CONSTANTS
  Clips,        \* the clips of the instance
  Level,        \* Level[c] \in 0..2: priority of clip c
  Category,     \* Category[c]: "startup", "network", "server" or "critical"
  BusDepth,     \* queue_size of the event loop (24)
  QueueDepth,   \* xQueueCreate(4, ...)
  ClipChunks,   \* bound: chunks in the longest clip
  ToneChunks,   \* chunks of the alert tone (8)
  NormalTicks,  \* cooldown of 30 s
  CriticalTicks \* cooldown of 60 s

Levels == 0 .. 2
Categories == {Category[c] : c \in Clips}

ASSUME VoiceAssumption ==
  /\ Clips \subseteq Nat
  /\ Level \in [Clips -> Levels]
  /\ Category \in [Clips -> {"startup", "network", "server", "critical"}]
  /\ BusDepth \in Nat \ {0} /\ QueueDepth \in Nat \ {0}
  /\ ClipChunks \in Nat /\ ToneChunks \in Nat \ {0}
  /\ NormalTicks \in Nat \ {0} /\ CriticalTicks \in Nat
  \* EV_SERVER_ALERT of level 2 is the one critical event; its cooldown of 60 s
  \* is longer than two clips.
  /\ \A c, d \in Clips : Level[c] = 2 /\ Level[d] = 2 => c = d
  /\ CriticalTicks >= 2

NoClip == -1

VARIABLES
  bus,      \* events posted and not yet dispatched
  lost,     \* s_dropped > 0
  config,   \* what permitted() looks at
  cool,     \* cool[c]: ticks until monitor_cooldown lets c pass again
  queue,    \* s_queue[3]
  at,       \* where the worker is
  item,     \* the clip it is about to speak or is speaking
  tone,     \* chunks of the alert tone still to come
  left,     \* chunks of the open file not read yet
  spent,    \* a tick has passed while this clip was being spoken
  overrun,  \* history: chunks of the file written since it should have stopped
  discarded \* history: levels of which an item found its queue full

producer == <<bus, lost>>
workerVars == <<at, item, tone, left, spent, overrun>>
vars == <<bus, lost, config, cool, queue, workerVars, discarded>>

Configs == [audible : BOOLEAN, on : SUBSET Categories, bypass : BOOLEAN]

\* permitted(): bypass lets critical clips through a mute.
Permitted(c) ==
  \/ Level[c] = 2 /\ config.bypass /\ "critical" \in config.on
  \/ config.audible /\ Category[c] \in config.on

\* monitor_audio_preempts(incoming, current)
Preempts(incoming, current) == incoming > current

Init ==
  /\ bus = <<>> /\ lost = FALSE
  /\ config \in Configs
  /\ cool = [c \in Clips |-> 0]
  /\ queue = [l \in Levels |-> <<>>]
  /\ at = "scan2" /\ item = NoClip /\ tone = 0 /\ left = 0 /\ spent = FALSE
  /\ overrun = 0 /\ discarded = {}

-----------------------------------------------------------------------------
(* monitor_emit: no waiting; a full bus loses the event and counts it.     *)
Emit(e) ==
  /\ IF Len(bus) < BusDepth
     THEN bus' = Append(bus, e) /\ UNCHANGED lost
     ELSE lost' = TRUE /\ UNCHANGED bus
  /\ UNCHANGED <<config, cool, queue, workerVars, discarded>>

\* Mutant: the stamp is never taken.
NoWindow(c) == 0
(* monitor_cooldown, called only for a clip that is permitted; it stamps   *)
(* the clip before anybody knows whether it will be heard.                 *)
Window(c) == IF Level[c] = 2 THEN CriticalTicks ELSE NormalTicks

\* Mutant: a lower clip resets the critical queue as well.
ClearedAll(l) == [k \in Levels |-> IF Preempts(l, k) \/ l # 2 THEN <<>> ELSE queue[k]]
\* xQueueReset of every queue below, then xQueueSend without waiting.
Cleared(l) == [k \in Levels |-> IF Preempts(l, k) THEN <<>> ELSE queue[k]]

\* Mutant: a clip goes one queue too low, and nobody asks for room.
EnqueueBelow(c) ==
  LET l == IF Level[c] = 0 THEN 0 ELSE Level[c] - 1 IN
    /\ queue' = [Cleared(Level[c]) EXCEPT ![l] = Append(@, c)]
    /\ UNCHANGED discarded
Enqueue(c) ==
  IF Len(Cleared(Level[c])[Level[c]]) < QueueDepth
  THEN /\ queue' = [Cleared(Level[c]) EXCEPT ![Level[c]] = Append(@, c)]
       /\ UNCHANGED discarded
  ELSE /\ queue' = Cleared(Level[c])
       /\ discarded' = discarded \cup {Level[c]}

(* event(), in the bus task.  Nothing of lower priority runs between its   *)
(* reading of the configuration and its last queue operation.              *)
Dispatch ==
  /\ bus # <<>>
  /\ bus' = Tail(bus)
  /\ LET c == Head(bus) IN
       IF c # NoClip /\ Permitted(c) /\ cool[c] = 0
       THEN cool' = [cool EXCEPT ![c] = Window(c)] /\ Enqueue(c)
       ELSE UNCHANGED <<cool, queue, discarded>>
  /\ UNCHANGED <<lost, config, workerVars>>

\* A setting is saved (config_worker) or a form is (Wi-Fi worker).
Configure ==
  /\ config' \in Configs
  /\ UNCHANGED <<bus, lost, cool, queue, workerVars, discarded>>

-----------------------------------------------------------------------------
(* The worker.  Its scan of the three queues is not atomic.                *)
Scans == {"scan2", "scan1", "scan0"}
LevelOf(step) == CASE step = "scan2" -> 2 [] step = "scan1" -> 1 [] OTHER -> 0
Below(step) == CASE step = "scan2" -> "scan1" [] step = "scan1" -> "scan0" [] OTHER -> "scan2"

Higher(c) == \E l \in Levels : Preempts(l, Level[c]) /\ queue[l] # <<>>
Should(c) == Permitted(c) /\ ~Higher(c)

Back == /\ at' = "scan2" /\ item' = NoClip /\ tone' = 0 /\ left' = 0
        /\ spent' = FALSE /\ overrun' = 0

Receive ==
  /\ at \in Scans /\ queue[LevelOf(at)] # <<>>
  /\ item' = Head(queue[LevelOf(at)])
  /\ queue' = [queue EXCEPT ![LevelOf(at)] = Tail(@)]
  /\ at' = "open"
  /\ UNCHANGED <<producer, config, cool, tone, left, spent, overrun, discarded>>

\* Nothing there: the next queue, and after the last one a delay of 50 ms.
LookBelow ==
  /\ at \in Scans /\ queue[LevelOf(at)] = <<>>
  /\ at' = Below(at)
  /\ UNCHANGED <<producer, config, cool, queue, item, tone, left, spent, overrun, discarded>>

(* Configuration, bsp_audio_set_format, volume, fopen.  A critical clip    *)
(* has the tone in front of it if alert_sound is set (left open here).     *)
Open(ok) ==
  /\ at = "open"
  /\ IF Permitted(item) /\ ok
     THEN /\ \E n \in 0 .. ClipChunks : left' = n
          /\ \/ at' = "read" /\ UNCHANGED tone
             \/ Level[item] = 2 /\ at' = "tone" /\ tone' = ToneChunks
          /\ UNCHANGED <<item, spent, overrun>>
     ELSE Back
  /\ UNCHANGED <<producer, config, cool, queue, discarded>>

(* The tone is written without looking at anything: nothing outranks a     *)
(* critical clip, but a mute waits for its end.  A write that fails ends   *)
(* the tone, not the clip.                                                 *)
Tone(ok) ==
  /\ at = "tone"
  /\ IF ok /\ tone > 1 THEN tone' = tone - 1 /\ UNCHANGED at ELSE tone' = 0 /\ at' = "read"
  /\ UNCHANGED <<producer, config, cool, queue, item, left, spent, overrun, discarded>>

\* Mutant: the queues are looked at only at the start.
OnlyPermitted == Permitted(item)
\* fread, then the two questions asked before every chunk.
MayWrite == Should(item)

Read ==
  /\ at = "read"
  /\ IF left > 0 /\ MayWrite
     THEN /\ at' = "write" /\ left' = left - 1
          /\ overrun' = IF Should(item) THEN 0 ELSE overrun
          /\ UNCHANGED <<item, tone, spent>>
     ELSE Back
  /\ UNCHANGED <<producer, config, cool, queue, discarded>>

(* bsp_audio_write blocks until the codec has room; events and settings go *)
(* on meanwhile.  The chunk counts as overrun when the clip should have    *)
(* stopped by the time it is out; a look at which it may go on again ends  *)
(* the count.                                                              *)
Write(ok) ==
  /\ at = "write"
  /\ IF ok
     THEN /\ at' = "read" /\ UNCHANGED <<item, tone, left, spent>>
          /\ overrun' = IF Should(item) THEN overrun ELSE overrun + 1
     ELSE Back
  /\ UNCHANGED <<producer, config, cool, queue, discarded>>

Worker ==
  \/ Receive \/ LookBelow \/ Read
  \/ \E ok \in BOOLEAN : Open(ok) \/ Tone(ok) \/ Write(ok)

(* Time passes in the two waits of the worker: the delay of the poll and   *)
(* the codec.  A clip ends within one tick of its start, a lower one gives *)
(* way within a chunk, and the bus is never left with work: it outranks    *)
(* everything but the drivers.                                             *)
Tick ==
  /\ bus = <<>>
  /\ \/ at = "scan2" /\ (\A l \in Levels : queue[l] = <<>>) /\ UNCHANGED spent
     \/ at \in {"tone", "write"} /\ ~spent /\ (at = "write" => Should(item)) /\ spent' = TRUE
  /\ cool' = [c \in Clips |-> IF cool[c] > 0 THEN cool[c] - 1 ELSE 0]
  /\ UNCHANGED <<producer, config, queue, at, item, tone, left, overrun, discarded>>

Next ==
  \/ \E e \in Clips \cup {NoClip} : Emit(e)
  \/ Dispatch \/ Configure \/ Worker \/ Tick

Spec == Init /\ [][Next]_vars
\* The worker is never starved for good: every task above it waits in each of
\* its rounds, and so do its own delay and the codec's.
LiveSpec == Spec /\ WF_vars(Worker)

-----------------------------------------------------------------------------
(* Every variable has its type; no queue holds more than its depth or an   *)
(* item of another priority.                                               *)
TypeOK ==
  /\ bus \in Seq(Clips \cup {NoClip}) /\ Len(bus) <= BusDepth /\ lost \in BOOLEAN
  /\ config \in Configs
  /\ cool \in [Clips -> Nat]
  /\ queue \in [Levels -> Seq(Clips)]
  /\ \A l \in Levels : /\ Len(queue[l]) <= QueueDepth
                       /\ \A i \in 1 .. Len(queue[l]) : Level[queue[l][i]] = l
  /\ at \in Scans \cup {"open", "tone", "read", "write"}
  /\ (at \in Scans) = (item = NoClip)
  /\ at \notin Scans => item \in Clips
  /\ tone \in 0 .. ToneChunks /\ left \in Nat /\ spent \in BOOLEAN /\ overrun \in Nat /\ discarded \subseteq Levels

(* README "preempt playback at the next 16 ms chunk", "explicit mute is    *)
(* respected": once a clip must not go on, because something more urgent   *)
(* waits or because a setting has silenced it, at most the chunk on its    *)
(* way to the codec is still written, however events, settings and the     *)
(* worker's unlocked scan fall.                                            *)
StopsByNextChunk == overrun <= 1

(* A critical announcement that passed permission and cooldown is never    *)
(* thrown away: not by a reset, since nothing outranks it, and not for     *)
(* want of room, since its cooldown outlasts any clip in front of it.      *)
CriticalKept ==
  [][2 \notin discarded' /\ (Len(queue'[2]) < Len(queue[2]) => item' = queue[2][1])]_vars

(* While the worker speaks (or is about to) something less urgent, a       *)
(* critical announcement that is waiting is taken within bounded work:     *)
(* nothing that arrives, is muted or fails can hold it back for good.      *)
CriticalTaken == (queue[2] # <<>>) ~> (item # NoClip /\ Level[item] = 2)

(* A burst of one critical event is spoken once: while a critical clip     *)
(* waits or is being spoken, the same clip does not wait again.            *)
CriticalOnce ==
  \A i \in 1 .. Len(queue[2]) :
    /\ item # queue[2][i]
    /\ \A j \in 1 .. i - 1 : queue[2][j] # queue[2][i]

(* What is spoken: silence within a chunk when it is due, and no critical  *)
(* clip twice for one cause.                                               *)
VoiceSafe == TypeOK /\ StopsByNextChunk /\ CriticalOnce
=============================================================================
