----------------------------- MODULE AudioCodec -----------------------------
(***************************************************************************)
(* components/bsp/src/bsp_audio.c: the driver of the ES8311 codec and its  *)
(* two I2S channels, over esp_codec_dev (external), whose calls may fail   *)
(* one by one and may hide a failure behind an OK.                         *)
(*                                                                         *)
(* Callers serialise the calls (bsp_audio.h), so a call is one action.     *)
(* The driver's variables and the hardware are one record; a function of   *)
(* the driver is the set of outcomes [a |-> record, ok |-> its result is   *)
(* ESP_OK] it may have, and functions are composed as the code composes    *)
(* them: Then stops at the first error, Both goes on and keeps it.         *)
(***************************************************************************)
EXTENDS Integers

CONSTANTS
  Formats,   \* sample formats: 1 is AUDIO_DEFAULT_HZ, _BITS, _CH
  Percents   \* volumes asked for

ASSUME AudioAssumption == Formats \subseteq Nat \ {0} /\ 1 \in Formats /\ Percents \subseteq Nat

VARIABLES
  drv,   \* the record
  last   \* history: the last call, whether it reported ESP_OK

vars == <<drv, last>>

\* What the chip is in when not configured for a format.
Weak == 0
Deep == -1
Reset == -2

Off == [    ctrl |-> FALSE, data |-> FALSE, gpio |-> FALSE, codec |-> FALSE, dev |-> FALSE,
            tx |-> "none", rx |-> "none",     \* s_tx, s_rx: none, ready or running
            opened |-> FALSE, format |-> 0, volume |-> 0,
            sleeping |-> FALSE, sleepOk |-> TRUE, initialized |-> FALSE,
            released |-> TRUE,                \* ~s_codec_release_failed
            io |-> TRUE,                      \* s_io_error is ESP_CODEC_DEV_OK
            devOpen |-> FALSE,                \* opened flags inside esp_codec_dev
            shared |-> FALSE,                 \* a reference of a codec closed in vain survives
            chip |-> Reset, chipVolume |-> 0, \* a state, or the format it is set to
            orphan |-> FALSE,                 \* a live handle was overwritten
            parked |-> FALSE]                 \* the I2S pins are left high-impedance

Init ==
  /\ drv = Off
  /\ last = [call |-> "none", ok |-> TRUE]

-----------------------------------------------------------------------------
(* Outcomes.                                                               *)

Ok(a) == {[a |-> a, ok |-> TRUE]}
Fail(a) == {[a |-> a, ok |-> FALSE]}
Then(S, F(_)) == UNION {IF r.ok THEN F(r.a) ELSE {r} : r \in S}
Else(S, F(_)) == UNION {IF r.ok THEN {r} ELSE F(r.a) : r \in S}
Both(S, F(_)) == UNION {{[a |-> q.a, ok |-> r.ok /\ q.ok] : q \in F(r.a)} : r \in S}
\* The first result, whatever the second step says: a cast to void.
Void(S, F(_)) == UNION {{[a |-> q.a, ok |-> r.ok] : q \in F(r.a)} : r \in S}
May(a, b) == Ok(b) \cup Fail(a)

\* Mutant: only what the library returns counts.
Untracked(S) == S
\* audio_track_error at the boundary of an interface: remember the first.
Tracked(S) == {IF r.ok THEN r ELSE [r EXCEPT !.a.io = FALSE] : r \in S}

-----------------------------------------------------------------------------
(* The I2S driver (external), and the wrappers of its data interface.      *)

Enable(a, c) == IF a[c] = "ready" THEN May(a, [a EXCEPT ![c] = "running"]) ELSE Fail(a)
\* ESP_ERR_INVALID_STATE of a channel that is not running counts as OK.
Disable(a, c) == IF a[c] = "running" THEN May(a, [a EXCEPT ![c] = "ready"]) ELSE Ok(a)
Reconfigure(a, c) == IF a[c] = "none" THEN Fail(a) ELSE Disable(a, c)

DisableChannels(a) == Both(Disable(a, "tx"), LAMBDA x : Disable(x, "rx"))

PrepareReopen(a) ==
  Then(Enable(a, "tx"), LAMBDA x : Else(Enable(x, "rx"),
       LAMBDA y : Then(Void(Fail(y), LAMBDA z : Disable(z, "tx")), LAMBDA z : Fail(z))))

\* audio_data_enable: TX on first, RX off first; both are tried.
DataOn(a) == Both(Tracked(Enable(a, "tx")), LAMBDA x : Tracked(Enable(x, "rx")))
DataOff(a) == Both(Tracked(Disable(a, "rx")), LAMBDA x : Tracked(Disable(x, "tx")))

\* audio_data_set_fmt: TX stays on while RX is set, and is stopped again.
DataFormat(a) ==
  Then(Tracked(Reconfigure(a, "tx")),
       LAMBDA x : Both(Then(Tracked(Enable(x, "tx")), LAMBDA y : Tracked(Reconfigure(y, "rx"))),
                       LAMBDA y : Tracked(Disable(y, "tx"))))

-----------------------------------------------------------------------------
(* The codec objects.                                                      *)

\* es8311_force_sleep_once: a failed write or a register read back wrong.
SleepOnce(a) == Ok([a EXCEPT !.chip = Deep]) \cup Fail([a EXCEPT !.chip = Weak])

ForceSleep(a) == IF a.ctrl THEN Else(SleepOnce(a), SleepOnce) ELSE Fail(a)

\* esp_codec_dev_delete closes what it has opened.
DeleteDev(a) ==
  IF ~a.dev THEN Ok(a)
  ELSE {[r EXCEPT !.ok = TRUE, !.a.dev = FALSE, !.a.devOpen = FALSE] :
          r \in IF a.devOpen THEN DataOff([a EXCEPT !.chip = Weak]) ELSE Ok(a)}

\* audio_codec_delete_codec_if failed: its shared reference may survive.
NotReleased(a) == [a EXCEPT !.codec = FALSE, !.shared = TRUE, !.released = FALSE, !.io = FALSE]

DeleteCodec(a) ==
  Then(DeleteDev(a),
       LAMBDA x : Ok([IF x.codec THEN [x EXCEPT !.codec = FALSE, !.chip = Weak] ELSE x
                      EXCEPT !.opened = FALSE])
                  \cup IF x.codec THEN Ok([NotReleased(x) EXCEPT !.opened = FALSE]) ELSE {})

\* es8311_codec_new sets the chip up, unless a surviving reference says it is.
NewCodec(a) ==
  Ok([a EXCEPT !.codec = TRUE, !.chip = IF a.shared THEN @ ELSE Weak])
  \cup Fail(a)                                    \* NULL
  \cup Fail([a EXCEPT !.codec = TRUE, !.io = FALSE, !.chip = Weak])  \* and an error it hid

\* Mutant: a codec is built on whatever the last one left.
NeverRefused(a) == FALSE
Refused(a) == ~a.released

CreateCodec(a) ==
  IF Refused(a) THEN Fail(a)
  ELSE Else(Then(NewCodec([a EXCEPT !.io = TRUE]), LAMBDA x : May(x, [x EXCEPT !.dev = TRUE])),
            LAMBDA x : Then(DeleteCodec(x), Fail))

\* What esp_codec_dev_open does; it may return OK although a step failed.
Configure(a, f) ==
  Tracked(May([a EXCEPT !.chip = IF a.shared THEN @ ELSE Weak],
              [a EXCEPT !.chip = IF a.shared THEN @ ELSE f]))
OpenDev(a, f) ==
  UNION {{[a |-> [r.a EXCEPT !.devOpen = TRUE], ok |-> o] : o \in IF r.ok THEN {TRUE} ELSE BOOLEAN} :
         r \in Both(Both(DataFormat(a), LAMBDA x : Configure(x, f)), DataOn)}

SetVolumeRegister(a) == Tracked(May(a, [a EXCEPT !.chipVolume = a.volume]))
\* Mutant: only the microphone's gain is set anew.
InGainOnly(a) == Tracked(May(a, a))
Gains(a) ==
  UNION {{[r EXCEPT !.ok = o] : o \in IF r.ok THEN {TRUE} ELSE BOOLEAN} :
         r \in Then(Tracked(May(a, a)), SetVolumeRegister)}

\* "r != OK || s_io_error != OK".
Checked(S) == UNION {IF r.a.io THEN {r} ELSE Fail(r.a) : r \in S}

-----------------------------------------------------------------------------
(* The interface of bsp_audio.h.                                           *)

\* The way out of a failed bsp_audio_set_format.
FormatFails(a) ==
  Void(Void(Void(Fail(a), DeleteCodec), ForceSleep), DisableChannels)

SameFormat(a, f) == a.opened /\ a.format = f

SetFormat(a, f) ==
  IF ~a.initialized \/ a.sleeping THEN Fail(a)
  ELSE IF SameFormat(a, f) THEN Ok(a)
  ELSE LET b == [a EXCEPT !.io = TRUE]
           Closed == Checked(IF b.opened THEN DeleteCodec(b) ELSE Ok(b))
           Channel == Then(Then(Closed, DisableChannels), PrepareReopen)
           Created == Then(Channel, LAMBDA x : IF x.dev THEN Ok(x) ELSE CreateCodec(x))
           Opened == Then(Created, LAMBDA x : Checked(OpenDev([x EXCEPT !.io = TRUE], f)))
           Done == Then(Opened, LAMBDA x : Checked(Gains(x)))
       IN Else(Then(Done, LAMBDA x : Ok([x EXCEPT !.opened = TRUE, !.format = f])), FormatFails)

DeleteChannel(a, c) ==
  IF a[c] = "none" THEN Ok(a)
  ELSE Void(Disable(a, c), LAMBDA x : IF x[c] = "ready" THEN May(x, [x EXCEPT ![c] = "none"]) ELSE Fail(x))

Cleanup(a) ==
  Then(DeleteCodec(a), LAMBDA b :
    Void(Void(Fail([b EXCEPT !.gpio = FALSE, !.data = FALSE]), LAMBDA x : DeleteChannel(x, "rx")),
         LAMBDA x : UNION {Fail([r.a EXCEPT !.ctrl = FALSE, !.sleeping = FALSE, !.initialized = FALSE,
                                            !.sleepOk = TRUE, !.volume = 0, !.format = 0]) :
                           r \in DeleteChannel(x, "tx")}))

\* i2s_full_duplex_init
FullDuplex(a) ==
  LET made == [a EXCEPT !.tx = "ready", !.rx = "ready",
                        !.orphan = @ \/ a.tx # "none" \/ a.rx # "none"]
  IN Then(Then(Then(May(a, made), LAMBDA x : May(x, x)), LAMBDA x : Enable(x, "tx")),
          LAMBDA x : Enable(x, "rx"))

\* Mutant: a failed rollback does not stop the next attempt.
AnyTime(a) == TRUE
NothingAlive(a) == a.tx = "none" /\ a.rx = "none" /\ ~a.ctrl /\ ~a.data /\ ~a.codec /\ ~a.gpio

InitFails(a) ==
  Then(DeleteCodec(a), LAMBDA x :
       UNION {Cleanup(r.a) : r \in IF x.ctrl THEN ForceSleep(x) ELSE Ok(x)})

AudioInit(a) ==
  IF Refused(a) THEN Fail(a)
  ELSE IF a.initialized THEN Ok(a)
  ELSE IF ~NothingAlive(a) THEN Fail(a)
  ELSE LET Data == Then(FullDuplex([a EXCEPT !.ctrl = TRUE]), LAMBDA x : May(x, [x EXCEPT !.data = TRUE]))
           Gpio == Then(Data, LAMBDA x : May(x, [x EXCEPT !.gpio = TRUE]))
       IN Fail(a) \* bsp_i2c_init or audio_codec_new_i2c_ctrl
          \cup Else(Then(Then(Gpio, CreateCodec), LAMBDA x : Ok([x EXCEPT !.initialized = TRUE])), InitFails)

\* Mutant: the release undoes the sleep.
AsleepFirst(a) ==
  Both(Both(ForceSleep([a EXCEPT !.io = TRUE]), LAMBDA x : Checked(DeleteCodec(x))), DisableChannels)
\* bsp_audio_sleep; what was released badly is reported, and sleep comes last.
Asleep(a) ==
  Both(Both(Checked(DeleteCodec([a EXCEPT !.io = TRUE])), ForceSleep), DisableChannels)

AudioSleep(a) ==
  IF ~a.initialized THEN Ok(a)
  ELSE IF a.sleeping THEN [a : {a}, ok : {a.sleepOk}]
  ELSE {[r EXCEPT !.a.sleeping = TRUE, !.a.sleepOk = r.ok] : r \in Asleep(a)}

AudioWake(a) ==
  IF ~a.initialized \/ ~a.sleeping THEN Ok(a)
  ELSE {IF r.ok THEN [r EXCEPT !.a.sleepOk = TRUE]
        ELSE [r EXCEPT !.a.opened = FALSE, !.a.sleeping = TRUE, !.a.sleepOk = FALSE] :
        r \in SetFormat([a EXCEPT !.sleeping = FALSE], IF a.format = 0 THEN 1 ELSE a.format)}

\* Mutant: percents are taken as they come.
AsAsked(p) == p
Limited(p) == IF p > 100 THEN 100 ELSE p

\* A failure to set it in the chip is not reported.
SetVolume(a, p) ==
  LET b == [a EXCEPT !.volume = Limited(p)]
  IN IF a.dev /\ a.opened /\ ~a.sleeping THEN SetVolumeRegister(b) ELSE Ok(b)

Call(name, S) == \E r \in S : drv' = r.a /\ last' = [call |-> name, ok |-> r.ok]

\* bsp_audio_prepare_deep_sleep: the channels stop and the pins let go.
Park(a) == Both(DisableChannels(a), LAMBDA x : May(x, [x EXCEPT !.parked = TRUE]))

\* bsp_audio_write, bsp_audio_read: what they refuse.
MayPlay(a) == a.dev /\ a.opened /\ ~a.sleeping

CallInit == ~drv.parked /\ Call("init", AudioInit(drv))
CallFormat == ~drv.parked /\ \E f \in Formats : Call("format", SetFormat(drv, f))
CallSleep == ~drv.parked /\ Call("sleep", AudioSleep(drv))
CallWake == ~drv.parked /\ Call("wake", AudioWake(drv))
CallVolume == ~drv.parked /\ \E p \in Percents : Call("volume", SetVolume(drv, p))
\* demo_low_power calls it after bsp_audio_sleep and then enters deep sleep.
CallPark == ~drv.parked /\ (drv.sleeping \/ ~drv.initialized) /\ Call("park", Park(drv))
Reboot == drv.parked /\ drv' = Off /\ last' = [call |-> "none", ok |-> TRUE]

Next == CallInit \/ CallFormat \/ CallSleep \/ CallWake \/ CallVolume \/ CallPark \/ Reboot

Spec == Init /\ [][Next]_vars

-----------------------------------------------------------------------------
(* Types, and volumes within what the chip takes, whatever is asked for.   *)
TypeOK ==
  /\ \A h \in {"ctrl", "data", "gpio", "codec", "dev", "opened", "sleeping", "sleepOk", "initialized",
               "released", "io", "devOpen", "shared", "orphan", "parked"} : drv[h] \in BOOLEAN
  /\ drv.tx \in {"none", "ready", "running"} /\ drv.rx \in {"none", "ready", "running"}
  /\ drv.format \in {0} \cup Formats /\ drv.volume \in 0 .. 100 /\ drv.chipVolume \in 0 .. 100

(* bsp_audio.h "a half-open state is never used again" (translated): when  *)
(* PCM is let through, both channels run and the chip is configured for    *)
(* the format the driver reports, although the library hides errors.       *)
PlaysForReal ==
  MayPlay(drv) => /\ drv.initialized /\ drv.codec /\ drv.devOpen
                  /\ drv.tx = "running" /\ drv.rx = "running" /\ drv.chip = drv.format

(* After a release that failed nothing claims to work until the reboot: a  *)
(* reference may survive that makes a rebuilt codec skip its registers.    *)
ReleaseIsFinal ==
  ~drv.released => ~MayPlay(drv) /\ ~(last.call \in {"init", "format"} /\ last.ok)

(* "Force-sleep MUST run last": a sleep that reported success has left the *)
(* chip verified asleep and both channels stopped.                         *)
SleepIsDeep ==
  drv.sleeping /\ drv.sleepOk => drv.chip = Deep /\ drv.tx # "running" /\ drv.rx # "running"

(* What uses a resource is released before it: the codec device needs the  *)
(* codec, the codec its control port and pins; no live channel is ever     *)
(* overwritten by a retry.                                                 *)
HandlesNest ==
  /\ drv.dev => drv.codec /\ drv.data
  /\ drv.codec => drv.ctrl /\ drv.gpio
  /\ drv.data => drv.tx # "none" /\ drv.rx # "none"
  /\ ~drv.orphan

(* "Wake creates the codec again and restores volume and format".          *)
WakeRestores ==
  [][last'.call = "wake" /\ last'.ok /\ drv.initialized /\ drv.sleeping =>
       /\ MayPlay(drv') /\ drv'.chipVolume = drv'.volume /\ drv'.volume = drv.volume
       /\ drv.format # 0 => drv'.chip = drv.format]_vars

(* The driver knows the state of its chip: what plays is configured, what  *)
(* is asleep sleeps, what failed to be released is never used, and no      *)
(* resource outlives the one it needs.                                     *)
CodecSafe == TypeOK /\ PlaysForReal /\ ReleaseIsFinal /\ SleepIsDeep /\ HandlesNest
=============================================================================
