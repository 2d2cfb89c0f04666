---- MODULE GpioAmp ----
(***************************************************************************)
(* The amplifier trigger (crates/artd/src/gpio.rs): the main loop sends    *)
(* orders down a channel and a worker thread drives one line, no faster    *)
(* than once per debounce interval, either as a level the amplifier        *)
(* follows or, for an amplifier that toggles, as a pulse.                  *)
(*                                                                         *)
(* The amplifier itself is external.  So is the pull-down that holds the   *)
(* line inactive while no process drives it.  Which chip and line is       *)
(* driven, and errors the kernel returns for a line, are left out.         *)
(***************************************************************************)
EXTENDS Integers, Sequences

CONSTANTS
    Widths,    \* Amp::pulse: 0 holds a level, otherwise the length of a pulse
    Debounce,  \* Amp::debounce: the least time between two transitions
    MaxQueue   \* bound of the model: orders waiting in the channel

ASSUME WidthsAssumption == Widths \subseteq Nat /\ Widths # {}
ASSUME DebounceAssumption == Debounce \in Nat /\ MaxQueue \in Nat \ {0}

VARIABLES
    pulse,     \* Amp::pulse, of this device
    asked,     \* what the machine last decided, State::power.amp
    core,      \* the main loop: running, or past its end
    queue,     \* the channel of Msg
    worker,    \* where the worker thread is
    current,   \* run's current
    target,    \* the order being carried out
    since,     \* time since last_change; Debounce when longer ago, or never
    left,      \* what is left of the pulse
    line,      \* the level of the line
    ampOn,     \* whether the amplifier is on
    ampAge,    \* time since this artd last changed the amplifier, up to Debounce
    astray     \* artd died while a toggling amplifier was on (see Crash)

gpioVars == <<pulse, asked, core, queue, worker, current, target, since, left,
              line, ampOn, ampAge, astray>>

Msg == {"SetOn", "SetOff", "Shutdown"}
Order(on) == IF on THEN "SetOn" ELSE "SetOff"

\* GpioAmp::open requests the line as an inactive output.
Opened ==
    /\ asked = FALSE /\ core = "running"
    /\ queue = << >> /\ worker = "idle"
    /\ current = FALSE /\ target = FALSE
    /\ since = Debounce /\ left = 0
    /\ line = FALSE

GpioInit == Opened /\ pulse \in Widths /\ ampOn = FALSE /\ ampAge = Debounce /\ astray = FALSE

\* The amplifier follows the level, or toggles when the contact closes.
Wired(level) ==
    /\ line' = level
    /\ ampOn' = IF pulse = 0 THEN level
                ELSE IF level /\ ~line THEN ~ampOn ELSE ampOn

Drive(level) == Wired(level) /\ ampAge' = IF ampOn' # ampOn THEN 0 ELSE ampAge

----
(* The main loop *)

\* Machine::apply_power emits SetAmp only when the wanted state changes.
Set(on) ==
    /\ core = "running"
    /\ on # asked
    /\ Len(queue) < MaxQueue
    /\ asked' = on
    /\ queue' = Append(queue, Order(on))
    /\ UNCHANGED <<pulse, core, worker, current, target, since, left, line, ampOn, ampAge, astray>>

\* Mutant: GpioAmp is only dropped, Core::shutdown does not order it off.
DropOnly ==
    /\ core = "running"
    /\ core' = "ended"
    /\ asked' = FALSE
    /\ queue' = Append(queue, "Shutdown")
    /\ UNCHANGED <<pulse, worker, current, target, since, left, line, ampOn, ampAge, astray>>

\* Mutant: the drop waits for the worker and sends it nothing; the channel is
\* still open then, for its sender is dropped last.
JoinOnly ==
    /\ core = "running"
    /\ core' = "ended"
    /\ asked' = FALSE
    /\ queue' = Append(queue, "SetOff")
    /\ UNCHANGED <<pulse, worker, current, target, since, left, line, ampOn, ampAge, astray>>

\* Core::shutdown, then the drop of GpioAmp, which waits for the worker.
Shutdown ==
    /\ core = "running"
    /\ core' = "ended"
    /\ asked' = FALSE
    /\ queue' = queue \o <<"SetOff", "Shutdown">>
    /\ UNCHANGED <<pulse, worker, current, target, since, left, line, ampOn, ampAge, astray>>

----
(* The worker thread: run *)

Stop ==
    /\ worker = "idle" /\ queue # << >> /\ Head(queue) = "Shutdown"
    /\ queue' = Tail(queue)
    /\ worker' = "stopped"
    /\ Drive(FALSE)
    /\ UNCHANGED <<pulse, asked, core, current, target, since, left, astray>>

TakeOrder ==
    /\ worker = "idle" /\ queue # << >> /\ Head(queue) # "Shutdown"
    /\ queue' = Tail(queue)
    /\ LET on == Head(queue) = "SetOn"
       IN  IF on = current THEN UNCHANGED <<worker, target>>
                         ELSE worker' = "waiting" /\ target' = on
    /\ UNCHANGED <<pulse, asked, core, current, since, left, line, ampOn, ampAge, astray>>

\* Mutant: current is left as it was.
HoldForgets ==
    /\ worker = "waiting" /\ since >= Debounce
    /\ pulse = 0
    /\ Drive(target)
    /\ worker' = "idle" /\ since' = 0
    /\ UNCHANGED <<pulse, asked, core, queue, current, target, left, astray>>

Hold ==
    /\ worker = "waiting" /\ since >= Debounce
    /\ pulse = 0
    /\ Drive(target)
    /\ worker' = "idle" /\ current' = target /\ since' = 0
    /\ UNCHANGED <<pulse, asked, core, queue, target, left, astray>>

BeginPulse ==
    /\ worker = "waiting" /\ since >= Debounce
    /\ pulse # 0
    /\ Drive(TRUE)
    /\ worker' = "pulsing" /\ left' = pulse
    /\ UNCHANGED <<pulse, asked, core, queue, current, target, since, astray>>

\* Mutant: last_change is left as it was.
EndPulseUnstamped ==
    /\ worker = "pulsing" /\ left = 0
    /\ Drive(FALSE)
    /\ worker' = "idle" /\ current' = target
    /\ UNCHANGED <<pulse, asked, core, queue, target, since, left, astray>>

EndPulse ==
    /\ worker = "pulsing" /\ left = 0
    /\ Drive(FALSE)
    /\ worker' = "idle" /\ current' = target /\ since' = 0
    /\ UNCHANGED <<pulse, asked, core, queue, target, left, astray>>

Worker == Stop \/ TakeOrder \/ Hold \/ BeginPulse \/ EndPulse

----
(* The environment *)

Elapse ==
    /\ since' = IF since < Debounce THEN since + 1 ELSE since
    /\ ampAge' = IF ampAge < Debounce THEN ampAge + 1 ELSE ampAge
    /\ left' = IF left > 0 THEN left - 1 ELSE 0
    /\ UNCHANGED <<pulse, asked, core, queue, worker, current, target, line, ampOn, astray>>

Reopened ==
    /\ asked' = FALSE /\ core' = "running"
    /\ queue' = << >> /\ worker' = "idle"
    /\ current' = FALSE /\ target' = FALSE
    /\ since' = Debounce /\ left' = 0
    /\ Wired(FALSE) /\ ampAge' = Debounce
    /\ UNCHANGED pulse

StartAgain == worker = "stopped" /\ Reopened /\ UNCHANGED astray

\* artd is killed.  The line falls, which a toggling amplifier does not notice.
Crash == worker # "stopped" /\ Reopened /\ astray' = (astray \/ ampOn')

GpioNext == \/ \E on \in BOOLEAN : Set(on)
            \/ Shutdown \/ Worker \/ Elapse \/ StartAgain \/ Crash

GpioSpec == GpioInit /\ [][GpioNext]_gpioVars

FairGpioSpec == GpioSpec /\ WF_gpioVars(Worker) /\ WF_gpioVars(Elapse)

----
(* Properties *)

GpioTypeOK ==
    /\ pulse \in Widths /\ asked \in BOOLEAN /\ core \in {"running", "ended"}
    /\ queue \in Seq(Msg)
    /\ worker \in {"idle", "waiting", "pulsing", "stopped"}
    /\ current \in BOOLEAN /\ target \in BOOLEAN
    /\ since \in 0 .. Debounce /\ left \in Nat
    /\ line \in BOOLEAN /\ ampOn \in BOOLEAN /\ ampAge \in 0 .. Debounce
    /\ astray \in BOOLEAN
    /\ worker \in {"idle", "waiting"} => line = (pulse = 0 /\ current)

(* The amplifier is where the machine wants it once the worker has caught  *)
(* up, however the orders came while it was sleeping, whether it follows a *)
(* level or toggles, unless a crash left a toggling amplifier on.          *)
AmpObeys ==
    worker = "idle" /\ queue = << >> /\ ~astray => ampOn = asked

(* However artd ends, short of a crash, line and amplifier are off: a      *)
(* level dropped by the exit alone would do for one kind of amplifier      *)
(* only.                                                                   *)
StoppedMeansOff == worker = "stopped" => ~line /\ (~astray => ~ampOn)

(* The relay does not chatter: the amplifier changes no sooner than the    *)
(* debounce interval after its last change, through shutdowns as well,     *)
(* unless artd died in between.                                            *)
NoChatter == [][ampOn' # ampOn /\ ~Crash => ampAge >= Debounce]_gpioVars

(* Orders end: once the machine decides nothing more, the worker waits for  *)
(* the next order with none left, or has ended if artd is ending, so that   *)
(* the drop of GpioAmp, which waits for it, returns.                        *)
OrdersEnd ==
    <>[][Worker \/ Elapse]_gpioVars
        => <>[](queue = << >> /\ worker = IF core = "running" THEN "idle" ELSE "stopped")
====
