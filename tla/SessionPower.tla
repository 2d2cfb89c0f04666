---- MODULE SessionPower ----
(***************************************************************************)
(* The session and power policy of artd (crates/artd/src/machine.rs), and  *)
(* the main loop that feeds it (crates/artd/src/main.rs).                  *)
(*                                                                         *)
(* The machine is pure: every input runs the input's own handler, then the *)
(* timers, then the power policy, in one step.  Those three stages are     *)
(* operators on the machine record m, composed in that order by Settle.    *)
(*                                                                         *)
(* Time is relative.  The code keeps absolute deadlines and compares them  *)
(* with now; here a deadline is the time left (0 once it is due), and the  *)
(* two "since" stamps are ages that stop growing at Horizon, which no      *)
(* configured delay exceeds.  The comparisons come out the same and time   *)
(* is unbounded.                                                           *)
(*                                                                         *)
(* Left out: track, artwork, progress and the client's name, which no      *)
(* guard here reads; session.active, which is written exactly where        *)
(* playback enters or leaves Idle; counters and notes.                     *)
(***************************************************************************)
EXTENDS Integers

CONSTANTS
    Configs,   \* the validated configurations a reload may bring
    Horizon,   \* an upper bound of every configured delay
    None       \* an Option that holds nothing

VARIABLES
    m,         \* the machine
    cfg        \* Machine::cfg

vars == <<m, cfg>>

Time == 0 .. Horizon
MaybeTime == Time \cup {None}

\* Config::validate: a stall must be able to fire before the session timeout,
\* and the ambient scene before the blank.
Config == { c \in [ampEnabled   : BOOLEAN,
                   ampTrigger   : {"SessionBegin", "PlayBegin"},
                   offDelay     : Time,
                   ambientAfter : MaybeTime,
                   blankAfter   : Time,
                   stall        : Time,
                   session      : Time] :
              /\ c.stall < c.session
              /\ c.ambientAfter # None => c.ambientAfter < c.blankAfter }

ASSUME HorizonAssumption == Horizon \in Nat
ASSUME NoneAssumption == None \notin Int \cup {"on", "off", "Off", "Ambient", "On"}
ASSUME ConfigsAssumption == Configs \subseteq Config

Playback == {"Idle", "Active", "Starting", "Playing", "Paused"}
Switch == {"on", "off"}
DisplayPower == {"Off", "Ambient", "On"}

Machine == [playback        : Playback,
            sinceActivity   : Time,
            sinceIdle       : MaybeTime,
            ampOffIn        : MaybeTime,
            ambientIn       : MaybeTime,
            displayOffIn    : MaybeTime,
            amp             : Switch,
            display         : DisplayPower,
            ampOverride     : Switch \cup {None},
            displayOverride : DisplayPower \cup {None}]

Boot == [playback        |-> "Idle",
         sinceActivity   |-> 0,
         sinceIdle       |-> 0,
         ampOffIn        |-> None,
         ambientIn       |-> None,
         displayOffIn    |-> None,
         amp             |-> "off",
         display         |-> "Off",
         ampOverride     |-> None,
         displayOverride |-> None]

Init == m = Boot /\ cfg \in Configs

InSession(s) == s.playback # "Idle"
Due(t) == t = 0

----
(* Transitions between sessions and idle *)

EnterActive(s) ==
    LET woken == IF InSession(s)
                 THEN s
                 ELSE [s EXCEPT !.sinceIdle = None,
                                !.ampOverride = None,
                                !.displayOverride = None,
                                !.ampOffIn = None,
                                !.ambientIn = None,
                                !.displayOffIn = None]
    IN  [woken EXCEPT !.sinceActivity = 0, !.playback = "Active"]

EnterIdle(s, c) ==
    IF InSession(s)
    THEN [s EXCEPT !.playback = "Idle",
                   !.sinceIdle = 0,
                   !.ampOverride = None,
                   !.displayOverride = None,
                   !.ampOffIn = c.offDelay,
                   !.ambientIn = c.ambientAfter,
                   !.displayOffIn = c.blankAfter]
    ELSE s

----
(* The stages every input ends with *)

\* The session timeout is looked at first: it subsumes the stall.
EvaluateTimers(s, c) ==
    IF InSession(s) /\ s.sinceActivity >= c.session THEN EnterIdle(s, c)
    ELSE IF s.playback = "Playing" /\ s.sinceActivity >= c.stall
         THEN [s EXCEPT !.playback = "Paused"]
         ELSE s

\* Mutant: the per-track trigger forgets to hold between pend and pbeg.
AmpPolicyChatters(s, c) ==
    /\ c.ampEnabled
    /\ \/ /\ InSession(s)
          /\ c.ampTrigger = "SessionBegin" \/ s.playback \in {"Starting", "Playing"}
       \/ ~InSession(s) /\ s.ampOffIn # None /\ ~Due(s.ampOffIn) /\ s.amp = "on"

AmpPolicy(s, c) ==
    /\ c.ampEnabled
    /\ \/ /\ InSession(s)
          /\ \/ c.ampTrigger = "SessionBegin"
             \/ s.playback \in {"Starting", "Playing"}
             \/ s.amp = "on"
       \/ /\ ~InSession(s)
          /\ s.ampOffIn # None /\ ~Due(s.ampOffIn)
          /\ s.amp = "on"

WantAmp(s, c) ==
    IF s.ampOverride # None THEN s.ampOverride
    ELSE IF AmpPolicy(s, c) THEN "on" ELSE "off"

\* An idle timer that comes due overtakes a manual display state.
HeldDisplay(s) ==
    IF Due(s.displayOffIn) \/ Due(s.ambientIn) THEN None ELSE s.displayOverride

WantDisplay(s) ==
    CASE HeldDisplay(s) # None                      -> HeldDisplay(s)
      [] HeldDisplay(s) = None /\ InSession(s)      -> "On"
      [] HeldDisplay(s) = None /\ ~InSession(s)
           /\ Due(s.displayOffIn)                   -> "Off"
      [] HeldDisplay(s) = None /\ ~InSession(s)
           /\ ~Due(s.displayOffIn)
           /\ Due(s.ambientIn)                      -> "Ambient"
      [] OTHER                                      -> s.display

Retired(t) == IF Due(t) THEN None ELSE t

ApplyPower(s, c) ==
    [s EXCEPT !.amp = WantAmp(s, c),
              !.display = WantDisplay(s),
              !.displayOverride = HeldDisplay(s),
              !.ampOffIn = Retired(s.ampOffIn),
              !.ambientIn = Retired(s.ambientIn),
              !.displayOffIn = Retired(s.displayOffIn)]

Settle(s, c) == ApplyPower(EvaluateTimers(s, c), c)

----
(* Metadata from the pipe: Machine::apply(Input::Meta(_)) *)

Heard(s) == [s EXCEPT !.sinceActivity = 0]

\* Every metadata event counts as activity, whatever its handler then does.
OnMeta(handled) == m' = Settle(handled, cfg) /\ UNCHANGED cfg

ActiveBegin == OnMeta(EnterActive(Heard(m)))

ActiveEnd == OnMeta(EnterIdle(Heard(m), cfg))

PlayBegin ==
    LET session == IF InSession(m) THEN Heard(m) ELSE EnterActive(Heard(m))
    IN  OnMeta([session EXCEPT !.playback = "Starting"])

WhenInSession(next) ==
    OnMeta(IF InSession(m) THEN [Heard(m) EXCEPT !.playback = next] ELSE Heard(m))

FirstFrame == WhenInSession("Playing")
PlayResume == WhenInSession("Playing")
PlayEnd    == WhenInSession("Active")

WhenPlayback(from, to) ==
    OnMeta(IF m.playback = from THEN [Heard(m) EXCEPT !.playback = to] ELSE Heard(m))

PlayFlush == WhenPlayback("Playing", "Paused")
Stall     == WhenPlayback("Playing", "Paused")
Progress  == WhenPlayback("Paused", "Playing")

\* Bundles, pictures, volume and the client's description.
OtherMeta == OnMeta(Heard(m))

PipeMeta == \/ ActiveBegin \/ ActiveEnd
            \/ PlayBegin \/ FirstFrame \/ PlayEnd \/ PlayFlush \/ PlayResume \/ Stall
            \/ Progress \/ OtherMeta

----
(* The other inputs *)

\* The writer closed the pipe.  Not activity, but it ends the session.
PipeEof == m' = Settle(EnterIdle(m, cfg), cfg) /\ UNCHANGED cfg

\* Counted, and otherwise an occasion to look at the timers.
ParseError == m' = Settle(m, cfg) /\ UNCHANGED cfg

\* Mutants: next_deadline_ms overlooks the ambient scene, or the session timeout.
DeadlineDueNoAmbient(s, c) ==
    \/ Due(s.ampOffIn) \/ Due(s.displayOffIn)
    \/ s.playback = "Playing" /\ s.sinceActivity >= c.stall
    \/ InSession(s) /\ s.sinceActivity >= c.session
DeadlineDueNoSession(s, c) ==
    \/ Due(s.ampOffIn) \/ Due(s.ambientIn) \/ Due(s.displayOffIn)
    \/ s.playback = "Playing" /\ s.sinceActivity >= c.stall

\* Machine::next_deadline_ms has been reached.
DeadlineDue(s, c) ==
    \/ Due(s.ampOffIn) \/ Due(s.ambientIn) \/ Due(s.displayOffIn)
    \/ s.playback = "Playing" /\ s.sinceActivity >= c.stall
    \/ InSession(s) /\ s.sinceActivity >= c.session

NoDeadline(s) ==
    ~InSession(s) /\ s.ampOffIn = None /\ s.ambientIn = None /\ s.displayOffIn = None

\* The main loop sleeps until the next deadline, or for an hour without one.
Tick ==
    /\ DeadlineDue(m, cfg) \/ NoDeadline(m)
    /\ m' = Settle(m, cfg)
    /\ UNCHANGED cfg

----
(* Commands: from lpctl over the socket, and from the web interface.  They *)
(* apply the power policy and leave the session timers to the next input.  *)

OverrideAmp(on) ==
    /\ m' = ApplyPower([m EXCEPT !.ampOverride = on], cfg)
    /\ UNCHANGED cfg

\* Mutant: a manual wake of an idle panel does not re-arm the blank timer.
OverrideDisplayKeepsTimers(value) ==
    /\ m' = ApplyPower([m EXCEPT !.displayOverride = value], cfg)
    /\ UNCHANGED cfg

OverrideDisplay(value) ==
    LET forced == [m EXCEPT !.displayOverride = value]
    IN  /\ m' = ApplyPower(IF InSession(m) THEN forced
                           ELSE [forced EXCEPT !.ambientIn = cfg.ambientAfter,
                                               !.displayOffIn = cfg.blankAfter],
                           cfg)
        /\ UNCHANGED cfg

\* What is left of a delay that began age ago.
Remaining(delay, age) ==
    IF delay = None THEN None ELSE IF delay >= age THEN delay - age ELSE 0

Reload(c) ==
    LET rearmed == [m EXCEPT !.ampOffIn = IF m.ampOffIn = None THEN None
                                          ELSE Remaining(c.offDelay, m.sinceIdle),
                             !.ambientIn = Remaining(c.ambientAfter, m.sinceIdle),
                             !.displayOffIn = Remaining(c.blankAfter, m.sinceIdle)]
    IN  /\ cfg' = c
        /\ m' = ApplyPower(IF InSession(m) THEN m ELSE rearmed, c)

Command == \/ \E on \in Switch : OverrideAmp(on)
           \/ \E value \in DisplayPower : OverrideDisplay(value)
           \/ \E c \in Configs : Reload(c)

----
(* The environment *)

Older(age) == IF age = None \/ age = Horizon THEN age ELSE age + 1
Nearer(t) == IF t = None \/ t = 0 THEN t ELSE t - 1

\* A unit of time passes, whether or not the loop has caught up with it.
Advance ==
    /\ m' = [m EXCEPT !.sinceActivity = Older(m.sinceActivity),
                      !.sinceIdle = Older(m.sinceIdle),
                      !.ampOffIn = Nearer(m.ampOffIn),
                      !.ambientIn = Nearer(m.ambientIn),
                      !.displayOffIn = Nearer(m.displayOffIn)]
    /\ UNCHANGED cfg

\* artd is stopped or killed and started again: nothing of m is persisted, and
\* the configuration files are read afresh.
Restart == m' = Boot /\ cfg' \in Configs

Next == PipeMeta \/ PipeEof \/ ParseError \/ Tick \/ Command \/ Advance \/ Restart

Spec == Init /\ [][Next]_vars

\* Time passes and the main loop is scheduled.  Nothing else is promised:
\* neither the sender nor the user ever has to do anything.
FairSpec == Spec /\ WF_vars(Advance) /\ WF_vars(Tick)

----
(* Properties *)

TypeOK == m \in Machine /\ cfg \in Configs

(* The main loop never sleeps through a change.  When no deadline is due,  *)
(* evaluating the timers and the power policy would change nothing, so the *)
(* deadline the loop sleeps on accounts for everything time alone can do.  *)
NeverSleepsThroughAChange == ~DeadlineDue(m, cfg) => Settle(m, cfg) = m

(* In idle, whatever is powered is on its way down: a lit panel has a      *)
(* blanking deadline and an energised amplifier has an off deadline or was *)
(* forced on by hand, through every reload and override.                   *)
IdlePowerIsTimed ==
    ~InSession(m) =>
        /\ m.display # "Off" => m.displayOffIn # None
        /\ m.amp = "on" => m.ampOffIn # None \/ m.ampOverride = "on"

(* Power-down deadlines exist in idle only: a session cancels them all.    *)
NoCountdownInSession ==
    InSession(m) => m.ampOffIn = None /\ m.ambientIn = None /\ m.displayOffIn = None

(* Countdowns follow the session: what idle has powered is on its way down *)
(* at all times, and no countdown of an idle period reaches into the next  *)
(* session, where it would power the device down in mid-track.             *)
DeadlinesFollowTheSession == IdlePowerIsTimed /\ NoCountdownInSession

(* No busy loop: a wake-up of the main loop leaves no deadline in the      *)
(* past, or the next sleep would have zero length, and the next, forever.  *)
TickClearsDeadlines == [][Tick => ~DeadlineDue(m', cfg')]_vars

(* The trigger line does not chatter.  Unless it was told to by a command  *)
(* the machine releases an enabled amplifier only once the session is over *)
(* and has been for the whole off delay: not between tracks, not on a      *)
(* stall or a pause, not when the pipe closes.                             *)
AmpReleasedOnlyAfterTheDelay ==
    [][ (PipeMeta \/ PipeEof \/ ParseError \/ Tick)
        /\ cfg.ampEnabled /\ m.amp = "on" /\ m'.amp = "off"
          => ~InSession(m') /\ m'.sinceIdle >= cfg.offDelay ]_vars

(* Silence ends in the dark.  If from some point on the pipe and the user  *)
(* are silent, the session times out, the panel goes off and so does the   *)
(* amplifier, unless it is being held on by hand.                          *)
Dark == ~InSession(m) /\ m.display = "Off" /\ (m.amp = "off" \/ m.ampOverride = "on")
SilenceEndsInTheDark == <>[][Advance \/ Tick]_vars => <>[]Dark

====
