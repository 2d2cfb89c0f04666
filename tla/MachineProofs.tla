---- MODULE MachineProofs ----
(***************************************************************************)
(* What holds of SessionPower for every horizon and every set of validated *)
(* configurations, of the amplifier's worker, GpioAmp, for every debounce  *)
(* interval, every set of pulse widths and every capacity of the channel,  *)
(* and of ArtPipeline and the abstract stream it is built on, for any      *)
(* images, any number of files retained and streams of any length.         *)
(***************************************************************************)
EXTENDS SessionPower, GpioAmp, ArtPipeline, FiniteSetTheorems, SequenceTheorems, TLAPS

----
(***************************************************************************)
(* The amplifier's worker                                                  *)
(***************************************************************************)

(* The inductive invariant.  AmpObeys speaks of moments of rest; between   *)
(* them what counts is where the worker is heading, and what the last      *)
(* order in the channel is.                                                *)

Busy == worker \in {"waiting", "pulsing"}

\* What current will be once the order at hand is carried out.
Heading == IF Busy THEN target ELSE current

\* The amplifier, told from what the worker knows.  A toggling one turns when
\* the contact closes, before the order is recorded.
AmpTracks ==
    /\ pulse = 0 => ampOn = line
    /\ pulse # 0 /\ ~astray => ampOn = IF worker = "pulsing" THEN target ELSE current
    /\ Busy => target # current
    /\ worker = "pulsing" => pulse # 0
    /\ worker = "stopped" => ~line /\ ~current

NoShutdownBefore(n) == \A i \in 1 .. n : queue[i] # "Shutdown"

\* While the main loop runs, the last order is what it asked for.
Running ==
    /\ worker # "stopped"
    /\ NoShutdownBefore(Len(queue))
    /\ Len(queue) = 0 => asked = Heading
    /\ Len(queue) > 0 => queue[Len(queue)] = Order(asked)

\* Past its end, the channel ends with an order to switch off and the shutdown.
Ending ==
    /\ ~asked
    /\ worker = "stopped" => Len(queue) = 0
    /\ worker # "stopped" =>
         /\ Len(queue) > 0 /\ queue[Len(queue)] = "Shutdown"
         /\ NoShutdownBefore(Len(queue) - 1)
         /\ Len(queue) = 1 => ~Heading
         /\ Len(queue) > 1 => queue[Len(queue) - 1] = "SetOff"

\* The worker never measures the interval from before the last change.
Spaced == worker # "pulsing" => ampAge >= since

GpioInv ==
    /\ GpioTypeOK
    /\ AmpTracks
    /\ core = "running" => Running
    /\ core = "ended" => Ending
    /\ Spaced

----
(* Sequences of messages *)

\* What receiving a message leaves in the channel.
LEMMA TailFacts ==
    ASSUME NEW q \in Seq(Msg), q # << >>
    PROVE  /\ Head(q) = q[1] /\ Head(q) \in Msg
           /\ Tail(q) \in Seq(Msg)
           /\ Len(q) \in Nat \ {0} /\ Len(Tail(q)) = Len(q) - 1
           /\ \A i \in 1 .. Len(q) - 1 : Tail(q)[i] = q[i + 1]
<1>1. Len(q) \in Nat \ {0}
  BY EmptySeq
<1>2. /\ Head(q) \in Msg /\ Tail(q) \in Seq(Msg) /\ Len(Tail(q)) = Len(q) - 1
      /\ \A i \in 1 .. Len(Tail(q)) : Tail(q)[i] = q[i + 1]
  BY HeadTailProperties
<1>3. Head(q) = q[1]
  BY <1>1
<1>. QED
  BY <1>1, <1>2, <1>3

\* What the drop of GpioAmp, after the order to switch off, adds to it.
LEMMA ClosingFacts ==
    ASSUME NEW q \in Seq(Msg), NEW r, r = q \o <<"SetOff", "Shutdown">>
    PROVE  /\ r \in Seq(Msg) /\ Len(q) \in Nat /\ Len(r) = Len(q) + 2
           /\ \A i \in 1 .. Len(q) : r[i] = q[i]
           /\ r[Len(q) + 1] = "SetOff" /\ r[Len(q) + 2] = "Shutdown"
<1>. DEFINE t == <<"SetOff", "Shutdown">>
<1>1. t \in Seq(Msg) /\ Len(t) = 2 /\ t[1] = "SetOff" /\ t[2] = "Shutdown"
  BY DEF Msg
<1>2. Len(q) \in Nat
  BY LenProperties
<1>3. /\ r \in Seq(Msg) /\ Len(r) = Len(q) + Len(t)
      /\ \A i \in 1 .. Len(q) + Len(t) :
            r[i] = IF i <= Len(q) THEN q[i] ELSE t[i - Len(q)]
  <2>. HIDE DEF t
  <2>. QED
    BY <1>1, ConcatProperties DEF t
<1>. QED
  BY <1>1, <1>2, <1>3

----
(* One lemma per action *)

LEMMA SetInv == ASSUME GpioInv, NEW on \in BOOLEAN, Set(on) PROVE GpioInv'
<1>1. queue \in Seq(Msg) /\ Order(on) \in Msg /\ queue' = Append(queue, Order(on))
  BY DEF GpioInv, GpioTypeOK, Set, Order, Msg
<1>2. /\ queue' \in Seq(Msg) /\ Len(queue) \in Nat /\ Len(queue') = Len(queue) + 1
      /\ \A i \in 1 .. Len(queue) : queue'[i] = queue[i]
      /\ queue'[Len(queue) + 1] = Order(on)
  BY <1>1, AppendProperties, LenProperties
<1>3. Running'
  <2>1. worker' # "stopped"
    BY DEF GpioInv, Running, Set
  <2>2. NoShutdownBefore(Len(queue))'
    BY <1>2 DEF GpioInv, Running, NoShutdownBefore, Set, Order
  <2>. QED
    BY <1>2, <2>1, <2>2 DEF Running, Set
<1>4. GpioTypeOK' /\ AmpTracks' /\ Spaced'
  BY <1>2 DEF GpioInv, GpioTypeOK, AmpTracks, Spaced, Busy, Set
<1>. QED
  BY <1>3, <1>4 DEF GpioInv, Set

LEMMA ShutdownInv == ASSUME GpioInv, Shutdown PROVE GpioInv'
<1>1. /\ queue' \in Seq(Msg) /\ Len(queue) \in Nat /\ Len(queue') = Len(queue) + 2
      /\ \A i \in 1 .. Len(queue) : queue'[i] = queue[i]
      /\ queue'[Len(queue) + 1] = "SetOff" /\ queue'[Len(queue) + 2] = "Shutdown"
  <2>1. queue \in Seq(Msg) /\ queue' = queue \o <<"SetOff", "Shutdown">>
    BY DEF GpioInv, GpioTypeOK, Shutdown
  <2>. QED
    BY <2>1, ClosingFacts
<1>2. Ending'
  <2>1. NoShutdownBefore(Len(queue) - 1)'
    BY <1>1 DEF GpioInv, Running, NoShutdownBefore, Shutdown
  <2>. QED
    BY <1>1, <2>1 DEF GpioInv, Running, Ending, Shutdown
<1>3. GpioTypeOK' /\ AmpTracks' /\ Spaced'
  BY <1>1 DEF GpioInv, GpioTypeOK, AmpTracks, Spaced, Busy, Shutdown
<1>. QED
  BY <1>2, <1>3 DEF GpioInv, Shutdown

\* A shutdown is received when everything before it has been carried out, so
\* the last level the worker drives changes nothing.
LEMMA StopFacts ==
    ASSUME GpioInv, Stop
    PROVE  /\ core = "ended" /\ Len(queue) = 1 /\ ~asked /\ ~current /\ ~line
           /\ line' = FALSE /\ ampOn' = ampOn /\ ampAge' = ampAge
           /\ queue' \in Seq(Msg) /\ Len(queue') = 0
<1>1. queue \in Seq(Msg) /\ queue # << >> /\ queue[1] = "Shutdown" /\ worker = "idle"
  BY TailFacts DEF GpioInv, GpioTypeOK, Stop
<1>2. Len(queue) \in Nat \ {0} /\ queue' \in Seq(Msg) /\ Len(queue') = Len(queue) - 1
  BY <1>1, TailFacts DEF Stop
<1>3. core = "ended"
  BY <1>1, <1>2 DEF GpioInv, GpioTypeOK, Running, NoShutdownBefore
<1>4. Len(queue) = 1
  BY <1>1, <1>2, <1>3 DEF GpioInv, Ending, NoShutdownBefore
<1>5. ~asked /\ ~current
  BY <1>1, <1>3, <1>4 DEF GpioInv, Ending, Heading, Busy
<1>6. ~line
  BY <1>1, <1>5 DEF GpioInv, GpioTypeOK
<1>7. line' = FALSE /\ ampOn' = ampOn
  BY <1>6 DEF GpioInv, GpioTypeOK, AmpTracks, Stop, Drive, Wired
<1>. QED
  BY <1>2, <1>3, <1>4, <1>5, <1>6, <1>7 DEF Stop, Drive

LEMMA StopInv == ASSUME GpioInv, Stop PROVE GpioInv'
<1>1. GpioTypeOK'
  BY StopFacts DEF GpioInv, GpioTypeOK, Stop
<1>2. AmpTracks'
  BY StopFacts DEF GpioInv, GpioTypeOK, AmpTracks, Busy, Stop
<1>3. Ending' /\ core' = "ended" /\ Spaced'
  BY StopFacts DEF GpioInv, Ending, Spaced, Stop
<1>. QED
  BY <1>1, <1>2, <1>3 DEF GpioInv

LEMMA TakeOrderInv == ASSUME GpioInv, TakeOrder PROVE GpioInv'
<1>. DEFINE on == Head(queue) = "SetOn"
<1>1. /\ queue \in Seq(Msg) /\ queue # << >> /\ worker = "idle"
      /\ Head(queue) # "Shutdown" /\ queue' = Tail(queue)
      /\ IF on = current THEN worker' = worker /\ target' = target
                         ELSE worker' = "waiting" /\ target' = on
      /\ UNCHANGED <<pulse, asked, core, current, since, left, line, ampOn, ampAge, astray>>
  BY DEF GpioInv, GpioTypeOK, TakeOrder
<1>2. /\ Head(queue) = queue[1] /\ Head(queue) \in {"SetOn", "SetOff"}
      /\ queue' \in Seq(Msg) /\ Len(queue) \in Nat \ {0} /\ Len(queue') = Len(queue) - 1
      /\ \A i \in 1 .. Len(queue) - 1 : queue'[i] = queue[i + 1]
  BY <1>1, TailFacts DEF Msg
<1>3. Heading' = on /\ worker' # "stopped" /\ on \in BOOLEAN
  BY <1>1 DEF GpioInv, GpioTypeOK, Heading, Busy
<1>4. GpioTypeOK'
  BY <1>1, <1>2 DEF GpioInv, GpioTypeOK
<1>5. AmpTracks' /\ Spaced'
  BY <1>1 DEF GpioInv, GpioTypeOK, AmpTracks, Spaced, Busy
<1>6. ASSUME core = "running" PROVE Running'
  <2>1. NoShutdownBefore(Len(queue))'
    BY <1>2, <1>6 DEF GpioInv, Running, NoShutdownBefore
  <2>2. Len(queue) = 1 => asked = on
    BY <1>2, <1>6 DEF GpioInv, GpioTypeOK, Running, Order
  <2>3. Len(queue) > 1 => queue'[Len(queue')] = Order(asked)
    BY <1>2, <1>6 DEF GpioInv, Running
  <2>. HIDE DEF on
  <2>. QED
    BY <1>1, <1>2, <1>3, <2>1, <2>2, <2>3 DEF Running, Order
<1>7. ASSUME core = "ended" PROVE Ending'
  <2>1. Len(queue) > 1
    BY <1>1, <1>2, <1>7 DEF GpioInv, Ending
  <2>2. NoShutdownBefore(Len(queue) - 1)'
    BY <1>1, <1>2, <1>7 DEF GpioInv, Ending, NoShutdownBefore
  <2>3. Len(queue) = 2 => ~on
    BY <1>1, <1>2, <1>7 DEF GpioInv, Ending
  <2>4. /\ queue'[Len(queue')] = "Shutdown" /\ ~asked
        /\ Len(queue) > 2 => queue'[Len(queue') - 1] = "SetOff"
    BY <1>1, <1>2, <1>7, <2>1 DEF GpioInv, Ending
  <2>. HIDE DEF on
  <2>. QED
    BY <1>1, <1>2, <1>3, <2>1, <2>2, <2>3, <2>4 DEF Ending
<1>. QED
  BY <1>1, <1>4, <1>5, <1>6, <1>7 DEF GpioInv

\* Carrying out an order moves what the worker knows to where it was heading,
\* and leaves the channel alone.
LEMMA HeadingKept ==
    ASSUME GpioInv, worker # "stopped", worker' # "stopped", Heading' = Heading,
           UNCHANGED <<asked, core, queue>>
    PROVE  (core = "running" => Running)' /\ (core = "ended" => Ending)'
BY DEF GpioInv, Running, Ending, NoShutdownBefore

LEMMA HoldInv == ASSUME GpioInv, Hold PROVE GpioInv'
<1>0. pulse = 0 /\ line' = target /\ ampAge' \in 0 .. Debounce
  BY DebounceAssumption DEF GpioInv, GpioTypeOK, Hold, Drive, Wired
<1>1. GpioTypeOK'
  <2>1. ampOn' = target /\ target \in BOOLEAN
    BY DEF GpioInv, GpioTypeOK, Hold, Drive, Wired
  <2>. QED
    BY <1>0, <2>1, DebounceAssumption DEF GpioInv, GpioTypeOK, Hold
<1>2. AmpTracks'
  BY DEF GpioInv, GpioTypeOK, AmpTracks, Busy, Hold, Drive, Wired
<1>3. Spaced'
  BY DEF GpioInv, GpioTypeOK, Spaced, Hold, Drive
<1>4. Heading' = Heading
  BY DEF Heading, Busy, Hold
<1>. QED
  BY <1>1, <1>2, <1>3, <1>4, HeadingKept DEF GpioInv, Hold

\* When a pulse begins, the contact is open and the amplifier still where the
\* previous order left it.
LEMMA BeginPulseInv == ASSUME GpioInv, BeginPulse PROVE GpioInv'
<1>1. ~line /\ line' = TRUE /\ ampOn' = ~ampOn /\ ampAge' = 0
  BY DEF GpioInv, GpioTypeOK, BeginPulse, Drive, Wired
<1>2. GpioTypeOK'
  BY <1>1, WidthsAssumption, DebounceAssumption DEF GpioInv, GpioTypeOK, BeginPulse
<1>3. AmpTracks'
  BY <1>1 DEF GpioInv, GpioTypeOK, AmpTracks, Busy, BeginPulse
<1>4. Spaced' /\ Heading' = Heading
  BY DEF Spaced, Heading, Busy, BeginPulse
<1>. QED
  BY <1>2, <1>3, <1>4, HeadingKept DEF GpioInv, BeginPulse

\* Opening the contact is not noticed.
LEMMA EndPulseInv == ASSUME GpioInv, EndPulse PROVE GpioInv'
<1>1. pulse # 0 /\ line' = FALSE /\ ampOn' = ampOn /\ ampAge' = ampAge
  BY DEF GpioInv, GpioTypeOK, AmpTracks, EndPulse, Drive, Wired
<1>2. GpioTypeOK'
  <2>1. line' = (pulse' = 0 /\ current')
    BY <1>1 DEF EndPulse
  <2>. QED
    BY <1>1, <2>1, DebounceAssumption DEF GpioInv, GpioTypeOK, EndPulse
<1>3. AmpTracks'
  BY <1>1 DEF GpioInv, GpioTypeOK, AmpTracks, Busy, EndPulse
<1>4. Spaced' /\ Heading' = Heading
  BY <1>1 DEF GpioInv, GpioTypeOK, Spaced, Heading, Busy, EndPulse
<1>. QED
  BY <1>2, <1>3, <1>4, HeadingKept DEF GpioInv, EndPulse

LEMMA ElapseInv == ASSUME GpioInv, Elapse PROVE GpioInv'
<1>1. GpioTypeOK'
  BY DebounceAssumption DEF GpioInv, GpioTypeOK, Elapse
<1>2. Spaced'
  BY DebounceAssumption DEF GpioInv, GpioTypeOK, Spaced, Elapse
<1>3. AmpTracks' /\ (core = "running" => Running)' /\ (core = "ended" => Ending)'
  BY DEF GpioInv, AmpTracks, Running, Ending, NoShutdownBefore, Heading, Busy, Elapse
<1>. QED
  BY <1>1, <1>2, <1>3 DEF GpioInv

\* After a restart everything is as after boot, but for a toggling amplifier,
\* which a crash may have left on: then it is astray.
LEMMA ReopenedInv ==
    ASSUME GpioInv, Reopened, astray' \in BOOLEAN,
           pulse # 0 /\ ~astray' => ampOn' = FALSE
    PROVE  GpioInv'
<1>1. /\ Len(queue') = 0 /\ queue' \in Seq(Msg)
      /\ line' = FALSE /\ current' = FALSE /\ asked' = FALSE /\ worker' = "idle"
      /\ ampOn' \in BOOLEAN
      /\ pulse' = 0 => ampOn' = FALSE
  <2>1. ampOn' = IF pulse = 0 THEN FALSE ELSE ampOn
    BY DEF Reopened, Wired
  <2>2. pulse' = pulse /\ ampOn \in BOOLEAN
    BY DEF GpioInv, GpioTypeOK, Reopened
  <2>3. /\ Len(queue') = 0 /\ queue' \in Seq(Msg)
        /\ line' = FALSE /\ current' = FALSE /\ asked' = FALSE /\ worker' = "idle"
    BY DEF Reopened, Wired
  <2>. QED
    BY <2>1, <2>2, <2>3
<1>2. GpioTypeOK'
  <2>1. line' = (pulse' = 0 /\ current')
    BY <1>1
  <2>2. /\ pulse' \in Widths /\ core' \in {"running", "ended"} /\ since' \in 0 .. Debounce
        /\ left' \in Nat /\ ampAge' \in 0 .. Debounce
    BY DebounceAssumption DEF GpioInv, GpioTypeOK, Reopened
  <2>3. target' \in BOOLEAN
    BY DEF Reopened
  <2>. QED
    BY <1>1, <2>1, <2>2, <2>3 DEF GpioTypeOK
<1>3. AmpTracks'
  <2>1. pulse' = 0 => ampOn' = line'
    BY <1>1
  <2>2. pulse' # 0 /\ ~astray' => ampOn' = IF worker' = "pulsing" THEN target' ELSE current'
    BY <1>1 DEF Reopened
  <2>. QED
    BY <1>1, <2>1, <2>2 DEF AmpTracks, Busy
<1>4. Spaced'
  BY DebounceAssumption DEF Spaced, Reopened
<1>5. Running' /\ core' = "running"
  <2>1. ~Busy' /\ asked' = Heading'
    BY <1>1 DEF Heading, Busy
  <2>. QED
    BY <1>1, <2>1 DEF Running, NoShutdownBefore, Reopened
<1>. QED
  BY <1>2, <1>3, <1>4, <1>5 DEF GpioInv

LEMMA StartAgainInv == ASSUME GpioInv, StartAgain PROVE GpioInv'
<1>1. pulse # 0 /\ ~astray => ampOn' = FALSE
  <2>1. pulse # 0 => ampOn' = ampOn
    BY DEF StartAgain, Reopened, Wired
  <2>2. pulse # 0 /\ ~astray => ampOn = FALSE
    BY DEF GpioInv, GpioTypeOK, AmpTracks, StartAgain
  <2>. QED
    BY <2>1, <2>2
<1>2. astray' = astray /\ astray \in BOOLEAN /\ Reopened
  BY DEF GpioInv, GpioTypeOK, StartAgain
<1>3. astray' \in BOOLEAN /\ (pulse # 0 /\ ~astray' => ampOn' = FALSE)
  BY <1>1, <1>2
<1>. QED
  BY <1>2, <1>3, ReopenedInv

LEMMA CrashInv == ASSUME GpioInv, Crash PROVE GpioInv'
<1>1. Reopened /\ astray' = (astray \/ ampOn')
  BY DEF Crash
<1>2. ampOn' \in BOOLEAN /\ astray \in BOOLEAN
  BY DEF GpioInv, GpioTypeOK, Crash, Reopened, Wired
<1>. QED
  BY <1>1, <1>2, ReopenedInv

LEMMA GpioInitInv == GpioInit => GpioInv
<1>. SUFFICES ASSUME GpioInit PROVE GpioInv
  OBVIOUS
<1>1. /\ Len(queue) = 0 /\ queue \in Seq(Msg)
      /\ line = FALSE /\ current = FALSE /\ asked = FALSE /\ worker = "idle"
  BY DEF GpioInit, Opened
<1>2. GpioTypeOK
  <2>1. line = (pulse = 0 /\ current)
    BY <1>1
  <2>2. /\ pulse \in Widths /\ core \in {"running", "ended"} /\ since \in 0 .. Debounce
        /\ left \in Nat /\ ampAge \in 0 .. Debounce
    BY DebounceAssumption DEF GpioInit, Opened
  <2>3. target \in BOOLEAN /\ ampOn \in BOOLEAN /\ astray \in BOOLEAN
    BY DEF GpioInit, Opened
  <2>. QED
    BY <1>1, <2>1, <2>2, <2>3 DEF GpioTypeOK
<1>3. AmpTracks
  BY <1>1 DEF GpioInit, AmpTracks, Busy
<1>4. Spaced
  BY DebounceAssumption DEF GpioInit, Opened, Spaced
<1>5. Running /\ core = "running"
  <2>1. ~Busy /\ asked = Heading
    BY <1>1 DEF Heading, Busy
  <2>. QED
    BY <1>1, <2>1 DEF GpioInit, Opened, Running, NoShutdownBefore
<1>. QED
  BY <1>2, <1>3, <1>4, <1>5 DEF GpioInv

LEMMA GpioNextInv == GpioInv /\ [GpioNext]_gpioVars => GpioInv'
<1>. SUFFICES ASSUME GpioInv, [GpioNext]_gpioVars PROVE GpioInv'
  OBVIOUS
<1>1. ASSUME NEW on \in BOOLEAN, Set(on) PROVE GpioInv'
  BY <1>1, SetInv
<1>2. CASE Shutdown
  BY <1>2, ShutdownInv
<1>3. CASE Worker
  BY <1>3, StopInv, TakeOrderInv, HoldInv, BeginPulseInv, EndPulseInv DEF Worker
<1>4. CASE Elapse
  BY <1>4, ElapseInv
<1>5. CASE StartAgain
  BY <1>5, StartAgainInv
<1>6. CASE Crash
  BY <1>6, CrashInv
<1>7. CASE UNCHANGED gpioVars
  BY <1>7 DEF gpioVars, GpioInv, GpioTypeOK, AmpTracks, Running, Ending, NoShutdownBefore,
              Heading, Busy, Spaced
<1>. QED
  BY <1>1, <1>2, <1>3, <1>4, <1>5, <1>6, <1>7 DEF GpioNext

----
(* The theorems *)

(* The inductive invariant holds throughout.                               *)
THEOREM GpioInvariance == GpioSpec => []GpioInv
BY GpioInitInv, GpioNextInv, PTL DEF GpioSpec

(* Every variable keeps its type, and between orders the line is at the    *)
(* level of the last order, or at rest for an amplifier that toggles.      *)
THEOREM GpioTypeCorrect == GpioSpec => []GpioTypeOK
<1>1. GpioInv => GpioTypeOK
  BY DEF GpioInv
<1>. QED
  BY <1>1, GpioInvariance, PTL

(* However orders pile up while the worker sleeps, once it has caught up   *)
(* the amplifier is where the machine wants it.                            *)
THEOREM ObedienceTheorem == GpioSpec => []AmpObeys
<1>1. ASSUME GpioInv, worker = "idle", queue = << >>, ~astray PROVE ampOn = asked
  <2>1. core = "running" /\ Len(queue) = 0
    BY <1>1 DEF GpioInv, GpioTypeOK, Ending
  <2>2. asked = current
    BY <1>1, <2>1 DEF GpioInv, Running, Heading, Busy
  <2>3. ampOn = current
    BY <1>1 DEF GpioInv, GpioTypeOK, AmpTracks
  <2>. QED
    BY <2>2, <2>3
<1>2. GpioInv => AmpObeys
  BY <1>1 DEF AmpObeys
<1>. QED
  BY <1>2, GpioInvariance, PTL

(* Whenever the worker has ended, the line is inactive and the amplifier   *)
(* is off.                                                                 *)
THEOREM StopTheorem == GpioSpec => []StoppedMeansOff
<1>1. GpioInv => StoppedMeansOff
  BY DEF GpioInv, GpioTypeOK, AmpTracks, StoppedMeansOff
<1>. QED
  BY <1>1, GpioInvariance, PTL

(* Two changes of the amplifier are a debounce interval apart, that of a   *)
(* shutdown included.                                                      *)
THEOREM ChatterTheorem == GpioSpec => NoChatter
<1>1. ASSUME GpioInv, [GpioNext]_gpioVars, ampOn' # ampOn, ~Crash
      PROVE  ampAge >= Debounce
  <2>1. ~Stop
    BY <1>1, StopFacts
  <2>2. ~EndPulse
    BY <1>1 DEF GpioInv, AmpTracks, EndPulse, Drive, Wired
  <2>3. ~StartAgain
    BY <1>1 DEF GpioInv, GpioTypeOK, AmpTracks, StartAgain, Reopened, Wired
  <2>4. Hold \/ BeginPulse
    BY <1>1, <2>1, <2>2, <2>3
       DEF GpioNext, gpioVars, Worker, Set, Shutdown, TakeOrder, Elapse
  <2>5. worker # "pulsing" /\ since >= Debounce
    BY <2>4 DEF Hold, BeginPulse
  <2>. QED
    BY <1>1, <2>5, DebounceAssumption DEF GpioInv, GpioTypeOK, Spaced
<1>2. GpioInv /\ [GpioNext]_gpioVars => [ampOn' # ampOn /\ ~Crash => ampAge >= Debounce]_gpioVars
  BY <1>1
<1>. QED
  BY <1>2, GpioInvariance, PTL DEF GpioSpec, NoChatter

----
(***************************************************************************)
(* Session and power policy                                                *)
(***************************************************************************)

USE DEF Time, MaybeTime, Switch, DisplayPower, Playback

----
(* What a validated configuration holds. *)

LEMMA ConfigFields ==
    ASSUME NEW c \in Config
    PROVE  /\ c.offDelay \in Time /\ c.blankAfter \in Time
           /\ c.stall \in Time /\ c.session \in Time
           /\ c.ambientAfter \in MaybeTime
           /\ c.stall < c.session
BY DEF Config

----
(* Each stage of a step maps machines to machines. *)

LEMMA EnterActiveType ==
    ASSUME NEW s \in Machine
    PROVE  EnterActive(s) \in Machine
<1>1. 0 \in Time
  BY HorizonAssumption
<1>2. CASE InSession(s)
  BY <1>1, <1>2 DEF EnterActive, Machine
<1>3. CASE ~InSession(s)
  BY <1>1, <1>3 DEF EnterActive, Machine
<1>. QED
  BY <1>2, <1>3

LEMMA EnterIdleType ==
    ASSUME NEW s \in Machine, NEW c \in Config
    PROVE  EnterIdle(s, c) \in Machine
<1>1. 0 \in Time
  BY HorizonAssumption
<1>2. CASE InSession(s)
  BY <1>1, <1>2, ConfigFields DEF EnterIdle, Machine
<1>3. CASE ~InSession(s)
  BY <1>3 DEF EnterIdle
<1>. QED
  BY <1>2, <1>3

LEMMA EvaluateTimersType ==
    ASSUME NEW s \in Machine, NEW c \in Config
    PROVE  EvaluateTimers(s, c) \in Machine
BY EnterIdleType DEF EvaluateTimers, Machine

LEMMA ApplyPowerType ==
    ASSUME NEW s \in Machine, NEW c \in Config
    PROVE  ApplyPower(s, c) \in Machine
<1>1. WantAmp(s, c) \in Switch
  BY DEF WantAmp, Machine
<1>2. HeldDisplay(s) \in DisplayPower \cup {None}
  BY DEF HeldDisplay, Machine
<1>3. WantDisplay(s) \in DisplayPower
  BY <1>2, NoneAssumption DEF WantDisplay, Machine
<1>4. \A t \in MaybeTime : Retired(t) \in MaybeTime
  BY DEF Retired
<1>. QED
  BY <1>1, <1>2, <1>3, <1>4 DEF ApplyPower, Machine

LEMMA SettleType ==
    ASSUME NEW s \in Machine, NEW c \in Config
    PROVE  Settle(s, c) \in Machine
BY EvaluateTimersType, ApplyPowerType DEF Settle
----
(* The inductive invariant.  TypeOK and the properties of the runs are not *)
(* inductive on their own: whether a panel is still on its way down after  *)
(* the ambient deadline fires depends on the order of the two display      *)
(* deadlines, and whether the amplifier was held for its whole delay       *)
(* depends on the age of the idle period and the deadline adding up.       *)

\* The countdowns exist in idle only, and the blanking one ends last.
Countdowns(s) ==
    /\ InSession(s) =>
         s.ampOffIn = None /\ s.ambientIn = None /\ s.displayOffIn = None
    /\ ~InSession(s) => s.sinceIdle # None
    /\ ~InSession(s) =>
         (s.display # "Off" \/ s.displayOverride # None => s.displayOffIn # None)
    /\ s.ambientIn # None => s.displayOffIn # None /\ s.ambientIn <= s.displayOffIn

\* The age of the idle period and what is left of the off delay cover it.
FullDelay(s, c) ==
    ~InSession(s) /\ s.ampOffIn # None => s.sinceIdle + s.ampOffIn >= c.offDelay

\* An override is obeyed, and an amplifier that is on in idle has a reason.
AmpHeld(s) ==
    /\ s.ampOverride # None => s.amp = s.ampOverride
    /\ ~InSession(s) /\ s.amp = "on" => s.ampOffIn # None \/ s.ampOverride = "on"

\* The power policy has nothing to change until a deadline comes due.
Steady(s, c) ==
    /\ ~Due(s.ampOffIn) => WantAmp(s, c) = s.amp
    /\ ~Due(s.ambientIn) /\ ~Due(s.displayOffIn) => WantDisplay(s) = s.display

\* What every handler preserves before the power policy runs.
Held(s, c) == s \in Machine /\ Countdowns(s) /\ FullDelay(s, c) /\ AmpHeld(s)

IInv == TypeOK /\ Held(m, cfg) /\ Steady(m, cfg)

LEMMA TypedConfig == ASSUME TypeOK PROVE m \in Machine /\ cfg \in Config
BY ConfigsAssumption DEF TypeOK

LEMMA EnterActiveKept ==
    ASSUME NEW s, NEW c \in Config, Held(s, c)
    PROVE  Held(EnterActive(s), c) /\ EnterActive(s).amp = s.amp
           /\ InSession(EnterActive(s))
<1>1. s \in Machine /\ EnterActive(s) \in Machine
  BY EnterActiveType DEF Held
<1>2. CASE InSession(s)
  BY <1>1, <1>2 DEF EnterActive, Machine, Held, Countdowns, FullDelay, AmpHeld, InSession
<1>3. CASE ~InSession(s)
  BY <1>1, <1>3 DEF EnterActive, Machine, Held, Countdowns, FullDelay, AmpHeld, InSession
<1>. QED
  BY <1>2, <1>3

LEMMA EnterIdleKept ==
    ASSUME NEW s, NEW c \in Config, Held(s, c)
    PROVE  Held(EnterIdle(s, c), c) /\ EnterIdle(s, c).amp = s.amp
<1>1. s \in Machine /\ EnterIdle(s, c) \in Machine
  BY EnterIdleType DEF Held
<1>2. c.ambientAfter # None => c.ambientAfter < c.blankAfter
  BY DEF Config
<1>3. CASE InSession(s)
  BY <1>1, <1>2, <1>3, ConfigFields, HorizonAssumption, NoneAssumption
     DEF EnterIdle, Machine, Held, Countdowns, FullDelay, AmpHeld, InSession
<1>4. CASE ~InSession(s)
  BY <1>4 DEF EnterIdle
<1>. QED
  BY <1>3, <1>4

LEMMA EvaluateTimersKept ==
    ASSUME NEW s, NEW c \in Config, Held(s, c)
    PROVE  Held(EvaluateTimers(s, c), c) /\ EvaluateTimers(s, c).amp = s.amp
<1>1. CASE InSession(s) /\ s.sinceActivity >= c.session
  BY <1>1, EnterIdleKept DEF EvaluateTimers
<1>2. CASE /\ ~(InSession(s) /\ s.sinceActivity >= c.session)
           /\ s.playback = "Playing" /\ s.sinceActivity >= c.stall
  <2>1. EvaluateTimers(s, c) = [s EXCEPT !.playback = "Paused"]
    BY <1>2 DEF EvaluateTimers
  <2>. QED
    BY <1>2, <2>1 DEF Machine, Held, Countdowns, FullDelay, AmpHeld, InSession
<1>3. CASE /\ ~(InSession(s) /\ s.sinceActivity >= c.session)
           /\ ~(s.playback = "Playing" /\ s.sinceActivity >= c.stall)
  BY <1>3 DEF EvaluateTimers
<1>. QED
  BY <1>1, <1>2, <1>3

\* Whatever the handler did to the amplifier, the policy leaves a good state.
LEMMA ApplyPowerKept ==
    ASSUME NEW s \in Machine, NEW c \in Config, Countdowns(s), FullDelay(s, c)
    PROVE  Held(ApplyPower(s, c), c)
<1>. DEFINE r == ApplyPower(s, c)
<1>1. r \in Machine
  BY ApplyPowerType
<1>2. /\ r.playback = s.playback /\ r.sinceIdle = s.sinceIdle
      /\ r.ampOverride = s.ampOverride
      /\ r.amp = WantAmp(s, c) /\ r.display = WantDisplay(s)
      /\ r.displayOverride = HeldDisplay(s)
      /\ r.ampOffIn = Retired(s.ampOffIn)
      /\ r.ambientIn = Retired(s.ambientIn)
      /\ r.displayOffIn = Retired(s.displayOffIn)
  BY DEF ApplyPower, Machine
<1>3. Countdowns(r)
  <2>1. InSession(r) =>
          r.ampOffIn = None /\ r.ambientIn = None /\ r.displayOffIn = None
    BY <1>2, NoneAssumption DEF Countdowns, InSession, Retired, Due
  <2>2. ~InSession(r) => r.sinceIdle # None
    BY <1>2 DEF Countdowns, InSession
  <2>3. ASSUME ~InSession(r), r.display # "Off" \/ r.displayOverride # None
        PROVE  r.displayOffIn # None
    <3>1. CASE Due(s.displayOffIn)
      BY <1>2, <2>3, <3>1, NoneAssumption DEF InSession, HeldDisplay, WantDisplay
    <3>2. CASE ~Due(s.displayOffIn)
      <4>1. r.displayOffIn = s.displayOffIn
        BY <1>2, <3>2 DEF Retired
      <4>2. CASE HeldDisplay(s) # None
        BY <1>2, <2>3, <4>1, <4>2 DEF HeldDisplay, Countdowns, InSession
      <4>3. CASE HeldDisplay(s) = None /\ Due(s.ambientIn)
        BY <1>2, <2>3, <4>1, <4>3, NoneAssumption DEF Countdowns, InSession, Due
      <4>4. CASE HeldDisplay(s) = None /\ ~Due(s.ambientIn)
        BY <1>2, <2>3, <3>2, <4>1, <4>4 DEF WantDisplay, Countdowns, InSession
      <4>. QED
        BY <4>2, <4>3, <4>4
    <3>. QED
      BY <3>1, <3>2
  <2>4. r.ambientIn # None => r.displayOffIn # None /\ r.ambientIn <= r.displayOffIn
    BY <1>2, NoneAssumption, HorizonAssumption DEF Countdowns, Retired, Due, Machine
  <2>. QED
    BY <2>1, <2>2, <2>3, <2>4 DEF Countdowns
<1>4. FullDelay(r, c)
  BY <1>2 DEF FullDelay, InSession, Retired
<1>5. AmpHeld(r)
  <2>1. r.ampOverride # None => r.amp = r.ampOverride
    BY <1>2 DEF WantAmp
  <2>2. ASSUME ~InSession(r), r.amp = "on", r.ampOverride # "on"
        PROVE  r.ampOffIn # None
    <3>1. AmpPolicy(s, c)
      BY <1>2, <2>2 DEF WantAmp
    <3>. QED
      BY <1>2, <2>2, <3>1 DEF AmpPolicy, InSession, Retired
  <2>. QED
    BY <2>1, <2>2 DEF AmpHeld
<1>. QED
  BY <1>1, <1>3, <1>4, <1>5 DEF Held

\* The policy is stable under itself.
LEMMA ApplyPowerSteady ==
    ASSUME NEW s \in Machine, NEW c \in Config
    PROVE  Steady(ApplyPower(s, c), c)
<1>. DEFINE r == ApplyPower(s, c)
<1>1. /\ r.playback = s.playback /\ r.ampOverride = s.ampOverride
      /\ r.amp = WantAmp(s, c) /\ r.display = WantDisplay(s)
      /\ r.displayOverride = HeldDisplay(s)
      /\ r.ampOffIn = Retired(s.ampOffIn)
      /\ r.ambientIn = Retired(s.ambientIn)
      /\ r.displayOffIn = Retired(s.displayOffIn)
  BY DEF ApplyPower, Machine
<1>2. WantAmp(r, c) = r.amp
  <2>1. CASE s.ampOverride # None
    BY <1>1, <2>1 DEF WantAmp
  <2>2. CASE s.ampOverride = None /\ AmpPolicy(s, c)
    BY <1>1, <2>2 DEF WantAmp, AmpPolicy, InSession, Retired
  <2>3. CASE s.ampOverride = None /\ ~AmpPolicy(s, c)
    BY <1>1, <2>3 DEF WantAmp, AmpPolicy, InSession, Retired
  <2>. QED
    BY <2>1, <2>2, <2>3
<1>3. ~Due(r.ambientIn) /\ ~Due(r.displayOffIn) => WantDisplay(r) = r.display
  <2>1. CASE HeldDisplay(s) # None
    BY <1>1, <2>1 DEF WantDisplay, HeldDisplay
  <2>2. CASE HeldDisplay(s) = None
    BY <1>1, <2>2 DEF WantDisplay, HeldDisplay, InSession
  <2>. QED
    BY <2>1, <2>2
<1>. QED
  BY <1>2, <1>3 DEF Steady

LEMMA SettleInv ==
    ASSUME NEW s, NEW c \in Config, Held(s, c)
    PROVE  Held(Settle(s, c), c) /\ Steady(Settle(s, c), c)
<1>1. Held(EvaluateTimers(s, c), c)
  BY EvaluateTimersKept
<1>. QED
  BY <1>1, ApplyPowerKept, ApplyPowerSteady DEF Settle, Held

----
(* What a step is: the pipe and the timers settle a machine that some      *)
(* handler left with the same amplifier; a command applies the power       *)
(* policy to one whose countdowns are in order.                            *)

LEMMA HeardKept ==
    ASSUME NEW s, NEW c \in Config, Held(s, c)
    PROVE  Held(Heard(s), c) /\ Heard(s).amp = s.amp /\ Heard(s).playback = s.playback
BY HorizonAssumption
   DEF Heard, Machine, Held, Countdowns, FullDelay, AmpHeld, InSession

LEMMA PlaybackKept ==
    ASSUME NEW s, NEW c \in Config, Held(s, c), InSession(s),
           NEW next \in Playback \ {"Idle"}
    PROVE  /\ Held([s EXCEPT !.playback = next], c)
           /\ [s EXCEPT !.playback = next].amp = s.amp
BY DEF Machine, Held, Countdowns, FullDelay, AmpHeld, InSession

LEMMA InputStep ==
    ASSUME TypeOK, Held(m, cfg), PipeMeta \/ PipeEof \/ ParseError \/ Tick
    PROVE  /\ cfg' = cfg
           /\ \E h : Held(h, cfg) /\ h.amp = m.amp /\ m' = Settle(h, cfg)
<1>0. cfg \in Config
  BY TypedConfig
<1>. DEFINE h0 == Heard(m)
<1>1. Held(h0, cfg) /\ h0.amp = m.amp /\ h0.playback = m.playback
  BY <1>0, HeardKept
<1>2. CASE ActiveBegin
  BY <1>0, <1>1, <1>2, EnterActiveKept DEF ActiveBegin, OnMeta
<1>3. CASE ActiveEnd
  BY <1>0, <1>1, <1>3, EnterIdleKept DEF ActiveEnd, OnMeta
<1>4. CASE PlayBegin
  <2>. DEFINE session == IF InSession(m) THEN h0 ELSE EnterActive(h0)
  <2>1. Held(session, cfg) /\ session.amp = m.amp /\ InSession(session)
    BY <1>0, <1>1, EnterActiveKept DEF InSession
  <2>2. /\ Held([session EXCEPT !.playback = "Starting"], cfg)
        /\ [session EXCEPT !.playback = "Starting"].amp = m.amp
    BY <1>0, <2>1, PlaybackKept
  <2>. QED
    BY <1>4, <2>2 DEF PlayBegin, OnMeta
<1>5. ASSUME NEW next \in Playback \ {"Idle"}, WhenInSession(next)
      PROVE  /\ cfg' = cfg
             /\ \E h : Held(h, cfg) /\ h.amp = m.amp /\ m' = Settle(h, cfg)
  <2>1. InSession(m) => /\ Held([h0 EXCEPT !.playback = next], cfg)
                        /\ [h0 EXCEPT !.playback = next].amp = m.amp
    BY <1>0, <1>1, PlaybackKept DEF InSession
  <2>. QED
    BY <1>1, <1>5, <2>1 DEF WhenInSession, OnMeta
<1>6. ASSUME NEW from \in Playback \ {"Idle"}, NEW to \in Playback \ {"Idle"},
             WhenPlayback(from, to)
      PROVE  /\ cfg' = cfg
             /\ \E h : Held(h, cfg) /\ h.amp = m.amp /\ m' = Settle(h, cfg)
  <2>1. m.playback = from => /\ Held([h0 EXCEPT !.playback = to], cfg)
                             /\ [h0 EXCEPT !.playback = to].amp = m.amp
    BY <1>0, <1>1, PlaybackKept DEF InSession
  <2>. QED
    BY <1>1, <1>6, <2>1 DEF WhenPlayback, OnMeta
<1>7. CASE OtherMeta
  BY <1>1, <1>7 DEF OtherMeta, OnMeta
<1>8. CASE PipeEof
  BY <1>0, <1>8, EnterIdleKept DEF PipeEof
<1>9. CASE ParseError \/ Tick
  BY <1>9 DEF ParseError, Tick
<1>. QED
  BY <1>2, <1>3, <1>4, <1>5, <1>6, <1>7, <1>8, <1>9
     DEF PipeMeta, FirstFrame, PlayResume, PlayEnd, PlayFlush, Stall, Progress

LEMMA RemainingType ==
    ASSUME NEW delay \in MaybeTime, NEW age \in Time
    PROVE  /\ Remaining(delay, age) \in MaybeTime
           /\ delay # None => Remaining(delay, age) \in Time
                              /\ Remaining(delay, age) + age >= delay
           /\ delay = None => Remaining(delay, age) = None
BY HorizonAssumption, NoneAssumption DEF Remaining

LEMMA CommandStep ==
    ASSUME TypeOK, Held(m, cfg), Command
    PROVE  /\ cfg' \in Configs
           /\ \E h \in Machine : /\ Countdowns(h) /\ FullDelay(h, cfg')
                                 /\ m' = ApplyPower(h, cfg')
<1>0. m \in Machine /\ cfg \in Config /\ cfg \in Configs
  BY TypedConfig DEF TypeOK
<1>1. ASSUME NEW on \in Switch, OverrideAmp(on)
      PROVE  /\ cfg' = cfg
             /\ \E h \in Machine : /\ Countdowns(h) /\ FullDelay(h, cfg)
                                   /\ m' = ApplyPower(h, cfg)
  <2>. DEFINE h == [m EXCEPT !.ampOverride = on]
  <2>1. h \in Machine /\ Countdowns(h) /\ FullDelay(h, cfg)
    BY <1>0 DEF Machine, Held, Countdowns, FullDelay, InSession
  <2>. QED
    BY <1>1, <2>1 DEF OverrideAmp
<1>2. ASSUME NEW value \in DisplayPower, OverrideDisplay(value)
      PROVE  /\ cfg' = cfg
             /\ \E h \in Machine : /\ Countdowns(h) /\ FullDelay(h, cfg)
                                   /\ m' = ApplyPower(h, cfg)
  <2>. DEFINE forced == [m EXCEPT !.displayOverride = value]
              rearmed == [forced EXCEPT !.ambientIn = cfg.ambientAfter,
                                        !.displayOffIn = cfg.blankAfter]
  <2>1. CASE InSession(m)
    <3>1. forced \in Machine /\ Countdowns(forced) /\ FullDelay(forced, cfg)
      BY <1>0, <2>1 DEF Machine, Held, Countdowns, FullDelay, InSession
    <3>. QED
      BY <1>2, <2>1, <3>1 DEF OverrideDisplay
  <2>2. CASE ~InSession(m)
    <3>1. cfg.ambientAfter # None => cfg.ambientAfter < cfg.blankAfter
      BY <1>0 DEF Config
    <3>2. cfg.blankAfter \in Time /\ cfg.ambientAfter \in MaybeTime
      BY <1>0, ConfigFields
    <3>3. /\ rearmed \in Machine
          /\ rearmed.playback = m.playback /\ rearmed.sinceIdle = m.sinceIdle
          /\ rearmed.ampOffIn = m.ampOffIn
          /\ rearmed.ambientIn = cfg.ambientAfter
          /\ rearmed.displayOffIn = cfg.blankAfter
      BY <1>0, <3>2 DEF Machine
    <3>4. Countdowns(rearmed)
      BY <2>2, <3>1, <3>2, <3>3, HorizonAssumption, NoneAssumption
         DEF Held, Countdowns, InSession
    <3>5. FullDelay(rearmed, cfg)
      BY <3>3 DEF Held, FullDelay, InSession
    <3>6. m' = ApplyPower(rearmed, cfg) /\ cfg' = cfg
      BY <1>2, <2>2 DEF OverrideDisplay
    <3>. HIDE DEF rearmed
    <3>. QED
      BY <3>3, <3>4, <3>5, <3>6
  <2>. QED
    BY <2>1, <2>2
<1>3. ASSUME NEW c \in Configs, Reload(c)
      PROVE  /\ cfg' = c
             /\ \E h \in Machine : /\ Countdowns(h) /\ FullDelay(h, c)
                                   /\ m' = ApplyPower(h, c)
  <2>0. c \in Config
    BY ConfigsAssumption
  <2>1. CASE InSession(m)
    <3>1. FullDelay(m, c)
      BY <2>1 DEF FullDelay
    <3>. QED
      BY <1>0, <1>3, <2>1, <3>1 DEF Reload, Held
  <2>2. CASE ~InSession(m)
    <3>. DEFINE ampOff == IF m.ampOffIn = None THEN None
                          ELSE Remaining(c.offDelay, m.sinceIdle)
                ambient == Remaining(c.ambientAfter, m.sinceIdle)
                off == Remaining(c.blankAfter, m.sinceIdle)
                h == [m EXCEPT !.ampOffIn = ampOff, !.ambientIn = ambient,
                               !.displayOffIn = off]
    <3>1. m.sinceIdle \in Time
      BY <1>0, <2>2 DEF Machine, Held, Countdowns
    <3>2. c.ambientAfter # None => c.ambientAfter < c.blankAfter
      BY <2>0 DEF Config
    <3>3. /\ ampOff \in MaybeTime /\ ambient \in MaybeTime /\ off \in Time
          /\ ampOff # None => ampOff + m.sinceIdle >= c.offDelay
      <4>1. /\ Remaining(c.offDelay, m.sinceIdle) \in Time
            /\ Remaining(c.offDelay, m.sinceIdle) + m.sinceIdle >= c.offDelay
        BY <2>0, <3>1, ConfigFields, RemainingType, NoneAssumption
      <4>2. off \in Time
        BY <2>0, <3>1, ConfigFields, RemainingType, NoneAssumption
      <4>3. ambient \in MaybeTime
        BY <2>0, <3>1, ConfigFields, RemainingType
      <4>. QED
        BY <4>1, <4>2, <4>3
    <3>4. ambient # None => ambient <= off
      BY <2>0, <3>1, <3>2, ConfigFields, HorizonAssumption, NoneAssumption DEF Remaining
    <3>5. /\ h.playback = m.playback /\ h.sinceIdle = m.sinceIdle
          /\ h.ampOffIn = ampOff /\ h.ambientIn = ambient /\ h.displayOffIn = off
          /\ h \in Machine
      <4>. HIDE DEF ampOff, ambient, off
      <4>1. /\ h.playback = m.playback /\ h.sinceIdle = m.sinceIdle
            /\ h.ampOffIn = ampOff /\ h.ambientIn = ambient /\ h.displayOffIn = off
        BY <1>0 DEF Machine
      <4>2. off \in MaybeTime
        BY <3>3 DEF MaybeTime
      <4>3. h \in Machine
        BY <1>0, <3>3, <4>2 DEF Machine
      <4>. QED
        BY <4>1, <4>3
    <3>6. Countdowns(h)
      BY <2>2, <3>1, <3>3, <3>4, <3>5, NoneAssumption DEF Countdowns, InSession
    <3>7. FullDelay(h, c)
      BY <2>0, <3>1, <3>3, <3>5, ConfigFields, HorizonAssumption, NoneAssumption
         DEF FullDelay
    <3>8. cfg' = c /\ m' = ApplyPower(h, c)
      BY <1>3, <2>2 DEF Reload
    <3>. HIDE DEF h
    <3>. QED
      BY <3>5, <3>6, <3>7, <3>8
  <2>. QED
    BY <2>1, <2>2
<1>. QED
  BY <1>0, <1>1, <1>2, <1>3 DEF Command

LEMMA AdvanceKept ==
    ASSUME IInv, Advance
    PROVE  Held(m, cfg)' /\ Steady(m, cfg)'
<1>0. m \in Machine /\ cfg \in Config /\ cfg' = cfg
  BY TypedConfig DEF IInv, Advance
<1>1. /\ m'.playback = m.playback /\ m'.amp = m.amp /\ m'.display = m.display
      /\ m'.ampOverride = m.ampOverride /\ m'.displayOverride = m.displayOverride
      /\ m'.sinceActivity = Older(m.sinceActivity) /\ m'.sinceIdle = Older(m.sinceIdle)
      /\ m'.ampOffIn = Nearer(m.ampOffIn) /\ m'.ambientIn = Nearer(m.ambientIn)
      /\ m'.displayOffIn = Nearer(m.displayOffIn)
  BY <1>0 DEF Advance, Machine
<1>2. /\ \A t \in Time : Older(t) \in Time
      /\ \A t \in MaybeTime : Older(t) \in MaybeTime /\ Nearer(t) \in MaybeTime
      /\ \A t \in MaybeTime : Nearer(t) = None <=> t = None
      /\ \A t \in MaybeTime : Older(t) = None <=> t = None
  BY HorizonAssumption, NoneAssumption DEF Older, Nearer
<1>3. m' \in Machine
  <2>1. m' = [m EXCEPT !.sinceActivity = Older(m.sinceActivity),
                       !.sinceIdle = Older(m.sinceIdle),
                       !.ampOffIn = Nearer(m.ampOffIn),
                       !.ambientIn = Nearer(m.ambientIn),
                       !.displayOffIn = Nearer(m.displayOffIn)]
    BY DEF Advance
  <2>. QED
    BY <1>0, <1>2, <2>1 DEF Machine
<1>4. Countdowns(m')
  <2>1. m.ambientIn # None => Nearer(m.ambientIn) <= Nearer(m.displayOffIn)
    BY <1>0, HorizonAssumption, NoneAssumption
       DEF IInv, Held, Countdowns, Nearer, Machine
  <2>2. m.sinceIdle # None => Older(m.sinceIdle) # None
    BY <1>0, <1>2 DEF Machine
  <2>3. /\ m.ampOffIn = None <=> Nearer(m.ampOffIn) = None
        /\ m.ambientIn = None <=> Nearer(m.ambientIn) = None
        /\ m.displayOffIn = None <=> Nearer(m.displayOffIn) = None
    BY <1>0, <1>2 DEF Machine
  <2>. QED
    BY <1>1, <2>1, <2>2, <2>3 DEF IInv, Held, Countdowns, InSession
<1>5. FullDelay(m', cfg)
  <2>1. SUFFICES ASSUME ~InSession(m), m.ampOffIn # None
                 PROVE  Older(m.sinceIdle) + Nearer(m.ampOffIn) >= cfg.offDelay
    BY <1>0, <1>1, <1>2 DEF FullDelay, InSession, Machine
  <2>2. m.sinceIdle \in Time /\ m.ampOffIn \in Time
    BY <1>0, <2>1 DEF IInv, Held, Countdowns, Machine
  <2>3. m.sinceIdle + m.ampOffIn >= cfg.offDelay
    BY <2>1 DEF IInv, Held, FullDelay
  <2>. QED
    BY <1>0, <2>2, <2>3, ConfigFields, HorizonAssumption, NoneAssumption
       DEF Older, Nearer
<1>6. AmpHeld(m')
  BY <1>0, <1>1, <1>2 DEF IInv, Held, AmpHeld, InSession, Machine
<1>7. Steady(m', cfg)
  <2>1. \A t \in MaybeTime : ~Due(Nearer(t)) => ~Due(t) /\ (Nearer(t) = None <=> t = None)
    BY HorizonAssumption, NoneAssumption DEF Due, Nearer
  <2>2. ~Due(m'.ampOffIn) => WantAmp(m', cfg) = m'.amp
    <3>1. ASSUME ~Due(m'.ampOffIn) PROVE WantAmp(m', cfg) = WantAmp(m, cfg)
      BY <1>0, <1>1, <2>1, <3>1 DEF WantAmp, AmpPolicy, InSession, Machine
    <3>2. ~Due(m'.ampOffIn) => ~Due(m.ampOffIn)
      BY <1>0, <1>1, <2>1 DEF Machine
    <3>. QED
      BY <1>1, <3>1, <3>2 DEF IInv, Steady
  <2>3. ~Due(m'.ambientIn) /\ ~Due(m'.displayOffIn) => WantDisplay(m') = m'.display
    <3>1. ~Due(m'.ambientIn) => ~Due(m.ambientIn)
      BY <1>0, <1>1, <2>1 DEF Machine
    <3>2. ~Due(m'.displayOffIn) => ~Due(m.displayOffIn)
      BY <1>0, <1>1, <2>1 DEF Machine
    <3>3. ASSUME ~Due(m'.ambientIn), ~Due(m'.displayOffIn)
          PROVE  WantDisplay(m') = WantDisplay(m)
      BY <1>1, <3>1, <3>2, <3>3 DEF WantDisplay, HeldDisplay, InSession
    <3>. QED
      BY <1>1, <3>1, <3>2, <3>3 DEF IInv, Steady
  <2>. QED
    BY <2>2, <2>3 DEF Steady
<1>. QED
  BY <1>0, <1>3, <1>4, <1>5, <1>6, <1>7 DEF Held

LEMMA BootInv ==
    ASSUME NEW c \in Config
    PROVE  Held(Boot, c) /\ Steady(Boot, c)
<1>1. Boot \in Machine
  BY HorizonAssumption DEF Boot, Machine
<1>. QED
  BY <1>1, NoneAssumption
     DEF Boot, Held, Steady, Countdowns, FullDelay, AmpHeld, InSession,
         WantAmp, AmpPolicy, WantDisplay, HeldDisplay, Due

LEMMA NextInv == IInv /\ [Next]_vars => IInv'
<1>. SUFFICES ASSUME IInv, [Next]_vars PROVE IInv'
  OBVIOUS
<1>0. TypeOK /\ Held(m, cfg) /\ cfg \in Config /\ cfg \in Configs
  BY TypedConfig DEF IInv, TypeOK
<1>1. CASE PipeMeta \/ PipeEof \/ ParseError \/ Tick
  <2>1. PICK h : Held(h, cfg) /\ m' = Settle(h, cfg) /\ cfg' = cfg
    BY <1>0, <1>1, InputStep
  <2>. QED
    BY <1>0, <2>1, SettleInv DEF IInv, TypeOK, Held
<1>2. CASE Command
  <2>1. cfg' \in Configs /\ cfg' \in Config
    BY <1>0, <1>2, CommandStep, ConfigsAssumption
  <2>2. PICK h \in Machine : Countdowns(h) /\ FullDelay(h, cfg') /\ m' = ApplyPower(h, cfg')
    BY <1>0, <1>2, CommandStep
  <2>. QED
    BY <2>1, <2>2, ApplyPowerKept, ApplyPowerSteady DEF IInv, TypeOK, Held
<1>3. CASE Advance
  BY <1>0, <1>3, AdvanceKept DEF IInv, TypeOK, Held, Advance
<1>4. CASE Restart
  BY <1>4, BootInv, ConfigsAssumption DEF IInv, TypeOK, Restart, Held
<1>5. CASE UNCHANGED vars
  BY <1>5 DEF IInv, TypeOK, Held, Steady, vars
<1>. QED
  BY <1>1, <1>2, <1>3, <1>4, <1>5 DEF Next

THEOREM Invariance == Spec => []IInv
<1>1. Init => IInv
  BY BootInv, ConfigsAssumption DEF Init, IInv, TypeOK, Held
<1>. QED
  BY <1>1, NextInv, PTL DEF Spec

----
(* The properties of the runs *)

\* Every reachable machine is well typed, whatever the configurations.
THEOREM TypeCorrect == Spec => []TypeOK
<1>1. IInv => TypeOK
  BY DEF IInv
<1>. QED
  BY <1>1, Invariance, PTL

\* In idle everything that is powered is on its way down, and no countdown of an
\* idle period reaches into a session.
THEOREM DeadlinesTheorem == Spec => []DeadlinesFollowTheSession
<1>1. IInv => IdlePowerIsTimed
  BY DEF IInv, Held, Countdowns, AmpHeld, IdlePowerIsTimed
<1>2. IInv => NoCountdownInSession
  BY DEF IInv, Held, Countdowns, NoCountdownInSession
<1>3. IInv => DeadlinesFollowTheSession
  BY <1>1, <1>2 DEF DeadlinesFollowTheSession
<1>. QED
  BY <1>3, Invariance, PTL

\* The deadline the main loop sleeps on accounts for all that time can do.
THEOREM SleepTheorem == Spec => []NeverSleepsThroughAChange
<1>1. ASSUME IInv, ~DeadlineDue(m, cfg) PROVE Settle(m, cfg) = m
  <2>0. m \in Machine
    BY <1>1 DEF IInv, Held
  <2>1. EvaluateTimers(m, cfg) = m
    BY <1>1 DEF DeadlineDue, EvaluateTimers
  <2>2. /\ ~Due(m.ampOffIn) /\ ~Due(m.ambientIn) /\ ~Due(m.displayOffIn)
    BY <1>1 DEF DeadlineDue
  <2>3. /\ WantAmp(m, cfg) = m.amp /\ WantDisplay(m) = m.display
        /\ HeldDisplay(m) = m.displayOverride
        /\ Retired(m.ampOffIn) = m.ampOffIn /\ Retired(m.ambientIn) = m.ambientIn
        /\ Retired(m.displayOffIn) = m.displayOffIn
    BY <1>1, <2>2 DEF IInv, Steady, HeldDisplay, Retired
  <2>4. ApplyPower(m, cfg) = m
    BY <2>0, <2>3 DEF ApplyPower, Machine
  <2>. QED
    BY <2>1, <2>4 DEF Settle
<1>2. IInv => NeverSleepsThroughAChange
  BY <1>1 DEF NeverSleepsThroughAChange
<1>. QED
  BY <1>2, Invariance, PTL

\* After a wake-up of the main loop its next sleep has a positive length.
THEOREM TickTheorem == Spec => TickClearsDeadlines
<1>1. ASSUME IInv, Tick PROVE ~DeadlineDue(m', cfg')
  <2>0. Held(m, cfg) /\ m \in Machine /\ cfg \in Config
    BY <1>1, TypedConfig DEF IInv, Held
  <2>. DEFINE e == EvaluateTimers(m, cfg)
  <2>1. m' = ApplyPower(e, cfg) /\ cfg' = cfg
    BY <1>1 DEF Tick, Settle
  <2>2. e \in Machine
    BY <2>0, EvaluateTimersType
  <2>3. /\ InSession(e) => e.sinceActivity < cfg.session
        /\ e.playback = "Playing" => e.sinceActivity < cfg.stall
    BY <2>0, ConfigFields DEF EvaluateTimers, EnterIdle, Machine, InSession
  <2>4. /\ m'.playback = e.playback /\ m'.sinceActivity = e.sinceActivity
        /\ m'.ampOffIn = Retired(e.ampOffIn) /\ m'.ambientIn = Retired(e.ambientIn)
        /\ m'.displayOffIn = Retired(e.displayOffIn)
    BY <2>1, <2>2 DEF ApplyPower, Machine
  <2>5. \A t : ~Due(Retired(t))
    BY NoneAssumption DEF Due, Retired
  <2>6. e.sinceActivity \in Time /\ cfg.stall \in Time /\ cfg.session \in Time
    BY <2>0, <2>2, ConfigFields DEF Machine
  <2>. HIDE DEF e
  <2>. QED
    BY <2>1, <2>3, <2>4, <2>5, <2>6 DEF DeadlineDue, InSession
<1>2. IInv /\ [Next]_vars => [Tick => ~DeadlineDue(m', cfg')]_vars
  BY <1>1
<1>. QED
  BY <1>2, Invariance, PTL DEF Spec, TickClearsDeadlines

\* The amplifier is never released before the session has been over for the
\* whole off delay, unless a command did it.
THEOREM AmpTheorem == Spec => AmpReleasedOnlyAfterTheDelay
<1>1. ASSUME IInv, PipeMeta \/ PipeEof \/ ParseError \/ Tick,
             cfg.ampEnabled, m.amp = "on", m'.amp = "off"
      PROVE  ~InSession(m') /\ m'.sinceIdle >= cfg.offDelay
  <2>0. TypeOK /\ Held(m, cfg) /\ cfg \in Config
    BY <1>1, TypedConfig DEF IInv
  <2>1. PICK h : Held(h, cfg) /\ h.amp = "on" /\ m' = Settle(h, cfg)
    BY <1>1, <2>0, InputStep
  <2>. DEFINE e == EvaluateTimers(h, cfg)
  <2>2. Held(e, cfg) /\ e.amp = "on" /\ e \in Machine
    BY <2>0, <2>1, EvaluateTimersKept DEF Held
  <2>3. m' = ApplyPower(e, cfg)
    BY <2>1 DEF Settle
  <2>. HIDE DEF e
  <2>4. m'.amp = WantAmp(e, cfg) /\ m'.playback = e.playback /\ m'.sinceIdle = e.sinceIdle
    BY <2>2, <2>3 DEF ApplyPower, Machine
  <2>5. e.ampOverride = None /\ ~AmpPolicy(e, cfg)
    BY <1>1, <2>2, <2>4 DEF Held, AmpHeld, WantAmp
  <2>6. ~InSession(e) /\ (e.ampOffIn = None \/ Due(e.ampOffIn))
    BY <1>1, <2>2, <2>5 DEF AmpPolicy
  <2>7. e.ampOffIn # None /\ e.ampOffIn = 0
    BY <2>2, <2>5, <2>6, NoneAssumption DEF Held, AmpHeld, Due
  <2>8. e.sinceIdle \in Time
    BY <2>2, <2>6 DEF Held, Countdowns, Machine
  <2>9. e.sinceIdle + 0 >= cfg.offDelay
    BY <2>2, <2>6, <2>7 DEF Held, FullDelay
  <2>. QED
    BY <2>4, <2>6, <2>8, <2>9 DEF InSession
<1>2. IInv /\ [Next]_vars =>
        [ (PipeMeta \/ PipeEof \/ ParseError \/ Tick)
          /\ cfg.ampEnabled /\ m.amp = "on" /\ m'.amp = "off"
            => ~InSession(m') /\ m'.sinceIdle >= cfg.offDelay ]_vars
  BY <1>1
<1>. QED
  BY <1>2, Invariance, PTL DEF Spec, AmpReleasedOnlyAfterTheDelay

----
(* The stream *)

\* What all steps of the stream keep: the types, and that the current state
\* is last in what is left to be told, or was told last.
StreamInv == StreamTypeOK /\ ToldMeansCurrent /\ StreamEndsInCurrent

LEMMA SingleFacts ==
    ASSUME NEW S, NEW e \in S
    PROVE  <<e>> \in Seq(S) /\ <<e>> # << >> /\ Last(<<e>>) = e
BY DEF Last

LEMMA StreamInitInv == StreamInit => StreamInv
BY SingleFacts, StreamAssumption
   DEF StreamInit, StreamInv, StreamTypeOK, ToldMeansCurrent, StreamEndsInCurrent

LEMMA SeqOfType ==
    ASSUME NEW S, NEW T, S \subseteq T, NEW n \in Nat, NEW s \in SeqOf(S, n)
    PROVE  s \in Seq(T)
<1>1. PICK k \in 0 .. n : s \in [1 .. k -> S]
  BY DEF SeqOf
<1>2. k \in Nat /\ s \in [1 .. k -> T]
  BY <1>1
<1>. QED
  BY <1>2, SeqDef

LEMMA ChangeInv ==
    ASSUME StreamInv, NEW value \in Values, Change(value)
    PROVE  StreamInv'
<1>1. Published(value) \subseteq Values
  <2>1. ASSUME NEW c \in Followers PROVE Range(stream[c]) \subseteq Values
    BY RangeOfSeq DEF StreamInv, StreamTypeOK
  <2>. QED
    BY <2>1 DEF Published
<1>2. stream' \in [Followers -> Seq(Values)]
  <2>1. stream' \in [Followers -> SeqOf(Published(value), Slack + 1)] /\ Slack + 1 \in Nat
    BY StreamAssumption DEF Change
  <2>. QED
    BY <1>1, <2>1, SeqOfType
<1>3. state' = value /\ told' = told
  BY DEF Change
<1>4. ASSUME NEW c \in Followers
      PROVE  /\ stream'[c] = << >> => told'[c] = state'
             /\ stream'[c] # << >> => Last(stream'[c]) = state'
  <2>1. \/ stream'[c] # << >> /\ Last(stream'[c]) = value
        \/ value = state /\ stream'[c] = stream[c]
    BY DEF Change, Leads
  <2>. QED
    BY <1>3, <2>1 DEF StreamInv, ToldMeansCurrent, StreamEndsInCurrent
<1>. QED
  BY <1>2, <1>3, <1>4
     DEF StreamInv, StreamTypeOK, ToldMeansCurrent, StreamEndsInCurrent

LEMMA TellInv == ASSUME StreamInv, NEW c \in Followers, Tell(c) PROVE StreamInv'
<1>. DEFINE s == stream[c]
<1>1. /\ s \in Seq(Values) /\ s # << >> /\ Last(s) = state /\ state' = state
      /\ stream' = [stream EXCEPT ![c] = Tail(s)] /\ told' = [told EXCEPT ![c] = Head(s)]
  BY DEF StreamInv, StreamTypeOK, StreamEndsInCurrent, Tell
<1>. HIDE DEF s
<1>2. /\ Head(s) \in Values /\ Tail(s) \in Seq(Values) /\ Len(Tail(s)) = Len(s) - 1
      /\ \A i \in 1 .. Len(Tail(s)) : Tail(s)[i] = s[i + 1]
      /\ Len(s) \in Nat \ {0}
  BY <1>1, HeadTailProperties, EmptySeq
<1>3. CASE Len(s) = 1
  <2>1. Tail(s) = << >>
    <3>1. Len(Tail(s)) = 0 /\ Tail(s) \in Seq(Values)
      BY <1>2, <1>3
    <3>. QED
      BY <3>1, EmptySeq
  <2>2. Head(s) = state
    <3>1. Head(s) = s[1]
      BY <1>1, <1>2
    <3>. QED
      BY <1>1, <1>3, <3>1 DEF Last
  <2>. QED
    BY <1>1, <1>2, <2>1, <2>2
       DEF StreamInv, StreamTypeOK, ToldMeansCurrent, StreamEndsInCurrent
<1>4. CASE Len(s) > 1
  <2>1. Tail(s) # << >>
    <3>1. Len(Tail(s)) # 0 /\ Len(<< >>) = 0
      BY <1>2, <1>4, EmptySeq
    <3>. QED
      BY <3>1
  <2>2. Last(Tail(s)) = state
    <3>1. Len(s) - 1 \in 1 .. Len(Tail(s)) /\ (Len(s) - 1) + 1 = Len(s)
      BY <1>2, <1>4
    <3>2. Tail(s)[Len(Tail(s))] = s[Len(s)]
      BY <1>2, <3>1
    <3>. QED
      BY <1>1, <3>2 DEF Last
  <2>. QED
    BY <1>1, <1>2, <2>1, <2>2
       DEF StreamInv, StreamTypeOK, ToldMeansCurrent, StreamEndsInCurrent
<1>. QED
  BY <1>2, <1>3, <1>4

LEMMA ForgetInv == ASSUME StreamInv, NEW c \in Followers, Forget(c) PROVE StreamInv'
BY SingleFacts
   DEF StreamInv, StreamTypeOK, ToldMeansCurrent, StreamEndsInCurrent, Forget

LEMMA StreamNextInv == StreamInv /\ [StreamNext]_streamVars => StreamInv'
<1>1. StreamInv /\ UNCHANGED streamVars => StreamInv'
  BY DEF streamVars, StreamInv, StreamTypeOK, ToldMeansCurrent, StreamEndsInCurrent
<1>. QED
  BY <1>1, ChangeInv, TellInv, ForgetInv DEF StreamNext

(* A follower of the socket that has nothing left to be told was told the  *)
(* current state, and what is left to be told ends with it, whatever the   *)
(* buffers in between lost or repeated.                                    *)
THEOREM StreamTheorem == StreamSpec => [](ToldMeansCurrent /\ StreamEndsInCurrent)
<1>1. StreamInv => ToldMeansCurrent /\ StreamEndsInCurrent
  BY DEF StreamInv
<1>. QED
  BY <1>1, StreamInitInv, StreamNextInv, PTL DEF StreamSpec

----
(* The inductive invariant *)

\* From its k-th on, the files of the window are copies of the current image.
CopiesFrom(k) == \A j \in k .. Len(written) : written[j].image = state.image

\* The published file is in the window, with nothing but resends after it, or
\* resends have filled the window.
CoverHeld ==
    state # NoArt =>
        /\ state.path.image = state.image
        /\ state.revision < nextFile
        /\ \/ \E k \in 1 .. Len(written) : written[k] = state.path /\ CopiesFrom(k)
           \/ Len(written) = Retain /\ CopiesFrom(1)

\* Outside poll's own steps, a snapshot the loop has not looked at has left a
\* byte in the pipe or is about to.
NothingMissed == loop # "polling" /\ ~wakeup /\ ~signalling => Decision = "nothing"

ArtInv == ArtTypeOK /\ StreamInv /\ IsFiniteSet(scratch) /\ StoreBounded /\ CoverHeld /\ NothingMissed

----
(* Helpers *)

\* What the window holds after one file more: the new file last, and the
\* oldest one gone if it was full.
LEMMA KeptFacts ==
    ASSUME NEW q \in Seq(Path), Len(q) =< Retain, NEW e \in Path
    PROVE  LET r == Kept(Append(q, e))
               gone == IF Len(q) < Retain THEN 0 ELSE 1
           IN  /\ r \in Seq(Path) /\ Len(q) \in Nat /\ Len(r) = Len(q) + 1 - gone
               /\ r[Len(r)] = e
               /\ \A j \in 1 .. Len(r) - 1 : r[j] = q[j + gone]
               /\ Range(r) \subseteq Range(Append(q, e))
<1>. DEFINE a == Append(q, e)
            r == Kept(a)
<1>1. /\ a \in Seq(Path) /\ a # << >> /\ Len(q) \in Nat /\ Len(a) = Len(q) + 1
      /\ \A i \in 1 .. Len(q) : a[i] = q[i]
      /\ a[Len(q) + 1] = e
  BY AppendProperties, LenProperties
<1>2. r = IF Len(a) > Retain THEN Tail(a) ELSE a
  BY DEF Kept
<1>3. CASE Len(q) < Retain
  <2>1. r = a
    BY <1>1, <1>2, <1>3, RetainAssumption
  <2>. QED
    BY <1>1, <1>3, <2>1
<1>4. CASE ~(Len(q) < Retain)
  <2>1. r = Tail(a) /\ Len(q) = Retain
    BY <1>1, <1>2, <1>4, RetainAssumption
  <2>2. /\ r \in Seq(Path) /\ Len(r) = Len(a) - 1
        /\ \A i \in 1 .. Len(r) : r[i] = a[i + 1]
    BY <1>1, <2>1, HeadTailProperties
  <2>3. r[Len(r)] = e
    BY <1>1, <2>1, <2>2, RetainAssumption
  <2>4. \A j \in 1 .. Len(r) - 1 : r[j] = q[j + 1]
    BY <1>1, <2>1, <2>2, RetainAssumption
  <2>5. Range(r) \subseteq Range(a)
    <3>1. \A i \in DOMAIN r : i + 1 \in DOMAIN a /\ r[i] = a[i + 1]
      BY <1>1, <2>2, LenProperties
    <3>. QED
      BY <3>1 DEF Range
  <2>6. Len(q) < Retain <=> FALSE
    BY <1>4
  <2>7. Len(r) = Len(q) + 1 - 1
    BY <1>1, <2>2
  <2>. HIDE DEF r, a
  <2>. QED
    BY <1>1, <2>2, <2>3, <2>4, <2>5, <2>6, <2>7 DEF a, r
<1>. QED
  BY <1>3, <1>4

LEMMA EmptyRange == ASSUME NEW q \in Seq(Path), Len(q) = 0 PROVE Range(q) = {}
<1>1. Range(q) = { q[i] : i \in 1 .. Len(q) }
  BY RangeEquality
<1>2. 1 .. Len(q) = {}
  OBVIOUS
<1>. QED
  BY <1>1, <1>2

LEMMA ToldFacts ==
    ASSUME ArtTypeOK
    PROVE  /\ told[renderer] \in Artwork \cup {NoArt, Nothing}
           /\ Nothing # NoArt /\ Nothing \notin Artwork /\ NoArt \notin Artwork
BY RendererAssumption, StatesAssumption, NoArtAssumption DEF ArtTypeOK, StreamTypeOK

\* The decision, by what the renderer was told last.
LEMMA DecisionFacts ==
    ASSUME ArtTypeOK
    PROVE  /\ told[renderer] = Nothing => Decision = "nothing"
           /\ told[renderer] = NoArt =>
                Decision = IF cleared THEN "nothing" ELSE "clear"
           /\ told[renderer] \in Artwork =>
                Decision = IF handled = told[renderer].revision THEN "nothing" ELSE "show"
<1>1. CASE told[renderer] = Nothing
  BY <1>1, ToldFacts DEF Decision
<1>2. CASE told[renderer] = NoArt
  BY <1>2, ToldFacts DEF Decision
<1>3. CASE told[renderer] \in Artwork
  BY <1>3, ToldFacts DEF Decision
<1>. QED
  BY <1>1, <1>2, <1>3, ToldFacts

\* Steps that leave the renderer's eyes alone keep the decision.
LEMMA DecisionKept ==
    ASSUME UNCHANGED <<told, handled, cleared>>
    PROVE  Decision' = Decision
BY DEF Decision

\* Steps that touch neither the state nor the files keep what relates them.
LEMMA CoverKept ==
    ASSUME ArtInv, UNCHANGED <<state, store>>
    PROVE  IsFiniteSet(scratch)' /\ StoreBounded' /\ CoverHeld'
BY DEF ArtInv, StoreBounded, CoverHeld, CopiesFrom, store

\* Steps of artd leave the renderer as it was.
LEMMA SourceKept ==
    ASSUME ArtInv, UNCHANGED told, UNCHANGED source
    PROVE  NothingMissed'
BY DecisionKept DEF ArtInv, NothingMissed, source

----
(* One lemma per action: artd *)

LEMMA StoreFileFacts ==
    ASSUME ArtInv, NEW path \in Path, StoreFile(path)
    PROVE  LET gone == IF Len(written) < Retain THEN 0 ELSE 1
           IN  /\ written' \in Seq(Path) /\ Len(written) \in Nat
               /\ Len(written') = Len(written) + 1 - gone
               /\ written'[Len(written')] = path
               /\ \A j \in 1 .. Len(written') - 1 : written'[j] = written[j + gone]
               /\ Len(written) =< Retain
               /\ StoreBounded' /\ files' \subseteq Path
               /\ IsFiniteSet(scratch)' /\ scratch' \subseteq Path /\ spoilt' = spoilt
               /\ nextFile' = nextFile + 1 /\ nextFile' \in 1 .. MaxFiles
<1>. DEFINE a == Append(written, path)
            gone == IF Len(written) < Retain THEN 0 ELSE 1
<1>1. written \in Seq(Path) /\ Len(written) =< Retain /\ written' = Kept(a)
  BY DEF ArtInv, ArtTypeOK, StoreBounded, StoreFile
<1>2. /\ written' \in Seq(Path) /\ Len(written) \in Nat
      /\ Len(written') = Len(written) + 1 - gone
      /\ written'[Len(written')] = path
      /\ \A j \in 1 .. Len(written') - 1 : written'[j] = written[j + gone]
      /\ Range(written') \subseteq Range(a)
  BY <1>1, KeptFacts
<1>3. a \in Seq(Path) /\ Range(a) = Range(written) \cup {path}
  <2>1. /\ a \in Seq(Path) /\ Len(a) = Len(written) + 1
        /\ \A i \in 1 .. Len(written) : a[i] = written[i]
        /\ a[Len(written) + 1] = path
    BY <1>1, AppendProperties
  <2>2. Range(a) = { a[i] : i \in 1 .. Len(a) }
        /\ Range(written) = { written[i] : i \in 1 .. Len(written) }
    BY <1>1, <2>1, RangeEquality
  <2>. QED
    BY <1>2, <2>1, <2>2
<1>4. files' = Range(written')
  BY <1>2, <1>3 DEF ArtInv, StoreBounded, StoreFile
<1>5. Len(written') =< Retain /\ Range(written') \subseteq Path
  <2>1. Len(written') =< Retain
    BY <1>1, <1>2, RetainAssumption
  <2>. QED
    BY <1>2, <2>1, RangeOfSeq
<1>6. nextFile' = nextFile + 1 /\ nextFile' \in 1 .. MaxFiles
  BY RetainAssumption DEF ArtInv, ArtTypeOK, StoreFile
<1>7. /\ IsFiniteSet(scratch)' /\ scratch' \subseteq Path /\ spoilt' = spoilt
      /\ Cardinality(scratch') =< spoilt'
  <2>1. scratch' = scratch \ {path} /\ spoilt' = spoilt /\ spoilt \in Nat
    BY SpoiltAssumption DEF ArtInv, ArtTypeOK, StoreFile
  <2>2. /\ IsFiniteSet(scratch) /\ scratch \subseteq Path
        /\ Cardinality(scratch) \in Nat /\ Cardinality(scratch) =< spoilt
    BY FS_CardinalityType DEF ArtInv, ArtTypeOK, StoreBounded
  <2>3. /\ IsFiniteSet(scratch \ {path})
        /\ Cardinality(scratch \ {path}) =
             IF path \in scratch THEN Cardinality(scratch) - 1 ELSE Cardinality(scratch)
    BY <2>2, FS_RemoveElement
  <2>. QED
    BY <2>1, <2>2, <2>3
<1>. QED
  BY <1>1, <1>2, <1>4, <1>5, <1>6, <1>7 DEF StoreBounded

\* The value a new image is published with.
Covered(path) == [revision |-> IF state = NoArt THEN 1 ELSE state.revision + 1,
                  path     |-> path,
                  image    |-> path.image]

LEMMA CoveredFacts ==
    ASSUME ArtInv, NEW path \in Path, nextFile < MaxFiles
    PROVE  Covered(path) \in Artwork /\ Covered(path).revision < nextFile + 1
<1>1. nextFile \in 1 .. MaxFiles /\ state \in Artwork \cup {NoArt} /\ path.image \in Images
  BY StatesAssumption DEF ArtInv, ArtTypeOK, StreamTypeOK, Path
<1>2. state # NoArt => state.revision \in 1 .. MaxFiles /\ state.revision < nextFile
  BY <1>1 DEF ArtInv, CoverHeld, Artwork
<1>3. CASE state = NoArt
  BY <1>1, <1>3, RetainAssumption DEF Covered, Artwork
<1>4. CASE state # NoArt
  BY <1>1, <1>2, <1>4, RetainAssumption DEF Covered, Artwork
<1>. QED
  BY <1>3, <1>4

\* A resend adds one more copy behind the published file, and may push it out.
LEMMA ResendHeld ==
    ASSUME ArtInv, NEW path \in Path, StoreFile(path), state # NoArt,
           path.image = state.image, state' = state
    PROVE  CoverHeld'
<1>. DEFINE gone == IF Len(written) < Retain THEN 0 ELSE 1
<1>1. /\ Len(written) \in Nat /\ Len(written) =< Retain
      /\ Len(written') = Len(written) + 1 - gone
      /\ written'[Len(written')].image = state.image
      /\ \A j \in 1 .. Len(written') - 1 : written'[j] = written[j + gone]
      /\ nextFile' = nextFile + 1
  BY StoreFileFacts
<1>2. state.path.image = state.image /\ state.revision < nextFile + 1
  BY StatesAssumption DEF ArtInv, ArtTypeOK, StreamTypeOK, CoverHeld, Artwork
<1>3. Retain \in Nat /\ Retain >= 2
  BY RetainAssumption
<1>4. ASSUME NEW k \in 1 .. Len(written), CopiesFrom(k), NEW i \in 1 .. Len(written'), i >= k - gone
      PROVE  CopiesFrom(i)'
  <2>1. ASSUME NEW j \in i .. Len(written') PROVE written'[j].image = state.image
    <3>1. CASE j = Len(written')
      BY <1>1, <3>1
    <3>2. CASE j # Len(written')
      <4>1. j \in 1 .. Len(written') - 1 /\ j + gone \in k .. Len(written)
        <5>1. gone \in {0, 1} /\ j \in Int /\ i =< j /\ j =< Len(written') /\ 1 =< i
          BY <1>1
        <5>. HIDE DEF gone
        <5>. QED
          BY <1>1, <1>4, <3>2, <5>1
      <4>. QED
        BY <1>1, <1>4, <4>1 DEF CopiesFrom
    <3>. QED
      BY <3>1, <3>2
  <2>. QED
    BY <2>1 DEF CopiesFrom
<1>5. CASE \E k \in 1 .. Len(written) : written[k] = state.path /\ CopiesFrom(k)
  <2>1. PICK k \in 1 .. Len(written) : written[k] = state.path /\ CopiesFrom(k)
    BY <1>5
  <2>2. CASE k - gone >= 1
    <3>1. PICK i \in 1 .. Len(written') - 1 :
                i + gone = k /\ i >= k - gone /\ i \in 1 .. Len(written')
      <4>1. k - gone \in 1 .. Len(written') - 1 /\ k - gone \in 1 .. Len(written')
        BY <1>1, <2>2
      <4>. QED
        BY <4>1
    <3>2. written'[i] = state.path
      BY <1>1, <2>1, <3>1
    <3>3. CopiesFrom(i)'
      BY <1>4, <2>1, <3>1
    <3>. QED
      BY <1>1, <1>2, <3>1, <3>2, <3>3 DEF CoverHeld
  <2>3. CASE ~(k - gone >= 1)
    <3>1. k = 1 /\ gone = 1 /\ Len(written') = Retain /\ 1 \in 1 .. Len(written')
      BY <1>1, <1>3, <2>3
    <3>2. CopiesFrom(1)'
      BY <1>4, <2>1, <3>1
    <3>. QED
      BY <1>1, <1>2, <3>1, <3>2 DEF CoverHeld
  <2>. QED
    BY <2>2, <2>3
<1>6. CASE Len(written) = Retain /\ CopiesFrom(1)
  <2>1. Len(written') = Retain /\ 1 \in 1 .. Len(written) /\ 1 \in 1 .. Len(written')
    BY <1>1, <1>3, <1>6
  <2>2. CopiesFrom(1)'
    BY <1>4, <1>6, <2>1
  <2>. QED
    BY <1>1, <1>2, <2>1, <2>2 DEF CoverHeld
<1>. QED
  BY <1>5, <1>6 DEF ArtInv, CoverHeld

\* A new image is last in the window.
LEMMA NewHeld ==
    ASSUME ArtInv, NEW path \in Path, StoreFile(path), state' = Covered(path)
    PROVE  CoverHeld'
<1>1. /\ Len(written) \in Nat /\ written' \in Seq(Path)
      /\ Len(written') \in 1 .. Retain /\ written'[Len(written')] = path
      /\ nextFile' = nextFile + 1
  <2>1. /\ Len(written') = Len(written) + 1 - (IF Len(written) < Retain THEN 0 ELSE 1)
        /\ Len(written) \in Nat /\ Len(written) =< Retain /\ written' \in Seq(Path)
        /\ written'[Len(written')] = path /\ nextFile' = nextFile + 1
    BY StoreFileFacts
  <2>. QED
    BY <2>1, RetainAssumption
<1>2. state'.path = path /\ state'.image = path.image /\ state'.revision < nextFile'
  BY <1>1, CoveredFacts DEF Covered, StoreFile
<1>3. CopiesFrom(Len(written))'
  BY <1>1, <1>2, RetainAssumption DEF CopiesFrom
<1>4. Len(written') \in 1 .. Len(written')
  BY <1>1, RetainAssumption
<1>. QED
  BY <1>1, <1>2, <1>3, <1>4 DEF CoverHeld

LEMMA PictureInv == ASSUME ArtInv, NEW image \in Images, Picture(image) PROVE ArtInv'
<1>. DEFINE path == [number |-> nextFile, image |-> image]
<1>1. path \in Path /\ StoreFile(path) /\ SetArtwork(path) /\ UNCHANGED source
  BY DEF ArtInv, ArtTypeOK, Path, Picture
<1>2. path.image = image
  OBVIOUS
<1>. HIDE DEF path
<1>3. /\ written' \in Seq(Path) /\ StoreBounded' /\ files' \subseteq Path
      /\ IsFiniteSet(scratch)' /\ scratch' \subseteq Path /\ spoilt' = spoilt
      /\ nextFile' \in 1 .. MaxFiles
  BY <1>1, StoreFileFacts
<1>4. told' = told /\ StreamInv' /\ CoverHeld'
  <2>1. CASE state # NoArt /\ state.image = path.image
    <3>1. UNCHANGED streamVars
      BY <1>1, <2>1 DEF SetArtwork
    <3>2. StreamInv' /\ told' = told /\ state' = state
      BY <3>1, StreamNextInv DEF ArtInv, streamVars
    <3>. QED
      BY <1>1, <2>1, <3>2, ResendHeld
  <2>2. CASE ~(state # NoArt /\ state.image = path.image)
    <3>1. Change(Covered(path))
      BY <1>1, <2>2 DEF SetArtwork, Covered
    <3>2. Covered(path) \in Values
      BY <1>1, CoveredFacts, StatesAssumption DEF StoreFile
    <3>3. StreamInv' /\ state' = Covered(path) /\ told' = told
      BY <3>1, <3>2, ChangeInv DEF ArtInv, Change
    <3>. QED
      BY <1>1, <3>3, NewHeld
  <2>. QED
    BY <2>1, <2>2
<1>5. ArtTypeOK'
  BY <1>1, <1>3, <1>4 DEF ArtInv, ArtTypeOK, StreamInv, store, source
<1>. QED
  BY <1>1, <1>3, <1>4, <1>5, SourceKept DEF ArtInv

LEMMA StoreFailsInv == ASSUME ArtInv, NEW image \in Images, StoreFails(image) PROVE ArtInv'
<1>. DEFINE path == [number |-> nextFile, image |-> image]
<1>1. /\ nextFile' = nextFile + 1 /\ nextFile \in Nat /\ nextFile' \in 1 .. MaxFiles
      /\ UNCHANGED <<streamVars, files, written, source>>
      /\ path \in Path
      /\ \/ UNCHANGED <<scratch, spoilt>>
         \/ spoilt < MaxSpoilt /\ spoilt' = spoilt + 1 /\ scratch' = scratch \cup {path}
  BY RetainAssumption DEF ArtInv, ArtTypeOK, Path, StoreFails
<1>. HIDE DEF path
<1>2. StreamInv' /\ told' = told /\ state' = state
  BY <1>1, StreamNextInv DEF ArtInv, streamVars
<1>3. CoverHeld'
  <2>1. state # NoArt => state.revision \in Int
    BY StatesAssumption DEF ArtInv, ArtTypeOK, StreamTypeOK, Artwork
  <2>. QED
    BY <1>1, <1>2, <2>1 DEF ArtInv, CoverHeld, CopiesFrom
<1>4. /\ IsFiniteSet(scratch)' /\ scratch' \subseteq Path /\ spoilt' \in 0 .. MaxSpoilt
      /\ Cardinality(scratch') =< spoilt'
  <2>1. /\ IsFiniteSet(scratch) /\ scratch \subseteq Path /\ spoilt \in 0 .. MaxSpoilt
        /\ Cardinality(scratch) \in Nat /\ Cardinality(scratch) =< spoilt
        /\ MaxSpoilt \in Nat
    BY FS_CardinalityType, SpoiltAssumption DEF ArtInv, ArtTypeOK, StoreBounded
  <2>2. /\ IsFiniteSet(scratch \cup {path})
        /\ Cardinality(scratch \cup {path}) =
             IF path \in scratch THEN Cardinality(scratch) ELSE Cardinality(scratch) + 1
    BY <2>1, FS_AddElement
  <2>. QED
    BY <1>1, <2>1, <2>2
<1>5. ArtTypeOK' /\ StoreBounded'
  BY <1>1, <1>2, <1>4 DEF ArtInv, ArtTypeOK, StreamInv, StoreBounded, source
<1>. QED
  BY <1>1, <1>2, <1>3, <1>4, <1>5, SourceKept DEF ArtInv

\* With no artwork and no file, nothing can be lost.
LEMMA EmptiedInv ==
    ASSUME ArtInv, Change(NoArt), files' = {}, written' = << >>,
           nextFile' \in 1 .. MaxFiles, UNCHANGED <<scratch, spoilt, source>>
    PROVE  ArtInv'
<1>1. NoArt \in Values
  BY StatesAssumption
<1>2. StreamInv' /\ state' = NoArt /\ told' = told
  BY <1>1, ChangeInv DEF ArtInv, Change
<1>3. written' \in Seq(Path) /\ Len(written') = 0 /\ Range(written') = {}
  <2>1. written' \in Seq(Path) /\ Len(written') = 0
    BY EmptySeq
  <2>. QED
    BY <2>1, EmptyRange
<1>4. ArtTypeOK' /\ IsFiniteSet(scratch)' /\ StoreBounded' /\ CoverHeld'
  BY <1>2, <1>3, RetainAssumption
     DEF ArtInv, ArtTypeOK, StreamInv, store, StoreBounded, CoverHeld, source
<1>. QED
  BY <1>2, <1>4, SourceKept DEF ArtInv, source

LEMMA PictureClearedInv == ASSUME ArtInv, PictureCleared PROVE ArtInv'
<1>1. files' = {}
  BY DEF ArtInv, StoreBounded, PictureCleared
<1>. QED
  BY <1>1, EmptiedInv DEF ArtInv, ArtTypeOK, PictureCleared

LEMMA ArtdRestartInv == ASSUME ArtInv, ArtdRestart PROVE ArtInv'
BY EmptiedInv, RetainAssumption DEF ArtdRestart

LEMMA ChangedNothing ==
    ASSUME ArtInv, Change(state)
    PROVE  StreamInv' /\ state' = state /\ told' = told
BY ChangeInv DEF ArtInv, ArtTypeOK, StreamTypeOK, Change

LEMMA RepublishInv == ASSUME ArtInv, Republish PROVE ArtInv'
<1>1. /\ StreamInv' /\ told' = told
      /\ UNCHANGED <<state, store>> /\ UNCHANGED source
  BY ChangedNothing DEF Republish, store
<1>2. ArtTypeOK'
  BY <1>1 DEF ArtInv, ArtTypeOK, StreamInv, store, source
<1>. QED
  BY <1>1, <1>2, CoverKept, SourceKept DEF ArtInv

----
(* One lemma per action: lprender *)

\* A reader that has stored a snapshot is about to signal.
LEMMA TakeSnapshotInv == ASSUME ArtInv, TakeSnapshot PROVE ArtInv'
<1>1. StreamInv' /\ UNCHANGED <<state, store>>
  BY TellInv, RendererAssumption DEF ArtInv, TakeSnapshot, Tell, store
<1>2. ArtTypeOK'
  BY <1>1 DEF ArtInv, ArtTypeOK, StreamInv, store, TakeSnapshot
<1>3. NothingMissed'
  BY DEF NothingMissed, TakeSnapshot
<1>. QED
  BY <1>1, <1>2, <1>3, CoverKept DEF ArtInv

LEMMA SignalInv == ASSUME ArtInv, Signal PROVE ArtInv'
<1>1. StreamInv' /\ UNCHANGED <<state, store>>
  BY StreamNextInv DEF ArtInv, Signal, store, streamVars
<1>2. ArtTypeOK'
  BY <1>1 DEF ArtInv, ArtTypeOK, StreamInv, store, Signal
<1>3. NothingMissed'
  BY DEF NothingMissed, Signal
<1>. QED
  BY <1>1, <1>2, <1>3, CoverKept DEF ArtInv

LEMMA LoseConnectionInv == ASSUME ArtInv, LoseConnection PROVE ArtInv'
<1>1. StreamInv' /\ UNCHANGED <<state, store>>
  BY ChangedNothing DEF LoseConnection, store
<1>2. ArtTypeOK'
  BY <1>1 DEF ArtInv, ArtTypeOK, StreamInv, store, LoseConnection
<1>3. NothingMissed'
  BY DEF NothingMissed, LoseConnection
<1>. QED
  BY <1>1, <1>2, <1>3, CoverKept DEF ArtInv

LEMMA DrainInv == ASSUME ArtInv, Drain PROVE ArtInv'
<1>1. StreamInv' /\ UNCHANGED <<state, store>>
  BY StreamNextInv DEF ArtInv, Drain, store, streamVars
<1>2. ArtTypeOK'
  BY <1>1 DEF ArtInv, ArtTypeOK, StreamInv, store, Drain
<1>3. NothingMissed'
  BY DEF NothingMissed, Drain
<1>. QED
  BY <1>1, <1>2, <1>3, CoverKept DEF ArtInv

\* A decision, once taken, is not to be taken again.
LEMMA DecideNothingInv == ASSUME ArtInv, DecideNothing PROVE ArtInv'
<1>1. /\ StreamInv' /\ UNCHANGED <<state, store>>
      /\ UNCHANGED <<told, handled, cleared>>
  BY StreamNextInv DEF ArtInv, DecideNothing, store, streamVars
<1>2. ArtTypeOK'
  BY <1>1 DEF ArtInv, ArtTypeOK, StreamInv, store, DecideNothing
<1>3. NothingMissed'
  BY <1>1, DecisionKept DEF NothingMissed, DecideNothing
<1>. QED
  BY <1>1, <1>2, <1>3, CoverKept DEF ArtInv

LEMMA DecideClearInv == ASSUME ArtInv, DecideClear PROVE ArtInv'
<1>1. StreamInv' /\ UNCHANGED <<state, told, store>>
  BY StreamNextInv DEF ArtInv, DecideClear, store, streamVars
<1>2. ArtTypeOK'
  <2>1. handled' \in 0 .. MaxFiles /\ loop' = "asleep"
    BY RetainAssumption DEF DecideClear
  <2>2. chosen' = NoArt /\ wanted' = NoArt
    BY DEF DecideClear
  <2>3. missed' \in BOOLEAN /\ cleared' \in BOOLEAN
    BY DEF DecideClear
  <2>4. UNCHANGED <<signalling, wakeup>>
    BY DEF DecideClear
  <2>. QED
    BY <1>1, <2>1, <2>2, <2>3, <2>4 DEF ArtInv, ArtTypeOK, StreamInv, store
<1>3. NothingMissed'
  <2>1. told[renderer] = NoArt
    BY DecisionFacts, ToldFacts DEF ArtInv, DecideClear
  <2>2. told'[renderer] = NoArt => Decision' = IF cleared' THEN "nothing" ELSE "clear"
    BY <1>1, <2>1, ToldFacts DEF ArtInv, Decision
  <2>. QED
    BY <1>1, <2>1, <2>2 DEF NothingMissed, DecideClear
<1>. QED
  BY <1>1, <1>2, <1>3, CoverKept DEF ArtInv

LEMMA DecideShowInv == ASSUME ArtInv, DecideShow PROVE ArtInv'
<1>1. StreamInv' /\ UNCHANGED <<state, told, store>>
  BY StreamNextInv DEF ArtInv, DecideShow, store, streamVars
<1>2. told[renderer] \in Artwork
  BY DecisionFacts, ToldFacts DEF ArtInv, DecideShow
<1>3. told[renderer].revision \in 1 .. MaxFiles /\ told[renderer] # NoArt
  BY <1>2, ToldFacts DEF ArtInv, Artwork
<1>4. ArtTypeOK'
  <2>1. chosen' # NoArt /\ handled' \in 0 .. MaxFiles
    BY <1>3, RetainAssumption DEF DecideShow
  <2>2. chosen' \in Artwork \cup {NoArt}
    BY <1>2 DEF DecideShow
  <2>. QED
    BY <1>1, <2>1, <2>2 DEF ArtInv, ArtTypeOK, StreamInv, store, DecideShow
<1>5. NothingMissed'
  <2>1. /\ told'[renderer] \in Artwork
        /\ handled' = told'[renderer].revision
    BY <1>1, <1>2 DEF DecideShow
  <2>2. Decision' = IF handled' = told'[renderer].revision THEN "nothing" ELSE "show"
    BY <1>4, <2>1, ToldFacts DEF ArtInv, Decision
  <2>. QED
    BY <2>1, <2>2 DEF NothingMissed
<1>. QED
  BY <1>1, <1>4, <1>5, CoverKept DEF ArtInv

LEMMA ShowInv == ASSUME ArtInv, Show PROVE ArtInv'
<1>1. /\ StreamInv' /\ UNCHANGED <<state, store>>
      /\ UNCHANGED <<told, handled, cleared>>
  BY StreamNextInv DEF ArtInv, Show, store, streamVars
<1>2. ArtTypeOK'
  <2>1. chosen \in Artwork
    BY DEF ArtInv, ArtTypeOK, Show
  <2>2. wanted' \in Images \cup {NoArt}
    BY <2>1 DEF ArtInv, ArtTypeOK, Artwork, Show
  <2>. QED
    BY <1>1, <2>2 DEF ArtInv, ArtTypeOK, StreamInv, store, Show
<1>3. NothingMissed'
  BY <1>1, DecisionKept DEF ArtInv, NothingMissed, Show
<1>. QED
  BY <1>1, <1>2, <1>3, CoverKept DEF ArtInv

LEMMA RendererRestartInv == ASSUME ArtInv, RendererRestart PROVE ArtInv'
<1>1. StreamInv' /\ UNCHANGED <<state, store>>
  BY ForgetInv, RendererAssumption DEF ArtInv, RendererRestart, Forget, store
<1>2. ArtTypeOK'
  <2>1. loop' # "showing" /\ handled' \in 0 .. MaxFiles
    BY RetainAssumption DEF RendererRestart
  <2>. QED
    BY <1>1, <2>1 DEF ArtInv, ArtTypeOK, StreamInv, store, RendererRestart
<1>3. NothingMissed'
  <2>1. told'[renderer] = Nothing
    BY RendererAssumption DEF ArtInv, ArtTypeOK, StreamTypeOK, RendererRestart, Forget
  <2>. QED
    BY <2>1, ToldFacts DEF ArtInv, NothingMissed, Decision
<1>. QED
  BY <1>1, <1>2, <1>3, CoverKept DEF ArtInv

LEMMA ArtInitInv == ArtInit => ArtInv
<1>. SUFFICES ASSUME ArtInit PROVE ArtInv
  OBVIOUS
<1>1. StreamInv /\ told[renderer] = Nothing /\ state = NoArt
  BY StreamInitInv, StatesAssumption, RendererAssumption DEF ArtInit, StreamInit
<1>2. written \in Seq(Path) /\ Len(written) = 0 /\ Range(written) = {}
  <2>1. written \in Seq(Path) /\ Len(written) = 0
    BY EmptySeq DEF ArtInit
  <2>. QED
    BY <2>1, EmptyRange
<1>3. ArtTypeOK
  <2>1. loop # "showing" /\ handled \in 0 .. MaxFiles
    BY RetainAssumption DEF ArtInit
  <2>2. nextFile \in 1 .. MaxFiles /\ spoilt \in 0 .. MaxSpoilt
    BY RetainAssumption, SpoiltAssumption DEF ArtInit
  <2>. QED
    BY <1>1, <1>2, <2>1, <2>2 DEF ArtInit, ArtTypeOK, StreamInv
<1>4. IsFiniteSet(scratch) /\ StoreBounded /\ CoverHeld
  BY <1>1, <1>2, RetainAssumption, FS_EmptySet DEF ArtInit, StoreBounded, CoverHeld
<1>5. NothingMissed
  BY <1>1, <1>3, DecisionFacts DEF NothingMissed
<1>. QED
  BY <1>1, <1>3, <1>4, <1>5 DEF ArtInv

LEMMA ArtNextInv == ArtInv /\ [ArtNext]_artVars => ArtInv'
<1>. SUFFICES ASSUME ArtInv, [ArtNext]_artVars PROVE ArtInv'
  OBVIOUS
<1>1. CASE PictureCleared \/ Republish \/ ArtdRestart
  BY <1>1, PictureClearedInv, RepublishInv, ArtdRestartInv
<1>2. ASSUME NEW image \in Images, Picture(image) \/ StoreFails(image) PROVE ArtInv'
  BY <1>2, PictureInv, StoreFailsInv
<1>3. CASE TakeSnapshot \/ Signal \/ LoseConnection
  BY <1>3, TakeSnapshotInv, SignalInv, LoseConnectionInv
<1>4. CASE Poll
  BY <1>4, DrainInv, DecideNothingInv, DecideClearInv, DecideShowInv, ShowInv DEF Poll
<1>5. CASE RendererRestart
  BY <1>5, RendererRestartInv
<1>6. CASE UNCHANGED artVars
  <2>1. /\ StreamInv' /\ told' = told
        /\ UNCHANGED <<state, store>> /\ UNCHANGED source
    BY <1>6, StreamNextInv DEF ArtInv, artVars, store, streamVars
  <2>2. ArtTypeOK'
    BY <2>1 DEF ArtInv, ArtTypeOK, StreamInv, store, source
  <2>. QED
    BY <2>1, <2>2, CoverKept, SourceKept DEF ArtInv
<1>. QED
  BY <1>1, <1>2, <1>3, <1>4, <1>5, <1>6 DEF ArtNext

----
(* The theorems *)

(* The inductive invariant holds throughout.                               *)
THEOREM ArtInvariance == ArtSpec => []ArtInv
BY ArtInitInv, ArtNextInv, PTL DEF ArtSpec

(* Every variable keeps its type; in particular a revision is never zero,  *)
(* which the renderer's memory has for none.                               *)
THEOREM ArtTypeCorrect == ArtSpec => []ArtTypeOK
<1>1. ArtInv => ArtTypeOK
  BY DEF ArtInv
<1>. QED
  BY <1>1, ArtInvariance, PTL

(* The staging directory never holds more images than configured, and for  *)
(* each failed write at most one scratch file.                           *)
THEOREM StoreTheorem == ArtSpec => []StoreBounded
<1>1. ArtInv => StoreBounded
  BY DEF ArtInv
<1>. QED
  BY <1>1, ArtInvariance, PTL

(* The file of the published cover is lost to copies of itself only.       *)
THEOREM ResendsTheorem == ArtSpec => []PathLostOnlyToResends
<1>1. ASSUME ArtInv, state # NoArt, state.path \notin files
      PROVE  Len(written) = Retain /\ \A path \in files : path.image = state.image
  <2>1. written \in Seq(Path) /\ files = { written[i] : i \in 1 .. Len(written) }
    BY <1>1, RangeEquality DEF ArtInv, ArtTypeOK, StoreBounded
  <2>2. Len(written) = Retain /\ CopiesFrom(1)
    BY <1>1, <2>1 DEF ArtInv, CoverHeld
  <2>. QED
    BY <2>1, <2>2 DEF CopiesFrom
<1>2. ArtInv => PathLostOnlyToResends
  BY <1>1 DEF PathLostOnlyToResends
<1>. QED
  BY <1>2, ArtInvariance, PTL

(* A render loop that sleeps has nothing left to decide.                   *)
THEOREM WakeupTheorem == ArtSpec => []NeverSleepsOnNews
<1>1. ArtInv => NeverSleepsOnNews
  BY DEF ArtInv, NothingMissed, NeverSleepsOnNews
<1>. QED
  BY <1>1, ArtInvariance, PTL
====
