---- MODULE RenderLoopProofs ----
(***************************************************************************)
(* The inductive invariant of the renderer, and what follows from it for   *)
(* any number of images, any ramps, panels and powers: what a sleeping     *)
(* loop leaves on the panel, which buffers and pictures are held, and that *)
(* the last image artd sent is the one on display.                         *)
(***************************************************************************)
EXTENDS RenderLoop, SequenceTheorems, FiniteSetTheorems, TLAPS

----
(* The inductive invariant *)

\* The pipeline is there from Open on, and nothing is drawn before.
PipelineInv ==
    /\ pc \in {"update", "admit", "decide", "flip", "probe", "asleep"} => display \in {"lit", "off"}
    /\ pc \in {"start", "connect", "open"} => display = "none" /\ front = Nothing

\* The source has a number left for the image it would hand out next.
SourceInv == live /\ news \in {"show", "upgrade"} => shows < MaxId

\* A blanked scene is to be off; between the update and the sleep a scene that
\* moves is one the loop knows it has to draw, and it only blanks what is to be off.
\* A scene that began to move is drawn, or blanked, before anything else happens.
SettledInv ==
    /\ scene.blanked => scene.power = "off"
    /\ pc \in {"decide", "flip", "probe"} => (Moves(scene) => due)
    /\ begun => \/ pc = "admit" /\ Moves(scene)
                \/ pc = "decide" /\ due
                \/ pc = "exited"
    /\ pc = "flip" => due /\ display = "lit"
    /\ pc = "probe" => /\ display = "off" => scene.power = "off"
                       /\ display = "lit" /\ ~due => scene.power # "off"
    /\ AsleepIsSettled

\* While the loop waits, its flip is queued or has happened and left an event;
\* otherwise the kernel reads the front buffer, or one it was not yet done with
\* when its flip timed out.  Without a late flip no event is left over.
ScannedInv ==
    /\ pc = "flip" => \/ queued /\ scanned = "front"
                      \/ ~queued /\ scanned = "flight" /\ event
    /\ pc # "flip" => \/ scanned = "front"
                      \/ scanned = "lost" /\ queued /\ late
    /\ ~late => /\ event \/ queued => pc = "flip"
                /\ ~(event /\ queued)

\* App::images has what the scene draws, and nothing but what the retain left;
\* a crossfade that runs has a picture to come from, or none to go to.
PicturesInv ==
    /\ scene.cross = Held \/ scene.cross.left > 0
    /\ scene.cross.left > 0 /\ scene.previous = Nothing => scene.current = Nothing
    /\ {scene.current, scene.previous} \ {Nothing} \subseteq images
    /\ \E a, b \in Images : images \subseteq {a, b}

\* The youngest picture between the source and the display.
Newest ==
    IF requests # <<>> THEN requests[Len(requests)]
    ELSE IF results # <<>> THEN results[Len(results)]
    ELSE IF batch # <<>> THEN batch[Len(batch)]
    ELSE scene.current

\* Results are admitted before anything else is; artd's images come in order,
\* and the youngest one on its way is the one asked for last.
QueuesInv ==
    /\ pc = "admit" <=> batch # <<>>
    /\ live => scene.current = Nothing \/ scene.current \in 0 .. shows
    /\ live => /\ requests \in Seq(0 .. shows)
               /\ results \in Seq(0 .. shows)
               /\ batch \in Seq(0 .. shows)
    /\ live /\ last # Nothing => Newest = last

\* What was drawn last is as RestShowsCover says.
Shown ==
    \/ front = scene.current
    \/ front = Nothing /\ (undrawn \/ scene.current \in images \ alive)
    \/ undrawn /\ (CrossFade = 0 \/ EnrichmentFade = 0)

\* A crossfade that began at this reading of the clock, away from a picture.
Fresh(s) == s.cross.left > 0 /\ s.cross.left = s.cross.span /\ s.previous # Nothing

ShownInv ==
    /\ pc \in {"update", "probe", "asleep"} =>
           /\ display = "lit" => Shown
           /\ display = "off" => scene.blanked
    /\ pc = "admit" => /\ display = "lit" => Shown \/ Fresh(scene)
                       /\ display = "off" => scene.blanked \/ scene.fade > 0
    /\ pc = "decide" => /\ display = "lit" => Shown \/ due
                        /\ display = "off" => scene.blanked \/ due
    /\ pc = "flip" => \/ flight = scene.current
                      \/ flight = Nothing /\ scene.current \in images \ alive

RenderInv ==
    /\ RenderTypeOK
    /\ PipelineInv
    /\ SourceInv
    /\ SettledInv
    /\ ScannedInv
    /\ PicturesInv
    /\ QueuesInv
    /\ ShownInv

----
(* The scene *)

\* No image is the value that stands for none.
LEMMA NoImage == Nothing \notin Images
BY RenderAssumption DEF Images

\* Whatever happens to a scene leaves a scene.
LEMMA SceneTypes ==
    ASSUME NEW s \in Scenes
    PROVE  /\ \A id \in Images, upgrade \in BOOLEAN : Present(s, id, upgrade) \in Scenes
           /\ Clear(s) \in Scenes
           /\ \A power \in DisplayPower : SetPower(s, power) \in Scenes
           /\ Frame(s) \in Scenes
<1>1. \A d \in Nat : Ramp(d) \in Ramps
  BY DEF Ramp, Ramps
<1>2. Held \in Ramps
  BY DEF Held, Ramps
<1>3. s.cross \in Ramps /\ Outgoing(s) \in Images \cup {Nothing}
  BY DEF Scenes, Outgoing
<1>4. ASSUME NEW id \in Images, NEW upgrade \in BOOLEAN
      PROVE  Present(s, id, upgrade) \in Scenes
  <2>1. (IF Outgoing(s) = Nothing THEN Held
         ELSE Ramp(IF upgrade THEN EnrichmentFade ELSE CrossFade)) \in Ramps
    BY <1>1, <1>2, RenderAssumption
  <2> QED
    BY <1>3, <2>1 DEF Present, Scenes
<1>5. Clear(s) \in Scenes
  BY <1>1, RenderAssumption DEF Clear, Scenes
<1>6. ASSUME NEW power \in DisplayPower
      PROVE  SetPower(s, power) \in Scenes
  BY RenderAssumption DEF SetPower, Scenes
<1>7. Frame(s) \in Scenes
  BY DEF Frame, Scenes
<1> QED
  BY <1>4, <1>5, <1>6, <1>7

\* SetPower leaves the pictures and their ramp alone, keeps what is blanked
\* to be off, and a change of power is a fade where a frame follows.
LEMMA SetPowerFacts ==
    ASSUME NEW s \in Scenes, NEW power \in DisplayPower, s.blanked => s.power = "off"
    PROVE  LET t == SetPower(s, power) IN
           /\ t.current = s.current /\ t.previous = s.previous /\ t.cross = s.cross
           /\ t.blanked => t.power = "off"
           /\ s.blanked => t.blanked \/ t.fade > 0
<1> DEFINE t == SetPower(s, power)
<1>1. CASE s.power = power
  BY <1>1 DEF SetPower, Scenes
<1>2. CASE s.power # power
  <2>1. t = [s EXCEPT !.power = power,
                      !.fade = IF power = "off" THEN FadeOut ELSE FadeIn,
                      !.blanked = @ /\ power = "off"]
    BY <1>2 DEF SetPower
  <2>2. /\ t.current = s.current /\ t.previous = s.previous /\ t.cross = s.cross
        /\ t.power = power
        /\ t.fade = IF power = "off" THEN FadeOut ELSE FadeIn
    BY <2>1 DEF Scenes
  <2>3. s.blanked \in BOOLEAN /\ t.blanked = (s.blanked /\ power = "off")
    BY <2>1 DEF Scenes
  <2> HIDE DEF t
  <2>4. power # "off" => t.fade > 0
    BY <2>2, RenderAssumption
  <2>5. /\ t.blanked => t.power = "off"
        /\ s.blanked => t.blanked \/ t.fade > 0
    BY <2>2, <2>3, <2>4, Zenon
  <2> QED
    BY <2>2, <2>5 DEF t
<1> QED
  BY <1>1, <1>2

\* A new scene is dark, still and empty.
LEMMA NewSceneFacts ==
    /\ NewScene \in Scenes
    /\ NewScene.current = Nothing /\ NewScene.previous = Nothing
    /\ NewScene.power = "off"
    /\ NewScene.cross = Held /\ ~Moves(NewScene)
<1>1. Held \in Ramps /\ Held.left = 0
  BY DEF Held, Ramps
<1>2. "off" \in DisplayPower
  BY RenderAssumption
<1>3. NewScene \in Scenes
  BY <1>1, <1>2 DEF NewScene, Scenes
<1> QED
  BY <1>1, <1>3 DEF NewScene, Moves

\* Time keeps a scene's pictures, and starts no ramp.
LEMMA LaterFacts ==
    ASSUME NEW s \in Scenes
    PROVE  /\ Later(s) \in Scenes
           /\ Later(s).current = s.current /\ Later(s).previous = s.previous
           /\ Later(s).power = s.power /\ Later(s).blanked = s.blanked
           /\ s.cross = Held => Later(s).cross = Held
           /\ Later(s).cross = Held \/ (Later(s).cross.left > 0 /\ s.cross.left > 0)
           /\ Moves(Later(s)) => Moves(s)
<1>1. s.cross \in Ramps /\ s.fade \in Nat
  BY DEF Scenes
<1>2. RampLater(s.cross) \in Ramps
  BY <1>1 DEF RampLater, Ramps, Held
<1>3. (IF s.fade > 0 THEN s.fade - 1 ELSE 0) \in Nat
  BY <1>1
<1>4. Later(s) \in Scenes
  BY <1>2, <1>3 DEF Later, Scenes
<1>5. /\ Later(s).current = s.current /\ Later(s).previous = s.previous
      /\ Later(s).power = s.power /\ Later(s).blanked = s.blanked
  BY DEF Later, Scenes
<1>6. Later(s).cross = RampLater(s.cross) /\ (Later(s).fade > 0 => s.fade > 0)
  BY <1>1 DEF Later, Scenes
<1>7. /\ s.cross = Held => RampLater(s.cross) = Held
      /\ RampLater(s.cross) = Held \/ (RampLater(s.cross).left > 0 /\ s.cross.left > 0)
  BY <1>1 DEF RampLater, Ramps, Held
<1>8. Moves(Later(s)) => Moves(s)
  BY <1>6, <1>7 DEF Moves, Held
<1> QED
  BY <1>4, <1>5, <1>6, <1>7, <1>8

----
(* The queues between the source and the scene *)

\* What taking the oldest picture leaves.
LEMMA TakeFacts ==
    ASSUME NEW S, NEW q \in Seq(S), q # <<>>
    PROVE  /\ Head(q) \in S /\ Tail(q) \in Seq(S)
           /\ Tail(q) = <<>> => Head(q) = q[Len(q)]
           /\ Tail(q) # <<>> => Tail(q)[Len(Tail(q))] = q[Len(q)]
<1>1. Len(q) \in Nat \ {0} /\ Len(Tail(q)) = Len(q) - 1 /\ Tail(q) \in Seq(S)
  BY HeadTailProperties, EmptySeq, LenProperties
<1>2. ASSUME Tail(q) = <<>>
      PROVE  Len(q) = 1
  <2>1. Len(Tail(q)) = 0
    BY <1>2, EmptySeq, Zenon
  <2>2. \A n \in Nat \ {0} : n - 1 = 0 => n = 1
    OBVIOUS
  <2> QED
    BY <1>1, <2>1, <2>2, Zenon
<1>3. Tail(q) # <<>> => Len(Tail(q)) \in 1 .. Len(q) - 1
  BY <1>1, EmptySeq, LenProperties
<1> QED
  BY <1>1, <1>2, <1>3, HeadTailProperties

\* What putting a picture at the end makes.
LEMMA PutFacts ==
    ASSUME NEW S, NEW q \in Seq(S), NEW id \in S
    PROVE  /\ Append(q, id) \in Seq(S)
           /\ Append(q, id) # <<>>
           /\ Append(q, id)[Len(Append(q, id))] = id
BY AppendProperties

----
(* What the update, the results and the frame do to the scene *)

\* A ramp that takes no time is over at once; any other has all of it left.
LEMMA RampFacts ==
    ASSUME NEW d \in Nat
    PROVE  /\ d = 0 => Ramp(d) = Held
           /\ d > 0 => Ramp(d).left > 0 /\ Ramp(d).left = Ramp(d).span
BY DEF Ramp, Held

\* Clearing starts the crossfade away from what was current.
LEMMA ClearFacts ==
    ASSUME NEW s \in Scenes
    PROVE  /\ Clear(s).current = Nothing /\ Clear(s).previous = s.current
           /\ Clear(s).cross = Ramp(CrossFade)
           /\ Clear(s).power = s.power /\ Clear(s).fade = s.fade
           /\ Clear(s).blanked = s.blanked
BY DEF Clear, Scenes

\* An image that is presented is current, next to one that was drawn before;
\* it leaves the powers alone, and either nothing happens, or it comes up at once
\* where there was none, or a crossfade begins, away from a picture.
LEMMA PresentFacts ==
    ASSUME NEW s \in Scenes, NEW id \in Images, NEW upgrade \in BOOLEAN,
           s.cross = Held \/ s.cross.left > 0,
           s.cross.left > 0 /\ s.previous = Nothing => s.current = Nothing
    PROVE  LET t == Present(s, id, upgrade) IN
           /\ t.current = id /\ t.previous \in {s.current, s.previous}
           /\ t.power = s.power /\ t.fade = s.fade /\ t.blanked = s.blanked
           /\ \/ t = s
              \/ t.cross = Held /\ s.current = Nothing /\ ~Fresh(s)
              \/ t.cross = Held /\ (CrossFade = 0 \/ EnrichmentFade = 0)
              \/ Fresh(t)
<1> DEFINE t == Present(s, id, upgrade)
<1>1. CASE s.current = id
  BY <1>1 DEF Present, Scenes
<1>2. CASE s.current # id
  <2> DEFINE duration == IF upgrade THEN EnrichmentFade ELSE CrossFade
             cross == IF Outgoing(s) = Nothing THEN Held ELSE Ramp(duration)
  <2>1. t = [s EXCEPT !.current = id, !.previous = Outgoing(s), !.cross = cross]
    BY <1>2 DEF Present
  <2>2. /\ duration \in Nat
        /\ duration = 0 => CrossFade = 0 \/ EnrichmentFade = 0
    BY RenderAssumption
  <2>3. Outgoing(s) \in {s.current, s.previous}
    BY DEF Outgoing
  <2>4. Outgoing(s) = Nothing => s.current = Nothing /\ ~Fresh(s)
    <3>1. s.cross.left \in Nat /\ s.cross.span \in Nat
      BY DEF Scenes, Ramps
    <3>2. \/ s.cross.left = 0 /\ s.cross.span = 0
          \/ s.cross.left > 0
      BY DEF Held
    <3> DEFINE left == s.cross.left
               span == s.cross.span
    <3>3. /\ Outgoing(s) = IF 2 * (span - left) < span THEN s.previous ELSE s.current
          /\ Fresh(s) <=> left > 0 /\ left = span /\ s.previous # Nothing
      BY DEF Outgoing, Fresh
    <3>4. /\ left = 0 /\ span = 0 => ~(2 * (span - left) < span)
          /\ left > 0 /\ left = span => 2 * (span - left) < span
      BY <3>1
    <3> HIDE DEF left, span
    <3>5. (left = 0 /\ span = 0) \/ left > 0
      BY <3>2 DEF left, span
    <3>6. left > 0 /\ s.previous = Nothing => s.current = Nothing
      BY DEF left
    <3>7. left = 0 => ~(left > 0)
      BY DEF left
    <3> QED
      BY <3>3, <3>4, <3>5, <3>6, <3>7, Zenon
  <2> HIDE DEF t, duration
  <2>5. \/ cross = Held /\ Outgoing(s) = Nothing
        \/ cross = Held /\ (CrossFade = 0 \/ EnrichmentFade = 0)
        \/ cross.left > 0 /\ cross.left = cross.span /\ Outgoing(s) # Nothing
    BY <2>2, RampFacts
  <2> HIDE DEF cross
  <2>6. /\ t.current = id /\ t.previous = Outgoing(s) /\ t.cross = cross
        /\ t.power = s.power /\ t.fade = s.fade /\ t.blanked = s.blanked
    BY <2>1 DEF Scenes
  <2>7. cross.left > 0 /\ cross.left = cross.span /\ Outgoing(s) # Nothing => Fresh(t)
    BY <2>6 DEF Fresh
  <2> QED
    BY <2>3, <2>4, <2>5, <2>6, <2>7 DEF t
<1> QED
  BY <1>1, <1>2

\* A frame ends the crossfade that is over, and blanks what is dark and to be off.
LEMMA FrameFacts ==
    ASSUME NEW s \in Scenes
    PROVE  /\ Frame(s).current = s.current /\ Frame(s).previous \in {s.previous, Nothing}
           /\ s.cross.left > 0 => Frame(s).previous = s.previous
           /\ Frame(s).cross = s.cross /\ Frame(s).fade = s.fade
           /\ Frame(s).power = s.power
           /\ Frame(s).blanked \in BOOLEAN
           /\ Frame(s).blanked <=> s.blanked \/ (s.fade = 0 /\ s.power = "off")
<1>1. /\ Frame(s).current = s.current
      /\ Frame(s).previous = IF s.cross.left = 0 THEN Nothing ELSE s.previous
      /\ Frame(s).cross = s.cross /\ Frame(s).fade = s.fade
      /\ Frame(s).power = s.power
  BY DEF Frame, Scenes
<1>2. /\ Frame(s).blanked \in BOOLEAN
      /\ Frame(s).blanked <=> s.blanked \/ (s.fade = 0 /\ s.power = "off")
  BY DEF Frame, Scenes
<1>3. s.cross.left > 0 => s.cross.left # 0
  BY DEF Scenes, Ramps
<1> QED
  BY <1>1, <1>2, <1>3, Zenon

\* What consuming the source's update leaves: the image it asks for last is
\* the last request, unless it asked for none; the current image stays or
\* fades out; and a dark scene stays dark or begins to fade in.
LEMMA ConsumeFacts ==
    ASSUME RenderInv, pc = "update", Consume
    PROVE  /\ shows' \in Nat /\ (live => shows <= shows' /\ shows' <= MaxId)
           /\ last' \in Images \cup {Nothing}
           /\ cleared' \in BOOLEAN
           /\ requests' \in Seq(Images)
           /\ live => requests' \in Seq(0 .. shows')
           /\ pending' \in Wanted \cup {Nothing}
           /\ live /\ last' # Nothing =>
                 \/ requests' # <<>> /\ requests'[Len(requests')] = last'
                 \/ requests' = requests /\ last' = last /\ scene'.current = scene.current
           /\ scene' \in Scenes
           /\ scene'.blanked => scene'.power = "off"
           /\ scene.blanked => scene'.blanked \/ scene'.fade > 0
           /\ \/ /\ scene'.current = scene.current /\ scene'.previous = scene.previous
                 /\ scene'.cross = scene.cross
              \/ /\ scene'.current = Nothing /\ scene'.previous = scene.current
                 /\ scene'.cross = Ramp(CrossFade) /\ (CrossFade = 0 => undrawn')
           /\ undrawn' \in BOOLEAN /\ (undrawn => undrawn')
<1>0. \A id \in Images, upgrade \in BOOLEAN : [id |-> id, upgrade |-> upgrade] \in Wanted
  BY DEF Wanted
<1>1. /\ scene \in Scenes /\ asked \in DisplayPower /\ shows \in Nat
      /\ last \in Images \cup {Nothing} /\ cleared \in BOOLEAN
      /\ requests \in Seq(Images) /\ pending \in Wanted \cup {Nothing}
      /\ undrawn \in BOOLEAN
      /\ live => shows <= MaxId
  BY DEF RenderInv, RenderTypeOK, SourceTypes, DecodeTypes, AppTypes, ScanTypes
<1>2. scene.blanked => scene.power = "off"
  BY DEF RenderInv, SettledInv
<1>3. live => requests \in Seq(0 .. shows)
  BY DEF RenderInv, QueuesInv
<1>4. \/ scene' = SetPower(scene, asked) /\ undrawn' = undrawn
      \/ scene' = SetPower(Clear(scene), asked) /\ undrawn' = (undrawn \/ CrossFade = 0)
  BY DEF Consume, ClearArtwork
<1>5. /\ scene' \in Scenes
      /\ scene'.blanked => scene'.power = "off"
      /\ scene.blanked => scene'.blanked \/ scene'.fade > 0
      /\ \/ /\ scene'.current = scene.current /\ scene'.previous = scene.previous
            /\ scene'.cross = scene.cross
         \/ /\ scene'.current = Nothing /\ scene'.previous = scene.current
            /\ scene'.cross = Ramp(CrossFade) /\ (CrossFade = 0 => undrawn')
      /\ undrawn' \in BOOLEAN /\ (undrawn => undrawn')
  <2>1. CASE scene' = SetPower(scene, asked) /\ undrawn' = undrawn
    <3>1. scene' \in Scenes
      BY <1>1, <2>1, SceneTypes
    <3> QED
      BY <1>1, <1>2, <2>1, <3>1, SetPowerFacts, Zenon
  <2>2. CASE scene' = SetPower(Clear(scene), asked) /\ undrawn' = (undrawn \/ CrossFade = 0)
    <3>1. Clear(scene) \in Scenes
      BY <1>1, SceneTypes
    <3>2. /\ Clear(scene).current = Nothing /\ Clear(scene).previous = scene.current
          /\ Clear(scene).cross = Ramp(CrossFade)
          /\ Clear(scene).power = scene.power /\ Clear(scene).blanked = scene.blanked
      BY <1>1, ClearFacts
    <3>3. scene' \in Scenes
      BY <1>1, <2>2, <3>1, SceneTypes
    <3>4. Clear(scene).blanked => Clear(scene).power = "off"
      BY <1>2, <3>2, Zenon
    <3>5. /\ scene'.current = Clear(scene).current /\ scene'.previous = Clear(scene).previous
          /\ scene'.cross = Clear(scene).cross
          /\ scene'.blanked => scene'.power = "off"
          /\ Clear(scene).blanked => scene'.blanked \/ scene'.fade > 0
      BY <1>1, <2>2, <3>1, <3>4, SetPowerFacts, Zenon
    <3>6. scene'.cross = Ramp(CrossFade) /\ (CrossFade = 0 => undrawn')
      BY <2>2, <3>2, <3>5, Zenon
    <3>7. undrawn' \in BOOLEAN /\ (undrawn => undrawn')
      BY <1>1, <2>2
    <3> QED
      BY <3>2, <3>3, <3>5, <3>6, <3>7, Zenon
  <2> QED
    BY <1>4, <2>1, <2>2
<1>6. CASE /\ news = "none"
           /\ scene' = SetPower(scene, asked)
           /\ UNCHANGED <<shows, cleared, last, requests, pending>>
  <2>1. scene'.current = scene.current
    BY <1>1, <1>2, <1>6, SetPowerFacts
  <2> QED
    BY <1>1, <1>3, <1>5, <1>6, <2>1
<1>7. CASE /\ news \in {"show", "upgrade"}
           /\ shows' = NextImage
           /\ last' = NextImage
           /\ cleared' = FALSE
           /\ IF scene.current = NextImage
              THEN UNCHANGED <<requests, pending>>
              ELSE Request(NextImage, news = "upgrade")
  <2>1. NextImage \in Images /\ NextImage \in Nat
    BY <1>1, <1>7, RenderAssumption DEF RenderInv, SourceInv, NextImage, Images
  <2>2. ASSUME live
        PROVE  /\ NextImage \in 0 .. NextImage /\ shows <= NextImage /\ NextImage <= MaxId
               /\ scene.current # NextImage
               /\ requests \in Seq(0 .. NextImage)
    <3>1. NextImage = shows + 1
      BY <2>2 DEF NextImage
    <3>2. shows < MaxId /\ (scene.current = Nothing \/ scene.current \in 0 .. shows)
      BY <1>7, <2>2 DEF RenderInv, SourceInv, QueuesInv
    <3>3. requests \in Seq(0 .. NextImage)
      <4>1. 0 .. shows \subseteq 0 .. NextImage
        BY <1>1, <3>1
      <4> QED
        BY <1>3, <2>2, <4>1, SeqMonotonic
    <3> QED
      BY <1>1, <3>1, <3>2, <3>3, RenderAssumption
  <2>3. /\ requests' \in Seq(Images) /\ pending' \in Wanted \cup {Nothing}
        /\ scene.current # NextImage => requests' = Append(requests, NextImage)
    <3>1. CASE scene.current = NextImage
      BY <1>1, <1>7, <3>1
    <3>2. CASE scene.current # NextImage
      <4>1. requests' = Append(requests, NextImage)
        BY <1>7, <3>2 DEF Request
      <4>2. pending' = [id |-> NextImage, upgrade |-> news = "upgrade"]
        BY <1>7, <3>2 DEF Request
      <4>3. pending' \in Wanted
        BY <2>1, <4>2, <1>0, (news = "upgrade") \in BOOLEAN, Zenon
      <4> QED
        BY <1>1, <2>1, <4>1, <4>3, PutFacts
    <3> QED
      BY <3>1, <3>2
  <2>4. /\ shows' \in Nat /\ (live => shows <= shows' /\ shows' <= MaxId)
        /\ last' \in Images \cup {Nothing} /\ cleared' \in BOOLEAN
    BY <1>7, <2>1, <2>2
  <2>5. ASSUME live
        PROVE  /\ requests' \in Seq(0 .. shows')
               /\ requests' # <<>> /\ requests'[Len(requests')] = last'
    BY <1>7, <2>2, <2>3, <2>5, PutFacts, SMTT(30)
  <2> QED
    BY <1>5, <2>3, <2>4, <2>5
<1>8. CASE /\ news = "clear"
           /\ last' = Nothing
           /\ cleared' = TRUE
           /\ ClearArtwork
           /\ UNCHANGED shows
  <2>1. 0 \in Images /\ Placeholder = 0 /\ (live => 0 \in 0 .. shows)
    BY <1>1, RenderAssumption DEF Images, Placeholder
  <2>2. \/ requests' = requests /\ pending' \in {pending, Nothing}
        \/ requests' = Append(requests, 0) /\ pending' = [id |-> 0, upgrade |-> FALSE]
    BY <1>8, <2>1 DEF ClearArtwork, Request
  <2>3. /\ requests' \in Seq(Images)
        /\ live => requests' \in Seq(0 .. shows)
    BY <1>1, <1>3, <2>1, <2>2, PutFacts, SMTT(30)
  <2>4. pending' \in Wanted \cup {Nothing}
    <3>1. [id |-> 0, upgrade |-> FALSE] \in Wanted
      BY <1>0, <2>1, FALSE \in BOOLEAN, Zenon
    <3> QED
      BY <1>1, <2>2, <3>1
  <2> QED
    BY <1>1, <1>5, <1>8, <2>3, <2>4
<1> QED
  BY <1>6, <1>7, <1>8 DEF Consume
----
(* One lemma per step: it preserves the invariant *)

\* Nothing is there yet when the process begins.
LEMMA StartStep ==
    ASSUME RenderInv, Start
    PROVE  RenderInv'
<1> USE DEF RenderInv, Start,
            sourceVars, decodeVars, appVars, kernelVars, scanVars, pipeVars
<1>1. RenderTypeOK'
  BY DEF RenderTypeOK, SourceTypes, DecodeTypes, AppTypes, KernelTypes, ScanTypes, PipeTypes
<1>2. PipelineInv'
  BY DEF PipelineInv
<1>3. SourceInv'
  BY DEF SourceInv
<1>4. SettledInv'
  BY DEF SettledInv, AsleepIsSettled, Moves
<1>5. ScannedInv'
  BY DEF ScannedInv
<1>6. PicturesInv'
  BY DEF PicturesInv
<1>7. QueuesInv'
  BY DEF QueuesInv, Newest
<1>8. ShownInv'
  BY DEF ShownInv, Shown
<1> QED
  BY <1>1, <1>2, <1>3, <1>4, <1>5, <1>6, <1>7, <1>8

\* A panel ends the wait for one.
LEMMA ConnectedStep ==
    ASSUME RenderInv, Connected
    PROVE  RenderInv'
<1> USE DEF RenderInv, Connected,
            sourceVars, decodeVars, appVars, kernelVars, scanVars, pipeVars
<1>1. RenderTypeOK'
  BY DEF RenderTypeOK, SourceTypes, DecodeTypes, AppTypes, KernelTypes, ScanTypes, PipeTypes
<1>2. PipelineInv'
  BY DEF PipelineInv
<1>3. SourceInv'
  BY DEF SourceInv
<1>4. SettledInv'
  BY DEF SettledInv, AsleepIsSettled, Moves
<1>5. ScannedInv'
  BY DEF ScannedInv
<1>6. PicturesInv'
  BY DEF PicturesInv
<1>7. QueuesInv'
  BY DEF QueuesInv, Newest
<1>8. ShownInv'
  BY DEF ShownInv, Shown
<1> QED
  BY <1>1, <1>2, <1>3, <1>4, <1>5, <1>6, <1>7, <1>8

\* A new pipeline is lit, and nothing was drawn with it.
LEMMA OpenStep ==
    ASSUME RenderInv, Open
    PROVE  RenderInv'
<1> USE DEF RenderInv, Open,
            sourceVars, decodeVars, appVars, kernelVars, scanVars, pipeVars
<1>1. RenderTypeOK'
  <2>1. (SourceTypes /\ DecodeTypes /\ AppTypes /\ KernelTypes)'
    BY DEF RenderTypeOK, SourceTypes, DecodeTypes, AppTypes, KernelTypes
  <2>2. ScanTypes'
    BY DEF RenderTypeOK, ScanTypes
  <2>3. PipeTypes'
    BY DEF RenderTypeOK, KernelTypes, PipeTypes
  <2> QED
    BY <2>1, <2>2, <2>3 DEF RenderTypeOK
<1>2. PipelineInv'
  BY DEF PipelineInv
<1>3. SourceInv'
  BY DEF SourceInv
<1>4. SettledInv'
  BY DEF SettledInv, AsleepIsSettled, Moves
<1>5. ScannedInv'
  BY DEF ScannedInv
<1>6. PicturesInv'
  BY DEF PicturesInv
<1>7. QueuesInv'
  BY DEF QueuesInv, Newest
<1>8. ShownInv'
  BY DEF ShownInv, Shown, PipelineInv
<1> QED
  BY <1>1, <1>2, <1>3, <1>4, <1>5, <1>6, <1>7, <1>8

\* A flip that is seen puts its buffer in front.
LEMMA FlipSeenStep ==
    ASSUME RenderInv, FlipSeen
    PROVE  RenderInv'
<1> USE DEF RenderInv, FlipSeen, Release,
            sourceVars, decodeVars, appVars, kernelVars, scanVars, pipeVars
<1>1. RenderTypeOK'
  <2>1. (SourceTypes /\ DecodeTypes /\ AppTypes /\ PipeTypes)'
    BY DEF RenderTypeOK, SourceTypes, DecodeTypes, AppTypes, PipeTypes
  <2>2. KernelTypes'
    BY DEF RenderTypeOK, KernelTypes
  <2>3. ScanTypes'
    BY DEF RenderTypeOK, ScanTypes
  <2> QED
    BY <2>1, <2>2, <2>3 DEF RenderTypeOK
<1>2. PipelineInv'
  BY DEF PipelineInv
<1>3. SourceInv'
  BY DEF SourceInv
<1>4. SettledInv'
  BY DEF SettledInv, AsleepIsSettled, Moves
<1>5. ScannedInv'
  BY DEF ScannedInv
<1>6. PicturesInv'
  BY DEF PicturesInv
<1>7. QueuesInv'
  BY DEF QueuesInv, Newest
<1>8. ShownInv'
  BY DEF ShownInv, Shown, SettledInv, PipelineInv
<1> QED
  BY <1>1, <1>2, <1>3, <1>4, <1>5, <1>6, <1>7, <1>8

\* A flip that is late leaves the kernel with the buffer given back.
LEMMA FlipTimeoutStep ==
    ASSUME RenderInv, FlipTimeout
    PROVE  RenderInv'
<1> USE DEF RenderInv, FlipTimeout, Release,
            sourceVars, decodeVars, appVars, kernelVars, scanVars, pipeVars
<1>1. RenderTypeOK'
  <2>1. (SourceTypes /\ DecodeTypes /\ AppTypes /\ KernelTypes /\ PipeTypes)'
    BY DEF RenderTypeOK, SourceTypes, DecodeTypes, AppTypes, KernelTypes, PipeTypes
  <2>2. ScanTypes'
    BY DEF RenderTypeOK, ScanTypes
  <2> QED
    BY <2>1, <2>2 DEF RenderTypeOK
<1>2. PipelineInv'
  BY DEF PipelineInv
<1>3. SourceInv'
  BY DEF SourceInv
<1>4. SettledInv'
  BY DEF SettledInv, AsleepIsSettled, Moves
<1>5. ScannedInv'
  BY DEF ScannedInv
<1>6. PicturesInv'
  BY DEF PicturesInv
<1>7. QueuesInv'
  BY DEF QueuesInv, Newest
<1>8. ShownInv'
  BY DEF ShownInv, Shown, SettledInv, PipelineInv
<1> QED
  BY <1>1, <1>2, <1>3, <1>4, <1>5, <1>6, <1>7, <1>8

\* Going round, going to sleep, or letting go of the pipeline.
LEMMA ProbeStep ==
    ASSUME RenderInv, Probe
    PROVE  RenderInv'
<1> USE DEF RenderInv, Probe, GoOn, DropDisplay,
            sourceVars, decodeVars, appVars, kernelVars, scanVars, pipeVars
<1>1. RenderTypeOK'
  <2>1. (SourceTypes /\ DecodeTypes)'
    BY DEF RenderTypeOK, SourceTypes, DecodeTypes
  <2>2. AppTypes'
    BY DEF RenderTypeOK, AppTypes
  <2>3. KernelTypes'
    BY DEF RenderTypeOK, KernelTypes
  <2>4. ScanTypes'
    BY DEF RenderTypeOK, ScanTypes
  <2>5. PipeTypes'
    BY DEF RenderTypeOK, PipeTypes
  <2> QED
    BY <2>1, <2>2, <2>3, <2>4, <2>5 DEF RenderTypeOK
<1>2. PipelineInv'
  BY DEF PipelineInv
<1>3. SourceInv'
  BY DEF SourceInv
<1>4. SettledInv'
  BY DEF SettledInv, PipelineInv, AsleepIsSettled, Moves
<1>5. ScannedInv'
  BY DEF ScannedInv, RenderTypeOK, KernelTypes, ScanTypes
<1>6. PicturesInv'
  BY DEF PicturesInv
<1>7. QueuesInv'
  BY DEF QueuesInv, Newest
<1>8. ShownInv'
  BY DEF ShownInv, Shown
<1> QED
  BY <1>1, <1>2, <1>3, <1>4, <1>5, <1>6, <1>7, <1>8

\* The drain after the sleep takes the events of late flips.
LEMMA WakeStep ==
    ASSUME RenderInv, Wake
    PROVE  RenderInv'
<1> USE DEF RenderInv, Wake,
            sourceVars, decodeVars, appVars, kernelVars, scanVars, pipeVars
<1>1. RenderTypeOK'
  <2>1. (SourceTypes /\ DecodeTypes /\ AppTypes /\ PipeTypes)'
    BY DEF RenderTypeOK, SourceTypes, DecodeTypes, AppTypes, PipeTypes
  <2>2. KernelTypes'
    BY DEF RenderTypeOK, KernelTypes
  <2>3. ScanTypes'
    BY DEF RenderTypeOK, ScanTypes
  <2> QED
    BY <2>1, <2>2, <2>3 DEF RenderTypeOK
<1>2. PipelineInv'
  BY DEF PipelineInv
<1>3. SourceInv'
  BY DEF SourceInv
<1>4. SettledInv'
  BY DEF SettledInv, AsleepIsSettled, Moves
<1>5. ScannedInv'
  BY DEF ScannedInv
<1>6. PicturesInv'
  BY DEF PicturesInv
<1>7. QueuesInv'
  BY DEF QueuesInv, Newest
<1>8. ShownInv'
  BY DEF ShownInv, Shown
<1> QED
  BY <1>1, <1>2, <1>3, <1>4, <1>5, <1>6, <1>7, <1>8

\* A process that ended leaves nothing behind.
LEMMA RestartStep ==
    ASSUME RenderInv, Restart
    PROVE  RenderInv'
<1> USE DEF RenderInv, Restart,
            sourceVars, decodeVars, appVars, kernelVars, scanVars, pipeVars
<1>1. RenderTypeOK'
  <2>1. SourceTypes'
    <3>1. asked' \in DisplayPower
      BY RenderAssumption
    <3>2. shows' \in Nat /\ shows' <= MaxId
      BY RenderAssumption
    <3>3. /\ live' = live /\ placeholder' = placeholder /\ news' = "none"
          /\ cleared' = FALSE /\ last' = Nothing
      OBVIOUS
    <3>4. live \in BOOLEAN /\ placeholder \in BOOLEAN
      BY DEF RenderTypeOK, SourceTypes
    <3> QED
      BY <3>1, <3>2, <3>3, <3>4, Zenon DEF SourceTypes
  <2>2. DecodeTypes'
    BY DEF RenderTypeOK, DecodeTypes
  <2>3. AppTypes'
    BY NewSceneFacts DEF AppTypes
  <2>4. KernelTypes'
    BY DEF RenderTypeOK, KernelTypes
  <2>5. ScanTypes'
    BY DEF RenderTypeOK, ScanTypes
  <2>6. PipeTypes'
    BY DEF RenderTypeOK, PipeTypes
  <2> QED
    BY <2>1, <2>2, <2>3, <2>4, <2>5, <2>6 DEF RenderTypeOK
<1>2. PipelineInv'
  BY DEF PipelineInv
<1>3. SourceInv'
  BY DEF SourceInv
<1>4. SettledInv'
  BY NewSceneFacts DEF SettledInv, AsleepIsSettled
<1>5. ScannedInv'
  BY DEF ScannedInv
<1>6. PicturesInv'
  <2>1. 0 \in Images
    BY RenderAssumption DEF Images
  <2> QED
    BY <2>1, NewSceneFacts DEF PicturesInv
<1>7. QueuesInv'
  BY NewSceneFacts DEF QueuesInv, Newest
<1>8. ShownInv'
  BY DEF ShownInv, Shown
<1> QED
  BY <1>1, <1>2, <1>3, <1>4, <1>5, <1>6, <1>7, <1>8

\* A snapshot only tells the reader what to say next.
LEMMA SnapshotStep ==
    ASSUME RenderInv, Snapshot
    PROVE  RenderInv'
<1> USE DEF RenderInv, Snapshot,
            sourceVars, decodeVars, appVars, kernelVars, scanVars, pipeVars
<1>1. RenderTypeOK'
  <2>1. (DecodeTypes /\ AppTypes /\ KernelTypes /\ ScanTypes /\ PipeTypes)'
    BY DEF RenderTypeOK, DecodeTypes, AppTypes, KernelTypes, ScanTypes, PipeTypes
  <2>2. SourceTypes'
    BY DEF RenderTypeOK, SourceTypes
  <2> QED
    BY <2>1, <2>2 DEF RenderTypeOK
<1>2. PipelineInv'
  BY DEF PipelineInv
<1>3. SourceInv'
  BY DEF SourceInv
<1>4. SettledInv'
  BY DEF SettledInv, AsleepIsSettled, Moves
<1>5. ScannedInv'
  BY DEF ScannedInv
<1>6. PicturesInv'
  BY DEF PicturesInv
<1>7. QueuesInv'
  BY DEF QueuesInv, Newest
<1>8. ShownInv'
  BY DEF ShownInv, Shown
<1> QED
  BY <1>1, <1>2, <1>3, <1>4, <1>5, <1>6, <1>7, <1>8

\* So does the interval of the slide show.
LEMMA NextSlideStep ==
    ASSUME RenderInv, NextSlide
    PROVE  RenderInv'
<1> USE DEF RenderInv, NextSlide,
            sourceVars, decodeVars, appVars, kernelVars, scanVars, pipeVars
<1>1. RenderTypeOK'
  <2>1. (DecodeTypes /\ AppTypes /\ KernelTypes /\ ScanTypes /\ PipeTypes)'
    BY DEF RenderTypeOK, DecodeTypes, AppTypes, KernelTypes, ScanTypes, PipeTypes
  <2>2. SourceTypes'
    BY DEF RenderTypeOK, SourceTypes
  <2> QED
    BY <2>1, <2>2 DEF RenderTypeOK
<1>2. PipelineInv'
  BY DEF PipelineInv
<1>3. SourceInv'
  BY DEF SourceInv
<1>4. SettledInv'
  BY DEF SettledInv, AsleepIsSettled, Moves
<1>5. ScannedInv'
  BY DEF ScannedInv
<1>6. PicturesInv'
  BY DEF PicturesInv
<1>7. QueuesInv'
  BY DEF QueuesInv, Newest
<1>8. ShownInv'
  BY DEF ShownInv, Shown
<1> QED
  BY <1>1, <1>2, <1>3, <1>4, <1>5, <1>6, <1>7, <1>8

\* Decoding moves a picture on, in its order.
LEMMA DecodeStep ==
    ASSUME RenderInv, Decode
    PROVE  RenderInv'
<1> USE DEF RenderInv, Decode,
            sourceVars, decodeVars, appVars, kernelVars, scanVars, pipeVars
<1>1. RenderTypeOK'
  <2>1. (SourceTypes /\ AppTypes /\ KernelTypes /\ ScanTypes /\ PipeTypes)'
    BY DEF RenderTypeOK, SourceTypes, AppTypes, KernelTypes, ScanTypes, PipeTypes
  <2>2. DecodeTypes'
    BY DEF RenderTypeOK, DecodeTypes
  <2> QED
    BY <2>1, <2>2 DEF RenderTypeOK
<1>2. PipelineInv'
  BY DEF PipelineInv
<1>3. SourceInv'
  BY DEF SourceInv
<1>4. SettledInv'
  BY DEF SettledInv, AsleepIsSettled, Moves
<1>5. ScannedInv'
  BY DEF ScannedInv
<1>6. PicturesInv'
  BY DEF PicturesInv
<1>7. QueuesInv'
  <2>1. /\ requests \in Seq(Images) /\ results \in Seq(Images)
        /\ requests # <<>> /\ results' # <<>> /\ results' = Append(results, Head(requests))
        /\ requests' = Tail(requests)
    BY DEF RenderTypeOK, DecodeTypes
  <2>2. Newest' = Newest
    BY <2>1, TakeFacts, PutFacts DEF Newest
  <2>3. ASSUME live
        PROVE  requests' \in Seq(0 .. shows) /\ results' \in Seq(0 .. shows)
    <3>1. requests \in Seq(0 .. shows) /\ results \in Seq(0 .. shows)
      BY <2>3 DEF QueuesInv
    <3>2. Head(requests) \in 0 .. shows /\ Tail(requests) \in Seq(0 .. shows)
      BY <2>1, <3>1, TakeFacts
    <3>3. Append(results, Head(requests)) \in Seq(0 .. shows)
      BY <3>1, <3>2, PutFacts
    <3> QED
      BY <2>1, <3>2, <3>3
  <2> QED
    BY <2>2, <2>3 DEF QueuesInv
<1>8. ShownInv'
  BY DEF ShownInv, Shown
<1> QED
  BY <1>1, <1>2, <1>3, <1>4, <1>5, <1>6, <1>7, <1>8

\* The flip that happens is the one the loop waits for, or a late one.
LEMMA FlipDoneStep ==
    ASSUME RenderInv, FlipDone
    PROVE  RenderInv'
<1> USE DEF RenderInv, FlipDone,
            sourceVars, decodeVars, appVars, kernelVars, scanVars, pipeVars
<1>1. RenderTypeOK'
  <2>1. (SourceTypes /\ DecodeTypes /\ AppTypes /\ PipeTypes)'
    BY DEF RenderTypeOK, SourceTypes, DecodeTypes, AppTypes, PipeTypes
  <2>2. KernelTypes'
    BY DEF RenderTypeOK, KernelTypes
  <2>3. ScanTypes'
    BY DEF RenderTypeOK, ScanTypes
  <2> QED
    BY <2>1, <2>2, <2>3 DEF RenderTypeOK
<1>2. PipelineInv'
  BY DEF PipelineInv
<1>3. SourceInv'
  BY DEF SourceInv
<1>4. SettledInv'
  BY DEF SettledInv, AsleepIsSettled, Moves
<1>5. ScannedInv'
  BY DEF ScannedInv
<1>6. PicturesInv'
  BY DEF PicturesInv
<1>7. QueuesInv'
  BY DEF QueuesInv, Newest
<1>8. ShownInv'
  BY DEF ShownInv, Shown
<1> QED
  BY <1>1, <1>2, <1>3, <1>4, <1>5, <1>6, <1>7, <1>8

\* The connector changes nothing but itself.
LEMMA HotplugStep ==
    ASSUME RenderInv, Hotplug
    PROVE  RenderInv'
<1> USE DEF RenderInv, Hotplug,
            sourceVars, decodeVars, appVars, kernelVars, scanVars, pipeVars
<1>1. RenderTypeOK'
  <2>1. (SourceTypes /\ DecodeTypes /\ AppTypes /\ ScanTypes /\ PipeTypes)'
    BY DEF RenderTypeOK, SourceTypes, DecodeTypes, AppTypes, ScanTypes, PipeTypes
  <2>2. KernelTypes'
    BY RenderAssumption DEF RenderTypeOK, KernelTypes
  <2> QED
    BY <2>1, <2>2 DEF RenderTypeOK
<1>2. PipelineInv'
  BY DEF PipelineInv
<1>3. SourceInv'
  BY DEF SourceInv
<1>4. SettledInv'
  BY DEF SettledInv, AsleepIsSettled, Moves
<1>5. ScannedInv'
  BY DEF ScannedInv
<1>6. PicturesInv'
  BY DEF PicturesInv
<1>7. QueuesInv'
  BY DEF QueuesInv, Newest
<1>8. ShownInv'
  BY DEF ShownInv, Shown
<1> QED
  BY <1>1, <1>2, <1>3, <1>4, <1>5, <1>6, <1>7, <1>8

\* Time only ends ramps.
LEMMA AdvanceStep ==
    ASSUME RenderInv, Advance
    PROVE  RenderInv'
<1> USE DEF RenderInv, Advance,
            sourceVars, decodeVars, appVars, kernelVars, scanVars, pipeVars
<1>1. RenderTypeOK'
  <2>1. (SourceTypes /\ DecodeTypes /\ KernelTypes /\ ScanTypes /\ PipeTypes)'
    BY DEF RenderTypeOK, SourceTypes, DecodeTypes, KernelTypes, ScanTypes, PipeTypes
  <2>2. AppTypes'
    BY LaterFacts DEF Advance, RenderTypeOK, AppTypes
  <2> QED
    BY <2>1, <2>2 DEF RenderTypeOK
<1>2. PipelineInv'
  BY DEF PipelineInv
<1>3. SourceInv'
  BY DEF SourceInv
<1>4. SettledInv'
  BY LaterFacts DEF Advance, SettledInv, AsleepIsSettled, RenderTypeOK, AppTypes
<1>5. ScannedInv'
  BY DEF ScannedInv
<1>6. PicturesInv'
  BY LaterFacts DEF Advance, PicturesInv, RenderTypeOK, AppTypes
<1>7. QueuesInv'
  BY LaterFacts DEF Advance, QueuesInv, Newest, RenderTypeOK, AppTypes
<1>8. ShownInv'
  BY LaterFacts DEF Advance, ShownInv, Shown, RenderTypeOK, AppTypes
<1> QED
  BY <1>1, <1>2, <1>3, <1>4, <1>5, <1>6, <1>7, <1>8

\* The update, with the results it polls: the queues move up by one place.
LEMMA UpdateStep ==
    ASSUME RenderInv, Update
    PROVE  RenderInv'
<1>1. /\ pc = "update" /\ Consume /\ news' = "none"
      /\ batch' = results /\ results' = <<>>
      /\ begun' = IF scene' = scene THEN begun ELSE Moves(scene')
      /\ IF results = <<>> THEN pc' = "decide" /\ due' = Moves(scene')
         ELSE pc' = "admit" /\ due' = due
      /\ UNCHANGED <<live, placeholder, asked, images, kernelVars, front, flight, scanned, late,
                     pipeVars>>
  BY DEF Update, Admitted, NeedsFrame, Moves
<1>2. /\ shows' \in Nat /\ (live => shows <= shows' /\ shows' <= MaxId)
      /\ last' \in Images \cup {Nothing}
      /\ cleared' \in BOOLEAN
      /\ requests' \in Seq(Images)
      /\ live => requests' \in Seq(0 .. shows')
      /\ pending' \in Wanted \cup {Nothing}
      /\ live /\ last' # Nothing =>
            \/ requests' # <<>> /\ requests'[Len(requests')] = last'
            \/ requests' = requests /\ last' = last /\ scene'.current = scene.current
  BY <1>1, ConsumeFacts
<1>3. /\ scene' \in Scenes
      /\ scene'.blanked => scene'.power = "off"
      /\ scene.blanked => scene'.blanked \/ scene'.fade > 0
      /\ \/ /\ scene'.current = scene.current /\ scene'.previous = scene.previous
            /\ scene'.cross = scene.cross
         \/ /\ scene'.current = Nothing /\ scene'.previous = scene.current
            /\ scene'.cross = Ramp(CrossFade) /\ (CrossFade = 0 => undrawn')
      /\ undrawn' \in BOOLEAN /\ (undrawn => undrawn')
  BY <1>1, ConsumeFacts
<1>4. batch = <<>> /\ results \in Seq(Images)
  BY <1>1 DEF RenderInv, QueuesInv, RenderTypeOK, DecodeTypes
<1>5. RenderTypeOK'
  <2>1. SourceTypes'
    <3>1. live' \in BOOLEAN /\ placeholder' \in BOOLEAN /\ asked' \in DisplayPower
      BY <1>1 DEF RenderInv, RenderTypeOK, SourceTypes
    <3> QED
      BY <1>1, <1>2, <3>1, Zenon DEF SourceTypes
  <2>2. DecodeTypes'
    BY <1>1, <1>2, <1>4 DEF DecodeTypes
  <2>3. AppTypes'
    <3>1. due' \in BOOLEAN
      BY <1>1 DEF RenderInv, RenderTypeOK, AppTypes, Moves
    <3>2. images' \in SUBSET Images
      BY <1>1 DEF RenderInv, RenderTypeOK, AppTypes
    <3> QED
      BY <1>2, <1>3, <3>1, <3>2, Zenon DEF AppTypes
  <2>4. (KernelTypes /\ ScanTypes /\ PipeTypes)'
    <3>1. begun' \in BOOLEAN
      BY <1>1 DEF RenderInv, RenderTypeOK, ScanTypes, Moves
    <3> QED
      BY <1>1, <1>3, <3>1 DEF RenderInv, RenderTypeOK, KernelTypes, ScanTypes, PipeTypes,
                              kernelVars, pipeVars
  <2>5. pc' \in {"admit", "decide"}
    BY <1>1
  <2> QED
    BY <2>1, <2>2, <2>3, <2>4, <2>5 DEF RenderTypeOK
<1>6. PipelineInv'
  BY <1>1 DEF RenderInv, PipelineInv, pipeVars
<1>7. SourceInv'
  BY <1>1 DEF SourceInv
<1>8. SettledInv'
  <2>1. ~begun
    BY <1>1 DEF RenderInv, SettledInv
  <2>2. begun' => (pc' = "admit" /\ Moves(scene)') \/ (pc' = "decide" /\ due')
    BY <1>1, <2>1, Zenon DEF Moves
  <2> QED
    BY <1>1, <1>3, <2>2 DEF SettledInv, AsleepIsSettled
<1>9. ScannedInv'
  BY <1>1 DEF RenderInv, ScannedInv, kernelVars
<1>10. PicturesInv'
  <2>1. Ramp(CrossFade) = Held \/ Ramp(CrossFade).left > 0
    BY RenderAssumption, RampFacts
  <2> QED
    BY <1>1, <1>3, <2>1 DEF RenderInv, PicturesInv
<1>11. QueuesInv'
  <2>1. pc' = "admit" <=> batch' # <<>>
    BY <1>1
  <2>2. ASSUME live
        PROVE  /\ scene'.current = Nothing \/ scene'.current \in 0 .. shows'
               /\ requests' \in Seq(0 .. shows') /\ results' \in Seq(0 .. shows')
               /\ batch' \in Seq(0 .. shows')
    <3>1. shows \in Nat /\ 0 .. shows \subseteq 0 .. shows'
      BY <1>2, <2>2 DEF RenderInv, RenderTypeOK, SourceTypes
    <3>2. /\ scene.current = Nothing \/ scene.current \in 0 .. shows
          /\ results \in Seq(0 .. shows)
      BY <2>2 DEF RenderInv, QueuesInv
    <3>3. batch' \in Seq(0 .. shows')
      BY <1>1, <3>1, <3>2, SeqMonotonic
    <3>4. results' \in Seq(0 .. shows')
      BY <1>1
    <3> QED
      BY <1>2, <1>3, <2>2, <3>1, <3>2, <3>3, <3>4
  <2>3. ASSUME live, last' # Nothing
        PROVE  Newest' = last'
    <3>1. CASE requests' # <<>> /\ requests'[Len(requests')] = last'
      BY <3>1 DEF Newest
    <3>2. CASE requests' = requests /\ last' = last /\ scene'.current = scene.current
      <4>1. Newest = last
        BY <2>3, <3>2 DEF RenderInv, QueuesInv
      <4> QED
        BY <1>1, <1>4, <3>2, <4>1 DEF Newest
    <3> QED
      BY <1>2, <2>3, <3>1, <3>2
  <2>4. live' = live
    BY <1>1
  <2> QED
    BY <2>1, <2>2, <2>3, <2>4 DEF QueuesInv
<1>12. ShownInv'
  <2>1. /\ display = "lit" => Shown
        /\ display = "off" => scene.blanked
    BY <1>1 DEF RenderInv, ShownInv
  <2>2. display = "lit" => Shown' \/ Fresh(scene')
    <3>1. CASE /\ scene'.current = scene.current /\ scene'.previous = scene.previous
               /\ scene'.cross = scene.cross
      BY <1>1, <1>3, <2>1, <3>1 DEF Shown, pipeVars
    <3>2. CASE /\ scene'.current = Nothing /\ scene'.previous = scene.current
               /\ scene'.cross = Ramp(CrossFade) /\ (CrossFade = 0 => undrawn')
      <4>1. CASE CrossFade = 0
        BY <3>2, <4>1 DEF Shown
      <4>2. CASE CrossFade # 0 /\ scene.current # Nothing
        BY <3>2, <4>2, RampFacts, RenderAssumption DEF Fresh
      <4>3. CASE scene.current = Nothing
        <5>1. Nothing \notin images
          BY NoImage DEF RenderInv, RenderTypeOK, AppTypes
        <5> QED
          BY <1>1, <1>3, <2>1, <3>2, <4>3, <5>1 DEF Shown
      <4> QED
        BY <4>1, <4>2, <4>3
    <3> QED
      BY <1>3, <3>1, <3>2
  <2>3. display = "off" => scene'.blanked \/ scene'.fade > 0
    BY <1>3, <2>1, Zenon
  <2>4. display' = display
    BY <1>1 DEF pipeVars
  <2> QED
    BY <1>1, <2>2, <2>3, <2>4 DEF ShownInv, Moves, Fresh
<1> QED
  BY <1>5, <1>6, <1>7, <1>8, <1>9, <1>10, <1>11, <1>12 DEF RenderInv

\* Admitting a result: the youngest picture stays the youngest, and the one
\* that comes up is not shown before it was drawn.
LEMMA AdmitStep ==
    ASSUME RenderInv, Admit
    PROVE  RenderInv'
<1> DEFINE id == Head(batch)
           upgrade == pending # Nothing /\ pending.id = id /\ pending.upgrade
<1>1. /\ pc = "admit" /\ batch' = Tail(batch)
      /\ begun' = IF scene' = scene THEN begun ELSE Moves(scene')
      /\ IF Tail(batch) = <<>> THEN pc' = "decide" /\ due' = Moves(scene')
         ELSE pc' = "admit" /\ due' = due
      /\ UNCHANGED <<live, placeholder, news, asked, shows, cleared, requests, results,
                     kernelVars, front, flight, scanned, late, display, mode>>
  BY DEF Admit, Admitted, NeedsFrame, Moves
<1>2. \/ /\ scene' = Present(scene, id, upgrade)
         /\ pending' = Nothing
         /\ images' = (images \cup {id}) \cap {scene'.current, scene'.previous}
         /\ alive' = (alive \cup {id}) \cap images'
         /\ undrawn' = (undrawn \/ scene' = scene \/ scene'.cross = Held)
         /\ last' = last
      \/ /\ pending' \in {pending, Nothing}
         /\ last' = IF last = id THEN Nothing ELSE last
         /\ scene' = scene /\ images' = images /\ alive' = alive /\ undrawn' = undrawn
  BY DEF Admit, Retained, Uploaded
<1> HIDE DEF upgrade
<1>3. /\ scene \in Scenes /\ batch \in Seq(Images) /\ batch # <<>>
      /\ images \in SUBSET Images /\ alive \in SUBSET Images
      /\ pending \in Wanted \cup {Nothing} /\ last \in Images \cup {Nothing}
      /\ undrawn \in BOOLEAN
  BY <1>1 DEF RenderInv, RenderTypeOK, SourceTypes, DecodeTypes, AppTypes, ScanTypes,
                      PipeTypes, QueuesInv
<1>4. id \in Images /\ batch' \in Seq(Images)
  BY <1>1, <1>3, TakeFacts
<1>5. upgrade \in BOOLEAN
  <2>1. pending # Nothing => pending.upgrade \in BOOLEAN
    BY <1>3 DEF Wanted
  <2> QED
    BY <2>1, Zenon DEF upgrade
\* In both cases:
<1>6. /\ scene' \in Scenes
      /\ scene'.power = scene.power /\ scene'.fade = scene.fade /\ scene'.blanked = scene.blanked
      /\ images' \in SUBSET Images /\ alive' \in SUBSET Images /\ undrawn' \in BOOLEAN
      /\ pending' \in Wanted \cup {Nothing} /\ last' \in Images \cup {Nothing}
      /\ {scene'.current, scene'.previous} \ {Nothing} \subseteq images'
      /\ \E a, b \in Images : images' \subseteq {a, b}
      /\ \/ scene' = scene /\ last' \in {Nothing, last} /\ last' # id
         \/ scene'.current = id /\ last' = last
      /\ scene'.cross = Held \/ scene'.cross.left > 0
      /\ scene'.cross.left > 0 /\ scene'.previous = Nothing => scene'.current = Nothing
      /\ \/ undrawn' /\ (scene' = scene \/ (scene.current = Nothing /\ ~Fresh(scene)))
         \/ undrawn' /\ (CrossFade = 0 \/ EnrichmentFade = 0)
         \/ Fresh(scene')
         \/ UNCHANGED <<scene, images, alive, undrawn>>
  <2>0. /\ scene.cross = Held \/ scene.cross.left > 0
        /\ scene.cross.left > 0 /\ scene.previous = Nothing => scene.current = Nothing
        /\ {scene.current, scene.previous} \ {Nothing} \subseteq images
        /\ \E a, b \in Images : images \subseteq {a, b}
    BY DEF RenderInv, PicturesInv
  <2>1. CASE /\ scene' = Present(scene, id, upgrade)
             /\ pending' = Nothing
             /\ images' = (images \cup {id}) \cap {scene'.current, scene'.previous}
             /\ alive' = (alive \cup {id}) \cap images'
             /\ undrawn' = (undrawn \/ scene' = scene \/ scene'.cross = Held)
             /\ last' = last
    <3>1. scene' \in Scenes
      BY <1>3, <1>4, <1>5, <2>1, SceneTypes
    <3>2. /\ scene'.current = id /\ scene'.previous \in {scene.current, scene.previous}
          /\ scene'.power = scene.power /\ scene'.fade = scene.fade
          /\ scene'.blanked = scene.blanked
          /\ \/ scene' = scene
             \/ scene'.cross = Held /\ scene.current = Nothing /\ ~Fresh(scene)
             \/ scene'.cross = Held /\ (CrossFade = 0 \/ EnrichmentFade = 0)
             \/ Fresh(scene')
      BY <1>3, <1>4, <1>5, <2>0, <2>1, PresentFacts
    <3>3. \E a, b \in Images : images' \subseteq {a, b}
      <4>1. CASE scene'.previous \in Images
        BY <1>4, <2>1, <3>2, <4>1
      <4>2. CASE scene'.previous \notin Images
        <5>1. images' \subseteq {id, id}
          BY <1>3, <1>4, <2>1, <3>2, <4>2
        <5> QED
          BY <1>4, <5>1
      <4> QED
        BY <4>1, <4>2
    <3>4. {scene'.current, scene'.previous} \ {Nothing} \subseteq images'
      BY <2>0, <2>1, <3>2
    <3>5. /\ undrawn' \in BOOLEAN
          /\ \/ undrawn' /\ (scene' = scene \/ (scene.current = Nothing /\ ~Fresh(scene)))
             \/ undrawn' /\ (CrossFade = 0 \/ EnrichmentFade = 0)
             \/ Fresh(scene')
      BY <1>3, <2>1, <3>2, Zenon
    <3>7. /\ scene'.cross = Held \/ scene'.cross.left > 0
          /\ scene'.cross.left > 0 /\ scene'.previous = Nothing => scene'.current = Nothing
      <4>1. Held.left = 0
        BY DEF Held
      <4> QED
        BY <2>0, <3>2, <4>1 DEF Fresh
    <3>6. images' \in SUBSET Images /\ alive' \in SUBSET Images
      BY <1>3, <1>4, <2>1
    <3> QED
      BY <1>3, <2>1, <3>1, <3>2, <3>3, <3>4, <3>5, <3>6, <3>7, Zenon
  <2>2. CASE /\ pending' \in {pending, Nothing}
             /\ last' = IF last = id THEN Nothing ELSE last
             /\ scene' = scene /\ images' = images /\ alive' = alive /\ undrawn' = undrawn
    <3>1. last' \in {Nothing, last} /\ last' # id
      BY <1>4, <2>2, NoImage
    <3>2. last' \in Images \cup {Nothing} /\ pending' \in Wanted \cup {Nothing}
      BY <1>3, <2>2, <3>1
    <3> QED
      BY <1>3, <2>0, <2>2, <3>1, <3>2
  <2> QED
    BY <1>2, <2>1, <2>2
<1>7. RenderTypeOK'
  <2>1. SourceTypes'
    BY <1>1, <1>6 DEF RenderInv, RenderTypeOK, SourceTypes
  <2>2. DecodeTypes'
    BY <1>1, <1>4 DEF RenderInv, RenderTypeOK, DecodeTypes
  <2>3. AppTypes'
    <3>1. due' \in BOOLEAN
      BY <1>1 DEF RenderInv, RenderTypeOK, AppTypes, Moves
    <3> QED
      BY <1>6, <3>1, Zenon DEF AppTypes
  <2>4. KernelTypes'
    BY <1>1 DEF RenderInv, RenderTypeOK, KernelTypes, kernelVars
  <2>5. (ScanTypes /\ PipeTypes)'
    <3>1. begun' \in BOOLEAN
      BY <1>1 DEF RenderInv, RenderTypeOK, ScanTypes, Moves
    <3> QED
      BY <1>1, <1>6, <3>1 DEF RenderInv, RenderTypeOK, ScanTypes, PipeTypes
  <2>6. pc' \in {"admit", "decide"}
    BY <1>1
  <2> QED
    BY <2>1, <2>2, <2>3, <2>4, <2>5, <2>6 DEF RenderTypeOK
<1>8. PipelineInv'
  BY <1>1 DEF RenderInv, PipelineInv
<1>9. SourceInv'
  BY <1>1 DEF RenderInv, SourceInv
<1>10. SettledInv'
  <2>1. scene'.blanked => scene'.power = "off"
    BY <1>6, Zenon DEF RenderInv, SettledInv
  <2>2. begun => Moves(scene)
    BY <1>1 DEF RenderInv, SettledInv
  <2>3. begun' => (pc' = "admit" /\ Moves(scene)') \/ (pc' = "decide" /\ due')
    <3>1. begun' => Moves(scene')
      BY <1>1, <2>2
    <3> QED
      BY <1>1, <3>1 DEF Moves
  <2> QED
    BY <1>1, <2>1, <2>3 DEF SettledInv, AsleepIsSettled
<1>11. ScannedInv'
  BY <1>1 DEF RenderInv, ScannedInv, kernelVars
<1>12. PicturesInv'
  BY <1>6 DEF PicturesInv
<1>13. QueuesInv'
  <2>1. pc' = "admit" <=> batch' # <<>>
    BY <1>1
  <2>2. ASSUME live
        PROVE  /\ scene'.current = Nothing \/ scene'.current \in 0 .. shows'
               /\ requests' \in Seq(0 .. shows') /\ results' \in Seq(0 .. shows')
               /\ batch' \in Seq(0 .. shows')
    <3>1. /\ scene.current = Nothing \/ scene.current \in 0 .. shows
          /\ requests \in Seq(0 .. shows) /\ results \in Seq(0 .. shows)
          /\ batch \in Seq(0 .. shows)
      BY <2>2 DEF RenderInv, QueuesInv
    <3>2. id \in 0 .. shows /\ batch' \in Seq(0 .. shows)
      BY <1>1, <1>3, <3>1, TakeFacts
    <3> QED
      BY <1>1, <1>6, <3>1, <3>2
  <2>3. ASSUME live, last' # Nothing
        PROVE  Newest' = last'
    <3>1. last' = last /\ Newest = last
      BY <1>6, <2>3 DEF RenderInv, QueuesInv
    <3>2. CASE requests # <<>> \/ results # <<>>
      BY <1>1, <3>1, <3>2 DEF Newest
    <3>3. CASE requests = <<>> /\ results = <<>> /\ batch' # <<>>
      BY <1>1, <1>3, <3>1, <3>3, TakeFacts DEF Newest
    <3>4. CASE requests = <<>> /\ results = <<>> /\ batch' = <<>>
      <4>1. last = id
        BY <1>1, <1>3, <3>1, <3>4, TakeFacts DEF Newest
      <4>2. scene'.current = id
        BY <1>6, <3>1, <4>1
      <4> QED
        BY <1>1, <3>1, <3>4, <4>1, <4>2 DEF Newest
    <3> QED
      BY <3>2, <3>3, <3>4
  <2>4. live' = live
    BY <1>1
  <2> QED
    BY <2>1, <2>2, <2>3, <2>4 DEF QueuesInv
<1>14. ShownInv'
  <2>1. /\ display = "lit" => Shown \/ Fresh(scene)
        /\ display = "off" => scene.blanked \/ scene.fade > 0
    BY <1>1 DEF RenderInv, ShownInv
  <2>2. display = "lit" => Shown' \/ Fresh(scene')
    <3>1. front' = front /\ Nothing \notin images
      BY <1>1, <1>3, NoImage
    <3>2. CASE UNCHANGED <<scene, images, alive, undrawn>>
      BY <2>1, <3>1, <3>2 DEF Shown
    <3>3. CASE undrawn' /\ (CrossFade = 0 \/ EnrichmentFade = 0)
      BY <3>3 DEF Shown
    <3>4. CASE undrawn' /\ scene' = scene
      BY <2>1, <3>1, <3>4 DEF Shown
    <3>5. CASE undrawn' /\ scene.current = Nothing /\ ~Fresh(scene)
      BY <2>1, <3>1, <3>5 DEF Shown
    <3> QED
      BY <1>6, <3>2, <3>3, <3>4, <3>5
  <2>3. display = "off" => scene'.blanked \/ scene'.fade > 0
    BY <1>6, <2>1, Zenon
  <2>4. display' = display
    BY <1>1
  <2> QED
    BY <1>1, <2>2, <2>3, <2>4 DEF ShownInv, Moves, Fresh
<1> QED
  BY <1>7, <1>8, <1>9, <1>10, <1>11, <1>12, <1>13, <1>14 DEF RenderInv

\* The decision: what is dark and to be off is switched off, what moves is
\* drawn, and what rests has been shown.
LEMMA DecideStep ==
    ASSUME RenderInv, Decide
    PROVE  RenderInv'
<1>1. /\ pc = "decide" /\ scene' = Frame(scene)
      /\ UNCHANGED <<sourceVars, decodeVars, pending, images, due, plug, plugs,
                     front, late, mode, alive>>
  BY DEF Decide
<1>2. /\ scene \in Scenes /\ due \in BOOLEAN
      /\ display \in {"lit", "off"}
      /\ batch = <<>>
  BY <1>1 DEF RenderInv, RenderTypeOK, AppTypes, PipelineInv, QueuesInv
<1>3. /\ scene' \in Scenes
      /\ scene'.current = scene.current /\ scene'.previous \in {scene.previous, Nothing}
      /\ scene.cross.left > 0 => scene'.previous = scene.previous
      /\ scene'.cross = scene.cross /\ scene'.fade = scene.fade /\ scene'.power = scene.power
      /\ scene'.blanked \in BOOLEAN
      /\ scene'.blanked <=> scene.blanked \/ (scene.fade = 0 /\ scene.power = "off")
  BY <1>1, <1>2, SceneTypes, FrameFacts
\* The scene does its part whatever becomes of the display.
<1>4. /\ scene'.blanked => scene'.power = "off"
      /\ Moves(scene') => due
      /\ begun => due
      /\ ~due /\ ~scene'.blanked => scene'.power # "off"
  <2>1. /\ scene.blanked => scene.power = "off"
        /\ Moves(scene) => due
        /\ begun => due
    BY <1>1 DEF RenderInv, SettledInv
  <2>2. Moves(scene') = Moves(scene)
    BY <1>3 DEF Moves
  <2>3. ~Moves(scene) => scene.fade = 0
    BY <1>2 DEF Moves, Scenes
  <2> QED
    BY <1>3, <2>1, <2>2, <2>3, Zenon
<1>5. SourceTypes' /\ DecodeTypes' /\ AppTypes' /\ SourceInv' /\ PicturesInv'
  <2>1. (SourceTypes /\ DecodeTypes /\ SourceInv)'
    BY <1>1 DEF RenderInv, RenderTypeOK, SourceTypes, DecodeTypes, SourceInv, sourceVars, decodeVars
  <2>2. AppTypes'
    BY <1>1, <1>2, <1>3 DEF RenderInv, RenderTypeOK, AppTypes
  <2>3. PicturesInv'
    BY <1>1, <1>3 DEF RenderInv, PicturesInv
  <2> QED
    BY <2>1, <2>2, <2>3
<1>6. pc' # "admit" => QueuesInv'
  BY <1>1, <1>2, <1>3 DEF RenderInv, QueuesInv, Newest, sourceVars, decodeVars
<1>7. CASE scene'.blanked /\ Blank
  <2>1. RenderTypeOK'
    BY <1>1, <1>5, <1>7 DEF Blank, RenderInv, RenderTypeOK, KernelTypes, ScanTypes, PipeTypes
  <2>2. PipelineInv'
    BY <1>7 DEF Blank, PipelineInv
  <2>3. SettledInv'
    BY <1>1, <1>4, <1>7 DEF Blank, SettledInv, AsleepIsSettled
  <2>4. ScannedInv'
    BY <1>1, <1>7 DEF Blank, RenderInv, ScannedInv
  <2>5. ShownInv'
    BY <1>7 DEF Blank, ShownInv
  <2> QED
    BY <1>5, <1>6, <1>7, <2>1, <2>2, <2>3, <2>4, <2>5 DEF RenderInv, Blank
<1>8. CASE /\ ~scene'.blanked /\ ~due /\ Unblank /\ pc' = "probe"
           /\ UNCHANGED <<queued, event, scanned, flight, undrawn, begun>>
  <2>1. RenderTypeOK'
    BY <1>1, <1>5, <1>8 DEF Unblank, RenderInv, RenderTypeOK, KernelTypes, ScanTypes, PipeTypes
  <2>2. PipelineInv'
    BY <1>8 DEF Unblank, PipelineInv
  <2>3. SettledInv'
    BY <1>1, <1>4, <1>8 DEF Unblank, SettledInv, AsleepIsSettled
  <2>4. ScannedInv'
    BY <1>1, <1>8 DEF RenderInv, ScannedInv
  <2>5. ShownInv'
    <3>1. Shown
      BY <1>1, <1>2, <1>3, <1>8 DEF RenderInv, ShownInv
    <3>2. Shown'
      BY <1>1, <1>3, <1>8, <3>1 DEF Shown
    <3> QED
      BY <1>8, <3>2 DEF Unblank, ShownInv
  <2> QED
    BY <1>5, <1>6, <1>8, <2>1, <2>2, <2>3, <2>4, <2>5 DEF RenderInv
<1>9. CASE /\ ~scene'.blanked /\ due /\ Unblank /\ Flip
           /\ UNCHANGED <<event, scanned>>
  <2>1. \/ /\ pc' = "exited" /\ UNCHANGED <<queued, flight, undrawn, begun>>
        \/ /\ ~queued /\ queued' = TRUE /\ undrawn' = FALSE /\ begun' = FALSE /\ pc' = "flip"
           /\ flight' = IF scene'.current \in alive THEN scene'.current ELSE Nothing
    BY <1>9 DEF Flip, Drawn
  <2>2. flight' \in Images \cup {Nothing}
    BY <1>3, <2>1 DEF RenderInv, RenderTypeOK, ScanTypes, Scenes
  <2>3. RenderTypeOK'
    BY <1>1, <1>5, <1>9, <2>1, <2>2
       DEF Unblank, RenderInv, RenderTypeOK, KernelTypes, ScanTypes, PipeTypes
  <2>4. PipelineInv'
    BY <1>9, <2>1 DEF Unblank, PipelineInv
  <2>5. SettledInv'
    BY <1>1, <1>4, <1>9, <2>1 DEF Unblank, SettledInv, AsleepIsSettled
  <2>6. ScannedInv'
    BY <1>1, <1>9, <2>1 DEF RenderInv, ScannedInv
  <2>7. ShownInv'
    BY <1>1, <1>3, <1>5, <1>9, <2>1 DEF PicturesInv, ShownInv
  <2> QED
    BY <1>5, <1>6, <2>1, <2>3, <2>4, <2>5, <2>6, <2>7 DEF RenderInv
<1> QED
  BY <1>7, <1>8, <1>9 DEF Decide

----
(* The invariant, and what it says *)

\* The invariant holds when the process begins.
LEMMA RenderInitInv ==
    ASSUME RenderInit
    PROVE  RenderInv
<1> USE DEF RenderInit
<1>1. SourceTypes
  <2>1. live \in BOOLEAN /\ placeholder \in BOOLEAN
    OBVIOUS
  <2>2. asked \in DisplayPower /\ shows \in Nat /\ shows <= MaxId
    BY RenderAssumption
  <2>3. news = "none" /\ cleared = FALSE /\ last = Nothing
    OBVIOUS
  <2> QED
    BY <2>1, <2>2, <2>3, Zenon DEF SourceTypes
<1>2. DecodeTypes
  BY DEF DecodeTypes
<1>3. AppTypes
  BY NewSceneFacts DEF AppTypes
<1>4. KernelTypes
  <2>1. plugs \in 0 .. MaxPlugs
    BY RenderAssumption
  <2> QED
    BY <2>1, Zenon DEF KernelTypes
<1>5. ScanTypes
  BY DEF ScanTypes
<1>6. PipeTypes
  BY DEF PipeTypes
<1>7. RenderTypeOK
  BY <1>1, <1>2, <1>3, <1>4, <1>5, <1>6 DEF RenderTypeOK
<1>8. PipelineInv /\ SourceInv /\ ScannedInv
  BY DEF PipelineInv, SourceInv, ScannedInv
<1>9. SettledInv
  BY NewSceneFacts DEF SettledInv, AsleepIsSettled
<1>10. PicturesInv
  <2>1. 0 \in Images
    BY RenderAssumption DEF Images
  <2> QED
    BY <2>1, NewSceneFacts DEF PicturesInv
<1>11. QueuesInv
  BY NewSceneFacts DEF QueuesInv
<1>12. ShownInv
  BY DEF ShownInv
<1> QED
  BY <1>7, <1>8, <1>9, <1>10, <1>11, <1>12 DEF RenderInv

\* Every step of the renderer keeps the invariant.
LEMMA RenderNextInv ==
    ASSUME RenderInv, [RenderNext]_renderVars
    PROVE  RenderInv'
<1>1. CASE UNCHANGED renderVars
  <2> USE DEF RenderInv, renderVars,
            sourceVars, decodeVars, appVars, kernelVars, scanVars, pipeVars
  <2>1. (RenderTypeOK /\ PipelineInv /\ SourceInv)'
    BY <1>1 DEF RenderTypeOK, SourceTypes, DecodeTypes, AppTypes, KernelTypes, ScanTypes,
                PipeTypes, PipelineInv, SourceInv
  <2>2. (SettledInv /\ ScannedInv /\ PicturesInv)'
    BY <1>1 DEF SettledInv, AsleepIsSettled, Moves, ScannedInv, PicturesInv
  <2>3. (QueuesInv /\ ShownInv)'
    BY <1>1 DEF QueuesInv, Newest, ShownInv, Shown
  <2> QED
    BY <2>1, <2>2, <2>3
<1>2. CASE LoopStep
  BY <1>2, StartStep, ConnectedStep, OpenStep, UpdateStep, AdmitStep, DecideStep,
     FlipSeenStep, FlipTimeoutStep, ProbeStep, WakeStep, RestartStep DEF LoopStep
<1>3. CASE Snapshot \/ NextSlide \/ Decode
  BY <1>3, SnapshotStep, NextSlideStep, DecodeStep
<1>4. CASE FlipDone \/ Hotplug \/ Advance
  BY <1>4, FlipDoneStep, HotplugStep, AdvanceStep
<1> QED
  BY <1>1, <1>2, <1>3, <1>4 DEF RenderNext

\* The renderer keeps its inductive invariant, with any images, ramps,
\* powers and panels.  (The loop of main.rs, app.rs and drm.rs.)
THEOREM RenderInvariance == RenderSpec => []RenderInv
<1>1. RenderInit => RenderInv
  BY RenderInitInv
<1>2. RenderInv /\ [RenderNext]_renderVars => RenderInv'
  BY RenderNextInv
<1> QED
  BY <1>1, <1>2, PTL DEF RenderSpec

\* Every variable has its type, and artd's source hands out no more images
\* than there are.
THEOREM RenderTypes == RenderSpec => []RenderTypeOK
<1>1. RenderInv => RenderTypeOK
  BY DEF RenderInv
<1> QED
  BY <1>1, RenderInvariance, PTL

\* The loop goes to sleep only with the panel as the power wants it, and on a lit
\* one with no ramp that runs or that the panel got no frame of.  (scene.rs,
\* needs_frame.)
THEOREM SettledTheorem == RenderSpec => []AsleepIsSettled
<1>1. RenderInv => AsleepIsSettled
  BY DEF RenderInv, SettledInv
<1> QED
  BY <1>1, RenderInvariance, PTL

\* Two elements are all a set within a pair has.
LEMMA PairCardinality ==
    ASSUME NEW a, NEW b, NEW S, S \subseteq {a, b}
    PROVE  Cardinality(S) <= 2
<1>1. IsFiniteSet({a}) /\ Cardinality({a}) = 1
  BY FS_Singleton
<1>2. IsFiniteSet({a} \cup {b}) /\ Cardinality({a} \cup {b}) \in {1, 2}
  BY <1>1, FS_AddElement
<1>3. {a, b} = {a} \cup {b}
  OBVIOUS
<1>4. IsFiniteSet({a, b}) /\ Cardinality({a, b}) \in {1, 2}
  BY <1>2, <1>3
<1>5. Cardinality(S) <= Cardinality({a, b}) /\ Cardinality(S) \in Nat
  BY <1>4, FS_Subset, FS_CardinalityType
<1> QED
  BY <1>4, <1>5

\* The buffer the kernel reads and the pictures the scene draws are held
\* until nothing shows them.  (drm.rs, flip; app.rs, retain.)
THEOREM HeldTheorem == RenderSpec => []PicturesAreHeld
<1>1. ASSUME RenderInv
      PROVE  PicturesAreHeld
  <2>1. scanned = "lost" => late
    BY <1>1 DEF RenderInv, ScannedInv
  <2>2. PICK a, b \in Images : images \subseteq {a, b}
    BY <1>1 DEF RenderInv, PicturesInv
  <2>3. Cardinality(images) <= 2
    BY <2>2, PairCardinality
  <2> QED
    BY <1>1, <2>1, <2>3 DEF PicturesAreHeld, RenderInv, PicturesInv
<1> QED
  BY <1>1, RenderInvariance, PTL

\* Whatever was decoded in between, and whatever failed to, the image artd
\* sent last is the one on display when the decoder has nothing left.
THEOREM LastShowTheorem == RenderSpec => []LastShowWins
<1>1. RenderInv => LastShowWins
  BY DEF RenderInv, QueuesInv, Newest, LastShowWins
<1> QED
  BY <1>1, RenderInvariance, PTL

\* What a sleeping loop drew last is the current image; or none, after the
\* pipeline was opened, after an image that came up without a ramp, or with the
\* textures lost in a mode change; another one only if a crossfade takes no time.
THEOREM RestTheorem == RenderSpec => []RestShowsCover
<1>1. RenderInv => RestShowsCover
  BY DEF RenderInv, ShownInv, Shown, RestShowsCover
<1> QED
  BY <1>1, RenderInvariance, PTL

====
