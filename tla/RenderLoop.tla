---- MODULE RenderLoop ----
(***************************************************************************)
(* lprender on the device: a source of updates, the decode thread, the     *)
(* application with its scene and textures, and the loop that draws, flips *)
(* and sleeps until the connector changes underneath it.  The source is    *)
(* artd, seen through ArtdSource::poll, or the slide show.                 *)
(*                                                                         *)
(* Time is what is left of the two ramps.  The kernel's side is external:  *)
(* the panel that is plugged in, and the moment a queued flip happens.     *)
(* Ken Burns is off, as in the default configuration.                      *)
(***************************************************************************)
EXTENDS Naturals, Sequences, FiniteSets

CONSTANTS
    MaxId,           \* images artd's source hands out before the process ends
    Files,           \* images of the slide show
    CrossFade,       \* durations of the ramps
    EnrichmentFade,
    FadeOut,
    FadeIn,
    DisplayPower,    \* the powers a snapshot asks for
    Modes,           \* what a plugged panel makes choose_mode return
    MaxPlugs,        \* panels pulled out or changed
    Backlog,         \* images of the slide show that wait to be decoded
    Nothing          \* no image, no panel, no request

ASSUME RenderAssumption ==
    /\ MaxId \in Nat \ {0}
    /\ Files \in Nat \ {0}
    /\ CrossFade \in Nat
    /\ EnrichmentFade \in Nat
    /\ FadeOut \in Nat
    /\ FadeIn \in Nat \ {0}
    /\ MaxPlugs \in Nat
    /\ Backlog \in Nat \ {0}
    /\ {"on", "off"} \subseteq DisplayPower
    /\ DisplayPower \subseteq {"on", "ambient", "off"}
    /\ Nothing \notin Nat
    /\ Nothing \notin Modes

VARIABLES
    live,         \* the source is artd, and not the slide show
    placeholder,  \* render.placeholder is a file
    news,         \* what the source would say now
    asked,        \* the display power it would report
    shows,        \* images it has handed out
    cleared,      \* its last update was that there is no image
    last,         \* the last image it asked for, Nothing after a clear or an error
    requests,     \* of the decode thread, images in order
    results,      \* of the decode thread
    batch,        \* the results the loop has polled and not yet admitted
    pending,      \* App::pending
    images,       \* App::images, which outlive the GL context they were made in
    scene,        \* App::scene
    due,          \* needs_frame at the time the iteration began
    display,      \* no pipeline, a lit one, or one with its CRTC inactive
    mode,         \* the mode of the pipeline
    alive,        \* images with a texture in the pipeline's GL context
    front,        \* what the buffer in Display::front shows
    flight,       \* what the buffer just swapped shows, while present waits
    scanned,      \* the buffer the kernel reads: front, flight, or one given back
    queued,       \* a page flip the kernel has yet to do
    event,        \* a page-flip event nobody has read
    late,         \* a flip timed out, and the DRM fd has not been drained since
    undrawn,      \* nothing was drawn since the pipeline was opened, or since
                  \* an image was presented or cleared without a ramp
    begun,        \* the scene began to move, and no frame was drawn since
    plug,         \* the mode of the panel at the connector
    plugs,
    pc

sourceVars == <<live, placeholder, news, asked, shows, cleared, last>>
decodeVars == <<requests, results, batch>>
appVars == <<pending, images, scene, due>>
kernelVars == <<queued, event, plug, plugs>>
scanVars == <<front, flight, scanned, late, undrawn, begun>>
pipeVars == <<display, mode, alive>>
renderVars ==
    <<sourceVars, decodeVars, appVars, kernelVars, scanVars, pipeVars, pc>>

Placeholder == 0       \* PLACEHOLDER_ID, no image of a source has it
Images == (0 .. MaxId) \cup (1 .. Files)

----
(* Scene *)

Held == [left |-> 0, span |-> 0]
Ramp(duration) == [left |-> duration, span |-> duration]

NewScene ==
    [current |-> Nothing, previous |-> Nothing, cross |-> Held,
     fade |-> 0, power |-> "off", blanked |-> TRUE]

\* Mid-crossfade the outgoing image is the one that is more visible.
Outgoing(s) ==
    IF 2 * (s.cross.span - s.cross.left) < s.cross.span THEN s.previous ELSE s.current

Present(s, id, upgrade) ==
    IF s.current = id THEN s
    ELSE [s EXCEPT !.current = id,
                   !.previous = Outgoing(s),
                   !.cross = IF Outgoing(s) = Nothing THEN Held
                             ELSE Ramp(IF upgrade THEN EnrichmentFade ELSE CrossFade)]

\* Mutant: the last cover goes without a fade.
ClearAtOnce(s) == [s EXCEPT !.current = Nothing, !.previous = Nothing, !.cross = Held]

Clear(s) ==
    [s EXCEPT !.current = Nothing, !.previous = s.current, !.cross = Ramp(CrossFade)]

\* Mutant: the fade to black starts anew with every snapshot.
SetPowerAnew(s, power) ==
    IF s.power = power /\ power = "on" THEN s
    ELSE [s EXCEPT !.power = power,
                   !.fade = IF power = "off" THEN FadeOut + 1 ELSE FadeIn,
                   !.blanked = @ /\ power = "off"]

SetPower(s, power) ==
    IF s.power = power THEN s
    ELSE [s EXCEPT !.power = power,
                   !.fade = IF power = "off" THEN FadeOut ELSE FadeIn,
                   !.blanked = @ /\ power = "off"]

Frame(s) ==
    [s EXCEPT !.previous = IF s.cross.left = 0 THEN Nothing ELSE @,
              !.blanked = @ \/ (s.fade = 0 /\ s.power = "off")]

\* Mutant: only a crossfade needs frames.
NeedsFrameToMix(s) == s.cross.left > 0

NeedsFrame(s) == s.cross.left > 0 \/ s.fade > 0

\* The ramps, a moment later.
RampLater(ramp) == IF ramp.left > 1 THEN [ramp EXCEPT !.left = @ - 1] ELSE Held
Later(s) == [s EXCEPT !.cross = RampLater(@), !.fade = IF @ > 0 THEN @ - 1 ELSE 0]

----
RenderInit ==
    /\ live \in BOOLEAN
    /\ placeholder \in (IF live THEN BOOLEAN ELSE {FALSE})
    /\ news = "none"
    /\ asked = IF live THEN "off" ELSE "on"
    /\ shows = 0
    /\ cleared = FALSE
    /\ last = Nothing
    /\ requests = <<>>
    /\ results = <<>>
    /\ batch = <<>>
    /\ pending = Nothing
    /\ images = {}
    /\ scene = NewScene
    /\ due = FALSE
    /\ display = "none"
    /\ mode = Nothing
    /\ alive = {}
    /\ front = Nothing
    /\ flight = Nothing
    /\ scanned = "front"
    /\ queued = FALSE
    /\ event = FALSE
    /\ late = FALSE
    /\ undrawn = TRUE
    /\ begun = FALSE
    /\ plug \in Modes \cup {Nothing}
    /\ plugs = 0
    /\ pc = "start"

----
(* The source, its reader thread and the decode thread *)

\* A snapshot of artd: an image, a sharper one of it, or none, and the power.
\* The reader keeps the last snapshot only.
Snapshot ==
    /\ live
    /\ \/ /\ shows < MaxId
          /\ news' \in {"show", "upgrade"}
          /\ UNCHANGED asked
       \/ news' = (IF cleared THEN "none" ELSE "clear") /\ UNCHANGED asked
       \/ asked' \in DisplayPower \ {asked} /\ UNCHANGED news
    /\ UNCHANGED <<live, placeholder, shows, cleared, last, decodeVars, appVars, kernelVars,
                   scanVars, pipeVars, pc>>

\* The slide show's interval is over.
NextSlide ==
    /\ ~live
    /\ news = "none"
    /\ Len(requests) + Len(results) < Backlog
    /\ news' = "show"
    /\ UNCHANGED <<live, placeholder, asked, shows, cleared, last, decodeVars, appVars, kernelVars,
                   scanVars, pipeVars, pc>>

\* The decode thread takes the oldest request.  Whether the file decodes is
\* of interest to Admit only.
Decode ==
    /\ requests # <<>>
    /\ results' = Append(results, Head(requests))
    /\ requests' = Tail(requests)
    /\ UNCHANGED <<sourceVars, batch, appVars, kernelVars, scanVars, pipeVars, pc>>

----
(* Application *)

\* The image of the next update: artd's source counts, the slide show's
\* numbers come round again.
NextImage == IF live THEN shows + 1 ELSE (shows % Files) + 1

\* Mutant: one request at a time.
RequestUnlessPending(id, upgrade) ==
    IF pending # Nothing THEN UNCHANGED <<requests, pending>>
    ELSE /\ requests' = Append(requests, id)
         /\ pending' = [id |-> id, upgrade |-> upgrade]

Request(id, upgrade) ==
    /\ requests' = Append(requests, id)
    /\ pending' = [id |-> id, upgrade |-> upgrade]

\* App::clear_artwork, and the power that goes with every update.
ClearArtwork ==
    \/ /\ placeholder
       /\ IF scene.current = Placeholder
          THEN UNCHANGED <<requests, pending>>
          ELSE Request(Placeholder, FALSE)
       /\ scene' = SetPower(scene, asked)
       /\ UNCHANGED undrawn
    \/ /\ ~placeholder
       /\ pending' = Nothing
       /\ scene' = SetPower(Clear(scene), asked)
       /\ undrawn' = (undrawn \/ CrossFade = 0)
       /\ UNCHANGED requests

\* App::update_at up to the results: the source's update and its power.
Consume ==
    \/ /\ news = "none"
       /\ scene' = SetPower(scene, asked)
       /\ UNCHANGED <<shows, cleared, last, requests, pending, undrawn>>
    \/ /\ news \in {"show", "upgrade"}
       /\ shows' = NextImage
       /\ last' = NextImage
       /\ cleared' = FALSE
       /\ IF scene.current = NextImage
          THEN UNCHANGED <<requests, pending>>
          ELSE Request(NextImage, news = "upgrade")
       /\ scene' = SetPower(scene, asked)
       /\ UNCHANGED undrawn
    \/ /\ news = "clear"
       /\ last' = Nothing
       /\ cleared' = TRUE
       /\ ClearArtwork
       /\ UNCHANGED shows

\* The scene moves, whether or not the loop draws it.
Moves(s) == s.cross.left > 0 \/ s.fade > 0

\* Everything an iteration does with one reading of the clock ends by asking
\* whether a frame is due.
Admitted ==
    /\ begun' = IF scene' = scene THEN begun ELSE Moves(scene')
    /\ IF batch' = <<>>
       THEN pc' = "decide" /\ due' = NeedsFrame(scene')
       ELSE pc' = "admit" /\ UNCHANGED due

Update ==
    /\ pc = "update"
    /\ Consume
    /\ news' = "none"
    /\ batch' = results
    /\ results' = <<>>
    /\ Admitted
    /\ UNCHANGED <<live, placeholder, asked, images, kernelVars, front, flight, scanned, late,
                   pipeVars>>

\* What Images::retain keeps.
Retained(s) == {s.current, s.previous}

\* Renderer::upload makes the texture in the context of the pipeline that is.
Uploaded(id) == alive \cup {id}

\* App::admit, and the arm for an image that does not decode.  An image that
\* is current already, or that replaces none, comes up without a ramp.
Admit ==
    /\ pc = "admit"
    /\ batch' = Tail(batch)
    /\ LET id == Head(batch)
           upgrade == pending # Nothing /\ pending.id = id /\ pending.upgrade
       IN  \/ /\ scene' = Present(scene, id, upgrade)
              /\ pending' = Nothing
              /\ images' = (images \cup {id}) \cap Retained(scene')
              /\ alive' = Uploaded(id) \cap images'
              /\ undrawn' = (undrawn \/ scene' = scene \/ scene'.cross = Held)
              /\ UNCHANGED last
           \/ /\ pending' \in {pending, Nothing}  \* no upload, or no image in the file
              /\ last' = IF last = id THEN Nothing ELSE last
              /\ UNCHANGED <<scene, images, alive, undrawn>>
    /\ Admitted
    /\ UNCHANGED <<live, placeholder, news, asked, shows, cleared, requests, results, kernelVars,
                   front, flight, scanned, late, display, mode>>

----
(* The loop that draws and flips *)

\* App::draw finds nothing for an image whose texture went with its context.
Drawn == IF scene'.current \in alive THEN scene'.current ELSE Nothing

\* A modeset waits for the flip that is still queued.
Blank ==
    /\ display' = "off"
    /\ queued' = FALSE
    /\ event' = (event \/ queued)
    /\ scanned' = "front"
    /\ begun' = FALSE
    /\ pc' = "probe"
    /\ UNCHANGED <<flight, undrawn>>

\* Shows the last framebuffer again.
Unblank == display' = "lit"

\* Display::present up to its wait.  A commit on top of a flip that is still
\* queued is refused, and the error ends the process.
Flip ==
    IF queued
    THEN pc' = "exited" /\ UNCHANGED <<queued, flight, undrawn, begun>>
    ELSE /\ flight' = Drawn
         /\ queued' = TRUE
         /\ undrawn' = FALSE
         /\ begun' = FALSE
         /\ pc' = "flip"

\* blanked() looks at the clock again; the frame that is due is drawn at the
\* earlier time.
Decide ==
    /\ pc = "decide"
    /\ scene' = Frame(scene)
    /\ \/ /\ scene'.blanked
          /\ Blank
       \/ /\ ~scene'.blanked
          /\ ~due
          /\ Unblank
          /\ pc' = "probe"
          /\ UNCHANGED <<queued, event, scanned, flight, undrawn, begun>>
       \/ /\ ~scene'.blanked
          /\ due
          /\ Unblank
          /\ Flip
          /\ UNCHANGED <<event, scanned>>
    /\ UNCHANGED <<sourceVars, decodeVars, pending, images, due, plug, plugs,
                   front, late, mode, alive>>

\* The kernel reaches the vertical blank.
FlipDone ==
    /\ queued
    /\ queued' = FALSE
    /\ event' = TRUE
    /\ scanned' = IF pc = "flip" THEN "flight" ELSE "front"
    /\ UNCHANGED <<sourceVars, decodeVars, appVars, plug, plugs, front, flight, late,
                   undrawn, begun, pipeVars, pc>>

\* present assigns the front buffer once wait_for_flip returns, and so gives
\* the one before it back to the surface.
Release ==
    /\ front' = flight
    /\ flight' = Nothing
    /\ scanned' = IF scanned = "flight" THEN "front" ELSE "lost"
    /\ pc' = "probe"

\* Any page-flip event ends the wait.
FlipSeen ==
    /\ pc = "flip"
    /\ event
    /\ event' = FALSE
    /\ Release
    /\ UNCHANGED <<sourceVars, decodeVars, appVars, queued, plug, plugs, late, undrawn,
                   begun, pipeVars>>

\* A second went by without one.
FlipTimeout ==
    /\ pc = "flip"
    /\ ~event
    /\ late' = TRUE
    /\ Release
    /\ UNCHANGED <<sourceVars, decodeVars, appVars, kernelVars, undrawn, begun, pipeVars>>

\* After a frame the loop goes round, and otherwise it sleeps.
GoOn ==
    /\ pc' = IF due /\ display = "lit" THEN "update" ELSE "asleep"
    /\ due' = FALSE
    /\ UNCHANGED <<pipeVars, scanVars, queued, event>>

\* Dropping the Display takes its buffers and its context along.
DropDisplay ==
    /\ display' = "none"
    /\ mode' = Nothing
    /\ alive' = {}
    /\ front' = Nothing
    /\ flight' = Nothing
    /\ scanned' = "front"
    /\ queued' = FALSE
    /\ event' = (event \/ queued)
    /\ UNCHANGED <<late, undrawn, begun>>

\* Display::poll_hotplug finds no panel, or another mode.
Changed == plug # mode

\* The connector is probed every two seconds.
Probe ==
    /\ pc = "probe"
    /\ \/ GoOn
       \/ /\ Changed
          /\ DropDisplay
          /\ due' = FALSE
          /\ pc' = "connect"
    /\ UNCHANGED <<sourceVars, decodeVars, pending, images, scene, plug, plugs>>

\* Mutant: the events of late flips stay in the fd.
WakeUndrained ==
    /\ pc = "asleep"
    /\ pc' = "update"
    /\ late' = (late /\ queued)
    /\ UNCHANGED <<sourceVars, decodeVars, appVars, kernelVars,
                   front, flight, scanned, undrawn, begun, pipeVars>>

\* wait_idle ends with news, a ramp's end or the next probe, and drains the fd.
Wake ==
    /\ pc = "asleep"
    /\ pc' = "update"
    /\ event' = FALSE
    /\ late' = (late /\ queued)
    /\ UNCHANGED <<sourceVars, decodeVars, appVars, queued, plug, plugs,
                   front, flight, scanned, undrawn, begun, pipeVars>>

----
(* The loop around it, that owns the pipeline *)

\* Card::open wants a connected output, and only later does the process wait.
Start ==
    /\ pc = "start"
    /\ pc' = IF plug = Nothing THEN "exited" ELSE "connect"
    /\ UNCHANGED <<sourceVars, decodeVars, appVars, kernelVars, scanVars, pipeVars>>

Connected ==
    /\ pc = "connect"
    /\ plug # Nothing
    /\ pc' = "open"
    /\ UNCHANGED <<sourceVars, decodeVars, appVars, kernelVars, scanVars, pipeVars>>

\* Display::open.  Any error ends the process, and so does a panel that has
\* gone meanwhile.
Open ==
    /\ pc = "open"
    /\ \/ /\ pc' = "exited"
          /\ UNCHANGED <<display, mode, alive, undrawn>>
       \/ /\ plug # Nothing
          /\ display' = "lit"
          /\ mode' = plug
          /\ alive' = {}
          /\ undrawn' = TRUE
          /\ pc' = "update"
    /\ UNCHANGED <<sourceVars, decodeVars, appVars, kernelVars, front, flight, scanned, late,
                   begun>>

\* systemd starts the renderer again.
Restart ==
    /\ pc = "exited"
    /\ news' = "none"
    /\ asked' = IF live THEN "off" ELSE "on"
    /\ shows' = 0
    /\ cleared' = FALSE
    /\ last' = Nothing
    /\ requests' = <<>>
    /\ results' = <<>>
    /\ batch' = <<>>
    /\ pending' = Nothing
    /\ images' = {}
    /\ scene' = NewScene
    /\ due' = FALSE
    /\ display' = "none"
    /\ mode' = Nothing
    /\ alive' = {}
    /\ front' = Nothing
    /\ flight' = Nothing
    /\ scanned' = "front"
    /\ queued' = FALSE
    /\ event' = FALSE
    /\ late' = FALSE
    /\ undrawn' = TRUE
    /\ begun' = FALSE
    /\ pc' = "start"
    /\ UNCHANGED <<live, placeholder, plug, plugs>>

Hotplug ==
    /\ plug' \in (Modes \cup {Nothing}) \ {plug}
    /\ IF plug = Nothing THEN UNCHANGED plugs
       ELSE plugs < MaxPlugs /\ plugs' = plugs + 1
    /\ UNCHANGED <<sourceVars, decodeVars, appVars, queued, event, scanVars, pipeVars, pc>>

\* Time passes, except where the code works with one reading of the clock.
Advance ==
    /\ pc # "admit"
    /\ NeedsFrame(scene)
    /\ scene' = Later(scene)
    /\ UNCHANGED <<sourceVars, decodeVars, pending, images, due, kernelVars, scanVars,
                   pipeVars, pc>>

----
LoopStep ==
    \/ Start \/ Connected \/ Open \/ Update \/ Admit \/ Decide
    \/ FlipSeen \/ FlipTimeout \/ Probe \/ Wake \/ Restart

RenderNext ==
    \/ LoopStep
    \/ Snapshot \/ NextSlide \/ Decode
    \/ FlipDone \/ Hotplug \/ Advance

RenderSpec == RenderInit /\ [][RenderNext]_renderVars

\* The loop's thread is scheduled, waits end after at most two seconds, and
\* time passes.  The sender, the decoder and the kernel owe nothing.
FairRenderSpec ==
    /\ RenderSpec
    /\ WF_renderVars(LoopStep)
    /\ WF_renderVars(Advance)

----
(* Properties *)

Ramps == [left : Nat, span : Nat]
Wanted == [id : Images, upgrade : BOOLEAN]
Scenes ==
    [current : Images \cup {Nothing}, previous : Images \cup {Nothing},
     cross : Ramps, fade : Nat, power : DisplayPower, blanked : BOOLEAN]

SourceTypes ==
    /\ live \in BOOLEAN /\ placeholder \in BOOLEAN
    /\ news \in {"none", "show", "upgrade", "clear"}
    /\ asked \in DisplayPower
    /\ shows \in Nat /\ (live => shows <= MaxId)
    /\ cleared \in BOOLEAN
    /\ last \in Images \cup {Nothing}

DecodeTypes == requests \in Seq(Images) /\ results \in Seq(Images) /\ batch \in Seq(Images)

AppTypes ==
    /\ pending \in Wanted \cup {Nothing}
    /\ images \in SUBSET Images
    /\ scene \in Scenes
    /\ due \in BOOLEAN

KernelTypes ==
    /\ queued \in BOOLEAN /\ event \in BOOLEAN
    /\ plug \in Modes \cup {Nothing}
    /\ plugs \in 0 .. MaxPlugs

ScanTypes ==
    /\ front \in Images \cup {Nothing} /\ flight \in Images \cup {Nothing}
    /\ scanned \in {"front", "flight", "lost"}
    /\ late \in BOOLEAN /\ undrawn \in BOOLEAN /\ begun \in BOOLEAN

PipeTypes ==
    /\ display \in {"none", "lit", "off"}
    /\ mode \in Modes \cup {Nothing}
    /\ alive \in SUBSET Images

\* The shape of the state: a picture everywhere is one of the source's, and
\* artd's source hands out at most MaxId of them.
RenderTypeOK ==
    /\ SourceTypes /\ DecodeTypes /\ AppTypes /\ KernelTypes /\ ScanTypes /\ PipeTypes
    /\ pc \in {"start", "connect", "open", "update", "admit", "decide", "flip", "probe",
               "asleep", "exited"}

\* When the loop goes to sleep the panel is off if and only if it is to be
\* off; and if it is lit, no ramp is running and none began that the panel got
\* no frame of: scene.rs promises that the loop may then block for as long as
\* it likes.  (The frame there is of the last ramp, not always its end.)
AsleepIsSettled ==
    pc = "asleep" =>
        /\ display = (IF scene.power = "off" THEN "off" ELSE "lit")
        /\ display = "lit" => ~Moves(scene) /\ ~begun

\* What is shown is held until nothing shows it: the buffer the kernel reads is
\* not handed back to the renderer, except after a flip that timed out, whose late
\* event ends the wait for the flip after it; and what the scene draws is in
\* App::images, which never holds more than two.  (drm.rs, flip; app.rs, retain.)
PicturesAreHeld ==
    /\ scanned = "lost" => late
    /\ {scene.current, scene.previous} \ {Nothing} \subseteq images
    /\ Cardinality(images) <= 2

\* Whatever decodes in between, the image that artd sent last is the one on
\* display once the decoder has nothing left.
LastShowWins ==
    live /\ news = "none" /\ requests = <<>> /\ results = <<>> /\ batch = <<>>
         /\ last # Nothing
    => scene.current = last

\* What a sleeping loop drew last is the current image or none, and another one
\* only if a crossfade takes no time.  None: when nothing was drawn since the
\* pipeline was opened, or since the image came up without a ramp (the first one
\* does), and after a mode change, which takes the textures along with their
\* context; that it does not blank the artwork, as main.rs says, does not hold.
RestShowsCover ==
    pc = "asleep" /\ display = "lit" /\ ~late =>
        \/ front = scene.current
        \/ front = Nothing /\ (undrawn \/ scene.current \in images \ alive)
        \/ undrawn /\ (CrossFade = 0 \/ EnrichmentFade = 0)

\* When the display is to be off for good, the panel ends up dark, through
\* late flips, hotplug and restarts.
DarkInTheEnd == <>[](asked = "off") => <>[](display # "lit")

====
