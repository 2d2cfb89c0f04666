---- MODULE ArtPipeline ----
(***************************************************************************)
(* A cover's way to the screen.  artd stages each image as a file          *)
(* (crates/artd/src/artwork.rs), numbers it (Machine::set_artwork) and     *)
(* publishes its path; lprender's reader thread keeps the last snapshot    *)
(* and signals a pipe the render loop sleeps on, and the loop decides what *)
(* to put up (crates/lprender/src/source/artd.rs).  Between the two is     *)
(* SnapshotStream, which SnapshotFeed implements.                          *)
(*                                                                         *)
(* The published state is its artwork here; every other change of it is    *)
(* Republish.  An image of the sender and one found by enrichment are      *)
(* staged alike and are not told apart.  What the loop does with an image  *)
(* once it has decided on it is the renderer's own business.               *)
(***************************************************************************)
EXTENDS SnapshotStream, FiniteSets

CONSTANTS
    renderer,  \* the one follower that looks at artwork
    Images,    \* contents, as told apart by their digest
    NoArt,     \* State::artwork is None
    Retain,    \* ipc.art_retain: how many files are kept
    MaxFiles,  \* bound of the model: files one run of artd names
    MaxSpoilt  \* bound of the model: scratch files left by failed writes

\* NNNN-<sha8>.<ext>: the number starts again at 1 with artd.
Path == [number : 1 .. MaxFiles, image : Images]
Artwork == [revision : 1 .. MaxFiles, path : Path, image : Images]

ASSUME RendererAssumption == Followers = {renderer}
ASSUME StatesAssumption == Values = Artwork \cup {NoArt} /\ Initial = NoArt
ASSUME NoArtAssumption == NoArt \notin Artwork /\ Nothing \notin Values
ASSUME RetainAssumption == Retain \in Nat /\ Retain >= 2 /\ MaxFiles \in Nat \ {0}
ASSUME SpoiltAssumption == MaxSpoilt \in Nat

VARIABLES
    files,       \* the images in ipc.art_dir
    scratch,     \* the images whose .NAME.tmp is in ipc.art_dir
    spoilt,      \* how many writes have left such a file there
    written,     \* ArtStore::written, oldest first
    nextFile,    \* ArtStore::next_seq
    signalling,  \* the reader has stored a snapshot and not yet signalled
    wakeup,      \* the self-pipe holds something
    loop,        \* where the render loop is in ArtdSource::poll
    handled,     \* ArtdSource::handled, 0 for None
    cleared,     \* ArtdSource::cleared
    chosen,      \* the artwork poll decided to show last, NoArt after a clear
    missed,      \* its file was not there when poll looked for it
    wanted       \* the image the render loop was last told to put up

store == <<files, scratch, spoilt, written, nextFile>>
source == <<signalling, wakeup, loop, handled, cleared, chosen, missed, wanted>>
artVars == <<streamVars, store, source>>

ArtInit == /\ StreamInit
           /\ files = {} /\ scratch = {} /\ spoilt = 0
           /\ written = << >> /\ nextFile = 1
           /\ signalling = FALSE /\ wakeup = FALSE /\ loop = "asleep"
           /\ handled = 0 /\ cleared = FALSE
           /\ chosen = NoArt /\ missed = FALSE /\ wanted = NoArt

----
(* artd: the staging directory *)

\* Mutant: the file just written is the one unlinked.
KeptWithoutNewest(paths) ==
    IF Len(paths) > Retain THEN Front(paths) ELSE paths

\* ArtStore::gc, after one file more.
Kept(paths) == IF Len(paths) > Retain THEN Tail(paths) ELSE paths

\* The rename takes the scratch file away, also one that was there before.
StoreFile(path) ==
    /\ nextFile < MaxFiles
    /\ nextFile' = nextFile + 1
    /\ written' = Kept(Append(written, path))
    /\ files' = (files \cup {path}) \ (Range(Append(written, path)) \ Range(written'))
    /\ scratch' = scratch \ {path}
    /\ UNCHANGED spoilt

----
(* artd: the machine, on the main loop *)

SetArtwork(path) ==
    IF state # NoArt /\ state.image = path.image
    THEN UNCHANGED streamVars
    ELSE Change([revision |-> IF state = NoArt THEN 1 ELSE state.revision + 1,
                 path     |-> path,
                 image    |-> path.image])

\* A picture from the sender, an injected one, or an upgrade of enrichment.
Picture(image) ==
    LET path == [number |-> nextFile, image |-> image]
    IN  /\ StoreFile(path)
        /\ SetArtwork(path)
        /\ UNCHANGED source

\* The number is used up, and the previous image stays.  A write that could
\* not be opened leaves nothing behind; one that ended half way, or could not
\* be renamed, its scratch file, which nothing looks for again.
StoreFails(image) ==
    LET path == [number |-> nextFile, image |-> image]
    IN  /\ nextFile < MaxFiles
        /\ nextFile' = nextFile + 1
        /\ \/ UNCHANGED <<scratch, spoilt>>
           \/ /\ spoilt < MaxSpoilt
              /\ spoilt' = spoilt + 1
              /\ scratch' = scratch \cup {path}
        /\ UNCHANGED <<streamVars, files, written, source>>

PictureCleared ==
    /\ state # NoArt
    /\ Change(NoArt)
    /\ files' = files \ Range(written)
    /\ written' = << >>
    /\ UNCHANGED <<scratch, spoilt, nextFile, source>>

\* Any other change of the state.
Republish == Change(state) /\ UNCHANGED <<store, source>>

\* ArtStore::new unlinks the images an earlier run left behind: what ends in
\* jpg or png, which a scratch file does not.
ArtdRestart ==
    /\ Change(NoArt)
    /\ files' = {} /\ written' = << >> /\ nextFile' = 1
    /\ UNCHANGED <<scratch, spoilt, source>>

----
(* lprender: the reader thread *)

\* The lock is released between the snapshot and the signal.
TakeSnapshot ==
    /\ ~signalling
    /\ Tell(renderer)
    /\ signalling' = TRUE
    /\ UNCHANGED <<store, wakeup, loop, handled, cleared, chosen, missed, wanted>>

Signal ==
    /\ signalling
    /\ signalling' = FALSE
    /\ wakeup' = TRUE
    /\ UNCHANGED <<streamVars, store, loop, handled, cleared, chosen, missed, wanted>>

\* The connection ends: of itself, or because artd did.
LoseConnection ==
    /\ ~signalling
    /\ Change(state)
    /\ signalling' = TRUE
    /\ UNCHANGED <<store, wakeup, loop, handled, cleared, chosen, missed, wanted>>

----
(* lprender: ArtdSource::poll, on the render loop *)

\* Clear the wakeup before reading.  The loop also comes round for reasons of
\* its own: a frame to present, the decoder, a hotplug check.
Drain ==
    /\ loop = "asleep"
    /\ loop' = "polling"
    /\ wakeup' = FALSE
    /\ UNCHANGED <<streamVars, store, signalling, handled, cleared, chosen, missed, wanted>>

Decision ==
    CASE told[renderer] = Nothing -> "nothing"
      [] told[renderer] # Nothing /\ told[renderer] = NoArt ->
           IF cleared THEN "nothing" ELSE "clear"
      [] OTHER ->
           IF handled = told[renderer].revision THEN "nothing" ELSE "show"

DecideNothing ==
    /\ loop = "polling" /\ Decision = "nothing"
    /\ loop' = "asleep"
    /\ UNCHANGED <<streamVars, store, signalling, wakeup, handled, cleared, chosen, missed, wanted>>

\* Mutant: a clear does not forget which revision was handled.
DecideClearKeepsHandled ==
    /\ loop = "polling" /\ Decision = "clear"
    /\ loop' = "asleep"
    /\ cleared' = TRUE
    /\ chosen' = NoArt /\ missed' = FALSE /\ wanted' = NoArt
    /\ UNCHANGED <<streamVars, store, signalling, wakeup, handled>>

DecideClear ==
    /\ loop = "polling" /\ Decision = "clear"
    /\ loop' = "asleep"
    /\ cleared' = TRUE /\ handled' = 0
    /\ chosen' = NoArt /\ missed' = FALSE /\ wanted' = NoArt
    /\ UNCHANGED <<streamVars, store, signalling, wakeup>>

DecideShow ==
    /\ loop = "polling" /\ Decision = "show"
    /\ loop' = "showing"
    /\ handled' = told[renderer].revision /\ cleared' = FALSE
    /\ chosen' = told[renderer] /\ missed' = FALSE
    /\ UNCHANGED <<streamVars, store, signalling, wakeup, wanted>>

\* Mutant: the wakeup is cleared when poll is done instead of when it begins.
ShowThenDrain ==
    /\ loop = "showing"
    /\ loop' = "asleep"
    /\ wanted' = IF chosen.path \in files THEN chosen.image ELSE wanted
    /\ missed' = (chosen.path \notin files)
    /\ wakeup' = FALSE
    /\ UNCHANGED <<streamVars, store, signalling, handled, cleared, chosen>>

\* The file is looked for after the lock is released; one that is gone leaves
\* the current image up, and is not asked for again.
Show ==
    /\ loop = "showing"
    /\ loop' = "asleep"
    /\ wanted' = IF chosen.path \in files THEN chosen.image ELSE wanted
    /\ missed' = (chosen.path \notin files)
    /\ UNCHANGED <<streamVars, store, signalling, wakeup, handled, cleared, chosen>>

Poll == Drain \/ DecideNothing \/ DecideClear \/ DecideShow \/ Show

RendererRestart ==
    /\ Forget(renderer)
    /\ signalling' = FALSE /\ wakeup' = FALSE /\ loop' = "asleep"
    /\ handled' = 0 /\ cleared' = FALSE
    /\ chosen' = NoArt /\ missed' = FALSE /\ wanted' = NoArt
    /\ UNCHANGED store

----
ArtNext == \/ \E image \in Images : Picture(image) \/ StoreFails(image)
           \/ PictureCleared \/ Republish \/ ArtdRestart
           \/ TakeSnapshot \/ Signal \/ LoseConnection
           \/ Poll
           \/ RendererRestart

ArtSpec == ArtInit /\ [][ArtNext]_artVars

\* A stream is told to its end (SnapshotFeed's fairness), and the two threads
\* run; but a sleeping loop is only sure to wake when the pipe holds something.
Reader == TakeSnapshot \/ Signal
Awake == Poll /\ (loop # "asleep" \/ wakeup)

FairArtSpec == ArtSpec /\ WF_artVars(Reader) /\ WF_artVars(Awake)

----
(* Properties *)

ArtTypeOK ==
    /\ StreamTypeOK
    /\ files \subseteq Path /\ written \in Seq(Path) /\ nextFile \in 1 .. MaxFiles
    /\ scratch \subseteq Path /\ spoilt \in 0 .. MaxSpoilt
    /\ signalling \in BOOLEAN /\ wakeup \in BOOLEAN /\ cleared \in BOOLEAN
    /\ loop \in {"asleep", "polling", "showing"}
    /\ handled \in 0 .. MaxFiles
    /\ chosen \in Artwork \cup {NoArt} /\ wanted \in Images \cup {NoArt}
    /\ missed \in BOOLEAN
    /\ loop = "showing" => chosen # NoArt

(* The images in the directory are those that artd believes it wrote, and  *)
(* never more than the configured number, through clears, failures and     *)
(* restarts.  What fills the tmpfs is failed writes and nothing else: each *)
(* may leave one scratch file, which neither the window nor a restart      *)
(* takes away.                                                             *)
StoreBounded == /\ files = Range(written) /\ Len(written) =< Retain
                /\ Cardinality(scratch) =< spoilt

(* A published path can go missing only when the same image has been sent  *)
(* again at least Retain times: all that is left are copies of it.  No new *)
(* image, clear, failed write or restart takes away the current cover.     *)
PathLostOnlyToResends ==
    state # NoArt /\ state.path \notin files =>
        /\ Len(written) = Retain
        /\ \A path \in files : path.image = state.image

(* The render loop never sleeps on news: parked with nothing in the pipe   *)
(* and the reader not about to signal, it has nothing left to decide.      *)
NeverSleepsOnNews ==
    loop = "asleep" /\ ~wakeup /\ ~signalling => Decision = "nothing"

(* Once artd publishes nothing more and both processes stay up, the        *)
(* renderer has been told the current artwork, has decided on it, and has  *)
(* its image up, or nothing if there is none.  (The comment at the head of *)
(* source/artd.rs, :15-18, says that the last image stays up then; poll    *)
(* clears it.)  There are two ways not to get there, and each has to have  *)
(* happened to the artwork that is current: its revision is one that was   *)
(* handled for an earlier one, or its file was gone when poll looked.      *)
ArtQuiet == [][Reader \/ Poll]_artVars
TakenForAnother == chosen # state /\ chosen.revision = state.revision
FileWasGone == chosen = state /\ missed
Settled == /\ told[renderer] = state /\ Decision = "nothing" /\ loop # "showing"
           /\ \/ wanted = IF state = NoArt THEN NoArt ELSE state.image
              \/ state # NoArt /\ chosen # NoArt /\ (TakenForAnother \/ FileWasGone)
RendererSettles == <>ArtQuiet => <>[]Settled

(* What the revision is for (lpframe-proto/src/lib.rs:134-136, DESIGN.md   *)
(* :29 and :351): it identifies the image, so a renderer that was told     *)
(* everything and is at rest does not have another cover up.  Not asked    *)
(* when the current image's file is gone.                                  *)
NoWrongCoverAtRest ==
    loop = "asleep" /\ ~wakeup /\ ~signalling /\ stream[renderer] = << >>
    /\ state # NoArt /\ state.path \in files =>
        wanted \in {NoArt, state.image}

====
