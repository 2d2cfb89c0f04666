---- MODULE Enrichment ----
(***************************************************************************)
(* Artwork enrichment (crates/artd/src/enrich and the two places of        *)
(* runtime.rs that use it): the main loop offers the album on display, a   *)
(* task per album searches the catalogues on one of a few workers, and its *)
(* report comes back through a bounded channel, to be shown if the album   *)
(* still plays.                                                            *)
(*                                                                         *)
(* The sender and the catalogues are external.  A picture is its album,    *)
(* its size and where it came from; two pictures are the same bytes when   *)
(* these are equal.  Scores and pixels are left out: a gate other than the *)
(* size gate may decide either way.  Waiting for a token of a bucket and   *)
(* for the next attempt are steps that may take any time.                  *)
(***************************************************************************)
EXTENDS Integers, Sequences, FiniteSets

CONSTANTS
    Albums,       \* album_key of every artist and album
    NoAlbum,      \* a track without an artist or without an album, or none
    Nothing,      \* no picture
    SentSizes,    \* the lesser sides of the pictures a sender sends
    FoundSizes,   \* and of those a catalogue holds
    Sources,      \* how many catalogues are configured
    MaxAttempts,  \* MAX_ATTEMPTS
    PoolSizes,    \* values of WORKERS
    Slots,        \* room for the tasks that run at once
    MaxReports,   \* capacity of the channel of reports
    MaxRevision   \* bound of the model: pictures sent since the last clear

ASSUME AlbumsAssumption == NoAlbum \notin Albums
ASSUME SizesAssumption == SentSizes \cup FoundSizes \subseteq Nat \ {0}
ASSUME CountsAssumption ==
    {Sources, MaxAttempts, MaxReports, MaxRevision} \cup PoolSizes \subseteq Nat \ {0}

VARIABLES
    workers,         \* WORKERS, of this build
    track,           \* the album of State::track
    artwork,         \* State::artwork
    currentKey,      \* Inner::current_key
    lastConsidered,  \* Inner::last_considered
    flights,         \* SingleFlight::keys
    tasks,           \* the spawned tasks
    cached,          \* the rows of the cache whose file is whole
    negative,        \* the negative entries that have not expired
    reports          \* the channel to the main loop

enricher == <<currentKey, lastConsidered, flights, tasks>>
cache == <<cached, negative>>
enrichVars == <<workers, track, artwork, enricher, cache, reports>>

Sent == [album : Albums, size : SentSizes, from : {"sender"}]
Found == [album : Albums, size : FoundSizes, from : {"catalogue"}]

\* over is the size of the picture the request was made for.
Task == [phase : {"queued", "checking", "asking", "sending"}, key : Albums,
         over : SentSizes, source : 1 .. Sources, attempt : 1 .. MaxAttempts,
         verdict : Found \cup {Nothing}]
Free == [phase |-> "free"]
Report == [key : Albums, verdict : Found \cup {Nothing}]

Revision == IF artwork = Nothing THEN 0 ELSE artwork.revision

StillCurrent(t) == currentKey = tasks[t].key

EnrichInit ==
    /\ workers \in PoolSizes
    /\ track = NoAlbum /\ artwork = Nothing
    /\ currentKey = NoAlbum /\ lastConsidered = <<NoAlbum, 0>>
    /\ flights = {} /\ tasks = [t \in Slots |-> Free]
    /\ cached = [a \in Albums |-> Nothing] /\ negative = {}
    /\ reports = << >>

----
(* The main loop *)

\* Machine::set_artwork: the same bytes again do not make a revision.
SetArtwork(picture) ==
    IF artwork # Nothing /\ artwork.image = picture THEN artwork
    ELSE [revision |-> Revision + 1, image |-> picture]

\* Whether Core::consider_enrichment has something to offer.
Eligible(album, art) ==
    album # NoAlbum /\ art # Nothing /\ art.image.from = "sender"

Spawn(album, size) ==
    LET t == CHOOSE u \in Slots : tasks[u] = Free
    IN  /\ \E u \in Slots : tasks[u] = Free
        /\ tasks' = [tasks EXCEPT ![t] =
               [phase |-> "queued", key |-> album, over |-> size, source |-> 1,
                attempt |-> 1, verdict |-> Nothing]]

\* Mutant: only a pair already seen is refused, SingleFlight::enter is not called.
RefusedIfSeen(pair) == lastConsidered = pair

Refused(pair) == lastConsidered = pair \/ pair[1] \in flights

Consider(album, art) ==
    LET pair == <<album, art.revision>>
    IN  /\ currentKey' = album
        /\ lastConsidered' = pair
        /\ IF Refused(pair)
             THEN UNCHANGED <<flights, tasks>>
             ELSE flights' = flights \cup {album} /\ Spawn(album, art.image.size)

\* Every input of the machine ends with Core::consider_enrichment.
Handle(album, art) ==
    /\ track' = album
    /\ artwork' = art
    /\ IF Eligible(album, art) THEN Consider(album, art) ELSE UNCHANGED enricher
    /\ UNCHANGED <<workers, cache, reports>>

Bundle(album) == Handle(album, artwork)

PictureArrives(picture) ==
    /\ Revision < MaxRevision
    /\ Handle(track, SetArtwork(picture))

PictureCleared ==
    /\ artwork # Nothing
    /\ Handle(track, Nothing)

\* Core::handle_enrichment, of a report for the album that plays; the store may
\* fail, and then the picture stays.
Accept(report) ==
    \/ report.verdict # Nothing /\ artwork' = SetArtwork(report.verdict)
    \/ artwork' = artwork

\* Mutant: the report's key is not compared with the track.
TakeReportUnchecked ==
    /\ Len(reports) > 0
    /\ reports' = Tail(reports)
    /\ Accept(Head(reports))
    /\ UNCHANGED <<workers, track, enricher, cache>>

TakeReport ==
    /\ Len(reports) > 0
    /\ reports' = Tail(reports)
    /\ IF Head(reports).key = track THEN Accept(Head(reports)) ELSE UNCHANGED artwork
    /\ UNCHANGED <<workers, track, enricher, cache>>

----
(* A task *)

Running == {t \in Slots : tasks[t].phase \notin {"free", "queued"}}

\* Mutant: the key is not released when the task returns.
EndInFlight(t) == tasks' = [tasks EXCEPT ![t] = Free] /\ UNCHANGED flights

\* The task returns: its permit and then its key are given back.
End(t) ==
    /\ tasks' = [tasks EXCEPT ![t] = Free]
    /\ flights' = flights \ {tasks[t].key}

Goto(t, phase) == tasks' = [tasks EXCEPT ![t].phase = phase] /\ UNCHANGED flights

\* Inner::run returns: what it knew of catalogues and attempts is gone, and a
\* verdict on an album that does not play any more is not reported.
Conclude(t, verdict) ==
    IF StillCurrent(t)
      THEN /\ tasks' = [tasks EXCEPT ![t].phase = "sending", ![t].verdict = verdict,
                                     ![t].source = 1, ![t].attempt = 1]
           /\ UNCHANGED flights
      ELSE End(t)

\* Mutant: a cached picture is used whatever its size.
LookupAnySize(t) ==
    LET hit == cached[tasks[t].key]
    IN  IF hit # Nothing THEN Conclude(t, hit)
        ELSE IF tasks[t].key \in negative THEN Conclude(t, Nothing)
        ELSE Goto(t, "checking")

\* Mutant: negative entries are written and never read.
LookupWithoutMisses(t) ==
    LET hit == cached[tasks[t].key]
    IN  IF hit # Nothing
          THEN Conclude(t, IF hit.size > tasks[t].over THEN hit ELSE Nothing)
          ELSE Goto(t, "checking")

\* What the cache says of an album: a picture that is sharper than the one on
\* display, one that is not, a recent miss, or nothing.
Lookup(t) ==
    LET hit == cached[tasks[t].key]
    IN  IF hit # Nothing
          THEN Conclude(t, IF hit.size > tasks[t].over THEN hit ELSE Nothing)
        ELSE IF tasks[t].key \in negative THEN Conclude(t, Nothing)
        ELSE Goto(t, "checking")

Start(t) ==
    /\ tasks[t].phase = "queued"
    /\ Cardinality(Running) < workers
    /\ IF StillCurrent(t) THEN Lookup(t) ELSE End(t)
    /\ UNCHANGED <<workers, track, artwork, currentKey, lastConsidered, cache, reports>>

\* SourceOutcome::Nothing and NoTextMatch: the next catalogue is tried, and
\* after the last one the miss is noted, if the index can be written.
NextSource(t) ==
    /\ IF tasks[t].source < Sources
         THEN /\ tasks' = [tasks EXCEPT ![t].phase = "checking", ![t].attempt = 1,
                                        ![t].source = @ + 1]
              /\ UNCHANGED <<flights, negative>>
         ELSE /\ Conclude(t, Nothing)
              /\ negative' \in {negative, negative \cup {tasks[t].key}}
    /\ UNCHANGED cached

\* The head of the loop of attempts, and the token.
Check(t) ==
    /\ tasks[t].phase = "checking"
    /\ IF StillCurrent(t) THEN Goto(t, "asking") /\ UNCHANGED cache ELSE NextSource(t)
    /\ UNCHANGED <<workers, track, artwork, currentKey, lastConsidered, reports>>

\* The answer of a catalogue, with what the gates and the cache make of it.
\* Whether the album still plays matters only to the report, not to the cache.
Retry(t) ==
    /\ tasks[t].attempt < MaxAttempts
    /\ tasks' = [tasks EXCEPT ![t].phase = "checking", ![t].attempt = @ + 1]
    /\ UNCHANGED <<flights, cache>>

\* An error that is final, the last attempt, or a gate that refused the picture.
GiveUp(t) == Conclude(t, Nothing) /\ UNCHANGED cache

SizeGate(current, candidate) == 2 * candidate >= 3 * current

Upgrade(t, picture) ==
    /\ picture.album = tasks[t].key
    /\ SizeGate(tasks[t].over, picture.size)
    /\ Conclude(t, picture)
    /\ \/ /\ cached' = [cached EXCEPT ![picture.album] = picture]
          /\ negative' = negative \ {picture.album}
       \/ UNCHANGED cache

Answer(t) ==
    /\ tasks[t].phase = "asking"
    /\ \/ NextSource(t)
       \/ Retry(t)
       \/ GiveUp(t)
       \/ \E picture \in Found : Upgrade(t, picture)
    /\ UNCHANGED <<workers, track, artwork, currentKey, lastConsidered, reports>>

Send(t) ==
    /\ tasks[t].phase = "sending"
    /\ Len(reports) < MaxReports
    /\ reports' = Append(reports, [key |-> tasks[t].key, verdict |-> tasks[t].verdict])
    /\ End(t)
    /\ UNCHANGED <<workers, track, artwork, currentKey, lastConsidered, cache>>

----
(* The cache and the process *)

\* A sweep evicts the album, or its file is found to be missing or corrupt.
Lose(a) ==
    /\ cached[a] # Nothing
    /\ cached' = [cached EXCEPT ![a] = Nothing]
    /\ UNCHANGED <<workers, track, artwork, enricher, negative, reports>>

Expire(a) ==
    /\ a \in negative
    /\ negative' = negative \ {a}
    /\ UNCHANGED <<workers, track, artwork, enricher, cached, reports>>

\* artd starts again, with its cache.
Restart ==
    /\ track' = NoAlbum /\ artwork' = Nothing
    /\ currentKey' = NoAlbum /\ lastConsidered' = <<NoAlbum, 0>>
    /\ flights' = {} /\ tasks' = [t \in Slots |-> Free]
    /\ reports' = << >>
    /\ UNCHANGED <<workers, cache>>

TaskStep(t) == Start(t) \/ Check(t) \/ Answer(t) \/ Send(t)

EnrichNext ==
    \/ \E a \in Albums \cup {NoAlbum} : Bundle(a)
    \/ \E picture \in Sent : PictureArrives(picture)
    \/ PictureCleared
    \/ TakeReport
    \/ \E t \in Slots : TaskStep(t)
    \/ \E a \in Albums : Lose(a) \/ Expire(a)
    \/ Restart

EnrichSpec == EnrichInit /\ [][EnrichNext]_enrichVars

\* The main loop takes its reports and the runtime polls every task; permits
\* and room in the channel are given in the order they were asked for, and a
\* request to a catalogue ends, with a timeout if need be.
FairEnrichSpec ==
    /\ EnrichSpec
    /\ WF_enrichVars(TakeReport)
    /\ \A t \in Slots : SF_enrichVars(TaskStep(t))

----
(* Properties *)

EnrichTypeOK ==
    /\ workers \in PoolSizes
    /\ track \in Albums \cup {NoAlbum}
    /\ artwork \in [revision : Nat \ {0}, image : Sent \cup Found] \cup {Nothing}
    /\ currentKey \in Albums \cup {NoAlbum}
    /\ lastConsidered \in (Albums \cup {NoAlbum}) \X Nat
    /\ flights \subseteq Albums
    /\ tasks \in [Slots -> Task \cup {Free}]
    /\ cached \in [Albums -> Found \cup {Nothing}]
    /\ negative \subseteq Albums
    /\ reports \in Seq(Report) /\ Len(reports) <= MaxReports

\* No two tasks search for one album, however its bundles and pictures come
\* and whatever became of the tasks before, and a key in flight is the key of
\* a task, so that no early return leaves it behind (limit.rs:133-137).
OneSearchPerAlbum ==
    /\ \A a \in flights : \E t \in Slots : tasks[t] # Free /\ tasks[t].key = a
    /\ \A t \in Slots : tasks[t] # Free =>
           /\ tasks[t].key \in flights
           /\ \A u \in Slots : tasks[u] # Free /\ tasks[u].key = tasks[t].key => u = t

\* No catalogue is asked about an album while a miss of it is remembered,
\* whichever of its tasks noted the miss (Verdict::NegativeCacheHit: "no
\* request was made").
NoRequestAfterAMiss ==
    \A t \in Slots : tasks[t].phase \in {"checking", "asking"} => tasks[t].key \notin negative

\* What a task reports is a picture of its own album, and sharper than the one
\* its request was made for, from the cache as from a catalogue.
UpgradesAreSharper ==
    \A t \in Slots : tasks[t] # Free /\ tasks[t].verdict # Nothing =>
        tasks[t].verdict.album = tasks[t].key /\ tasks[t].verdict.size > tasks[t].over

\* The sender's picture on display has been offered for the album that plays,
\* whichever of the two came last (runtime.rs:197-202).
OfferedAsShown ==
    Eligible(track, artwork) =>
        currentKey = track /\ lastConsidered = <<track, artwork.revision>>

\* A picture of a catalogue goes up only for the album that plays at that
\* moment, however late its report (runtime.rs:230-234).
UpgradeFitsTheTrack ==
    [][artwork' # artwork /\ artwork' # Nothing /\ artwork'.image.from = "catalogue"
         => artwork'.image.album = track']_enrichVars

\* A key that is in flight is released, so that its album can be searched again.
FlightsLand == \A a \in Albums : []<>(a \notin flights)

====
