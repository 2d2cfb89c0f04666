---- MODULE Algorithms ----
(***************************************************************************)
(* The parts that compute without waiting for anybody, each tried on every *)
(* input of a small set: the metadata machine on every short history of    *)
(* items, the rate limiter on every short history of calls, and the        *)
(* others on one input at a time.                                          *)
(***************************************************************************)
EXTENDS Naturals, Sequences

CONSTANTS
    Absent, EditionWords, Kilo, MaxBytes, Period, Capacity,   \* of the parts
    Levels, Linear, Lightness, Grid, HashWidth, HashHeight, HammingMax, SampleGrid, Iterations,
    Phrases, MaxItems,         \* items the pipe may carry in a row, and how many
    Calls, MaxCalls,           \* what workers may ask of the bucket, and how often
    Questions,                 \* <<artist, playing, offered>>
    Worlds,                    \* what catalogues answer, see Lookup
    Displays,                  \* <<card, want>>
    Pictures,                  \* <<panel, image, cfg>>
    Files,                     \* <<base, local, outcome>>
    Covers, Shown              \* covers a catalogue offers, and covers on display

ASSUME PartsAssumption ==
    /\ Kilo \in Nat \ {0, 1} /\ MaxBytes \in Nat
    /\ 2 * (Kilo * Kilo * Kilo) <= MaxBytes      \* the size of the cache that is the default
    /\ {Period, Capacity, Levels, Grid, HashWidth, HashHeight, SampleGrid, Iterations} \subseteq Nat \ {0}
    /\ HammingMax \in Nat
    /\ Calls \subseteq [gap : Nat, pause : Nat]

Machine == INSTANCE NowPlaying

\* The pipe carries items of text, of numbers and of neither; and None is no bundle
\* of fields and no track.
Items == UNION {{phrase[i] : i \in DOMAIN phrase} : phrase \in Phrases}
Texts == {item.text : item \in {i \in Items : i.code \in DOMAIN Machine!TextFields}}
Contents == Texts \cup {"a"} \cup Nat \cup {Absent}
ASSUME ItemsAssumption ==
    /\ Phrases \subseteq Seq(Items)
    /\ \A item \in Items : item.code \in DOMAIN Machine!NumberFields => item.value \in Nat
ASSUME AbsentAssumption ==
    /\ \A keys \in SUBSET Machine!FieldNames : Absent \notin [keys -> Contents]
    /\ Absent \notin Machine!Tracks(Contents)

Gate == INSTANCE Lookup

\* What attempts may meet: an album that is gone, an error, or records, each with
\* its pictures.
Perfect == 10000
IsRecord(r) ==
    /\ r.scores \in [artist : 0 .. Perfect, album : 0 .. Perfect]
    /\ \A size \in DOMAIN r.has : r.has[size] \in [is : {"ok", "broken"}, side : Nat \ {0}]
IsAnswer(a) ==
    /\ a.is \in {"gone", "network", "malformed", "notfound", "limited", "status", "offer"}
    /\ a.is = "limited" => a.header \in Seq(Nat)
    /\ a.is = "status" => a.code \in Nat
    /\ a.is = "offer" => /\ a.records \in Seq({a.records[i] : i \in DOMAIN a.records})
                         /\ \A i \in DOMAIN a.records : IsRecord(a.records[i])
ASSUME WorldsAssumption ==
    \A world \in Worlds :
       /\ world.sources \in Seq({"itunes", "musicbrainz"})
       /\ \A source \in {"itunes", "musicbrainz"} :
            LET answers == world.answers[source]
            IN /\ answers \in Seq({answers[i] : i \in DOMAIN answers})
               /\ \A i \in DOMAIN answers : IsAnswer(answers[i])
       /\ world.max_dimension \in Nat /\ world.current.side \in Nat
       /\ {world.current.known, world.current.readable} \subseteq BOOLEAN

Display == INSTANCE Scanout
Frame == INSTANCE Layout

\* A card: its lists, connectors of names of their own, encoders that reach CRTCs
\* of the card.  Panels, covers and what validation lets through.
IsList(s) == s \in Seq({s[i] : i \in DOMAIN s})
IsConnector(c, card) ==
    /\ IsList(c.modes) /\ IsList(c.encoders)
    /\ \A i \in DOMAIN c.modes : {c.modes[i].w, c.modes[i].h, c.modes[i].hz} \subseteq Nat
    /\ \A i \in DOMAIN c.encoders :
         c.encoders[i].possible \subseteq {card.crtcs[k] : k \in DOMAIN card.crtcs}
IsCard(card) ==
    /\ IsList(card.connectors) /\ IsList(card.crtcs) /\ IsList(card.planes) /\ IsList(card.formats)
    /\ \A i \in DOMAIN card.connectors : IsConnector(card.connectors[i], card)
    /\ \A i, j \in DOMAIN card.connectors :
         card.connectors[i].name = card.connectors[j].name => i = j
    /\ card.held \in Nat
ASSUME DisplaysAssumption ==
    \A display \in Displays :
       IsCard(display[1]) /\ display[2].mode \in {"auto", "highest", "explicit", "malformed"}
ASSUME PicturesAssumption ==
    \A picture \in Pictures :
       /\ {picture[1].w, picture[1].h, picture[2].w, picture[2].h} \subseteq Nat \ {0}
       /\ picture[3].rotation \in {0, 90, 180, 270} /\ picture[3].margin \in Nat
Config == INSTANCE Configuration

\* What may be written at a path; and whether a write of the daemon succeeds.
IsLeaf(leaf) ==
    /\ leaf[1] \in {"duration", "maybe"} => leaf[2].tenths \in Nat
    /\ leaf[1] = "size" => leaf[2].n \in Nat
    /\ leaf[1] = "flag" => leaf[2] \in BOOLEAN
ASSUME FilesAssumption ==
    \A files \in Files :
       /\ \A i \in 1 .. 2 : \A p \in DOMAIN files[i] : IsLeaf(files[i][p])
       /\ files[3].stored \in BOOLEAN

Limit == INSTANCE TokenBucket
Pixels == INSTANCE ImageAnalysis

\* Both curves rise from black.
Rises(curve) == curve[0] = 0 /\ \A v, w \in DOMAIN curve : v < w => curve[v] < curve[w]
ASSUME CurvesAssumption ==
    /\ Linear \in [0 .. 2 * Levels -> Nat] /\ Rises(Linear)
    /\ Lightness \in [0 .. Levels -> Nat] /\ Rises(Lightness)

VARIABLE task      \* what is computed, and on what

Init == task = [of |-> "nothing", on |-> << >>]

Longer(subject, max, pieces) ==
    /\ task.of \in {"nothing", subject}
    /\ \E more \in pieces :
         /\ Len(task.on) + Len(more) <= max
         /\ task' = [of |-> subject, on |-> task.on \o more]

Once(subject, inputs) ==
    /\ task.of = "nothing"
    /\ \E input \in inputs : task' = [of |-> subject, on |-> input]

Hear == Longer("track", MaxItems, Phrases)
Call == Longer("bucket", MaxCalls, {<<call>> : call \in Calls})
Match == Once("match", Questions)
Search == Once("lookup", Worlds)
Light == Once("display", Displays)
Place == Once("layout", Pictures)
Boot == Once("boot", Files)
Look == Once("covers", {<<cover>> : cover \in Covers})
Compare ==
    /\ task.of = "covers" /\ Len(task.on) = 1
    /\ \E shown \in Shown : task' = [task EXCEPT !.on = Append(@, shown)]

Next == Hear \/ Call \/ Match \/ Search \/ Light \/ Place \/ Boot \/ Look \/ Compare

Spec == Init /\ [][Next]_task

----

\* What plays is the last complete bundle of fields and nothing of any other
\* (machine.rs, commit_bundle).
TracksAreWhole == task.of = "track" => Machine!TrackIsOneBundle(task.on)

\* A request goes out exactly when no pause and no window forbids it (limit.rs,
\* State::take).
RatesAreKept == task.of = "bucket" => Limit!CatalogueIsSpared(task.on)

\* The record offered is recognised however it is written, and no other volume of
\* it is taken instead; its cover is recognised whatever its size, and no plain
\* cover is taken for one of another colour; and its colours are its own (text.rs,
\* similarity; gate.rs, compare; lpframe-image, dhash and resize_box; color.rs, palette).
RecordsAreRecognised ==
    /\ task.of = "match" => Gate!TheRecordIsMeant(task.on[1], task.on[2], task.on[3])
    /\ task.of = "covers" /\ Len(task.on) = 2 => Pixels!PicturesAreToldApart(task.on[1], task.on[2])
    /\ task.of = "covers" /\ Len(task.on) = 1 => Pixels!ColoursAreTheCovers(task.on[1])

\* A search asks no more than it should, gives up no album that a catalogue may
\* have while the album plays, and takes only a cover that is the right one
\* (mod.rs, Inner::run).
LookupsAreFair == task.of = "lookup" => Gate!LookupIsFair(task.on)

\* A display is opened with parts that belong together, whenever there are any,
\* and a cover is placed on it within its area, never stretched (drm.rs,
\* Display::open; geometry.rs, layout).
PicturesFit ==
    /\ task.of = "display" => Display!ThePipelineFits(task.on[1], task.on[2])
    /\ task.of = "layout" => Frame!NeverStretched(task.on[1], task.on[2], task.on[3])

\* A configuration that is accepted can be started, and means what was written
\* (lib.rs, Config::load; web/mod.rs, check_bind).
ConfigurationHolds ==
    task.of = "boot" => Config!AcceptedMeansStarts(task.on[1], task.on[2], task.on[3])
====
