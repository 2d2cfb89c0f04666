---- MODULE NowPlaying ----
(***************************************************************************)
(* From items of the metadata pipe to the track that is shown              *)
(* (crates/spmeta/src/event.rs, crates/artd/src/machine.rs).  The fields   *)
(* of a track arrive one by one between mdst and mden; items may be lost,  *)
(* and sessions begin and end anywhere between them.                       *)
(*                                                                         *)
(* The machine is a fold over the items it hears.  A text is "blank" when  *)
(* nothing is left of it once trimmed, and "A" is "a" in capitals.  A      *)
(* session that times out ends like one that says so (enter_idle).         *)
(***************************************************************************)
EXTENDS Naturals, Sequences, SequencesExt, FiniteSets

CONSTANT Absent    \* None

(* decode_item *)

TextFields == [minm |-> "title", asar |-> "artist", asal |-> "album"]
NumberFields == [astm |-> "duration_ms", mper |-> "persistent_id"]

IsCore(item) == item.code \in DOMAIN TextFields \cup DOMAIN NumberFields

\* A number of an unexpected width is no number.
Decoded(item) ==
    CASE item.code \in DOMAIN TextFields ->
           [key |-> TextFields[item.code], value |-> item.text]
      [] item.code \in DOMAIN NumberFields /\ item.width \in {1, 2, 4, 8} ->
           [key |-> NumberFields[item.code], value |-> item.value]
      [] OTHER -> [key |-> "other", value |-> Absent]

RtpHz == 44100
\* The difference of two timestamps saturates at zero.
Elapsed(start, end) == IF end > start THEN ((end - start) * 1000) \div RtpHz ELSE 0

(* The machine *)

\* The fields, and the tracks that can be made of what they hold.
FieldNames == {"title", "artist", "album", "duration_ms", "persistent_id", "other"}
Tracks(contents) ==
    [title : contents, artist : contents, album : contents, duration : contents,
     id : [sender : contents,
           text : [{"artist", "album", "title"} -> contents] \cup {Absent}]]

Silence ==
    [session |-> FALSE, pending |-> Absent, track |-> Absent, tracks |-> 0,
     progress |-> Absent]

Field(fields, key) == IF key \in DOMAIN fields THEN fields[key] ELSE Absent

NonEmpty(text) == IF text = "blank" THEN Absent ELSE text
Lower(text) == IF text = "A" THEN "a" ELSE text

\* track_identity: the sender's own, or the text in lower case.
Identity(fields) ==
    IF Field(fields, "persistent_id") \notin {Absent, 0}
    THEN [sender |-> Field(fields, "persistent_id"), text |-> Absent]
    ELSE [sender |-> Absent,
          text |-> [key \in {"artist", "album", "title"} |-> Lower(NonEmpty(Field(fields, key)))]]

Track(fields) ==
    [title |-> NonEmpty(Field(fields, "title")),
     artist |-> NonEmpty(Field(fields, "artist")),
     album |-> NonEmpty(Field(fields, "album")),
     duration |-> Field(fields, "duration_ms"),
     id |-> Identity(fields)]

\* Mutant: a bundle that was never closed goes on.
OpenedOnce(m) == IF m.pending = Absent THEN [m EXCEPT !.pending = << >>] ELSE m

Opened(m) == [m EXCEPT !.pending = << >>]

\* A field outside a bundle is dropped.
Collected(m, field) ==
    IF m.pending = Absent THEN m
    ELSE [m EXCEPT !.pending = [key \in DOMAIN @ \cup {field.key} |->
                                  IF key = field.key THEN field.value ELSE @[key]]]

\* commit_bundle
Committed(m) ==
    IF m.pending \in {Absent, << >>} THEN [m EXCEPT !.pending = Absent]
    ELSE LET track == Track(m.pending)
             same == m.track # Absent /\ m.track.id = track.id
         IN [m EXCEPT !.pending = Absent, !.track = track,
                      !.tracks = IF same THEN @ ELSE @ + 1]

\* enter_idle
Idled(m) ==
    IF ~m.session THEN m
    ELSE [m EXCEPT !.session = FALSE, !.pending = Absent, !.progress = Absent]

Heard(m, item) ==
    CASE item.code \in {"abeg", "pbeg"} -> [m EXCEPT !.session = TRUE]
      [] item.code \in {"aend", "eof"} -> Idled(m)
      [] item.code = "pend" /\ m.session -> [m EXCEPT !.progress = Absent]
      [] item.code = "mdst" -> Opened(m)
      [] item.code = "mden" -> Committed(m)
      [] IsCore(item) -> Collected(m, Decoded(item))
      [] item.code = "prgr" ->
           [m EXCEPT !.progress = [position |-> Elapsed(item.start, item.current),
                                   duration |-> Elapsed(item.start, item.end)]]
      [] OTHER -> m

MachineAfter(items) == FoldLeft(Heard, Silence, items)

----
(* What is promised, said of the whole history *)

\* Whether a session is on before the i-th item.
InSession(items, i) ==
    \E b \in 1 .. i - 1 :
       /\ items[b].code \in {"abeg", "pbeg"}
       /\ \A j \in b + 1 .. i - 1 : items[j].code \notin {"aend", "eof"}

EndsSession(items, i) == items[i].code \in {"aend", "eof"} /\ InSession(items, i)

\* The fields between a mdst and the mden that follows it in one session.
FieldsOf(items, from, to) == {i \in from + 1 .. to - 1 : IsCore(items[i])}
IsBundle(items, from, to) ==
    /\ items[from].code = "mdst" /\ items[to].code = "mden"
    /\ \A i \in from + 1 .. to - 1 :
          items[i].code \notin {"mdst", "mden"} /\ ~EndsSession(items, i)
    /\ FieldsOf(items, from, to) # {}

Bundles(items) ==
    {span \in {<<a, b>> : a, b \in DOMAIN items} :
        span[1] < span[2] /\ IsBundle(items, span[1], span[2])}

LastOf(items, span, key) ==
    LET named == {i \in FieldsOf(items, span[1], span[2]) : Decoded(items[i]).key = key}
    IN IF named = {} THEN Absent
       ELSE Decoded(items[CHOOSE i \in named : \A j \in named : j <= i]).value

\* The track is made of the fields of the last complete bundle and of no other,
\* whatever was lost, repeated or interrupted before it; a bundle that is sent
\* again is not a new track; and no position outlives the stream it belongs to.
\* (machine.rs:124-127, "the renderer never sees a track with the new artist and
\* the old title"; commit_bundle, track_identity, enter_idle.)
TrackIsOneBundle(items) ==
    LET m == MachineAfter(items)
        all == Bundles(items)
        last == CHOOSE span \in all : \A other \in all : other[2] <= span[2]
    IN /\ m.track = Absent <=> all = {}
       /\ all # {} =>
            /\ m.track.title = NonEmpty(LastOf(items, last, "title"))
            /\ m.track.artist = NonEmpty(LastOf(items, last, "artist"))
            /\ m.track.album = NonEmpty(LastOf(items, last, "album"))
            /\ m.track.duration = LastOf(items, last, "duration_ms")
       /\ m.tracks <= Cardinality(all)
       /\ m.progress # Absent =>
            \E i \in DOMAIN items :
               /\ items[i].code = "prgr"
               /\ \A j \in i + 1 .. Len(items) :
                     /\ ~EndsSession(items, j)
                     /\ ~(items[j].code = "pend" /\ InSession(items, j))
====
