---- MODULE MCAlgorithms ----
\* The inputs of the algorithms.
EXTENDS Algorithms, FiniteSets, TLC

\* A MusicBrainz bucket holds one token and Apple's several; two, earned in three
\* units of time, has both a burst and a refill that does not divide it.
MCPeriod == 3
MCCapacity == 2
MCMaxCalls == 5
MCCalls == [gap : {0, 1, 4}, pause : {0, 2, 6}]

(* Items: two titles that differ only in their capitals, an identity of the     *)
(* sender with an odd width, and a session that may end anywhere.               *)
MCMaxItems == 8
One(code) == [code |-> code]
Title(text) == [code |-> "minm", text |-> text]
Album == [code |-> "asal", text |-> "b"]
MCPhrases ==
    {<<One("mdst")>>, <<One("mden")>>, <<One("aend")>>,
     <<One("abeg"), [code |-> "prgr", start |-> 2, current |-> 1, end |-> 44102]>>,
     <<One("mdst"), Title("a")>>, <<Title("A"), Album>>, <<Title("blank")>>,
     <<[code |-> "astm", width |-> 4, value |-> 1], [code |-> "asar", text |-> "b"], One("mden")>>,
     <<[code |-> "mper", width |-> 3, value |-> 1], [code |-> "mper", width |-> 8, value |-> 0]>>,
     <<[code |-> "mper", width |-> 8, value |-> 1], One("pend")>>}

(* Releases: two names, volumes in digits and in Roman numerals, and editions.  *)
MCEditionWords == {<<"e", "d">>}
Name1 == <<"k", "i", "d">>
Name2 == <<"h", "u", "n", "t">>
Volumes == {<< >>, <<" ", "2">>, <<" ", "(", "2", ")">>, <<" ", "3">>, <<" ", "i", "i">>}
Releases ==
    {[name |-> n, volume |-> v, edition |-> e, dash |-> d] :
       n \in {Name1, Name2}, v \in Volumes, e \in {<< >>, <<"n", "o", " ", "e", "d">>},
       d \in BOOLEAN}
Distinct == {r \in Releases : r.edition = << >> => ~r.dash}
MCQuestions ==
    {<<artist, playing, offered>> :
       artist \in {<<"A", "k", "a">>},
       playing \in {r \in Distinct : r.name = Name1},
       offered \in {<< >>} \cup {<<r>> : r \in Distinct} \cup {<<r, s>> : r, s \in Distinct}}

(* Catalogues *)

Score(artist, album) == [artist |-> artist, album |-> album]
\* Above the largest it has, Apple sends the largest it has.
Sizes(ok, broken, most) ==
    [s \in ok \cup broken |->
       [is |-> IF s \in ok THEN "ok" ELSE "broken", side |-> IF s > most THEN most ELSE s]]
Record(scores, has, decodes, alike) ==
    [scores |-> scores, has |-> has, reshaped |-> 100 \in DOMAIN has, decodes |-> decodes,
     alike |-> alike]
Exact == Score(10000, 9900)
Close == Score(9500, 8600)
Wrong == Score(10000, 8000)
Offer(records) == [is |-> "offer", records |-> records]
Plenty == Sizes({3000, 1500, 1200, 600}, {}, 3000)
Fine == Record(Exact, Plenty, TRUE, TRUE)
Transient == {[is |-> "network"], [is |-> "status", code |-> 503],
              [is |-> "limited", header |-> <<7200>>]}
Final == {[is |-> "gone"], [is |-> "status", code |-> 400], [is |-> "malformed"], [is |-> "notfound"],
          Offer(<<Fine>>), Offer(<<Record(Wrong, Plenty, TRUE, TRUE), Record(Close, << >>, TRUE, TRUE)>>)}
Answers ==
    {<<t, u, v>> : t, u, v \in Transient} \cup {<<t, u, f>> : t, u \in Transient, f \in Final}
      \cup {<<t, f>> : t \in Transient, f \in Final} \cup {<<f>> : f \in Final}
\* The second source only tells whether it is reached, and what it has.
Seconds == {a \in Answers : Len(a) = 1 \/ (Len(a) = 3 /\ \A i \in 1 .. 3 : a[i].is = "network")}
Up(side, known, readable) == [side |-> side, known |-> known, readable |-> readable]
World(sources, first, second, max, current, strictness) ==
    [sources |-> sources, answers |-> [itunes |-> first, musicbrainz |-> second],
     max_dimension |-> max, current |-> current, strictness |-> strictness]
\* How the sources answer, and what is made of what they offer.
MCWorlds ==
    {World(ss, a, b, 1000, Up(500, TRUE, TRUE), "strict") :
       ss \in {<<"itunes">>, <<"itunes", "musicbrainz">>, <<"musicbrainz", "itunes">>},
       a \in Answers, b \in Seconds}
      \cup {World(ss, a, b, 1000, Up(500, TRUE, TRUE), "strict") :
       ss \in {<<"musicbrainz", "itunes">>}, a \in Seconds, b \in Answers}
      \cup {World(<<"itunes", "musicbrainz">>,
                  <<Offer(<<Record(sc, Sizes(ok, bad \ ok, most), d, al)>>)>>, <<Offer(<<Fine>>)>>, mx, c, st) :
               sc \in {Exact, Close}, ok \in SUBSET {3000, 1500, 600}, bad \in SUBSET {3000, 1500, 100},
               most \in {700, 3000},
               d \in BOOLEAN, al \in BOOLEAN, mx \in {600, 9999},
               c \in {Up(500, TRUE, TRUE), Up(1000, FALSE, TRUE), Up(1000, FALSE, FALSE)},
               st \in {"text_only", "text_and_visual", "strict"}}

(* Cards *)

Small == [w |-> 2, h |-> 1, hz |-> 60, preferred |-> FALSE]
Fast == [w |-> 2, h |-> 1, hz |-> 75, preferred |-> FALSE]
Large == [w |-> 3, h |-> 2, hz |-> 50, preferred |-> FALSE]
Native == [w |-> 2, h |-> 2, hz |-> 60, preferred |-> TRUE]
ModeLists == {<< >>, <<Small>>, <<Small, Fast, Large>>, <<Large, Native>>, <<Fast, Small>>}
Encoders == {<<[crtc |-> 1, possible |-> {1, 2}]>>,
             <<[crtc |-> 0, possible |-> { }], [crtc |-> 0, possible |-> {2}]>>,
             <<[crtc |-> 0, possible |-> {1, 2}]>>, << >>}
Plane(primary, possible) == [primary |-> primary, possible |-> possible]
Other == [name |-> "other", connected |-> TRUE, modes |-> <<Native>>,
          encoders |-> <<[crtc |-> 2, possible |-> {2}]>>]
Combos ==
    {[formats |-> f, held |-> h, missing |-> m] :
       f \in {<<"NV12", "XRGB8888">>, <<"ARGB8888", "NV12">>}, h \in {0, 4000}, m \in {{}}}
      \cup {[formats |-> <<"NV12">>, held |-> 0, missing |-> {}],
            [formats |-> <<"XRGB8888">>, held |-> 6000, missing |-> {}],
            [formats |-> <<"XRGB8888">>, held |-> 0, missing |-> {"FB_ID"}]}
Cards ==
    {[connectors |-> cs, crtcs |-> <<1, 2>>, planes |-> ps,
      formats |-> x.formats, held |-> x.held, missing |-> x.missing] :
       cs \in {<<[name |-> "c", connected |-> on, modes |-> ms, encoders |-> es]>> \o more :
                 on \in BOOLEAN, ms \in ModeLists, es \in Encoders, more \in {<< >>, <<Other>>}},
       ps \in {<<Plane(FALSE, {1, 2}), Plane(TRUE, {1}), Plane(TRUE, {2})>>,
               <<Plane(TRUE, {1})>>},
       x \in Combos}
Wants ==
    {[card |-> k, connector |-> n, mode |-> m, w |-> 0, h |-> 0, hz |-> 0] :
       k \in {"auto", "card0"}, n \in {"auto", "c"}, m \in {"auto", "highest", "malformed"}}
      \cup {[card |-> "auto", connector |-> "auto", mode |-> "explicit", w |-> 2, h |-> 1, hz |-> z] :
              z \in {0, 60, 75}}
MCDisplays == {<<card, want>> : card \in Cards, want \in Wants}

(* Panels and covers *)

MCPictures ==
    {<<panel, image, cfg>> :
       panel \in [w : {1, 3, 4}, h : {1, 2, 4}],
       image \in [w : {1, 2, 5}, h : {1, 2, 3}],
       cfg \in [rotation : {0, 90, 180}, margin : {0, 10, 45}, square : BOOLEAN,
                cover : BOOLEAN]}

(* Covers of five greys, the bytes 0, 64, 128, 191 and 255: their light and that *)
(* of the bytes half way between in thousandths, and their lightness in fifths.  *)
MCLinear == [i \in 0 .. 8 |-> <<0, 14, 51, 116, 214, 348, 522, 739, 1000>>[i + 1]]
MCLightness == [v \in 0 .. 4 |-> <<0, 2, 3, 4, 5>>[v + 1]]

(* Small covers that the gate enlarges and wide and high ones that it shrinks.  *)
(* Three pixels a side divide a side of six and are divided by one; the other   *)
(* sides leave pixels that count twice.                                         *)

PixelsOf(w, h, levels) == [1 .. h -> [1 .. w -> levels]]
MCCovers ==
    UNION {PixelsOf(1, 1, 0 .. 4), PixelsOf(3, 1, 0 .. 3), PixelsOf(2, 2, {0, 1, 2, 4}), PixelsOf(3, 2, {0, 4}),
           PixelsOf(5, 1, {0, 3, 4}), PixelsOf(1, 6, {0, 4}), PixelsOf(4, 2, {1, 3}),
           PixelsOf(3, 3, {0, 4})}
MCShown == PixelsOf(1, 1, {0, 4}) \cup PixelsOf(2, 1, {1, 3})

(* Files, with a kilobyte of eight bytes: the web interface, the timings, and   *)
(* values that do not fit.                                                      *)

C == INSTANCE Configuration
Flag(b) == C!Leaf("flag", b)
Text(v) == C!Leaf("text", v)
Number(n) == C!Leaf("number", n)
Time(n, unit) == C!Leaf("duration", [tenths |-> n, unit |-> unit])
Off == C!Leaf("maybe", [tenths |-> 0, unit |-> "off"])
WebFiles ==
    {C!Bind :> Text(b) @@ C!WebAuth :> Flag(a) @@ C!Insecure :> Flag(i) :
       b \in {"lan", "loopback", "nonsense"}, a \in BOOLEAN, i \in BOOLEAN}
WebOverrides ==
    {<< >>, C!WebHash :> Text("hash of old"), C!WebEnabled :> Flag(FALSE),
     C!WebAuth :> Flag(FALSE), C!Bind :> Text("loopback"), C!Insecure :> Flag(TRUE),
     <<"web">> :> Number(1), C!WebAuth :> Number(1)}
Times == {Time(15, "s"), Time(25, "ms"), Time(10, "m"), Time(600, "s"), Time(0, "s"),
          Time(5, ""), Time(10, "h")}
TimeFiles ==
    {C!Stall :> a @@ C!SessionAfter :> b : a, b \in Times}
      \cup {C!BlankAfter :> b @@ C!AmbientAfter :> a : a \in Times \cup {Off}, b \in Times}
TimeOverrides ==
    {<< >>} \cup {C!Stall :> t : t \in Times} \cup {C!AmbientAfter :> t : t \in Times \cup {Off}}
Oddments ==
    {C!Rotation :> Number(n) : n \in {0, 45, 90}} \cup {C!Margin :> Number(n) : n \in {0, 45, 46}}
      \cup {C!Dim :> Number(n) : n \in {0, 100, 101}} \cup {C!ArtRetain :> Number(n) : n \in {1, 2}}
      \cup {C!CacheSize :> C!Leaf("size", [n |-> n, unit |-> u]) :
              n \in {0, 1, 3, 4, 8, 12}, u \in {"B", "KiB", "MiB", "GiB", "TB"}}
      \cup {C!Sources :> C!Leaf("names", s) @@ C!Contact :> Text(c) @@ C!Enriches :> Flag(e) :
              s \in SUBSET {"itunes", "musicbrainz", "other"}, c \in {"", "me"}, e \in BOOLEAN}
      \cup {<<"web", "auth", "deep">> :> Flag(TRUE), <<"nobody">> :> Flag(TRUE), << >>}
Stored == [stored : BOOLEAN]
MCFiles ==
    {<<base, local, o>> : base \in WebFiles, local \in WebOverrides, o \in Stored}
      \cup {<<base, local, o>> : base \in TimeFiles, local \in TimeOverrides,
                                 o \in {[stored |-> TRUE]}}
      \cup {<<base, local, o>> : base \in {<< >>, C!Contact :> Text("me"), C!Enriches :> Flag(FALSE)},
                                 local \in Oddments, o \in Stored}
====
