---- MODULE Matching ----
(***************************************************************************)
(* Which record of a catalogue is the one that plays: the text gate        *)
(* (crates/artd/src/enrich/text.rs) and the choice among the records       *)
(* offered (enrich/mod.rs).                                                *)
(*                                                                         *)
(* A text is a sequence of characters.  A score is counted in whole        *)
(* ten-thousandths, where the code has a floating-point number.            *)
(***************************************************************************)
EXTENDS Integers, Sequences, SequencesExt, FiniteSetsExt

CONSTANT EditionWords   \* EDITION_WORDS

Opening == {"(", "[", "{"}
Closing == {")", "]", "}"}
Digits == {"0", "1", "2", "3"}
RomanLetters == {"i", "v", "x", "l", "c", "d", "m"}
Letters == {"a", "b", "e", "h", "k", "n", "o", "t", "u"} \cup RomanLetters

(* normalise *)

\* fold_char: accents go, and capitals with them; "&" is a word.
FoldChar(c) ==
    CASE c = "A" -> <<"a">>
      [] c = "K" -> <<"k">>
      [] c = "á" -> <<"a">>
      [] c = "ß" -> <<"s", "s">>
      [] c = "&" -> <<" ", "a", "n", "d", " ">>
      [] OTHER -> <<c>>

Folded(text) == FlattenSeq([i \in DOMAIN text |-> FoldChar(text[i])])

\* is_edition
IsEdition(text) ==
    \E word \in EditionWords : \E i \in DOMAIN text :
       i + Len(word) - 1 <= Len(text) /\ SubSeq(text, i, i + Len(word) - 1) = word

\* Mutant: every bracketed group goes.
DropGroup(group) == << >>

\* A group that names no edition is part of the title.
KeptGroup(group) == IF IsEdition(group) THEN << >> ELSE <<" ">> \o group

\* One character of strip_qualifiers.
Strip(s, c) ==
    CASE c \in Opening /\ s.depth = 0 -> [s EXCEPT !.depth = 1, !.group = << >>]
      [] c \in Opening /\ s.depth > 0 ->
           [s EXCEPT !.depth = @ + 1, !.group = Append(@, c)]
      [] c \in Closing /\ s.depth = 1 ->
           [s EXCEPT !.depth = 0, !.out = @ \o KeptGroup(s.group)]
      [] c \in Closing /\ s.depth > 1 ->
           [s EXCEPT !.depth = @ - 1, !.group = Append(@, c)]
      [] c \notin Opening \cup Closing /\ s.depth > 0 -> [s EXCEPT !.group = Append(@, c)]
      [] OTHER -> [s EXCEPT !.out = Append(@, c)]

\* " - Remastered": the last segment only.
DashCut(text) ==
    LET dashes == {i \in 1 .. Len(text) - 2 : SubSeq(text, i, i + 2) = <<" ", "-", " ">>}
    IN IF dashes # {} /\ IsEdition(SubSeq(text, Max(dashes) + 3, Len(text)))
       THEN SubSeq(text, 1, Max(dashes) - 1) ELSE text

\* A bracket that never closes keeps its text.
Stripped(text) ==
    LET s == FoldLeft(Strip, [depth |-> 0, group |-> << >>, out |-> << >>], text)
    IN DashCut(IF s.depth > 0 THEN s.out \o s.group ELSE s.out)

Alphanumeric(c) == c \in Letters \cup Digits

\* Runs of anything else become one space, and none is left at the ends.
Spaced(out, c) ==
    CASE Alphanumeric(c) -> Append(out, c)
      [] ~Alphanumeric(c) /\ (out = << >> \/ Last(out) = " ") -> out
      [] OTHER -> Append(out, " ")

Normalised(text) ==
    LET out == FoldLeft(Spaced, << >>, Stripped(Folded(text)))
    IN IF out # << >> /\ Last(out) = " " THEN Front(out) ELSE out

(* similarity *)

Tokens(text) ==
    FoldLeft(LAMBDA words, c : IF c = " " THEN Append(words, << >>)
                               ELSE Append(Front(words), Append(Last(words), c)),
             << << >> >>, text)

Numbers(text) ==
    SelectSeq(Tokens(text),
        LAMBDA w : w # << >> /\ (ToSet(w) \subseteq Digits \/ ToSet(w) \subseteq RomanLetters))

Larger(a, b) == IF a > b THEN a ELSE b

\* The first free place of b that matches a[i], within the window.
Match(a, b, pairs, i) ==
    LET window == Larger(Larger(Len(a), Len(b)) \div 2 - 1, 0)
        free == {j \in DOMAIN b : /\ i - window <= j /\ j <= i + window
                                  /\ b[j] = a[i]
                                  /\ \A p \in ToSet(pairs) : p[2] # j}
    IN IF free = {} THEN pairs ELSE Append(pairs, <<i, Min(free)>>)

Fraction(num, den) == [num |-> num, den |-> den]
Points(f) == (10000 * f.num) \div f.den

\* jaro
Jaro(a, b) ==
    IF a = << >> \/ b = << >> THEN Fraction(IF a = b THEN 1 ELSE 0, 1)
    ELSE LET pairs == FoldLeft(LAMBDA ps, i : Match(a, b, ps, i), << >>, [i \in DOMAIN a |-> i])
             m == Len(pairs)
             inB == SetToSortSeq({p[2] : p \in ToSet(pairs)}, <)
             t == Cardinality({k \in 1 .. m : a[pairs[k][1]] # b[inB[k]]})
         IN IF m = 0 THEN Fraction(0, 1)
            ELSE Fraction(2 * m * m * (Len(a) + Len(b)) + (2 * m - t) * Len(a) * Len(b),
                          6 * m * Len(a) * Len(b))

CommonPrefix(a, b) ==
    Max({n \in 0 .. 4 : n <= Len(a) /\ n <= Len(b) /\ SubSeq(a, 1, n) = SubSeq(b, 1, n)})

\* jaro_winkler: a common beginning counts, unless the rest is too different.
JaroWinkler(a, b) ==
    LET j == Jaro(a, b)
    IN IF 10 * j.num <= 7 * j.den THEN Points(j)
       ELSE Points(Fraction(10 * j.num + CommonPrefix(a, b) * (j.den - j.num), 10 * j.den))

\* Numbers that differ are decisive.
Similarity(a, b) == IF Numbers(a) # Numbers(b) THEN 0 ELSE JaroWinkler(a, b)

(* Scores, and the choice of a candidate *)

ScoresOf(want, got) ==
    [artist |-> Similarity(Normalised(want.artist), Normalised(got.artist)),
     album |-> Similarity(Normalised(want.album), Normalised(got.album))]

Passes(s) == s.artist >= 9000 /\ s.album >= 8500
NearExact(s) == s.artist >= 9700 /\ s.album >= 9700

Better(s, t) == s.artist + s.album > t.artist + t.album

\* The place of the first of the best.
Best(scores) ==
    Min({i \in DOMAIN scores : \A j \in DOMAIN scores : ~Better(scores[j], scores[i])})

\* The best candidate, if it passes.
Taken(offered, scores) ==
    IF offered = << >> \/ ~Passes(scores[Best(scores)]) THEN << >> ELSE <<offered[Best(scores)]>>

Selected(want, offered) ==
    Taken(offered, [i \in DOMAIN offered |-> ScoresOf(want, offered[i])])

----
(* What is promised, said of releases and the ways they are written *)

\* A release has a name, perhaps a volume, and perhaps an edition, which senders
\* and catalogues write in their own ways.
Written(r) ==
    r.name \o r.volume
      \o (IF r.edition = << >> THEN << >>
          ELSE IF r.dash THEN <<" ", "-", " ">> \o r.edition
          ELSE <<" ", "(">> \o r.edition \o <<")">>)

Named(artist, r) == [artist |-> artist, album |-> Written(r)]

SameRecord(r, s) ==
    r.name = s.name /\ SelectSeq(r.volume, Alphanumeric) = SelectSeq(s.volume, Alphanumeric)
SameVolume(r, s) == SelectSeq(r.volume, Alphanumeric) = SelectSeq(s.volume, Alphanumeric)

RightlyChosen(chosen, artist, playing, offered) ==
    LET Is(r) == chosen = <<Named(artist, r)>>
    IN /\ (\E r \in ToSet(offered) : SameRecord(r, playing)) =>
            \E r \in ToSet(offered) : SameRecord(r, playing) /\ Is(r)
       /\ chosen # << >> => \E r \in ToSet(offered) : SameVolume(r, playing) /\ Is(r)

\* A record that is offered is found, whatever its edition is called and however
\* its volume is written, and another volume of it is never taken instead.
\* (text.rs, "Greatest Hits (Volume 2)" and "Greatest Hits" are different
\* records; similarity, "A volume number is never a typo".)
TheRecordIsMeant(artist, playing, offered) ==
    RightlyChosen(Selected(Named(artist, playing),
                           [i \in DOMAIN offered |-> Named(artist, offered[i])]),
                  artist, playing, offered)
====
