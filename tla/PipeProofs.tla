---- MODULE PipeProofs ----
(***************************************************************************)
(* Theorems about the metadata pipe and its parser, for any payloads, any  *)
(* sizes of the reads, and every limit of the buffer in which an item that *)
(* is written whole fits.                                                  *)
(***************************************************************************)
EXTENDS MetadataPipe, SequenceTheorems, WellFoundedInduction, TLAPS

----
(* Numbers *)

\* A set of numbers has a least one.
LEMMA LeastNumber ==
    ASSUME NEW S, S \subseteq Nat, S # {}
    PROVE  \E x \in S : \A y \in S : x =< y
<1>1. IsWellFoundedOn(OpToRel(<, Nat), Nat)
  BY NatLessThanWellFounded
<1>2. PICK x \in S : \A y \in S : ~(<<y, x>> \in OpToRel(<, Nat))
  BY <1>1, WFMin
<1>3. \A a, b \in Nat : a < b <=> <<a, b>> \in OpToRel(<, Nat)
  BY DEF OpToRel
<1>4. \A y \in S : ~(y < x)
  BY <1>2, <1>3
<1> QED
  BY <1>4

\* Induction over the positions of a sequence, with a set for what is proved.
LEMMA Induct ==
    ASSUME NEW n \in Nat, NEW S, 0 \in S, \A k \in 0 .. n : k \in S /\ k + 1 <= n => k + 1 \in S
    PROVE  0 .. n \subseteq S
<1> DEFINE out == (0 .. n) \ S
<1>1. out = {}
  <2> SUFFICES ASSUME out # {} PROVE FALSE
    OBVIOUS
  <2>1. out \subseteq Nat
    OBVIOUS
  <2> HIDE DEF out
  <2>2. PICK k \in out : \A j \in out : k =< j
    BY <2>1, LeastNumber
  <2>3. k \in 0 .. n /\ k \notin S /\ k # 0
    BY <2>2 DEF out
  <2>4. k - 1 \in 0 .. n /\ k - 1 \notin out
    BY <2>2, <2>3
  <2>5. k - 1 \in S
    BY <2>4 DEF out
  <2>6. (k - 1) + 1 \in S
    BY <2>3, <2>4, <2>5
  <2> QED
    BY <2>3, <2>6
<1> QED
  BY <1>1

----
(* The parser: where a parse can end *)

LEMMA LeastPlace ==
    ASSUME NEW places, places \subseteq Nat, places # {}
    PROVE  First(places) \in places
<1>1. \E x \in places : \A y \in places : x =< y
  BY LeastNumber
<1> QED
  BY <1>1 DEF First

LEMMA PipeSizes == /\ MaxBuffer \in Nat /\ MaxBuffer > 0 /\ CompactAt \in Nat /\ MaxFrames \in Nat
                   /\ Pieces \subseteq Nat /\ Pieces # {}
BY SizesAssumption

LEMMA TagWords == /\ ItemOpen \in Seq(Symbols) /\ Len(ItemOpen) = 2
                  /\ ItemClose \in Seq(Symbols) /\ Len(ItemClose) = 2
                  /\ LengthOpen \in Seq(Symbols) /\ Len(LengthOpen) = 2
                  /\ LengthClose \in Seq(Symbols) /\ Len(LengthClose) = 2
                  /\ DataOpen \in Seq(Symbols) /\ Len(DataOpen) = 2
                  /\ DataClose \in Seq(Symbols) /\ Len(DataClose) = 2
<1>1. \A x \in Symbols, y \in Symbols : <<x, y>> \in Seq(Symbols) /\ Len(<<x, y>>) = 2
  <2> TAKE x \in Symbols, y \in Symbols
  <2> HIDE DEF Symbols
  <2>1. <<x>> \in Seq(Symbols) /\ <<y>> \in Seq(Symbols) /\ Len(<<x>>) = 1 /\ Len(<<y>>) = 1
    OBVIOUS
  <2>2. <<x, y>> = Append(<<x>>, y)
    OBVIOUS
  <2> QED
    BY <2>1, <2>2, AppendProperties
<1>2. /\ "<" \in Symbols /\ "</" \in Symbols /\ "item>" \in Symbols /\ "length>" \in Symbols
      /\ "data" \in Symbols /\ "data>" \in Symbols
  BY DEF Symbols, TagEnds
<1>3. ItemOpen \in Seq(Symbols) /\ Len(ItemOpen) = 2
  BY <1>1, <1>2 DEF ItemOpen
<1>4. ItemClose \in Seq(Symbols) /\ Len(ItemClose) = 2
  BY <1>1, <1>2 DEF ItemClose
<1>5. LengthOpen \in Seq(Symbols) /\ Len(LengthOpen) = 2
  BY <1>1, <1>2 DEF LengthOpen
<1>6. LengthClose \in Seq(Symbols) /\ Len(LengthClose) = 2
  BY <1>1, <1>2 DEF LengthClose
<1>7. DataOpen \in Seq(Symbols) /\ Len(DataOpen) = 2
  BY <1>1, <1>2 DEF DataOpen
<1>8. DataClose \in Seq(Symbols) /\ Len(DataClose) = 2
  BY <1>1, <1>2 DEF DataClose
<1> QED
  BY <1>3, <1>4, <1>5, <1>6, <1>7, <1>8

\* A cursor that may go on is inside the buffer.
LEMMA TagEndsInside ==
    ASSUME NEW b \in Seq(Symbols), NEW i \in Nat, NEW tag, Len(tag) = 2, Tag(b, i, tag).is = "ok"
    PROVE  Starts(b, i, tag) /\ Tag(b, i, tag).i = i + 2 /\ i + 2 <= Len(b) + 1
<1>1. CASE Starts(b, i, tag)
  <2>1. Tag(b, i, tag) = Ok(i + 2)
    BY <1>1 DEF Tag
  <2>2. i + 2 - 1 <= Len(b)
    BY <1>1 DEF Starts
  <2> QED
    BY <1>1, <2>1, <2>2 DEF Ok
<1>2. CASE ~Starts(b, i, tag) /\ Splits(b, i, tag)
  <2>1. Tag(b, i, tag) = Incomplete
    BY <1>2 DEF Tag
  <2> QED
    BY <2>1 DEF Incomplete
<1>3. CASE ~Starts(b, i, tag) /\ ~Splits(b, i, tag)
  <2>1. Tag(b, i, tag) = Bad
    BY <1>3 DEF Tag
  <2> QED
    BY <2>1 DEF Bad
<1> QED
  BY <1>1, <1>2, <1>3

LEMMA UntilInside ==
    ASSUME NEW b \in Seq(Symbols), NEW from \in Nat, NEW needle, Until(b, from, needle).is = "ok"
    PROVE  /\ Until(b, from, needle).i \in Places(b, from, needle)
           /\ Until(b, from, needle).i \in from .. Len(b)
<1>1. CASE Places(b, from, needle) = {}
  <2>1. Until(b, from, needle) = Incomplete
    BY <1>1 DEF Until
  <2> QED
    BY <2>1 DEF Incomplete
<1>2. CASE Places(b, from, needle) # {}
  <2>1. Until(b, from, needle).i = First(Places(b, from, needle))
    BY <1>2 DEF Until, Ok
  <2>2. Places(b, from, needle) \subseteq from .. Len(b) /\ from .. Len(b) \subseteq Nat
    BY DEF Places
  <2> QED
    BY <1>2, <2>1, <2>2, LeastPlace
<1> QED
  BY <1>1, <1>2

LEMMA TagEndInside ==
    ASSUME NEW b \in Seq(Symbols), NEW from \in Nat, AfterTagEnd(b, from).is = "ok"
    PROVE  AfterTagEnd(b, from).i \in Nat /\ AfterTagEnd(b, from).i > from
<1> DEFINE places == {i \in from .. Len(b) : b[i] \in TagEnds}
<1>1. CASE places = {}
  BY <1>1 DEF AfterTagEnd, Incomplete
<1>2. CASE places # {}
  <2>1. AfterTagEnd(b, from).i = First(places) + 1
    BY <1>2 DEF AfterTagEnd, Ok
  <2>2. places \subseteq Nat /\ places \subseteq from .. Len(b)
    OBVIOUS
  <2>3. First(places) \in from .. Len(b)
    BY <1>2, <2>2, LeastPlace
  <2> QED
    BY <2>1, <2>3
<1> QED
  BY <1>1, <1>2

LEMMA SpaceInside ==
    ASSUME NEW b \in Seq(Symbols), NEW i \in Nat
    PROVE  AfterSpace(b, i) \in Nat
<1> DEFINE places == {j \in i .. Len(b) : b[j] # Space} \cup {Len(b) + 1}
<1>1. places \subseteq Nat /\ places # {}
  OBVIOUS
<1> HIDE DEF places
<1>2. First(places) \in Nat
  BY <1>1, LeastPlace
<1> QED
  BY <1>2 DEF AfterSpace, places

LEMMA FieldInside ==
    ASSUME NEW b \in Seq(Symbols), NEW i \in Nat, Field(b, i).is = "ok"
    PROVE  Field(b, i).i \in Nat
<1> DEFINE tag == Tag(b, i, LengthOpen)
           end == Until(b, tag.i, LengthClose)
<1>1. Field(b, i) = IF tag.is = "ok"
                    THEN IF end.is = "ok"
                         THEN IF end.i = tag.i + 1 /\ b[tag.i] \in {"0", "1", "2"}
                              THEN Ok(end.i + Len(LengthClose)) ELSE Bad
                         ELSE end
                    ELSE tag
  BY DEF Field, Then
<1>2. tag.is = "ok"
  BY <1>1
<1>3. tag.i \in Nat
  BY <1>2, TagEndsInside, TagWords
<1> HIDE DEF tag
<1>4. end.is = "ok"
  BY <1>1, <1>2
<1>5. end.i \in Nat
  BY <1>3, <1>4, UntilInside
<1> HIDE DEF end
<1>6. Field(b, i) = Ok(end.i + Len(LengthClose)) \/ Field(b, i) = Bad
  BY <1>1, <1>2, <1>4
<1>7. Field(b, i) = Ok(end.i + 2)
  BY <1>6, TagWords DEF Bad
<1> QED
  BY <1>5, <1>7 DEF Ok

\* What a parse may answer: an item that ends in the buffer, or none and how far
\* the buffer was searched.
ParsesInside(b, r) ==
    /\ r.is = "item" => r.i - 1 \in 0 .. Len(b)
    /\ "known" \in DOMAIN r => r.known \in Nat

LEMMA DataItemInside ==
    ASSUME NEW b \in Seq(Symbols), NEW start \in 1 .. Len(b), NEW known \in Nat, NEW i \in Nat
    PROVE  ParsesInside(b, DataItem(b, start, known, i))
<1> DEFINE from == Resume(start, known, i)
           end == Until(b, from, DataClose)
           after == AfterSpace(b, end.i + Len(DataClose))
           close == Tag(b, after, ItemClose)
           payload == Unwrapped(SubSeq(b, i, end.i - 1))
           clean == \A s \in ToSet(payload) : s = "a" \/ s = "b"
           r == DataItem(b, start, known, i)
<1>1. r = IF end.is # "ok" THEN [is |-> "incomplete", known |-> Len(b) + 1 - start]
          ELSE IF close.is = "ok"
               THEN IF clean THEN [is |-> "item", payload |-> payload, i |-> close.i] ELSE Bad
               ELSE close
  BY DEF DataItem, Then
<1>2. from \in Nat
  <2>1. Len(DataClose) = 2
    BY TagWords
  <2>2. from = IF start + known > i + 1 THEN start + known - 1 ELSE i
    BY <2>1 DEF Resume
  <2> QED
    BY <2>2
<1>3. close = Tag(b, after, ItemClose)
  OBVIOUS
<1> HIDE DEF r, clean, payload, close
<1>4. CASE end.is # "ok"
  <2>1. r = [is |-> "incomplete", known |-> Len(b) + 1 - start]
    BY <1>1, <1>4
  <2>2. Len(b) + 1 - start \in Nat
    OBVIOUS
  <2> QED
    BY <2>1, <2>2 DEF ParsesInside, r
<1>5. CASE end.is = "ok"
  <2>1. end.i + Len(DataClose) \in Nat
    BY <1>2, <1>5, UntilInside, TagWords
  <2>2. after \in Nat
    BY <2>1, SpaceInside
  <2> HIDE DEF end, after
  <2>3. CASE close.is = "ok"
    <3>1. close.i = after + 2 /\ after + 2 <= Len(b) + 1
      BY <1>3, <2>2, <2>3, TagEndsInside, TagWords
    <3>2. r = [is |-> "item", payload |-> payload, i |-> close.i] \/ r = Bad
      BY <1>1, <1>5, <2>3
    <3>3. close.i - 1 \in 0 .. Len(b)
      BY <2>2, <3>1
    <3> QED
      BY <3>2, <3>3 DEF ParsesInside, r, Bad
  <2>4. CASE close.is # "ok"
    <3>1. r = close
      BY <1>1, <1>5, <2>4
    <3>2. close = Incomplete \/ close = Bad \/ close = Ok(after + Len(ItemClose))
      BY <1>3 DEF Tag
    <3>3. close = Incomplete \/ close = Bad
      BY <2>4, <3>2 DEF Ok
    <3> QED
      BY <3>1, <3>3 DEF ParsesInside, r, Incomplete, Bad
  <2> QED
    BY <2>3, <2>4
<1> QED
  BY <1>4, <1>5

\* An answer of a step that stopped says nothing of an item.
Stopped(r) == r.is # "item" /\ "known" \notin DOMAIN r

LEMMA TagStops ==
    ASSUME NEW b, NEW i, NEW tag
    PROVE  Stopped(Tag(b, i, tag))
<1>1. Tag(b, i, tag) = Incomplete \/ Tag(b, i, tag) = Bad \/ Tag(b, i, tag) = Ok(i + Len(tag))
  BY DEF Tag
<1> QED
  BY <1>1 DEF Stopped, Incomplete, Bad, Ok

LEMMA UntilStops ==
    ASSUME NEW b, NEW i, NEW needle
    PROVE  Stopped(Until(b, i, needle)) /\ Stopped(AfterTagEnd(b, i))
<1>1. \/ Until(b, i, needle) = Incomplete \/ Until(b, i, needle) = Ok(First(Places(b, i, needle)))
  BY DEF Until
<1>2. \/ AfterTagEnd(b, i) = Incomplete
      \/ \E j : AfterTagEnd(b, i) = Ok(j)
  BY DEF AfterTagEnd
<1> QED
  BY <1>1, <1>2 DEF Stopped, Incomplete, Ok

LEMMA FieldStops ==
    ASSUME NEW b, NEW i
    PROVE  Stopped(Field(b, i))
<1> DEFINE tag == Tag(b, i, LengthOpen)
           end == Until(b, tag.i, LengthClose)
<1>1. \/ Field(b, i) = tag \/ Field(b, i) = end \/ Field(b, i) = Bad
      \/ Field(b, i) = Ok(end.i + Len(LengthClose))
  BY DEF Field, Then
<1>2. Stopped(tag) /\ Stopped(end)
  BY TagStops, UntilStops
<1> HIDE DEF tag, end
<1> QED
  BY <1>1, <1>2 DEF Stopped, Bad, Ok

\* parse_item_at ends in the buffer.
LEMMA ParseInside ==
    ASSUME NEW b \in Seq(Symbols), NEW start \in 1 .. Len(b), NEW known \in Nat
    PROVE  ParsesInside(b, ParseItemAt(b, start, known))
<1> DEFINE open == Tag(b, start, ItemOpen)
           field == Field(b, AfterSpace(b, open.i))
           k == AfterSpace(b, field.i)
           data == AfterTagEnd(b, k + Len(DataOpen))
           r == ParseItemAt(b, start, known)
           tail == CASE Starts(b, k, ItemClose) ->
                          [is |-> "item", payload |-> << >>, i |-> k + Len(ItemClose)]
                     [] Starts(b, k, DataOpen) ->
                          IF data.is = "ok" THEN DataItem(b, start, known, data.i) ELSE data
                     [] ~Starts(b, k, ItemClose) /\ ~Starts(b, k, DataOpen)
                        /\ (Splits(b, k, ItemClose) \/ Splits(b, k, DataOpen)) -> Incomplete
                     [] OTHER -> Bad
<1>1. r = IF open.is = "ok" THEN IF field.is = "ok" THEN tail ELSE field ELSE open
  BY DEF ParseItemAt, Then
<1>2. Stopped(open) /\ Stopped(field) /\ Stopped(data)
  BY TagStops, FieldStops, UntilStops
<1>3. \A x : Stopped(x) => ParsesInside(b, x)
  BY DEF Stopped, ParsesInside
<1>4. Stopped(Bad) /\ Stopped(Incomplete)
  BY DEF Stopped, Bad, Incomplete
<1> HIDE DEF r
<1>5. CASE open.is = "ok" /\ field.is = "ok"
  <2>1. open.i \in Nat
    BY <1>5, TagEndsInside, TagWords
  <2>2. AfterSpace(b, open.i) \in Nat
    BY <2>1, SpaceInside
  <2>3. field.i \in Nat
    BY <1>5, <2>2, FieldInside
  <2>4. k \in Nat
    BY <2>3, SpaceInside
  <2>5. r = tail
    BY <1>1, <1>5
  <2>6. CASE Starts(b, k, ItemClose) /\ r = [is |-> "item", payload |-> << >>, i |-> k + Len(ItemClose)]
    <3>1. k + 2 - 1 <= Len(b) /\ Len(ItemClose) = 2
      BY <2>6, TagWords DEF Starts
    <3>2. r.i = k + 2
      BY <2>6, <3>1
    <3>3. r.i - 1 \in 0 .. Len(b)
      BY <2>4, <3>1, <3>2
    <3>4. "known" \notin DOMAIN r
      BY <2>6
    <3> QED
      BY <3>3, <3>4 DEF ParsesInside, r
  <2>7. CASE r = IF data.is = "ok" THEN DataItem(b, start, known, data.i) ELSE data
    <3>1. CASE data.is = "ok"
      <4>1. k + Len(DataOpen) \in Nat
        BY <2>4, TagWords
      <4>2. data.i \in Nat
        BY <3>1, <4>1, TagEndInside
      <4> HIDE DEF data
      <4>3. r = DataItem(b, start, known, data.i)
        BY <2>7, <3>1
      <4> QED
        BY <4>2, <4>3, DataItemInside DEF r
    <3>2. CASE data.is # "ok"
      <4> HIDE DEF data
      <4>1. r = data
        BY <2>7, <3>2
      <4> QED
        BY <1>2, <1>3, <4>1 DEF r
    <3> QED
      BY <3>1, <3>2
  <2>8. CASE r = Incomplete \/ r = Bad
    BY <1>3, <1>4, <2>8 DEF r
  <2> HIDE DEF k, data
  <2> QED
    BY <2>5, <2>6, <2>7, <2>8
<1>6. CASE ~(open.is = "ok" /\ field.is = "ok")
  <2>1. r = open \/ r = field
    BY <1>1, <1>6
  <2> HIDE DEF open, field
  <2> QED
    BY <1>2, <1>3, <2>1 DEF r
<1> QED
  BY <1>5, <1>6

----
(* The parser: its buffer *)

LEMMA CompactedFacts ==
    ASSUME NEW b \in Seq(Symbols), NEW p \in 0 .. Len(b), NEW c, c = Compacted(b, p)
    PROVE  /\ c.buf \in Seq(Symbols) /\ c.pos \in 0 .. Len(c.buf)
           /\ Len(c.buf) - c.pos = Len(b) - p /\ Len(c.buf) <= Len(b)
           /\ Len(c.buf) <= CompactAt + (Len(b) - p)
<1>1. Len(b) \in Nat /\ p \in Nat /\ p <= Len(b) /\ CompactAt \in Nat
  BY PipeSizes
<1>2. CASE p > 0 /\ (p >= CompactAt \/ p = Len(b))
  <2> DEFINE rest == SubSeq(b, p + 1, Len(b))
  <2>1. rest \in Seq(Symbols) /\ Len(rest) = Len(b) - p
    <3>1. \A i \in p + 1 .. Len(b) : b[i] \in Symbols
      BY <1>1
    <3>2. rest \in Seq(Symbols) /\ Len(rest) = IF p + 1 <= Len(b) THEN Len(b) - (p + 1) + 1 ELSE 0
      BY <1>1, <3>1, SubSeqProperties
    <3> QED
      BY <1>1, <3>2
  <2>2. c = [buf |-> rest, pos |-> 0]
    BY <1>2 DEF Compacted
  <2> HIDE DEF rest
  <2>3. c.buf = rest /\ c.pos = 0
    BY <2>2
  <2> QED
    BY <1>1, <2>1, <2>3
<1>3. CASE ~(p > 0 /\ (p >= CompactAt \/ p = Len(b)))
  <2>1. c = [buf |-> b, pos |-> p]
    BY <1>3 DEF Compacted
  <2>2. c.buf = b /\ c.pos = p
    BY <2>1
  <2>3. p <= CompactAt
    BY <1>1, <1>3
  <2> QED
    BY <1>1, <2>2, <2>3
<1> QED
  BY <1>2, <1>3

\* What is written is made of symbols.
LEMMA OneSymbol ==
    ASSUME NEW x \in Symbols
    PROVE  <<x>> \in Seq(Symbols)
OBVIOUS

LEMMA ItemIsText ==
    ASSUME NEW length \in Symbols, NEW payload \in Seq(Symbols)
    PROVE  Item(length, payload) \in Seq(Symbols)
<1>1. Wrapped(payload) \in Seq(Symbols)
  <2>1. CASE Len(payload) < 2
    BY <2>1 DEF Wrapped
  <2>2. CASE ~(Len(payload) < 2)
    <3>1. Head(payload) \in Symbols /\ Tail(payload) \in Seq(Symbols) /\ Space \in Symbols
      <4>1. payload # << >>
        BY <2>2
      <4> QED
        BY <4>1, HeadTailProperties DEF Symbols
    <3>2. <<Head(payload), Space>> \in Seq(Symbols)
      <4>1. <<Head(payload), Space>> = Append(<<Head(payload)>>, Space)
        OBVIOUS
      <4> QED
        BY <3>1, <4>1, OneSymbol, AppendProperties
    <3>3. <<Head(payload), Space>> \o Tail(payload) \in Seq(Symbols)
      BY <3>1, <3>2, ConcatProperties
    <3> QED
      BY <2>2, <3>3 DEF Wrapped
  <2> QED
    BY <2>1, <2>2
<1>2. <<">">> \in Seq(Symbols) /\ <<length>> \in Seq(Symbols) /\ << >> \in Seq(Symbols)
  <2>1. ">" \in Symbols
    BY DEF Symbols, TagEnds
  <2> QED
    BY <2>1, OneSymbol
<1>3. \A s \in Seq(Symbols), t \in Seq(Symbols) : s \o t \in Seq(Symbols)
  BY ConcatProperties
<1>4. Body(payload) \in Seq(Symbols)
  <2> HIDE DEF Symbols
  <2>1. DataOpen \o <<">">> \o Wrapped(payload) \o DataClose \in Seq(Symbols)
    BY <1>1, <1>2, <1>3, TagWords
  <2> QED
    BY <1>2, <2>1 DEF Body
<1>5. ItemOpen \o LengthOpen \o <<length>> \o LengthClose \o Body(payload) \o ItemClose \in Seq(Symbols)
  BY <1>2, <1>3, <1>4, TagWords
<1> QED
  BY <1>5 DEF Item

LEMMA FramesAreText ==
    \A frame \in Good \cup Damaged : frame.text \in Seq(Symbols) /\ frame.owes \in Seq(Payloads)
<1>1. {"a", "b", "!", "?", "0", "1", "2", "big", Space} \subseteq Symbols
  BY DEF Symbols
<1>2. \A p \in Payloads : p \in Seq(Symbols) /\ LengthOf(p) \in Symbols
  <2> TAKE p \in Payloads
  <2>1. p \in Seq({"a", "b"})
    BY PayloadsAssumption
  <2>2. LengthOf(p) \in {"0", "1", "2"}
    BY DEF LengthOf
  <2> QED
    BY <1>1, <2>1, <2>2, SeqMonotonic
<1>3. ASSUME NEW frame \in Good
      PROVE  frame.text \in Seq(Symbols) /\ frame.owes \in Seq(Payloads)
  <2>1. PICK p \in Payloads : frame = [text |-> Item(LengthOf(p), p), owes |-> <<p>>]
    BY <1>3 DEF Good
  <2>2. frame.text = Item(LengthOf(p), p) /\ frame.owes = <<p>>
    BY <2>1
  <2>3. <<p>> \in Seq(Payloads)
    OBVIOUS
  <2> QED
    BY <1>2, <2>2, <2>3, ItemIsText
<1>4. << >> \in Seq(Payloads)
  OBVIOUS
<1>5. ASSUME NEW x \in Symbols, NEW y \in Symbols PROVE Item(x, <<y>>) \in Seq(Symbols)
  BY OneSymbol, ItemIsText
<1>6. ASSUME NEW frame \in Damaged
      PROVE  frame.text \in Seq(Symbols) /\ frame.owes \in Seq(Payloads)
  <2>1. CASE \E n \in 1 .. Len(Item("1", <<"a">>)) - 1 :
               frame = [text |-> SubSeq(Item("1", <<"a">>), 1, n), owes |-> << >>]
    <3>1. PICK n \in 1 .. Len(Item("1", <<"a">>)) - 1 :
             frame = [text |-> SubSeq(Item("1", <<"a">>), 1, n), owes |-> << >>]
      BY <2>1
    <3> DEFINE whole == Item("1", <<"a">>)
    <3>2. whole \in Seq(Symbols)
      BY <1>1, <1>5
    <3> HIDE DEF whole
    <3>3. n \in 1 .. Len(whole) - 1
      BY <3>1 DEF whole
    <3>4. \A i \in 1 .. n : whole[i] \in Symbols
      BY <3>2, <3>3
    <3>5. SubSeq(whole, 1, n) \in Seq(Symbols)
      BY <3>3, <3>4, SubSeqProperties
    <3>6. frame.text = SubSeq(whole, 1, n) /\ frame.owes = << >>
      BY <3>1 DEF whole
    <3> QED
      BY <1>4, <3>5, <3>6
  <2>2. CASE \E t \in {Item("1", <<"!">>), Item("big", <<"a">>), <<"?">>, <<Space>>} :
               frame = [text |-> t, owes |-> << >>]
    <3>1. PICK t \in {Item("1", <<"!">>), Item("big", <<"a">>), <<"?">>, <<Space>>} :
             frame = [text |-> t, owes |-> << >>]
      BY <2>2
    <3>2. t \in Seq(Symbols)
      BY <1>1, <1>5, <3>1, OneSymbol
    <3> QED
      BY <1>4, <3>1, <3>2
  <2> QED
    BY <2>1, <2>2 DEF Damaged
<1> QED
  BY <1>3, <1>6


\* What a step of the cursor and what a parse may answer.
Steps(r) == r.is \in {"ok", "incomplete", "bad"}

LEMMA CursorAnswers ==
    ASSUME NEW b, NEW i, NEW tag
    PROVE  /\ Steps(Tag(b, i, tag)) /\ Steps(Until(b, i, tag)) /\ Steps(AfterTagEnd(b, i))
           /\ Steps(Field(b, i))
<1>1. \A x, y, t : Steps(Tag(x, y, t))
  <2> TAKE x, y, t
  <2>1. Tag(x, y, t) = Incomplete \/ Tag(x, y, t) = Bad \/ Tag(x, y, t) = Ok(y + Len(t))
    BY DEF Tag
  <2> QED
    BY <2>1 DEF Steps, Incomplete, Bad, Ok
<1>2. \A x, y, t : Steps(Until(x, y, t))
  <2> TAKE x, y, t
  <2>1. Until(x, y, t) = Incomplete \/ Until(x, y, t) = Ok(First(Places(x, y, t)))
    BY DEF Until
  <2> QED
    BY <2>1 DEF Steps, Incomplete, Ok
<1>3. Steps(AfterTagEnd(b, i))
  <2>1. AfterTagEnd(b, i) = Incomplete \/ \E j : AfterTagEnd(b, i) = Ok(j)
    BY DEF AfterTagEnd
  <2> QED
    BY <2>1 DEF Steps, Incomplete, Ok
<1>4. Steps(Field(b, i))
  <2> DEFINE open == Tag(b, i, LengthOpen)
             end == Until(b, open.i, LengthClose)
  <2>1. \/ Field(b, i) = open \/ Field(b, i) = end \/ Field(b, i) = Bad
        \/ Field(b, i) = Ok(end.i + Len(LengthClose))
    BY DEF Field, Then
  <2>2. Steps(open) /\ Steps(end)
    BY <1>1, <1>2
  <2> HIDE DEF open, end
  <2> QED
    BY <2>1, <2>2 DEF Steps, Bad, Ok
<1> QED
  BY <1>1, <1>2, <1>3, <1>4

LEMMA ParseAnswers ==
    ASSUME NEW b, NEW start, NEW known
    PROVE  ParseItemAt(b, start, known).is \in {"item", "bad", "incomplete"}
<1> DEFINE Answers(x) == x.is \in {"item", "bad", "incomplete"}
           open == Tag(b, start, ItemOpen)
           field == Field(b, AfterSpace(b, open.i))
           k == AfterSpace(b, field.i)
           data == AfterTagEnd(b, k + Len(DataOpen))
           last == DataItem(b, start, known, data.i)
           r == ParseItemAt(b, start, known)
<1>1. \A x : Steps(x) /\ x.is # "ok" => Answers(x)
  BY DEF Steps
<1>2. Answers(Bad) /\ Answers(Incomplete)
  BY DEF Bad, Incomplete
<1>3. Answers(last)
  <2> DEFINE end == Until(b, Resume(start, known, data.i), DataClose)
             after == AfterSpace(b, end.i + Len(DataClose))
             close == Tag(b, after, ItemClose)
             payload == Unwrapped(SubSeq(b, data.i, end.i - 1))
  <2>1. \/ last = [is |-> "incomplete", known |-> Len(b) + 1 - start]
        \/ last = close /\ close.is # "ok"
        \/ last = Bad
        \/ last = [is |-> "item", payload |-> payload, i |-> close.i]
    BY DEF DataItem, Then
  <2>2. Steps(close)
    BY CursorAnswers
  <2> HIDE DEF last, close, payload
  <2> QED
    BY <1>1, <1>2, <2>1, <2>2
<1>4. \/ r = open /\ open.is # "ok"
      \/ r = field /\ field.is # "ok"
      \/ r = data /\ data.is # "ok"
      \/ r = last \/ r = Bad \/ r = Incomplete
      \/ r = [is |-> "item", payload |-> << >>, i |-> k + Len(ItemClose)]
  <2> HIDE DEF last
  <2>1. \/ r = open /\ open.is # "ok"
        \/ r = field /\ field.is # "ok"
        \/ r = CASE Starts(b, k, ItemClose) ->
                      [is |-> "item", payload |-> << >>, i |-> k + Len(ItemClose)]
                 [] Starts(b, k, DataOpen) -> IF data.is = "ok" THEN last ELSE data
                 [] ~Starts(b, k, ItemClose) /\ ~Starts(b, k, DataOpen)
                    /\ (Splits(b, k, ItemClose) \/ Splits(b, k, DataOpen)) -> Incomplete
                 [] OTHER -> Bad
    BY DEF ParseItemAt, Then, last
  <2> HIDE DEF r, k, data, field, open
  <2> QED
    BY <2>1
<1>5. Steps(open) /\ Steps(field) /\ Steps(data)
  BY CursorAnswers
<1> HIDE DEF open, field, k, data, last, r
<1>6. Answers(r)
  BY <1>1, <1>2, <1>3, <1>4, <1>5
<1> QED
  BY <1>6 DEF r

----
(* The parser: the bound of its buffer *)

\* When the reader waits, what it has not parsed fits in the buffer.
Rested == ~draining => Len(buf) - pos <= MaxBuffer

PipeInv == PipeTypeOK /\ Rested /\ BufferIsBounded

LEMMA StartPlaces ==
    ASSUME NEW b \in Seq(Symbols), NEW p \in 0 .. Len(b), NEW start,
           Places(b, p + 1, ItemOpen) # {}, start = First(Places(b, p + 1, ItemOpen))
    PROVE  start \in p + 1 .. Len(b)
<1>1. /\ Places(b, p + 1, ItemOpen) \subseteq p + 1 .. Len(b)
      /\ Places(b, p + 1, ItemOpen) \subseteq Nat
  BY DEF Places
<1> QED
  BY <1>1, LeastPlace

\* What a step of the parser may do to its buffer.
Consumes ==
    /\ buf' \in Seq(Symbols) /\ pos' \in 0 .. Len(buf') /\ hint' \in Nat
    /\ Len(buf') <= Len(buf) /\ draining' \in BOOLEAN
    /\ ~draining' => Len(buf') - pos' <= MaxBuffer
    /\ owed' \in Seq(Payloads) /\ strange' \in BOOLEAN

LEMMA DeliverType ==
    ASSUME PipeTypeOK, NEW payload, Deliver(payload)
    PROVE  owed' \in Seq(Payloads) /\ strange' \in BOOLEAN
<1>1. owed # << >> => Tail(owed) \in Seq(Payloads)
  BY HeadTailProperties DEF PipeTypeOK
<1> QED
  BY <1>1 DEF PipeTypeOK, Deliver

LEMMA NoItemConsumes == PipeTypeOK /\ NoItem => Consumes
<1> SUFFICES ASSUME PipeTypeOK, NoItem PROVE Consumes
  OBVIOUS
<1> DEFINE unparsed == Len(buf) - pos
           skip == IF unparsed > Len(ItemOpen) - 1 THEN unparsed - (Len(ItemOpen) - 1) ELSE 0
           cut == Compacted(buf, pos + skip)
<1>1. /\ buf \in Seq(Symbols) /\ pos \in 0 .. Len(buf) /\ hint \in Nat /\ Len(ItemOpen) = 2
      /\ MaxBuffer \in Nat /\ MaxBuffer > 0
  BY PipeSizes, TagWords DEF PipeTypeOK
<1>2. pos + skip \in 0 .. Len(buf) /\ Len(buf) - (pos + skip) <= 1
  BY <1>1
<1>3. hint' \in Nat /\ owed' \in Seq(Payloads) /\ strange' \in BOOLEAN
  BY <1>1 DEF NoItem, Silent, PipeTypeOK
<1>4. \/ buf' = cut.buf /\ pos' = cut.pos /\ draining' = FALSE
      \/ buf' = buf /\ pos' = pos + skip /\ draining' = TRUE
  BY DEF NoItem
<1> HIDE DEF skip
<1>5. CASE buf' = cut.buf /\ pos' = cut.pos /\ draining' = FALSE
  <2>1. PICK c : c = cut
    OBVIOUS
  <2>2. /\ c.buf \in Seq(Symbols) /\ c.pos \in 0 .. Len(c.buf)
        /\ Len(c.buf) - c.pos = Len(buf) - (pos + skip) /\ Len(c.buf) <= Len(buf)
    BY <1>1, <1>2, <2>1, CompactedFacts
  <2>3. buf' = c.buf /\ pos' = c.pos
    BY <1>5, <2>1
  <2>4. Len(buf') - pos' <= 1
    BY <1>2, <2>2, <2>3
  <2>5. Len(buf') - pos' <= MaxBuffer
    BY <1>1, <2>2, <2>3, <2>4
  <2> QED
    BY <1>3, <1>5, <2>2, <2>3, <2>5 DEF Consumes
<1>6. CASE buf' = buf /\ pos' = pos + skip /\ draining' = TRUE
  <2>1. Len(buf') <= Len(buf)
    BY <1>1, <1>6
  <2> QED
    BY <1>1, <1>2, <1>3, <1>6, <2>1 DEF Consumes
<1> QED
  BY <1>4, <1>5, <1>6

LEMMA AttemptConsumes ==
    ASSUME PipeTypeOK, NEW start \in pos + 1 .. Len(buf), Attempted(start)
    PROVE  Consumes
<1> DEFINE known == IF start = pos + 1 THEN hint ELSE 0
           r == ParseItemAt(buf, start, known)
<1>1. /\ buf \in Seq(Symbols) /\ pos \in 0 .. Len(buf) /\ hint \in Nat /\ known \in Nat
      /\ start \in 1 .. Len(buf) /\ MaxBuffer \in Nat /\ buf' = buf
      /\ Len(buf) \in Nat
  BY PipeSizes DEF PipeTypeOK, Attempted
<1>2. ParsesInside(buf, r)
  BY <1>1, ParseInside
<1>3. \/ r.is = "item" /\ pos' = r.i - 1 /\ hint' = 0 /\ draining' = TRUE /\ Deliver(r.payload)
      \/ /\ r.is = "bad" \/ (r.is = "incomplete" /\ Overflows(start))
         /\ pos' = start /\ hint' = 0 /\ draining' = TRUE /\ Silent
      \/ /\ ~(r.is = "item") /\ ~(r.is = "bad" \/ (r.is = "incomplete" /\ Overflows(start)))
         /\ pos' = start - 1 /\ draining' = FALSE /\ Silent
         /\ hint' = IF "known" \in DOMAIN r THEN r.known ELSE known
  BY DEF Attempted
<1>4. r.is \in {"item", "bad", "incomplete"}
  BY <1>1, ParseAnswers
<1> HIDE DEF r, known
<1>5. CASE r.is = "item" /\ pos' = r.i - 1 /\ hint' = 0 /\ draining' = TRUE /\ Deliver(r.payload)
  <2>1. pos' \in 0 .. Len(buf)
    BY <1>2, <1>5 DEF ParsesInside
  <2>2. owed' \in Seq(Payloads) /\ strange' \in BOOLEAN
    BY <1>5, DeliverType
  <2> QED
    BY <1>1, <1>5, <2>1, <2>2 DEF Consumes
<1>6. CASE pos' = start /\ hint' = 0 /\ draining' = TRUE /\ Silent
  BY <1>1, <1>6 DEF Consumes, Silent, PipeTypeOK
<1>7. CASE /\ ~(r.is = "item") /\ ~(r.is = "bad" \/ (r.is = "incomplete" /\ Overflows(start)))
           /\ pos' = start - 1 /\ draining' = FALSE /\ Silent
           /\ hint' = IF "known" \in DOMAIN r THEN r.known ELSE known
  <2>1. ~Overflows(start)
    BY <1>4, <1>7
  <2>2. Len(buf) + 1 - start <= MaxBuffer
    BY <1>1, <2>1 DEF Overflows
  <2>3. Len(buf') - pos' <= MaxBuffer /\ pos' \in 0 .. Len(buf')
    BY <1>1, <1>7, <2>2
  <2>4. hint' \in Nat
    BY <1>1, <1>2, <1>7 DEF ParsesInside
  <2>5. owed' \in Seq(Payloads) /\ strange' \in BOOLEAN
    BY <1>7 DEF Silent, PipeTypeOK
  <2>6. buf' \in Seq(Symbols) /\ Len(buf') <= Len(buf) /\ draining' = FALSE
    BY <1>1, <1>7
  <2> QED
    BY <2>3, <2>4, <2>5, <2>6 DEF Consumes
<1> QED
  BY <1>3, <1>5, <1>6, <1>7

LEMMA NextItemConsumes == PipeTypeOK /\ NextItem => Consumes
<1> SUFFICES ASSUME PipeTypeOK, NextItem PROVE Consumes
  OBVIOUS
<1> DEFINE starts == Places(buf, pos + 1, ItemOpen)
           start == First(starts)
<1>1. CASE starts = {}
  BY <1>1, NoItemConsumes DEF NextItem
<1>2. CASE starts # {}
  <2>1. start \in pos + 1 .. Len(buf)
    BY <1>2, StartPlaces DEF PipeTypeOK
  <2>2. Attempted(start) \/ SkipTo(start)
    BY <1>2 DEF NextItem
  <2> HIDE DEF start
  <2>3. CASE Attempted(start)
    BY <2>1, <2>3, AttemptConsumes
  <2>4. CASE SkipTo(start)
    <3>1. /\ buf \in Seq(Symbols) /\ pos \in 0 .. Len(buf) /\ owed \in Seq(Payloads)
          /\ strange \in BOOLEAN
      BY DEF PipeTypeOK
    <3>2. buf' = buf /\ pos' = start - 1 /\ hint' = 0 /\ draining' = TRUE
          /\ owed' = owed /\ strange' = strange
      BY <2>4 DEF SkipTo, Silent
    <3>3. pos' \in 0 .. Len(buf') /\ Len(buf') <= Len(buf)
      BY <2>1, <3>1, <3>2
    <3> QED
      BY <3>1, <3>2, <3>3 DEF Consumes
  <2> QED
    BY <2>2, <2>3, <2>4
<1> QED
  BY <1>1, <1>2

LEMMA ReadKeeps == PipeInv /\ Read => PipeInv'
<1> SUFFICES ASSUME PipeInv, Read PROVE PipeInv'
  OBVIOUS
<1>1. PICK size \in Pieces :
         LET n == Least(size, Len(pipe))
             cut == Compacted(buf, pos)
         IN /\ buf' = cut.buf \o SubSeq(pipe, 1, n) /\ pos' = cut.pos
            /\ pipe' = SubSeq(pipe, n + 1, Len(pipe))
  BY DEF Read
<1> DEFINE n == Least(size, Len(pipe))
           piece == SubSeq(pipe, 1, n)
<1>2. PICK c : c = Compacted(buf, pos)
  OBVIOUS
<1>3. /\ pipe \in Seq(Symbols) /\ buf \in Seq(Symbols) /\ pos \in 0 .. Len(buf) /\ ~draining
      /\ Len(pipe) \in Nat /\ Len(buf) \in Nat /\ size \in Nat /\ CompactAt \in Nat /\ MaxBuffer \in Nat
  BY PipeSizes DEF PipeInv, PipeTypeOK, Read
<1>4. n \in Nat /\ n <= size /\ n <= Len(pipe)
  BY <1>3 DEF Least
<1> HIDE DEF n
<1>5. piece \in Seq(Symbols) /\ Len(piece) = n
  <2>1. \A i \in 1 .. n : pipe[i] \in Symbols
    BY <1>3, <1>4
  <2>2. piece \in Seq(Symbols) /\ Len(piece) = IF 1 <= n THEN n - 1 + 1 ELSE 0
    BY <1>4, <2>1, SubSeqProperties
  <2> QED
    BY <1>4, <2>2
<1>6. pipe' \in Seq(Symbols)
  <2>1. \A i \in n + 1 .. Len(pipe) : pipe[i] \in Symbols
    BY <1>3, <1>4
  <2>2. SubSeq(pipe, n + 1, Len(pipe)) \in Seq(Symbols)
    BY <1>3, <1>4, <2>1, SubSeqProperties
  <2> QED
    BY <1>1, <2>2 DEF n
<1> HIDE DEF piece
<1>7. /\ c.buf \in Seq(Symbols) /\ c.pos \in 0 .. Len(c.buf)
      /\ Len(c.buf) <= CompactAt + (Len(buf) - pos)
  BY <1>2, <1>3, CompactedFacts
<1>8. buf' = c.buf \o piece /\ pos' = c.pos
  BY <1>1, <1>2 DEF n, piece
<1>9. buf' \in Seq(Symbols) /\ Len(buf') = Len(c.buf) + n
  BY <1>5, <1>7, <1>8, ConcatProperties
<1>10. pos' \in 0 .. Len(buf')
  BY <1>4, <1>7, <1>8, <1>9
<1>11. PipeTypeOK'
  BY <1>6, <1>9, <1>10 DEF PipeInv, PipeTypeOK, Read
<1>12. Rested'
  BY DEF Read, Rested
<1>13. Len(buf') <= CompactAt + MaxBuffer + size
  <2>1. Len(buf) - pos <= MaxBuffer
    BY <1>3 DEF PipeInv, Rested
  <2>2. Len(c.buf) \in Nat
    BY <1>7
  <2> QED
    BY <1>3, <1>4, <1>7, <1>9, <2>1, <2>2
<1>14. BufferIsBounded'
  BY <1>13 DEF BufferIsBounded
<1> QED
  BY <1>11, <1>12, <1>14 DEF PipeInv

LEMMA PipeStep == PipeInv /\ [PipeNext]_pipeVars => PipeInv'
<1> SUFFICES ASSUME PipeInv, [PipeNext]_pipeVars PROVE PipeInv'
  OBVIOUS
<1>1. PICK most \in Pieces : Len(buf) <= CompactAt + MaxBuffer + most
  BY DEF PipeInv, BufferIsBounded
<1>2. /\ most \in Nat /\ CompactAt \in Nat /\ MaxBuffer \in Nat /\ MaxFrames \in Nat
      /\ buf \in Seq(Symbols) /\ Len(buf) \in Nat
  BY PipeSizes DEF PipeInv, PipeTypeOK
<1>3. CASE NextItem
  <2>1. Consumes
    BY <1>3, NextItemConsumes DEF PipeInv
  <2>2. PipeTypeOK'
    BY <1>3, <2>1 DEF NextItem, Consumes, PipeInv, PipeTypeOK
  <2>3. Rested'
    BY <2>1 DEF Consumes, Rested
  <2>4. Len(buf') <= CompactAt + MaxBuffer + most
    <3>1. Len(buf') <= Len(buf) /\ Len(buf') \in Nat
      BY <2>1 DEF Consumes
    <3> QED
      BY <1>1, <1>2, <3>1
  <2> QED
    BY <2>2, <2>3, <2>4 DEF PipeInv, BufferIsBounded
<1>4. CASE Read
  BY <1>4, ReadKeeps
<1>5. CASE ReadEof
  <2>1. buf' = << >> /\ pos' = 0 /\ hint' = 0 /\ owed' = << >> /\ Len(buf') = 0
    BY <1>5 DEF ReadEof
  <2>2. buf' \in Seq(Symbols) /\ owed' \in Seq(Payloads)
    BY <2>1
  <2>3. pos' \in 0 .. Len(buf') /\ hint' \in Nat
    BY <2>1
  <2>4. /\ pipe' \in Seq(Symbols) /\ writer' \in BOOLEAN /\ written' \in 0 .. MaxFrames
        /\ attached' \in BOOLEAN /\ draining' \in BOOLEAN /\ strange' \in BOOLEAN
    BY <1>5 DEF ReadEof, PipeInv, PipeTypeOK
  <2>5. PipeTypeOK'
    BY <2>2, <2>3, <2>4 DEF PipeTypeOK
  <2>6. Len(buf') <= CompactAt + MaxBuffer + most
    BY <1>2, <2>1
  <2>7. Rested'
    BY <1>2, <2>1 DEF Rested
  <2> QED
    BY <2>5, <2>6, <2>7 DEF PipeInv, BufferIsBounded
<1>6. CASE WriteFrame
  <2>1. PICK frame \in Good \cup Damaged : pipe' = pipe \o frame.text /\ owed' = owed \o frame.owes
    BY <1>6 DEF WriteFrame
  <2>2. pipe' \in Seq(Symbols) /\ owed' \in Seq(Payloads)
    <3>1. frame.text \in Seq(Symbols) /\ frame.owes \in Seq(Payloads)
      BY FramesAreText
    <3> QED
      BY <2>1, <3>1, ConcatProperties DEF PipeInv, PipeTypeOK
  <2>3. written' \in 0 .. MaxFrames
    BY <1>2, <1>6 DEF WriteFrame, PipeInv, PipeTypeOK
  <2>4. UNCHANGED <<writer, attached, buf, pos, hint, draining, strange>>
    BY <1>6 DEF WriteFrame, parser
  <2> QED
    BY <2>2, <2>3, <2>4 DEF PipeInv, PipeTypeOK, Rested, BufferIsBounded
<1>7. CASE Open \/ Close
  <2>1. UNCHANGED <<pipe, written, attached, buf, pos, hint, draining, owed, strange>>
    BY <1>7 DEF Open, Close, parser
  <2>2. writer' \in BOOLEAN
    BY <1>7 DEF Open, Close
  <2> QED
    BY <2>1, <2>2 DEF PipeInv, PipeTypeOK, Rested, BufferIsBounded
<1>8. CASE UNCHANGED pipeVars
  <2>1. UNCHANGED <<pipe, writer, written, attached, buf, pos, hint, draining, owed, strange>>
    BY <1>8 DEF pipeVars, parser
  <2> QED
    BY <2>1 DEF PipeInv, PipeTypeOK, Rested, BufferIsBounded
<1> QED
  BY <1>3, <1>4, <1>5, <1>6, <1>7, <1>8 DEF PipeNext

LEMMA PipeStart == PipeInit => PipeInv
<1> SUFFICES ASSUME PipeInit PROVE PipeInv
  OBVIOUS
<1>1. << >> \in Seq(Symbols) /\ << >> \in Seq(Payloads) /\ Len(<< >>) = 0
  OBVIOUS
<1>2. 0 \in 0 .. MaxFrames /\ 0 \in 0 .. Len(<< >>)
  BY <1>1, PipeSizes
<1>3. PipeTypeOK
  BY <1>1, <1>2 DEF PipeInit, PipeTypeOK
<1>4. PICK most \in Pieces : TRUE
  BY PipeSizes
<1>5. /\ most \in Nat /\ CompactAt \in Nat /\ MaxBuffer \in Nat /\ Len(buf) = 0 /\ pos = 0
  BY <1>1, PipeSizes DEF PipeInit
<1>6. Len(buf) <= CompactAt + MaxBuffer + most /\ Len(buf) - pos <= MaxBuffer
  BY <1>5
<1> QED
  BY <1>3, <1>6 DEF PipeInv, Rested, BufferIsBounded

\* Whatever the writer writes and however it arrives, the parser stands inside its
\* buffer and the buffer is bounded.
THEOREM PipeInvariance == PipeSpec => []PipeInv
<1>1. PipeInit => PipeInv
  BY PipeStart
<1>2. PipeInv /\ [PipeNext]_pipeVars => PipeInv'
  BY PipeStep
<1> QED
  BY <1>1, <1>2, PTL DEF PipeSpec

\* The variables keep their types, and the parser stands inside its buffer
\* (parser.rs, next_item; a position outside would be a panic).
THEOREM PipeTypes == PipeSpec => []PipeTypeOK
<1>1. PipeInv => PipeTypeOK
  BY DEF PipeInv
<1> QED
  BY <1>1, PipeInvariance, PTL

\* The buffer holds no more than what may be an item, what was just read, and a
\* prefix not worth reclaiming (parser.rs, Limits, compact).
THEOREM BufferTheorem == PipeSpec => []BufferIsBounded
<1>1. PipeInv => BufferIsBounded
  BY DEF PipeInv
<1> QED
  BY <1>1, PipeInvariance, PTL

----
(* The parser: what the cursor finds *)

\* The two symbols of a tag stand at a place, or the buffer ends before they can.
At(b, i, tag) == i + 1 <= Len(b) /\ b[i] = tag[1] /\ b[i + 1] = tag[2]
Split(b, i, tag) == i >= Len(b) /\ (i = Len(b) => b[i] = tag[1])
NoneFrom(b, from, tag) == \A i \in from .. Len(b) : ~At(b, i, tag)
IsNext(b, from, i, tag) ==
    i \in from .. Len(b) /\ At(b, i, tag) /\ \A j \in from .. i - 1 : ~At(b, j, tag)
\* White space and no more.
Blank(b, from, i) ==
    i \in from .. Len(b) + 1 /\ (\A j \in from .. i - 1 : b[j] = Space)
    /\ (i <= Len(b) => b[i] # Space)

Tags == {tag \in Seq(Symbols) : Len(tag) = 2}

LEMMA TagParts ==
    /\ {ItemOpen, ItemClose, LengthOpen, LengthClose, DataOpen, DataClose} \subseteq Tags
    /\ ItemOpen[1] = "<" /\ ItemOpen[2] = "item>"
    /\ ItemClose[1] = "</" /\ ItemClose[2] = "item>"
    /\ LengthOpen[1] = "<" /\ LengthOpen[2] = "length>"
    /\ LengthClose[1] = "</" /\ LengthClose[2] = "length>"
    /\ DataOpen[1] = "<" /\ DataOpen[2] = "data"
    /\ DataClose[1] = "</" /\ DataClose[2] = "data>"
<1>1. {ItemOpen, ItemClose, LengthOpen, LengthClose, DataOpen, DataClose} \subseteq Tags
  BY TagWords DEF Tags
<1> QED
  BY <1>1 DEF ItemOpen, ItemClose, LengthOpen, LengthClose, DataOpen, DataClose

LEMMA StartsAt ==
    ASSUME NEW b \in Seq(Symbols), NEW i \in Nat \ {0}, NEW tag \in Tags
    PROVE  Starts(b, i, tag) <=> At(b, i, tag)
<1>1. tag \in Seq(Symbols) /\ Len(tag) = 2 /\ Len(b) \in Nat
  BY DEF Tags
<1>2. CASE i + 1 <= Len(b)
  <2>1. \A j \in i .. i + 1 : b[j] \in Symbols
    BY <1>1, <1>2
  <2>2. SubSeq(b, i, i + 1) \in Seq(Symbols) /\ Len(SubSeq(b, i, i + 1)) = 2
        /\ SubSeq(b, i, i + 1)[1] = b[i] /\ SubSeq(b, i, i + 1)[2] = b[i + 1]
    BY <2>1, SubSeqProperties
  <2> DEFINE s == SubSeq(b, i, i + 1)
  <2> HIDE DEF s
  <2>3. s = tag <=> (s[1] = tag[1] /\ s[2] = tag[2])
    <3>1. s \in Seq(Symbols) /\ Len(s) = 2
      BY <2>2 DEF s
    <3>2. ASSUME s[1] = tag[1], s[2] = tag[2] PROVE s = tag
      <4>1. \A j \in 1 .. Len(s) : s[j] = tag[j]
        BY <3>1, <3>2
      <4> QED
        BY <1>1, <3>1, <4>1, SeqEqual
    <3> QED
      BY <3>2
  <2>4. s[1] = b[i] /\ s[2] = b[i + 1]
    BY <2>2 DEF s
  <2>5. Starts(b, i, tag) <=> s = tag
    BY <1>1, <1>2 DEF Starts, s
  <2> QED
    BY <1>2, <2>3, <2>4, <2>5 DEF At
<1>3. CASE ~(i + 1 <= Len(b))
  BY <1>1, <1>3 DEF Starts, At
<1> QED
  BY <1>2, <1>3

LEMMA SplitsSplit ==
    ASSUME NEW b \in Seq(Symbols), NEW i \in Nat \ {0}, NEW tag \in Tags
    PROVE  Splits(b, i, tag) <=> Split(b, i, tag)
<1>1. tag \in Seq(Symbols) /\ Len(tag) = 2 /\ Len(b) \in Nat
  BY DEF Tags
<1> DEFINE s == SubSeq(b, i, Len(b))
<1>2. CASE i > Len(b)
  <2>1. s = << >>
    BY <1>1, <1>2, SubSeqEmpty
  <2>2. IsPrefix(<< >>, tag)
    BY <1>1 DEF IsPrefix
  <2> QED
    BY <1>1, <1>2, <2>1, <2>2 DEF Splits, Split
<1>3. CASE i = Len(b)
  <2>1. \A j \in i .. i : b[j] \in Symbols
    BY <1>1, <1>3
  <2>2. s \in Seq(Symbols) /\ Len(s) = 1 /\ s[1] = b[i]
    BY <1>1, <1>3, <2>1, SubSeqProperties
  <2>3. SubSeq(tag, 1, 1) \in Seq(Symbols) /\ Len(SubSeq(tag, 1, 1)) = 1 /\ SubSeq(tag, 1, 1)[1] = tag[1]
    <3>1. \A j \in 1 .. 1 : tag[j] \in Symbols
      BY <1>1
    <3> QED
      BY <3>1, SubSeqProperties
  <2>4. SubSeq(s, 1, 1) = s
    BY <2>2, SubSeqFull
  <2> HIDE DEF s
  <2>5. s = SubSeq(tag, 1, 1) <=> s[1] = tag[1]
    <3>1. ASSUME s[1] = tag[1] PROVE s = SubSeq(tag, 1, 1)
      <4>1. \A j \in 1 .. Len(s) : s[j] = SubSeq(tag, 1, 1)[j]
        BY <2>2, <2>3, <3>1
      <4> QED
        BY <2>2, <2>3, <4>1, SeqEqual
    <3> QED
      BY <2>3, <3>1
  <2>6. IsPrefix(s, tag) <=> s[1] = tag[1]
    BY <1>1, <2>2, <2>4, <2>5 DEF IsPrefix
  <2> QED
    BY <1>1, <1>3, <2>2, <2>6 DEF Splits, Split, s
<1>4. CASE i < Len(b)
  BY <1>1, <1>4 DEF Splits, Split
<1> QED
  BY <1>1, <1>2, <1>3, <1>4

LEMMA TagIs ==
    ASSUME NEW b \in Seq(Symbols), NEW i \in Nat \ {0}, NEW tag \in Tags
    PROVE  Tag(b, i, tag) = IF At(b, i, tag) THEN Ok(i + 2)
                            ELSE IF Split(b, i, tag) THEN Incomplete ELSE Bad
<1>1. Len(tag) = 2
  BY DEF Tags
<1>2. /\ Starts(b, i, tag) <=> At(b, i, tag)
      /\ Splits(b, i, tag) <=> Split(b, i, tag)
  BY StartsAt, SplitsSplit
<1>3. Tag(b, i, tag) = IF Starts(b, i, tag) THEN Ok(i + 2)
                       ELSE IF Splits(b, i, tag) THEN Incomplete ELSE Bad
  <2> HIDE DEF Starts, Splits
  <2> QED
    BY <1>1 DEF Tag
<1> QED
  BY <1>2, <1>3

LEMMA PlacesAre ==
    ASSUME NEW b \in Seq(Symbols), NEW from \in Nat \ {0}, NEW tag \in Tags
    PROVE  /\ Places(b, from, tag) = {i \in from .. Len(b) : At(b, i, tag)}
           /\ Places(b, from, tag) = {} <=> NoneFrom(b, from, tag)
<1>1. \A i \in from .. Len(b) : Starts(b, i, tag) <=> At(b, i, tag)
  BY StartsAt
<1> QED
  BY <1>1 DEF Places, NoneFrom

\* The first of some places has none before it.
LEMMA FirstOf ==
    ASSUME NEW places, places \subseteq Nat, places # {}
    PROVE  First(places) \in places /\ \A j \in places : First(places) =< j
<1>1. \E x \in places : \A y \in places : x =< y
  BY LeastNumber
<1> QED
  BY <1>1 DEF First

LEMMA NextOf ==
    ASSUME NEW b \in Seq(Symbols), NEW from \in Nat \ {0}, NEW tag \in Tags,
           Places(b, from, tag) # {}
    PROVE  IsNext(b, from, First(Places(b, from, tag)), tag)
<1> DEFINE places == Places(b, from, tag)
           i == First(places)
<1>1. places = {j \in from .. Len(b) : At(b, j, tag)}
  BY PlacesAre
<1>2. places \subseteq Nat
  BY <1>1
<1>3. i \in places /\ \A j \in places : i =< j
  BY <1>2, FirstOf
<1> HIDE DEF i, places
<1>4. i \in from .. Len(b) /\ At(b, i, tag)
  BY <1>1, <1>3
<1>5. ASSUME NEW j \in from .. i - 1, At(b, j, tag) PROVE FALSE
  <2>1. j \in from .. Len(b)
    BY <1>4
  <2>2. i =< j
    BY <1>1, <1>3, <1>5, <2>1
  <2> QED
    BY <1>4, <2>2
<1> QED
  BY <1>4, <1>5 DEF IsNext, i, places

LEMMA UntilIs ==
    ASSUME NEW b \in Seq(Symbols), NEW from \in Nat \ {0}, NEW tag \in Tags
    PROVE  \/ NoneFrom(b, from, tag) /\ Until(b, from, tag) = Incomplete
           \/ \E i : IsNext(b, from, i, tag) /\ Until(b, from, tag) = Ok(i)
<1>1. CASE Places(b, from, tag) = {}
  BY <1>1, PlacesAre DEF Until
<1>2. CASE Places(b, from, tag) # {}
  BY <1>2, NextOf DEF Until
<1> QED
  BY <1>1, <1>2

LEMMA TagEndIs ==
    ASSUME NEW b \in Seq(Symbols), NEW from \in Nat \ {0}
    PROVE  \/ /\ \A i \in from .. Len(b) : b[i] \notin TagEnds
              /\ AfterTagEnd(b, from) = Incomplete
           \/ \E i \in from .. Len(b) :
                /\ b[i] \in TagEnds /\ \A j \in from .. i - 1 : b[j] \notin TagEnds
                /\ AfterTagEnd(b, from) = Ok(i + 1)
<1> DEFINE places == {i \in from .. Len(b) : b[i] \in TagEnds}
           i == First(places)
<1>1. CASE places = {}
  BY <1>1 DEF AfterTagEnd
<1>2. CASE places # {}
  <2>1. places \subseteq Nat
    OBVIOUS
  <2>2. i \in places /\ \A j \in places : i =< j
    <3> HIDE DEF places
    <3> QED
      BY <1>2, <2>1, FirstOf
  <2>3. AfterTagEnd(b, from) = Ok(i + 1)
    BY <1>2 DEF AfterTagEnd
  <2> HIDE DEF i
  <2>4. i \in from .. Len(b) /\ b[i] \in TagEnds
    BY <2>2
  <2>5. ASSUME NEW j \in from .. i - 1, b[j] \in TagEnds PROVE FALSE
    <3>1. j \in places
      BY <2>4, <2>5
    <3>2. i =< j
      BY <2>2, <3>1
    <3> QED
      BY <2>4, <3>2
  <2> QED
    BY <2>3, <2>4, <2>5
<1> QED
  BY <1>1, <1>2

LEMMA SpaceIs ==
    ASSUME NEW b \in Seq(Symbols), NEW from \in 1 .. Len(b) + 1
    PROVE  Blank(b, from, AfterSpace(b, from))
<1> DEFINE places == {j \in from .. Len(b) : b[j] # Space} \cup {Len(b) + 1}
           i == First(places)
<1>1. places \subseteq Nat /\ places # {} /\ Len(b) + 1 \in places /\ Len(b) \in Nat
  OBVIOUS
<1>2. i \in places /\ \A j \in places : i =< j
  <2> HIDE DEF places
  <2> QED
    BY <1>1, FirstOf
<1>3. AfterSpace(b, from) = i
  BY DEF AfterSpace
<1> HIDE DEF i
<1>4. i \in from .. Len(b) + 1 /\ (i <= Len(b) => b[i] # Space)
  BY <1>2
<1>5. ASSUME NEW j \in from .. i - 1, b[j] # Space PROVE FALSE
  <2>1. j \in places
    BY <1>4, <1>5
  <2>2. i =< j
    BY <1>2, <2>1
  <2> QED
    BY <1>4, <2>2
<1> QED
  BY <1>3, <1>4, <1>5 DEF Blank

----
(* The parser: what it answers *)

\* A tag that is not there, or not yet.
Fails(b, i, tag, r) == ~At(b, i, tag) /\ r = IF Split(b, i, tag) THEN Incomplete ELSE Bad

Clean(payload) == \A s \in ToSet(payload) : s = "a" \/ s = "b"
Decodes(b, i, d) == Unwrapped(SubSeq(b, i, d - 1))

\* Data that begins at i and ends at d.
EndSays(b, i, d, r) ==
    \E g : /\ Blank(b, d + 2, g)
           /\ \/ Fails(b, g, ItemClose, r)
              \/ /\ At(b, g, ItemClose)
                 /\ r = IF Clean(Decodes(b, i, d))
                        THEN [is |-> "item", payload |-> Decodes(b, i, d), i |-> g + 2] ELSE Bad

Unended(b, start) == [is |-> "incomplete", known |-> Len(b) + 1 - start]

DataSays(b, start, i, r) ==
    \/ NoneFrom(b, i, DataClose) /\ r = Unended(b, start)
    \/ \E d : IsNext(b, i, d, DataClose) /\ EndSays(b, i, d, r)

NoTagEnd(b, from, to) == \A i \in from .. to : b[i] \notin TagEnds

BodySays(b, start, c, r) ==
    \/ At(b, c, ItemClose) /\ r = [is |-> "item", payload |-> << >>, i |-> c + 2]
    \/ /\ ~At(b, c, ItemClose) /\ ~At(b, c, DataOpen)
       /\ r = IF Split(b, c, ItemClose) \/ Split(b, c, DataOpen) THEN Incomplete ELSE Bad
    \/ At(b, c, DataOpen) /\ NoTagEnd(b, c + 2, Len(b)) /\ r = Incomplete
    \/ /\ At(b, c, DataOpen)
       /\ \E e \in c + 2 .. Len(b) :
            b[e] \in TagEnds /\ NoTagEnd(b, c + 2, e - 1) /\ DataSays(b, start, e + 1, r)

Digits == {"0", "1", "2"}
Lengthed(b, a) == At(b, a, LengthOpen) /\ b[a + 2] \in Digits /\ At(b, a + 3, LengthClose)

LengthSays(b, start, a, r) ==
    \/ Fails(b, a, LengthOpen, r)
    \/ At(b, a, LengthOpen) /\ NoneFrom(b, a + 2, LengthClose) /\ r = Incomplete
    \/ /\ At(b, a, LengthOpen) /\ ~NoneFrom(b, a + 2, LengthClose) /\ ~Lengthed(b, a)
       /\ r = Bad
    \/ Lengthed(b, a) /\ \E c : Blank(b, a + 5, c) /\ BodySays(b, start, c, r)

ItemSays(b, start, r) == \E a : Blank(b, start + 2, a) /\ LengthSays(b, start, a, r)

\* What is known of an item whose data has not ended.
Known(b, start, known) ==
    known = 0 \/ (start + known <= Len(b) + 1
                   /\ \A e \in start .. start + known - 2 : ~At(b, e, DataClose))

LEMMA EndIs ==
    ASSUME NEW b \in Seq(Symbols), NEW start \in 1 .. Len(b), NEW i \in 1 .. Len(b) + 1,
           NEW known \in Nat, start <= i, Known(b, start, known)
    PROVE  DataSays(b, start, i, DataItem(b, start, known, i))
<1> DEFINE from == Resume(start, known, i)
           end == Until(b, from, DataClose)
           after == AfterSpace(b, end.i + Len(DataClose))
           close == Tag(b, after, ItemClose)
           payload == Unwrapped(SubSeq(b, i, end.i - 1))
           r == DataItem(b, start, known, i)
<1>1. r = IF end.is # "ok" THEN Unended(b, start)
          ELSE IF close.is = "ok"
               THEN IF Clean(payload) THEN [is |-> "item", payload |-> payload, i |-> close.i] ELSE Bad
               ELSE close
  BY DEF DataItem, Then, Clean, Unended
<1>2. DataClose \in Tags /\ ItemClose \in Tags /\ Len(DataClose) = 2 /\ Len(b) \in Nat
  BY TagParts DEF Tags
<1>3. from \in i .. Len(b) + 1 /\ (\A e \in i .. from - 1 : ~At(b, e, DataClose))
  <2>1. from = IF start + known > i + 1 THEN start + known - 1 ELSE i
    BY <1>2 DEF Resume
  <2>2. CASE known = 0
    BY <1>2, <2>1, <2>2
  <2>3. CASE start + known <= Len(b) + 1
             /\ \A e \in start .. start + known - 2 : ~At(b, e, DataClose)
    BY <1>2, <2>1, <2>3
  <2> QED
    BY <2>2, <2>3 DEF Known
<1>4. from \in Nat \ {0}
  BY <1>2, <1>3
<1> HIDE DEF r, from
<1>5. CASE NoneFrom(b, from, DataClose) /\ end = Incomplete
  <2>1. r = Unended(b, start)
    BY <1>1, <1>5 DEF Incomplete
  <2>2. \A e \in i .. Len(b) : e \in i .. from - 1 \/ e \in from .. Len(b)
    BY <1>2, <1>3
  <2>3. NoneFrom(b, i, DataClose)
    BY <1>3, <1>5, <2>2 DEF NoneFrom
  <2> QED
    BY <2>1, <2>3 DEF DataSays, r
<1>6. CASE \E d : IsNext(b, from, d, DataClose) /\ end = Ok(d)
  <2>1. PICK d : IsNext(b, from, d, DataClose) /\ end = Ok(d)
    BY <1>6
  <2>2. end.is = "ok" /\ end.i = d
    BY <2>1 DEF Ok
  <2>3. d \in from .. Len(b) /\ At(b, d, DataClose) /\ \A j \in from .. d - 1 : ~At(b, j, DataClose)
    BY <2>1 DEF IsNext
  <2>4. IsNext(b, i, d, DataClose)
    <3>1. \A j \in i .. d - 1 : j \in i .. from - 1 \/ j \in from .. d - 1
      BY <1>2, <1>3, <2>3
    <3>2. d \in i .. Len(b)
      BY <1>2, <1>3, <2>3
    <3> QED
      BY <1>3, <2>3, <3>1, <3>2 DEF IsNext
  <2>5. d + 2 \in 1 .. Len(b) + 1
    BY <1>2, <1>4, <2>3 DEF At
  <2>6. after = AfterSpace(b, d + 2)
    BY <1>2, <2>2
  <2> HIDE DEF end, after
  <2>7. Blank(b, d + 2, after)
    BY <2>5, <2>6, SpaceIs
  <2>8. after \in Nat \ {0}
    BY <1>2, <2>5, <2>7 DEF Blank
  <2>9. close = IF At(b, after, ItemClose) THEN Ok(after + 2)
                ELSE IF Split(b, after, ItemClose) THEN Incomplete ELSE Bad
    BY <1>2, <2>8, TagIs
  <2>10. payload = Decodes(b, i, d)
    BY <2>2 DEF Decodes
  <2> HIDE DEF close, payload
  <2>11. CASE At(b, after, ItemClose)
    <3>1. close.is = "ok" /\ close.i = after + 2
      BY <2>9, <2>11 DEF Ok
    <3>2. r = IF Clean(payload) THEN [is |-> "item", payload |-> payload, i |-> after + 2] ELSE Bad
      BY <1>1, <2>2, <3>1
    <3>3. EndSays(b, i, d, r)
      BY <2>7, <2>10, <2>11, <3>2 DEF EndSays
    <3> QED
      BY <2>4, <3>3 DEF DataSays, r
  <2>12. CASE ~At(b, after, ItemClose)
    <3>1. close = IF Split(b, after, ItemClose) THEN Incomplete ELSE Bad
      BY <2>9, <2>12
    <3>2. close.is # "ok"
      BY <3>1 DEF Incomplete, Bad
    <3>3. r = close
      BY <1>1, <2>2, <3>2
    <3>4. EndSays(b, i, d, r)
      BY <2>7, <2>12, <3>1, <3>3 DEF EndSays, Fails
    <3> QED
      BY <2>4, <3>4 DEF DataSays, r
  <2> QED
    BY <2>11, <2>12
<1>7. \/ NoneFrom(b, from, DataClose) /\ end = Incomplete
      \/ \E d : IsNext(b, from, d, DataClose) /\ end = Ok(d)
  BY <1>2, <1>4, UntilIs
<1> QED
  BY <1>5, <1>6, <1>7

LEMMA FieldIs ==
    ASSUME NEW b \in Seq(Symbols), NEW a \in 1 .. Len(b) + 1
    PROVE  \/ Fails(b, a, LengthOpen, Field(b, a)) /\ Field(b, a).is # "ok"
           \/ /\ At(b, a, LengthOpen) /\ NoneFrom(b, a + 2, LengthClose)
              /\ Field(b, a) = Incomplete
           \/ /\ At(b, a, LengthOpen) /\ ~NoneFrom(b, a + 2, LengthClose) /\ ~Lengthed(b, a)
              /\ Field(b, a) = Bad
           \/ Lengthed(b, a) /\ Field(b, a) = Ok(a + 5)
<1> DEFINE tag == Tag(b, a, LengthOpen)
           end == Until(b, tag.i, LengthClose)
           r == Field(b, a)
<1>1. r = IF tag.is = "ok"
          THEN IF end.is = "ok"
               THEN IF end.i = tag.i + 1 /\ b[tag.i] \in Digits
                    THEN Ok(end.i + Len(LengthClose)) ELSE Bad
               ELSE end
          ELSE tag
  BY DEF Field, Then, Digits
<1>2. LengthOpen \in Tags /\ LengthClose \in Tags /\ Len(LengthClose) = 2 /\ Len(b) \in Nat
      /\ a \in Nat \ {0}
  BY TagParts DEF Tags
<1>3. tag = IF At(b, a, LengthOpen) THEN Ok(a + 2)
            ELSE IF Split(b, a, LengthOpen) THEN Incomplete ELSE Bad
  BY <1>2, TagIs
<1> HIDE DEF r
<1>4. CASE ~At(b, a, LengthOpen)
  <2>1. tag.is # "ok"
    BY <1>3, <1>4 DEF Incomplete, Bad
  <2> QED
    BY <1>1, <1>3, <1>4, <2>1 DEF Fails, r
<1>5. CASE At(b, a, LengthOpen)
  <2>1. tag.is = "ok" /\ tag.i = a + 2
    BY <1>3, <1>5 DEF Ok
  <2>2. end = Until(b, a + 2, LengthClose)
    BY <2>1
  <2>3. r = IF end.is = "ok"
            THEN IF end.i = a + 3 /\ b[a + 2] \in Digits THEN Ok(end.i + 2) ELSE Bad
            ELSE end
    <3> HIDE DEF tag, end
    <3> QED
      BY <1>1, <1>2, <2>1
  <2> HIDE DEF tag, end
  <2>4. CASE NoneFrom(b, a + 2, LengthClose) /\ end = Incomplete
    BY <1>5, <2>3, <2>4 DEF Incomplete, r
  <2>5. CASE \E k : IsNext(b, a + 2, k, LengthClose) /\ end = Ok(k)
    <3>1. PICK k : IsNext(b, a + 2, k, LengthClose) /\ end = Ok(k)
      BY <2>5
    <3>2. end.is = "ok" /\ end.i = k
      BY <3>1 DEF Ok
    <3>3. k \in a + 2 .. Len(b) /\ At(b, k, LengthClose)
          /\ \A j \in a + 2 .. k - 1 : ~At(b, j, LengthClose)
      BY <3>1 DEF IsNext
    <3>4. ~NoneFrom(b, a + 2, LengthClose)
      BY <3>3 DEF NoneFrom
    <3>5. CASE k = a + 3 /\ b[a + 2] \in Digits
      BY <1>2, <1>5, <2>3, <3>2, <3>3, <3>5 DEF Lengthed, r
    <3>6. CASE ~(k = a + 3 /\ b[a + 2] \in Digits)
      <4>1. ~Lengthed(b, a)
        <5> SUFFICES ASSUME Lengthed(b, a) PROVE FALSE
          OBVIOUS
        <5>1. b[a + 2] \in Digits /\ At(b, a + 3, LengthClose)
          BY DEF Lengthed
        <5>2. b[a + 2] # "</"
          BY <5>1 DEF Digits
        <5>3. k # a + 2
          BY <3>3, <5>2, TagParts DEF At
        <5>4. a + 3 \notin a + 2 .. k - 1
          BY <3>3, <5>1
        <5>5. k = a + 3
          BY <1>2, <3>3, <5>3, <5>4
        <5> QED
          BY <3>6, <5>1, <5>5
      <4> QED
        BY <1>5, <2>3, <3>2, <3>4, <3>6, <4>1 DEF r
    <3> QED
      BY <3>5, <3>6
  <2>6. a + 2 \in Nat \ {0}
    BY <1>2
  <2> QED
    BY <1>2, <2>2, <2>4, <2>5, <2>6, UntilIs
<1> QED
  BY <1>4, <1>5

LEMMA BodyIs ==
    ASSUME NEW b \in Seq(Symbols), NEW start \in 1 .. Len(b), NEW c \in start .. Len(b) + 1,
           NEW known \in Nat, Known(b, start, known), NEW r,
           r = CASE Starts(b, c, ItemClose) ->
                      [is |-> "item", payload |-> << >>, i |-> c + Len(ItemClose)]
                 [] Starts(b, c, DataOpen) ->
                      Then(AfterTagEnd(b, c + Len(DataOpen)), LAMBDA l : DataItem(b, start, known, l))
                 [] ~Starts(b, c, ItemClose) /\ ~Starts(b, c, DataOpen)
                    /\ (Splits(b, c, ItemClose) \/ Splits(b, c, DataOpen)) -> Incomplete
                 [] OTHER -> Bad
    PROVE  BodySays(b, start, c, r)
<1> DEFINE end == AfterTagEnd(b, c + 2)
<1>1. /\ ItemClose \in Tags /\ DataOpen \in Tags /\ Len(ItemClose) = 2 /\ Len(DataOpen) = 2
      /\ Len(b) \in Nat /\ c \in Nat \ {0}
  BY TagParts DEF Tags
<1>2. /\ Starts(b, c, ItemClose) <=> At(b, c, ItemClose)
      /\ Starts(b, c, DataOpen) <=> At(b, c, DataOpen)
      /\ Splits(b, c, ItemClose) <=> Split(b, c, ItemClose)
      /\ Splits(b, c, DataOpen) <=> Split(b, c, DataOpen)
  BY <1>1, StartsAt, SplitsSplit
<1>3. ~(At(b, c, ItemClose) /\ At(b, c, DataOpen))
  BY TagParts DEF At
<1>4. \/ At(b, c, ItemClose) /\ r = [is |-> "item", payload |-> << >>, i |-> c + 2]
      \/ At(b, c, DataOpen) /\ r = IF end.is = "ok" THEN DataItem(b, start, known, end.i) ELSE end
      \/ /\ ~At(b, c, ItemClose) /\ ~At(b, c, DataOpen)
         /\ r = IF Split(b, c, ItemClose) \/ Split(b, c, DataOpen) THEN Incomplete ELSE Bad
  <2>1. r = CASE At(b, c, ItemClose) -> [is |-> "item", payload |-> << >>, i |-> c + 2]
              [] At(b, c, DataOpen) -> IF end.is = "ok" THEN DataItem(b, start, known, end.i) ELSE end
              [] ~At(b, c, ItemClose) /\ ~At(b, c, DataOpen)
                 /\ (Split(b, c, ItemClose) \/ Split(b, c, DataOpen)) -> Incomplete
              [] OTHER -> Bad
    BY <1>1, <1>2 DEF Then
  <2> HIDE DEF end
  <2> QED
    BY <1>3, <2>1
<1>5. CASE At(b, c, DataOpen) /\ r = IF end.is = "ok" THEN DataItem(b, start, known, end.i) ELSE end
  <2>1. c + 2 \in Nat \ {0} /\ c + 2 <= Len(b) + 1
    <3>1. c + 1 <= Len(b)
      BY <1>5 DEF At
    <3> QED
      BY <1>1, <3>1
  <2>2. CASE (\A i \in c + 2 .. Len(b) : b[i] \notin TagEnds) /\ end = Incomplete
    <3>1. r = Incomplete
      BY <1>5, <2>2 DEF Incomplete
    <3>2. NoTagEnd(b, c + 2, Len(b))
      BY <2>2 DEF NoTagEnd
    <3> QED
      BY <1>5, <3>1, <3>2 DEF BodySays
  <2>3. CASE \E e \in c + 2 .. Len(b) :
               /\ b[e] \in TagEnds /\ \A j \in c + 2 .. e - 1 : b[j] \notin TagEnds
               /\ end = Ok(e + 1)
    <3> HIDE DEF end
    <3>1. PICK e \in c + 2 .. Len(b) :
               /\ b[e] \in TagEnds /\ \A j \in c + 2 .. e - 1 : b[j] \notin TagEnds
               /\ end = Ok(e + 1)
      BY <2>3
    <3>2. end.is = "ok" /\ end.i = e + 1
      <4>1. end = Ok(e + 1)
        BY <3>1
      <4> QED
        BY <4>1 DEF Ok
    <3>3. r = DataItem(b, start, known, e + 1)
      BY <1>5, <3>2
    <3>4. e + 1 \in 1 .. Len(b) + 1 /\ start <= e + 1
      <4>1. e \in c + 2 .. Len(b)
        BY <3>1
      <4> QED
        BY <1>1, <4>1
    <3>5. DataSays(b, start, e + 1, r)
      BY <3>3, <3>4, EndIs
    <3>6. NoTagEnd(b, c + 2, e - 1)
      BY <3>1 DEF NoTagEnd
    <3> QED
      BY <1>5, <3>1, <3>5, <3>6 DEF BodySays
  <2> QED
    BY <2>1, <2>2, <2>3, TagEndIs
<1>6. CASE ~(At(b, c, DataOpen) /\ r = IF end.is = "ok" THEN DataItem(b, start, known, end.i) ELSE end)
  <2> HIDE DEF end
  <2> QED
    BY <1>4, <1>6 DEF BodySays
<1> QED
  BY <1>5, <1>6

\* parse_item_at, in terms of what stands where.
LEMMA ParseIs ==
    ASSUME NEW b \in Seq(Symbols), NEW start \in 1 .. Len(b), At(b, start, ItemOpen),
           NEW known \in Nat, Known(b, start, known)
    PROVE  ItemSays(b, start, ParseItemAt(b, start, known))
<1> DEFINE open == Tag(b, start, ItemOpen)
           a == AfterSpace(b, start + 2)
           field == Field(b, a)
           k == AfterSpace(b, field.i)
           body == CASE Starts(b, k, ItemClose) ->
                          [is |-> "item", payload |-> << >>, i |-> k + Len(ItemClose)]
                     [] Starts(b, k, DataOpen) ->
                          Then(AfterTagEnd(b, k + Len(DataOpen)), LAMBDA l : DataItem(b, start, known, l))
                     [] ~Starts(b, k, ItemClose) /\ ~Starts(b, k, DataOpen)
                        /\ (Splits(b, k, ItemClose) \/ Splits(b, k, DataOpen)) -> Incomplete
                     [] OTHER -> Bad
           r == ParseItemAt(b, start, known)
<1>1. open = Ok(start + 2)
  <2>1. ItemOpen \in Tags /\ start \in Nat \ {0}
    BY TagParts
  <2> QED
    BY <2>1, TagIs
<1>2. r = IF field.is = "ok" THEN body ELSE field
  <2>1. r = IF open.is = "ok"
            THEN LET f == Field(b, AfterSpace(b, open.i))
                     j == AfterSpace(b, f.i)
                 IN IF f.is = "ok"
                    THEN CASE Starts(b, j, ItemClose) ->
                          [is |-> "item", payload |-> << >>, i |-> j + Len(ItemClose)]
                     [] Starts(b, j, DataOpen) ->
                          Then(AfterTagEnd(b, j + Len(DataOpen)), LAMBDA l : DataItem(b, start, known, l))
                     [] ~Starts(b, j, ItemClose) /\ ~Starts(b, j, DataOpen)
                        /\ (Splits(b, j, ItemClose) \/ Splits(b, j, DataOpen)) -> Incomplete
                     [] OTHER -> Bad
                    ELSE f
            ELSE open
    BY DEF ParseItemAt, Then
  <2>2. open.is = "ok" /\ open.i = start + 2
    BY <1>1 DEF Ok
  <2> HIDE DEF r, open
  <2> QED
    BY <2>1, <2>2
<1>3. start + 2 \in 1 .. Len(b) + 1 /\ Len(b) \in Nat
  BY DEF At
<1>4. Blank(b, start + 2, a)
  BY <1>3, SpaceIs
<1>5. a \in start + 2 .. Len(b) + 1 /\ a \in 1 .. Len(b) + 1
  BY <1>3, <1>4 DEF Blank
<1> HIDE DEF a, r, body, open
<1>6. CASE field.is # "ok"
  <2>1. r = field
    BY <1>2, <1>6
  <2>2. ~(field = Ok(a + 5))
    BY <1>6 DEF Ok
  <2>3. LengthSays(b, start, a, field)
    BY <1>5, <2>2, FieldIs DEF LengthSays
  <2> QED
    BY <1>4, <2>1, <2>3 DEF ItemSays, r
<1>7. CASE field.is = "ok"
  <2>1. Lengthed(b, a) /\ field = Ok(a + 5)
    BY <1>5, <1>7, FieldIs DEF Incomplete, Bad
  <2>2. field.i = a + 5
    BY <2>1 DEF Ok
  <2>3. a + 5 \in 1 .. Len(b) + 1
    BY <1>3, <1>5, <2>1 DEF Lengthed, At
  <2>4. Blank(b, a + 5, k)
    BY <2>2, <2>3, SpaceIs
  <2>5. k \in start .. Len(b) + 1
    BY <1>3, <1>5, <2>3, <2>4 DEF Blank
  <2> HIDE DEF k, field
  <2>6. BodySays(b, start, k, body)
    BY <2>5, BodyIs DEF body
  <2>7. r = body
    BY <1>2, <1>7
  <2>8. LengthSays(b, start, a, r)
    BY <2>1, <2>4, <2>6, <2>7 DEF LengthSays
  <2> QED
    BY <1>4, <2>8 DEF ItemSays, r
<1> QED
  BY <1>6, <1>7

----
(* The parser: line wrapping *)

\* What is kept of the first n symbols.
Keeps(kept, raw, n) ==
    kept[n] = IF n = 0 THEN << >>
              ELSE IF raw[n] = Space THEN kept[n - 1] ELSE Append(kept[n - 1], raw[n])

LEMMA KeptExists ==
    ASSUME NEW raw \in Seq(Symbols)
    PROVE  \E kept \in [0 .. Len(raw) -> Seq(Symbols)] :
             /\ Unwrapped(raw) = kept[Len(raw)]
             /\ \A n \in 0 .. Len(raw) : Keeps(kept, raw, n)
<1> DEFINE m == Len(raw)
           S == {k \in 0 .. m : \E f \in [0 .. k -> Seq(Symbols)] : \A n \in 0 .. k : Keeps(f, raw, n)}
<1>1. m \in Nat /\ \A i \in 1 .. m : raw[i] \in Symbols
  OBVIOUS
<1>2. 0 \in S
  <2> DEFINE f == [n \in 0 .. 0 |-> << >>]
  <2>1. f \in [0 .. 0 -> Seq(Symbols)] /\ \A n \in 0 .. 0 : Keeps(f, raw, n)
    BY DEF Keeps
  <2> HIDE DEF f
  <2>2. \E g \in [0 .. 0 -> Seq(Symbols)] : \A n \in 0 .. 0 : Keeps(g, raw, n)
    BY <2>1
  <2>3. 0 \in 0 .. m
    BY <1>1
  <2> HIDE DEF m
  <2> QED
    BY <2>2, <2>3
<1>3. ASSUME NEW k \in 0 .. m, k \in S, k + 1 <= m PROVE k + 1 \in S
  <2>1. PICK f \in [0 .. k -> Seq(Symbols)] : \A n \in 0 .. k : Keeps(f, raw, n)
    BY <1>3
  <2> DEFINE next == IF raw[k + 1] = Space THEN f[k] ELSE Append(f[k], raw[k + 1])
             g == [n \in 0 .. k + 1 |-> IF n = k + 1 THEN next ELSE f[n]]
  <2>2. next \in Seq(Symbols)
    <3>1. f[k] \in Seq(Symbols) /\ raw[k + 1] \in Symbols
      BY <1>1, <1>3
    <3> QED
      BY <3>1, AppendProperties
  <2> HIDE DEF next
  <2>3. g \in [0 .. k + 1 -> Seq(Symbols)]
    BY <1>1, <2>2
  <2>4. /\ g[k + 1] = next /\ \A n \in 0 .. k : g[n] = f[n] /\ n \in 0 .. k + 1
    BY <1>1
  <2> HIDE DEF g
  <2>5. ASSUME NEW n \in 0 .. k + 1 PROVE Keeps(g, raw, n)
    <3>1. CASE n = k + 1
      <4>1. g[n] = next /\ g[n - 1] = f[k] /\ n # 0
        BY <1>1, <2>4, <3>1
      <4> QED
        BY <3>1, <4>1 DEF Keeps, next
    <3>2. CASE n # k + 1
      <4>1. n \in 0 .. k /\ g[n] = f[n]
        BY <1>1, <2>4, <3>2
      <4>2. n # 0 => g[n - 1] = f[n - 1]
        BY <1>1, <2>4, <4>1
      <4>3. Keeps(f, raw, n)
        BY <2>1, <4>1
      <4> QED
        BY <4>1, <4>2, <4>3 DEF Keeps
    <3> QED
      BY <3>1, <3>2
  <2>6. k + 1 \in 0 .. m
    BY <1>1, <1>3
  <2>7. \E h \in [0 .. k + 1 -> Seq(Symbols)] : \A n \in 0 .. k + 1 : Keeps(h, raw, n)
    BY <2>3, <2>5
  <2> HIDE DEF m
  <2> QED
    BY <2>6, <2>7
<1> HIDE DEF S
<1>4. 0 .. m \subseteq S
  BY <1>1, <1>2, <1>3, Induct
<1>5. m \in S
  BY <1>1, <1>4
<1>6. PICK f \in [0 .. m -> Seq(Symbols)] : \A n \in 0 .. m : Keeps(f, raw, n)
  BY <1>5 DEF S
<1> DEFINE IsKept(kept) ==
             kept = [n \in 0 .. Len(raw) |->
                       IF n = 0 THEN << >>
                       ELSE IF raw[n] = Space THEN kept[n - 1] ELSE Append(kept[n - 1], raw[n])]
           kept == CHOOSE kept : IsKept(kept)
<1>7. IsKept(f)
  BY <1>6 DEF Keeps
<1>8. IsKept(kept)
  <2> HIDE DEF IsKept
  <2> QED
    BY <1>7
<1>9. Unwrapped(raw) = kept[m]
  BY DEF Unwrapped
<1> HIDE DEF kept
<1>10. \A n \in 0 .. m : Keeps(kept, raw, n)
  BY <1>8 DEF Keeps
<1>11. DOMAIN kept = 0 .. m /\ kept = [n \in 0 .. m |-> kept[n]]
  BY <1>8
<1>12. \A n \in 0 .. m : kept[n] \in Seq(Symbols)
  <2> DEFINE T == {n \in 0 .. m : kept[n] \in Seq(Symbols)}
  <2>1. 0 \in T
    <3>1. 0 \in 0 .. m /\ kept[0] = << >>
      BY <1>1, <1>10 DEF Keeps
    <3>2. << >> \in Seq(Symbols)
      OBVIOUS
    <3> HIDE DEF m
    <3> QED
      BY <3>1, <3>2
  <2>2. ASSUME NEW k \in 0 .. m, k \in T, k + 1 <= m PROVE k + 1 \in T
    <3>1. kept[k] \in Seq(Symbols) /\ raw[k + 1] \in Symbols /\ k + 1 \in 0 .. m
      BY <1>1, <2>2
    <3>2. kept[k + 1] = IF raw[k + 1] = Space THEN kept[k] ELSE Append(kept[k], raw[k + 1])
      <4>1. Keeps(kept, raw, k + 1) /\ k + 1 # 0 /\ (k + 1) - 1 = k
        BY <1>1, <1>10, <3>1
      <4> QED
        BY <4>1 DEF Keeps
    <3>3. kept[k + 1] \in Seq(Symbols)
      BY <3>1, <3>2, AppendProperties
    <3> QED
      BY <3>1, <3>3
  <2> HIDE DEF T
  <2>3. 0 .. m \subseteq T
    BY <1>1, <2>1, <2>2, Induct
  <2> QED
    BY <2>3 DEF T
<1>13. kept \in [0 .. m -> Seq(Symbols)]
  BY <1>11, <1>12
<1> QED
  BY <1>9, <1>10, <1>13

\* Only white space is lost.
LEMMA UnwrappedHas ==
    ASSUME NEW raw \in Seq(Symbols), NEW g \in 1 .. Len(raw), raw[g] # Space
    PROVE  raw[g] \in ToSet(Unwrapped(raw))
<1> DEFINE m == Len(raw)
<1>1. PICK kept \in [0 .. m -> Seq(Symbols)] :
        Unwrapped(raw) = kept[m] /\ \A n \in 0 .. m : Keeps(kept, raw, n)
  BY KeptExists
<1>2. m \in Nat /\ \A i \in 1 .. m : raw[i] \in Symbols
  OBVIOUS
<1> HIDE DEF m
<1> DEFINE S == {n \in 0 .. m : n >= g => \E i \in 1 .. Len(kept[n]) : kept[n][i] = raw[g]}
<1>3. 0 \in S
  BY <1>2
<1>4. ASSUME NEW k \in 0 .. m, k \in S, k + 1 <= m PROVE k + 1 \in S
  <2>1. k + 1 \in 0 .. m /\ kept[k] \in Seq(Symbols) /\ raw[k + 1] \in Symbols
    BY <1>2, <1>4
  <2>2. kept[k + 1] = IF raw[k + 1] = Space THEN kept[k] ELSE Append(kept[k], raw[k + 1])
    <3>1. Keeps(kept, raw, k + 1) /\ k + 1 # 0 /\ (k + 1) - 1 = k
      BY <1>1, <1>2, <2>1
    <3> QED
      BY <3>1 DEF Keeps
  <2>3. /\ Len(Append(kept[k], raw[k + 1])) = Len(kept[k]) + 1
        /\ \A i \in 1 .. Len(kept[k]) : Append(kept[k], raw[k + 1])[i] = kept[k][i]
        /\ Append(kept[k], raw[k + 1])[Len(kept[k]) + 1] = raw[k + 1]
        /\ Len(kept[k]) \in Nat
    BY <2>1, AppendProperties
  <2>4. ASSUME k + 1 >= g PROVE \E i \in 1 .. Len(kept[k + 1]) : kept[k + 1][i] = raw[g]
    <3>1. CASE k + 1 = g
      BY <2>2, <2>3, <3>1
    <3>2. CASE k + 1 # g
      <4>1. k >= g
        BY <1>2, <2>4, <3>2
      <4>2. PICK i \in 1 .. Len(kept[k]) : kept[k][i] = raw[g]
        BY <1>4, <4>1
      <4> QED
        BY <2>2, <2>3, <4>2
    <3> QED
      BY <3>1, <3>2
  <2> QED
    BY <2>1, <2>4
<1> HIDE DEF S
<1>5. 0 .. m \subseteq S
  BY <1>2, <1>3, <1>4, Induct
<1>6. m \in S /\ m >= g
  BY <1>2, <1>5 DEF m
<1>7. PICK i \in 1 .. Len(kept[m]) : kept[m][i] = raw[g]
  BY <1>6 DEF S
<1>8. i \in DOMAIN kept[m]
  <2>1. kept[m] \in Seq(Symbols)
    BY <1>2
  <2> QED
    BY <1>7, <2>1
<1> QED
  BY <1>1, <1>7, <1>8 DEF ToSet

LEMMA WrappedParts ==
    ASSUME NEW p \in Seq({"a", "b"})
    PROVE  /\ p \in Seq(Symbols) /\ Wrapped(p) \in Seq(Symbols)
           /\ Len(p) < 2 => Wrapped(p) = p
           /\ Len(p) >= 2 =>
                /\ Len(Wrapped(p)) = Len(p) + 1
                /\ Wrapped(p)[1] = p[1] /\ Wrapped(p)[2] = Space
                /\ \A i \in 3 .. Len(p) + 1 : Wrapped(p)[i] = p[i - 1]
<1>1. p \in Seq(Symbols)
  <2>1. {"a", "b"} \subseteq Symbols
    BY DEF Symbols
  <2> QED
    BY <2>1, SeqMonotonic
<1>2. CASE Len(p) < 2
  BY <1>1, <1>2 DEF Wrapped
<1>3. CASE Len(p) >= 2
  <2> DEFINE first == <<Head(p), Space>>
             rest == Tail(p)
  <2>1. p # << >> /\ Space \in Symbols /\ Len(p) \in Nat
    BY <1>1, <1>3 DEF Symbols
  <2>2. /\ Head(p) \in Symbols /\ Head(p) = p[1]
        /\ rest \in Seq(Symbols) /\ Len(rest) = Len(p) - 1
        /\ \A i \in 1 .. Len(rest) : rest[i] = p[i + 1]
    BY <1>1, <2>1, HeadTailProperties
  <2>3. first \in Seq(Symbols) /\ Len(first) = 2 /\ first[1] = p[1] /\ first[2] = Space
    <3>1. first = Append(<<Head(p)>>, Space)
      OBVIOUS
    <3>2. <<Head(p)>> \in Seq(Symbols)
      BY <2>2, OneSymbol
    <3>3. first \in Seq(Symbols)
      BY <2>1, <3>1, <3>2, AppendProperties
    <3> QED
      BY <2>2, <3>3
  <2>4. Wrapped(p) = first \o rest
    BY <1>1, <1>3, <2>1 DEF Wrapped
  <2> HIDE DEF first, rest
  <2>5. /\ first \o rest \in Seq(Symbols) /\ Len(first \o rest) = Len(p) + 1
        /\ \A i \in 1 .. Len(p) + 1 : (first \o rest)[i] = IF i <= 2 THEN first[i] ELSE rest[i - 2]
    <3>1. /\ first \o rest \in Seq(Symbols) /\ Len(first \o rest) = Len(first) + Len(rest)
          /\ \A i \in 1 .. Len(first) + Len(rest) :
               (first \o rest)[i] = IF i <= Len(first) THEN first[i] ELSE rest[i - Len(first)]
      BY <2>2, <2>3, ConcatProperties
    <3>2. Len(first) = 2 /\ Len(first) + Len(rest) = Len(p) + 1
      BY <2>1, <2>2, <2>3
    <3> QED
      BY <3>1, <3>2
  <2>6. ASSUME NEW i \in 3 .. Len(p) + 1 PROVE (first \o rest)[i] = p[i - 1]
    <3>1. i \in 1 .. Len(p) + 1 /\ ~(i <= 2) /\ i - 2 \in 1 .. Len(rest) /\ (i - 2) + 1 = i - 1
      BY <2>1, <2>2
    <3> QED
      BY <2>2, <2>5, <3>1
  <2>7. (first \o rest)[1] = p[1] /\ (first \o rest)[2] = Space
    BY <1>3, <2>1, <2>3, <2>5
  <2>8. ~(Len(p) < 2)
    BY <1>3, <2>1
  <2> QED
    BY <1>1, <1>3, <2>4, <2>5, <2>6, <2>7, <2>8
<1>4. Len(p) < 2 \/ Len(p) >= 2
  BY <1>1
<1> QED
  BY <1>2, <1>3, <1>4

\* What was wrapped is unwrapped.
LEMMA WrappedComesBack ==
    ASSUME NEW p \in Seq({"a", "b"})
    PROVE  Unwrapped(Wrapped(p)) = p
<1> DEFINE raw == Wrapped(p)
           m == Len(raw)
           Size(n) == IF Len(p) < 2 \/ n < 2 THEN n ELSE n - 1
<1>1. /\ p \in Seq(Symbols) /\ raw \in Seq(Symbols) /\ Len(p) \in Nat
      /\ Len(p) < 2 => raw = p
      /\ Len(p) >= 2 => /\ m = Len(p) + 1 /\ raw[1] = p[1] /\ raw[2] = Space
                        /\ \A i \in 3 .. Len(p) + 1 : raw[i] = p[i - 1]
  BY WrappedParts
<1>2. \A i \in 1 .. Len(p) : p[i] # Space
  BY DEF Space
<1> HIDE DEF raw
<1>3. PICK kept \in [0 .. m -> Seq(Symbols)] :
        Unwrapped(raw) = kept[m] /\ \A n \in 0 .. m : Keeps(kept, raw, n)
  BY <1>1, KeptExists
<1>4. m \in Nat /\ \A i \in 1 .. m : raw[i] \in Symbols
  BY <1>1
<1>5. Size(m) = Len(p)
  BY <1>1
<1> HIDE DEF m
<1> DEFINE S == {n \in 0 .. m : /\ Len(kept[n]) = Size(n)
                                /\ \A i \in 1 .. Size(n) : kept[n][i] = p[i]}
<1>6. 0 \in S
  <2>1. 0 \in 0 .. m
    BY <1>4
  <2>2. Keeps(kept, raw, 0)
    BY <1>3, <2>1
  <2>3. kept[0] = << >>
    BY <2>2 DEF Keeps
  <2> QED
    BY <2>1, <2>3
<1>7. ASSUME NEW k \in 0 .. m, k \in S, k + 1 <= m PROVE k + 1 \in S
  <2>1. k + 1 \in 0 .. m /\ kept[k] \in Seq(Symbols) /\ raw[k + 1] \in Symbols /\ k \in Nat
    BY <1>4, <1>7
  <2>2. kept[k + 1] = IF raw[k + 1] = Space THEN kept[k] ELSE Append(kept[k], raw[k + 1])
    <3>1. Keeps(kept, raw, k + 1) /\ k + 1 # 0 /\ (k + 1) - 1 = k
      BY <1>3, <1>4, <2>1
    <3> QED
      BY <3>1 DEF Keeps
  <2>3. /\ Len(Append(kept[k], raw[k + 1])) = Len(kept[k]) + 1
        /\ \A i \in 1 .. Len(kept[k]) : Append(kept[k], raw[k + 1])[i] = kept[k][i]
        /\ Append(kept[k], raw[k + 1])[Len(kept[k]) + 1] = raw[k + 1]
    BY <2>1, AppendProperties
  <2>4. Len(kept[k]) = Size(k) /\ \A i \in 1 .. Size(k) : kept[k][i] = p[i]
    BY <1>7
  <2>5. CASE Len(p) >= 2 /\ k + 1 = 2
    <3>1. kept[k + 1] = kept[k] /\ Size(k + 1) = Size(k)
      BY <1>1, <2>1, <2>2, <2>5
    <3> QED
      BY <2>1, <2>4, <3>1
  <2>6. CASE ~(Len(p) >= 2 /\ k + 1 = 2)
    <3>1. Size(k + 1) = Size(k) + 1 /\ Size(k) \in Nat /\ Size(k + 1) \in 1 .. Len(p)
      BY <1>1, <1>4, <1>5, <2>1, <2>6 DEF m
    <3>2. raw[k + 1] = p[Size(k + 1)]
      <4>1. CASE Len(p) < 2
        BY <1>1, <2>1, <4>1
      <4>2. CASE Len(p) >= 2 /\ k + 1 = 1
        BY <1>1, <2>1, <4>2
      <4>3. CASE Len(p) >= 2 /\ k + 1 >= 3
        <5>1. k + 1 \in 3 .. Len(p) + 1
          BY <1>1, <2>1, <4>3 DEF m
        <5>2. Size(k + 1) = (k + 1) - 1
          BY <2>1, <4>3
        <5> QED
          BY <1>1, <4>3, <5>1, <5>2
      <4> QED
        BY <1>1, <2>1, <2>6, <4>1, <4>2, <4>3
    <3>3. raw[k + 1] # Space
      BY <1>2, <3>1, <3>2
    <3>4. kept[k + 1] = Append(kept[k], raw[k + 1])
      BY <2>2, <3>3
    <3> HIDE DEF Size
    <3>5. Len(kept[k + 1]) = Size(k + 1)
      BY <2>3, <2>4, <3>1, <3>4
    <3>6. ASSUME NEW i \in 1 .. Size(k + 1) PROVE kept[k + 1][i] = p[i]
      <4>1. CASE i = Size(k + 1)
        BY <2>3, <2>4, <3>1, <3>2, <3>4, <4>1
      <4>2. CASE i # Size(k + 1)
        <5>1. i \in 1 .. Size(k)
          BY <3>1, <4>2
        <5> QED
          BY <2>3, <2>4, <3>4, <5>1
      <4> QED
        BY <4>1, <4>2
    <3> QED
      BY <2>1, <3>5, <3>6
  <2> QED
    BY <2>5, <2>6
<1> HIDE DEF S, Size
<1>8. 0 .. m \subseteq S
  BY <1>4, <1>6, <1>7, Induct
<1>9. m \in S
  BY <1>4, <1>8
<1>10. Len(kept[m]) = Len(p) /\ \A i \in 1 .. Len(p) : kept[m][i] = p[i]
  BY <1>5, <1>9 DEF S
<1>11. kept[m] \in Seq(Symbols)
  BY <1>4
<1>12. kept[m] = p
  BY <1>1, <1>10, <1>11, SeqEqual
<1> QED
  BY <1>3, <1>12 DEF raw

----
(* The parser: whole items *)

Sent(p) == Item(LengthOf(p), p)

LEMMA Joined ==
    ASSUME NEW s \in Seq(Symbols), NEW t \in Seq(Symbols)
    PROVE  /\ s \o t \in Seq(Symbols) /\ Len(s \o t) = Len(s) + Len(t)
           /\ \A i \in 1 .. Len(s) : (s \o t)[i] = s[i]
           /\ \A i \in 1 .. Len(t) : (s \o t)[Len(s) + i] = t[i]
<1>1. /\ s \o t \in Seq(Symbols) /\ Len(s \o t) = Len(s) + Len(t)
      /\ \A i \in 1 .. Len(s) + Len(t) :
           (s \o t)[i] = IF i <= Len(s) THEN s[i] ELSE t[i - Len(s)]
  BY ConcatProperties
<1> DEFINE u == s \o t
<1> HIDE DEF u
<1>2. Len(s) \in Nat /\ Len(t) \in Nat
  OBVIOUS
<1>3. \A i \in 1 .. Len(s) : u[i] = s[i]
  BY <1>1, <1>2 DEF u
<1>4. ASSUME NEW i \in 1 .. Len(t) PROVE u[Len(s) + i] = t[i]
  <2>1. /\ Len(s) + i \in 1 .. Len(s) + Len(t) /\ ~(Len(s) + i <= Len(s))
        /\ (Len(s) + i) - Len(s) = i
    BY <1>2
  <2> QED
    BY <1>1, <2>1 DEF u
<1> QED
  BY <1>1, <1>3, <1>4 DEF u

\* The same with the lengths at hand.
Joins(u, s, n, t, m) ==
    /\ u \in Seq(Symbols) /\ Len(u) = n + m
    /\ \A i \in 1 .. n : u[i] = s[i]
    /\ \A i \in 1 .. m : u[n + i] = t[i]

LEMMA JoinedAt ==
    ASSUME NEW s \in Seq(Symbols), NEW t \in Seq(Symbols)
    PROVE  Joins(s \o t, s, Len(s), t, Len(t))
BY Joined DEF Joins

Begun(l, rest) == ItemOpen \o LengthOpen \o <<l>> \o LengthClose \o rest

Begins(t, l, rest, m) ==
    /\ t \in Seq(Symbols) /\ Len(t) = 7 + m
    /\ t[1] = "<" /\ t[2] = "item>" /\ t[3] = "<" /\ t[4] = "length>" /\ t[5] = l
    /\ t[6] = "</" /\ t[7] = "length>"
    /\ \A i \in 1 .. m : t[7 + i] = rest[i]

LEMMA ItemBegins ==
    ASSUME NEW l \in Symbols, NEW rest \in Seq(Symbols)
    PROVE  Begins(Begun(l, rest), l, rest, Len(rest))
<1>0. PICK t : t = Begun(l, rest)
  OBVIOUS
<1> DEFINE m == Len(rest)
<1>01. m \in Nat
  OBVIOUS
<1> HIDE DEF m
<1>1. /\ ItemOpen \in Seq(Symbols) /\ Len(ItemOpen) = 2
      /\ LengthOpen \in Seq(Symbols) /\ Len(LengthOpen) = 2
      /\ LengthClose \in Seq(Symbols) /\ Len(LengthClose) = 2
      /\ <<l>> \in Seq(Symbols) /\ Len(<<l>>) = 1 /\ <<l>>[1] = l
  BY TagWords, OneSymbol
<1>2. PICK t1 : t1 = ItemOpen \o LengthOpen
  OBVIOUS
<1>3. PICK t2 : t2 = t1 \o <<l>>
  OBVIOUS
<1>4. PICK t3 : t3 = t2 \o LengthClose
  OBVIOUS
<1>5. t = t3 \o rest
  BY <1>0, <1>2, <1>3, <1>4 DEF Begun
<1>6. Joins(t1, ItemOpen, 2, LengthOpen, 2)
  <2>1. Joins(t1, ItemOpen, Len(ItemOpen), LengthOpen, Len(LengthOpen))
    BY <1>1, <1>2, JoinedAt
  <2> QED
    BY <1>1, <2>1
<1>7. /\ t1 \in Seq(Symbols) /\ Len(t1) = 4
      /\ t1[1] = "<" /\ t1[2] = "item>" /\ t1[3] = "<" /\ t1[4] = "length>"
  <2>1. t1 \in Seq(Symbols) /\ Len(t1) = 2 + 2
    BY <1>6 DEF Joins
  <2>2. t1[1] = ItemOpen[1] /\ t1[2] = ItemOpen[2]
    BY <1>6 DEF Joins
  <2>3. t1[2 + 1] = LengthOpen[1] /\ t1[2 + 2] = LengthOpen[2]
    BY <1>6 DEF Joins
  <2> QED
    BY <2>1, <2>2, <2>3, TagParts
<1>8. Joins(t2, t1, 4, <<l>>, 1)
  <2>1. Joins(t2, t1, Len(t1), <<l>>, Len(<<l>>))
    BY <1>1, <1>3, <1>7, JoinedAt
  <2> QED
    BY <1>1, <1>7, <2>1
<1>9. /\ t2 \in Seq(Symbols) /\ Len(t2) = 5
      /\ t2[1] = t1[1] /\ t2[2] = t1[2] /\ t2[3] = t1[3] /\ t2[4] = t1[4] /\ t2[5] = l
  <2>1. t2 \in Seq(Symbols) /\ Len(t2) = 4 + 1
    BY <1>8 DEF Joins
  <2>2. t2[1] = t1[1] /\ t2[2] = t1[2] /\ t2[3] = t1[3] /\ t2[4] = t1[4]
    BY <1>8 DEF Joins
  <2>3. t2[4 + 1] = <<l>>[1]
    BY <1>8 DEF Joins
  <2> QED
    BY <1>1, <2>1, <2>2, <2>3
<1>10. Joins(t3, t2, 5, LengthClose, 2)
  <2>1. Joins(t3, t2, Len(t2), LengthClose, Len(LengthClose))
    BY <1>1, <1>4, <1>9, JoinedAt
  <2> QED
    BY <1>1, <1>9, <2>1
<1>11. /\ t3 \in Seq(Symbols) /\ Len(t3) = 7
       /\ t3[1] = t2[1] /\ t3[2] = t2[2] /\ t3[3] = t2[3] /\ t3[4] = t2[4] /\ t3[5] = t2[5]
       /\ t3[6] = "</" /\ t3[7] = "length>"
  <2>1. t3 \in Seq(Symbols) /\ Len(t3) = 5 + 2
    BY <1>10 DEF Joins
  <2>2. t3[1] = t2[1] /\ t3[2] = t2[2] /\ t3[3] = t2[3] /\ t3[4] = t2[4] /\ t3[5] = t2[5]
    BY <1>10 DEF Joins
  <2>3. t3[5 + 1] = LengthClose[1] /\ t3[5 + 2] = LengthClose[2]
    BY <1>10 DEF Joins
  <2> QED
    BY <2>1, <2>2, <2>3, TagParts
<1>12. Joins(t, t3, 7, rest, m)
  <2>1. Joins(t, t3, Len(t3), rest, Len(rest))
    BY <1>5, <1>11, JoinedAt
  <2> QED
    BY <1>11, <2>1 DEF m
<1>13. /\ 1 \in 1 .. 7 /\ t[1] = t3[1] /\ t[2] = t3[2] /\ t[3] = t3[3] /\ t[4] = t3[4] /\ t[5] = t3[5]
       /\ t[6] = t3[6] /\ t[7] = t3[7]
  BY <1>12 DEF Joins
<1>14. t \in Seq(Symbols) /\ Len(t) = 7 + m /\ \A i \in 1 .. m : t[7 + i] = rest[i]
  BY <1>12 DEF Joins
<1> QED
  <2>1. Begins(t, l, rest, m)
    BY <1>7, <1>9, <1>11, <1>13, <1>14 DEF Begins
  <2> QED
    BY <1>0, <2>1 DEF m

\* The parts of an item that is sent or refused.
Opens(t, l) ==
    /\ t[1] = "<" /\ t[2] = "item>" /\ t[3] = "<" /\ t[4] = "length>" /\ t[5] = l
    /\ t[6] = "</" /\ t[7] = "length>"
Carries(t, raw, w) ==
    /\ Len(t) = 14 + w
    /\ t[8] = "<" /\ t[9] = "data" /\ t[10] = ">"
    /\ \A i \in 1 .. w : t[10 + i] = raw[i]
    /\ t[11 + w] = "</" /\ t[12 + w] = "data>" /\ t[13 + w] = "</" /\ t[14 + w] = "item>"
IsEmpty(t) == Len(t) = 9 /\ t[8] = "</" /\ t[9] = "item>"

\* An item, symbol by symbol.
LEMMA ItemParts ==
    ASSUME NEW l \in Symbols, NEW p \in Seq(Symbols), Wrapped(p) \in Seq(Symbols)
    PROVE  /\ Item(l, p) \in Seq(Symbols) /\ Opens(Item(l, p), l)
           /\ p = << >> => IsEmpty(Item(l, p))
           /\ p # << >> => Carries(Item(l, p), Wrapped(p), Len(Wrapped(p)))
<1>01. PICK t : t = Item(l, p)
  OBVIOUS
<1>02. PICK w : w = Len(Wrapped(p))
  OBVIOUS
<1>1. /\ ItemClose \in Seq(Symbols) /\ Len(ItemClose) = 2 /\ ItemClose[1] = "</"
      /\ ItemClose[2] = "item>"
      /\ DataOpen \in Seq(Symbols) /\ Len(DataOpen) = 2 /\ DataOpen[1] = "<" /\ DataOpen[2] = "data"
      /\ DataClose \in Seq(Symbols) /\ Len(DataClose) = 2 /\ DataClose[1] = "</"
      /\ DataClose[2] = "data>"
      /\ <<">">> \in Seq(Symbols) /\ Len(<<">">>) = 1 /\ <<">">>[1] = ">"
  <2>1. ">" \in Symbols
    BY DEF Symbols, TagEnds
  <2> QED
    BY <2>1, TagWords, TagParts, OneSymbol
<1>2. PICK body : body = Body(p)
  OBVIOUS
<1>3. PICK most : most = Begun(l, body)
  OBVIOUS
<1>31. t = most \o ItemClose
  BY <1>01, <1>2, <1>3 DEF Item, Begun
<1>4. w \in Nat
  BY <1>02
<1>5. CASE p = << >>
  <2>1. body = << >> /\ body \in Seq(Symbols) /\ Len(body) = 0
    BY <1>2, <1>5 DEF Body
  <2>2. /\ most \in Seq(Symbols) /\ Len(most) = 7 + 0
        /\ most[1] = "<" /\ most[2] = "item>" /\ most[3] = "<" /\ most[4] = "length>"
        /\ most[5] = l /\ most[6] = "</" /\ most[7] = "length>"
    <3>1. Begins(most, l, body, Len(body))
      BY <1>3, <2>1, ItemBegins
    <3> QED
      BY <2>1, <3>1 DEF Begins
  <2>3. Len(most) = 7
    BY <2>2
  <2>4. Joins(t, most, 7, ItemClose, 2)
    <3>1. Joins(t, most, Len(most), ItemClose, Len(ItemClose))
      BY <1>1, <1>31, <2>2, JoinedAt
    <3> QED
      BY <1>1, <2>3, <3>1
  <2>5. /\ t \in Seq(Symbols) /\ Len(t) = 7 + 2
        /\ t[1] = most[1] /\ t[2] = most[2] /\ t[3] = most[3] /\ t[4] = most[4]
        /\ t[5] = most[5] /\ t[6] = most[6] /\ t[7] = most[7]
        /\ t[7 + 1] = ItemClose[1] /\ t[7 + 2] = ItemClose[2]
    BY <2>4 DEF Joins
  <2> QED
    <3>1. t \in Seq(Symbols) /\ Opens(t, l) /\ IsEmpty(t)
      BY <1>1, <2>2, <2>5 DEF Opens, IsEmpty
    <3> QED
      BY <1>01, <1>5, <3>1
<1>6. CASE p # << >>
  <2>1. PICK b1 : b1 = DataOpen \o <<">">>
    OBVIOUS
  <2>2. PICK b2 : b2 = b1 \o Wrapped(p)
    OBVIOUS
  <2>3. body = b2 \o DataClose
    BY <1>2, <1>6, <2>1, <2>2 DEF Body
  <2>4. Joins(b1, DataOpen, 2, <<">">>, 1)
    <3>1. Joins(b1, DataOpen, Len(DataOpen), <<">">>, Len(<<">">>))
      BY <1>1, <2>1, JoinedAt
    <3> QED
      BY <1>1, <3>1
  <2>5. b1 \in Seq(Symbols) /\ Len(b1) = 3 /\ b1[1] = "<" /\ b1[2] = "data" /\ b1[3] = ">"
    <3>1. /\ b1 \in Seq(Symbols) /\ Len(b1) = 2 + 1
          /\ b1[1] = DataOpen[1] /\ b1[2] = DataOpen[2] /\ b1[2 + 1] = <<">">>[1]
      BY <2>4 DEF Joins
    <3> QED
      BY <1>1, <3>1
  <2>6. Joins(b2, b1, 3, Wrapped(p), w)
    <3>1. Joins(b2, b1, Len(b1), Wrapped(p), Len(Wrapped(p)))
      BY <2>2, <2>5, JoinedAt
    <3> QED
      BY <1>02, <2>5, <3>1
  <2>61. /\ b2 \in Seq(Symbols) /\ Len(b2) = 3 + w
         /\ b2[1] = b1[1] /\ b2[2] = b1[2] /\ b2[3] = b1[3]
         /\ \A i \in 1 .. w : b2[3 + i] = Wrapped(p)[i]
    BY <2>6 DEF Joins
  <2>7. 3 + w \in Nat /\ 5 + w \in Nat /\ 12 + w \in Nat
    BY <1>4
  <2>81. Joins(body, b2, 3 + w, DataClose, 2)
    <3>1. Joins(body, b2, Len(b2), DataClose, Len(DataClose))
      BY <1>1, <2>3, <2>61, JoinedAt
    <3> QED
      BY <1>1, <2>61, <3>1
  <2>8. /\ body \in Seq(Symbols) /\ Len(body) = (3 + w) + 2
        /\ \A i \in 1 .. 3 + w : body[i] = b2[i]
        /\ body[(3 + w) + 1] = DataClose[1] /\ body[(3 + w) + 2] = DataClose[2]
    BY <2>81 DEF Joins
  <2>9. /\ body[1] = "<" /\ body[2] = "data" /\ body[3] = ">"
        /\ \A i \in 1 .. w : body[3 + i] = Wrapped(p)[i]
        /\ body[4 + w] = "</" /\ body[5 + w] = "data>" /\ Len(body) = 5 + w
    <3>1. body[1] = "<" /\ body[2] = "data" /\ body[3] = ">"
      <4>1. 1 \in 1 .. 3 + w /\ 2 \in 1 .. 3 + w /\ 3 \in 1 .. 3 + w
        BY <1>4
      <4> QED
        BY <2>5, <2>61, <2>8, <4>1
    <3>2. \A i \in 1 .. w : 3 + i \in 1 .. 3 + w
      BY <1>4
    <3>3. \A i \in 1 .. w : body[3 + i] = Wrapped(p)[i]
      BY <2>61, <2>8, <3>2
    <3>4. (3 + w) + 1 = 4 + w /\ (3 + w) + 2 = 5 + w
      BY <1>4
    <3>5. body[(3 + w) + 1] = "</" /\ body[(3 + w) + 2] = "data>"
      BY <1>1, <2>8
    <3> QED
      BY <2>8, <3>1, <3>3, <3>4, <3>5
  <2>10. /\ most \in Seq(Symbols) /\ Len(most) = 7 + (5 + w)
         /\ most[1] = "<" /\ most[2] = "item>" /\ most[3] = "<" /\ most[4] = "length>"
         /\ most[5] = l /\ most[6] = "</" /\ most[7] = "length>"
         /\ \A i \in 1 .. 5 + w : most[7 + i] = body[i]
    <3>1. Begins(most, l, body, Len(body))
      BY <1>3, <2>8, ItemBegins
    <3>2. Len(body) = 5 + w
      BY <2>9
    <3>3. Begins(most, l, body, 5 + w)
      BY <3>1, <3>2
    <3> HIDE DEF Begins
    <3> QED
      BY <3>3 DEF Begins
  <2>11. Len(most) = 12 + w
    BY <1>4, <2>10
  <2>121. Joins(t, most, 12 + w, ItemClose, 2)
    <3>1. Joins(t, most, Len(most), ItemClose, Len(ItemClose))
      BY <1>1, <1>31, <2>10, JoinedAt
    <3> QED
      BY <1>1, <2>11, <3>1
  <2>12. /\ t \in Seq(Symbols) /\ Len(t) = (12 + w) + 2 /\ \A i \in 1 .. 12 + w : t[i] = most[i]
         /\ t[(12 + w) + 1] = ItemClose[1] /\ t[(12 + w) + 2] = ItemClose[2]
    BY <2>121 DEF Joins
  <2>13. \A i \in 1 .. 5 + w : t[7 + i] = body[i]
    <3>1. \A i \in 1 .. 5 + w : 7 + i \in 1 .. 12 + w
      BY <1>4
    <3> QED
      BY <2>10, <2>12, <3>1
  <2>14. t[8] = "<" /\ t[9] = "data" /\ t[10] = ">"
    <3>1. 1 \in 1 .. 5 + w /\ 2 \in 1 .. 5 + w /\ 3 \in 1 .. 5 + w
      BY <1>4
    <3>2. t[7 + 1] = body[1] /\ t[7 + 2] = body[2] /\ t[7 + 3] = body[3]
      BY <2>13, <3>1
    <3> QED
      BY <2>9, <3>2
  <2>15. \A i \in 1 .. w : t[10 + i] = Wrapped(p)[i]
    <3> TAKE i \in 1 .. w
    <3>1. 3 + i \in 1 .. 5 + w /\ 7 + (3 + i) = 10 + i
      BY <1>4
    <3> QED
      BY <2>9, <2>13, <3>1
  <2>16. t[11 + w] = "</" /\ t[12 + w] = "data>"
    <3>1. 4 + w \in 1 .. 5 + w /\ 5 + w \in 1 .. 5 + w /\ 7 + (4 + w) = 11 + w /\ 7 + (5 + w) = 12 + w
      BY <1>4
    <3> QED
      BY <2>9, <2>13, <3>1
  <2>17. t[13 + w] = "</" /\ t[14 + w] = "item>" /\ Len(t) = 14 + w
    <3>1. (12 + w) + 1 = 13 + w /\ (12 + w) + 2 = 14 + w
      BY <1>4
    <3>2. t[(12 + w) + 1] = "</" /\ t[(12 + w) + 2] = "item>"
      BY <1>1, <2>12
    <3> QED
      BY <2>12, <3>1, <3>2
  <2>18. t[1] = "<" /\ t[2] = "item>" /\ t[3] = "<" /\ t[4] = "length>" /\ t[5] = l
         /\ t[6] = "</" /\ t[7] = "length>"
    <3>1. /\ t[1] = most[1] /\ t[2] = most[2] /\ t[3] = most[3] /\ t[4] = most[4]
          /\ t[5] = most[5] /\ t[6] = most[6] /\ t[7] = most[7]
      <4>1. \A i \in 1 .. 7 : i \in 1 .. 12 + w
        BY <1>4
      <4> QED
        BY <2>12, <4>1
    <3> QED
      BY <2>10, <3>1
  <2> QED
    <3>1. t \in Seq(Symbols) /\ Opens(t, l)
      BY <2>12, <2>18 DEF Opens
    <3>2. Carries(t, Wrapped(p), w)
      BY <2>14, <2>15, <2>16, <2>17 DEF Carries
    <3> QED
      BY <1>01, <1>02, <1>6, <3>1, <3>2
<1> QED
  BY <1>5, <1>6

LEMMA SentParts ==
    ASSUME NEW p \in Seq({"a", "b"})
    PROVE  /\ Sent(p) \in Seq(Symbols) /\ Opens(Sent(p), LengthOf(p)) /\ LengthOf(p) \in Digits
           /\ p = << >> => IsEmpty(Sent(p))
           /\ p # << >> => Carries(Sent(p), Wrapped(p), Len(Wrapped(p)))
<1>1. p \in Seq(Symbols) /\ Wrapped(p) \in Seq(Symbols)
  BY WrappedParts
<1>2. LengthOf(p) \in Digits /\ LengthOf(p) \in Symbols
  BY DEF LengthOf, Digits, Symbols
<1> QED
  BY <1>1, <1>2, ItemParts DEF Sent

\* An item of one symbol.
Single(t, l, x) ==
    /\ t \in Seq(Symbols) /\ Len(t) = 15 /\ Opens(t, l)
    /\ t[8] = "<" /\ t[9] = "data" /\ t[10] = ">" /\ t[11] = x
    /\ t[12] = "</" /\ t[13] = "data>" /\ t[14] = "</" /\ t[15] = "item>"

LEMMA SingleParts ==
    ASSUME NEW l \in Symbols, NEW x \in Symbols
    PROVE  Single(Item(l, <<x>>), l, x)
<1>1. PICK p : p = <<x>>
  OBVIOUS
<1>2. p \in Seq(Symbols) /\ Len(p) = 1 /\ p[1] = x /\ p # << >>
  BY <1>1, OneSymbol
<1>3. Wrapped(p) = p
  BY <1>2 DEF Wrapped
<1>4. PICK w : w = Len(Wrapped(p))
  OBVIOUS
<1>5. PICK t : t = Item(l, p)
  OBVIOUS
<1>6. w = 1 /\ Wrapped(p) \in Seq(Symbols)
  BY <1>2, <1>3, <1>4
<1>7. t \in Seq(Symbols) /\ Opens(t, l) /\ Carries(t, Wrapped(p), w)
  BY <1>2, <1>4, <1>5, <1>6, ItemParts
<1>8. /\ Len(t) = 15 /\ t[8] = "<" /\ t[9] = "data" /\ t[10] = ">"
      /\ t[10 + 1] = Wrapped(p)[1]
      /\ t[12] = "</" /\ t[13] = "data>" /\ t[14] = "</" /\ t[15] = "item>"
  BY <1>6, <1>7 DEF Carries
<1>9. Single(t, l, x)
  BY <1>2, <1>3, <1>7, <1>8 DEF Single
<1> QED
  BY <1>1, <1>5, <1>9

\* The items that are cut short, and those the parser refuses.
Cut == Item("1", <<"a">>)
Garbled == Item("1", <<"!">>)
Huge == Item("big", <<"a">>)

LEMMA DamagedParts == Single(Cut, "1", "a") /\ Single(Garbled, "1", "!") /\ Single(Huge, "big", "a")
<1>1. "1" \in Symbols /\ "a" \in Symbols /\ "!" \in Symbols /\ "big" \in Symbols
  BY DEF Symbols
<1> QED
  BY <1>1, SingleParts DEF Cut, Garbled, Huge

----
(* The parser: what it answers where an item was written *)

\* The first symbols of a text, as far as the buffer goes.
Agrees(b, q, t, n) == \A i \in 1 .. n : q + i - 1 <= Len(b) => b[q + i - 1] = t[i]

\* The answer to an item that is in the buffer, wholly or in part.
Answers(b, q, t, p, r) ==
    IF q + Len(t) <= Len(b) + 1 THEN r = [is |-> "item", payload |-> p, i |-> q + Len(t)]
    ELSE r.is = "incomplete"

LEMMA BlankStops ==
    ASSUME NEW b \in Seq(Symbols), NEW from \in Nat, NEW i, Blank(b, from, i),
           from <= Len(b) => b[from] # Space
    PROVE  i = from
<1>1. i \in from .. Len(b) + 1 /\ \A j \in from .. i - 1 : b[j] = Space
  BY DEF Blank
<1>2. ASSUME i # from PROVE FALSE
  <2>1. from \in from .. i - 1 /\ from <= Len(b)
    BY <1>1, <1>2
  <2> QED
    BY <1>1, <2>1
<1> QED
  BY <1>2

\* Where an item begins, its first seven symbols.
LEMMA AgreesOpen ==
    ASSUME NEW b, NEW q \in Nat, NEW t, NEW n \in Nat, NEW l, Agrees(b, q, t, n), Opens(t, l)
    PROVE  /\ n >= 1 /\ q <= Len(b) => b[q] = "<"
           /\ n >= 2 /\ q + 1 <= Len(b) => b[q + 1] = "item>"
           /\ n >= 3 /\ q + 2 <= Len(b) => b[q + 2] = "<"
           /\ n >= 4 /\ q + 3 <= Len(b) => b[q + 3] = "length>"
           /\ n >= 5 /\ q + 4 <= Len(b) => b[q + 4] = l
           /\ n >= 6 /\ q + 5 <= Len(b) => b[q + 5] = "</"
           /\ n >= 7 /\ q + 6 <= Len(b) => b[q + 6] = "length>"
<1>1. ASSUME NEW k \in 0 .. 6, n >= k + 1, q + k <= Len(b) PROVE b[q + k] = t[k + 1]
  <2>1. k + 1 \in 1 .. n /\ q + (k + 1) - 1 = q + k
    BY <1>1
  <2> QED
    BY <1>1, <2>1 DEF Agrees
<1>2. /\ n >= 1 /\ q <= Len(b) => b[q] = t[1]
      /\ n >= 2 /\ q + 1 <= Len(b) => b[q + 1] = t[2]
      /\ n >= 3 /\ q + 2 <= Len(b) => b[q + 2] = t[3]
      /\ n >= 4 /\ q + 3 <= Len(b) => b[q + 3] = t[4]
      /\ n >= 5 /\ q + 4 <= Len(b) => b[q + 4] = t[5]
      /\ n >= 6 /\ q + 5 <= Len(b) => b[q + 5] = t[6]
      /\ n >= 7 /\ q + 6 <= Len(b) => b[q + 6] = t[7]
  <2>1. q + 0 = q
    OBVIOUS
  <2> QED
    BY <1>1, <2>1
<1> QED
  BY <1>2 DEF Opens

LEMMA AgreesAt ==
    ASSUME NEW b, NEW q \in Nat, NEW t, NEW n \in Nat, Agrees(b, q, t, n),
           NEW k \in Nat, k + 1 <= n, q + k <= Len(b)
    PROVE  b[q + k] = t[k + 1]
<1>1. k + 1 \in 1 .. n /\ q + (k + 1) - 1 = q + k
  OBVIOUS
<1> QED
  BY <1>1 DEF Agrees

LEMMA WrappedSymbols ==
    ASSUME NEW p \in Seq({"a", "b"})
    PROVE  \A i \in 1 .. Len(Wrapped(p)) : Wrapped(p)[i] \in {"a", "b", Space}
<1>2. PICK raw : raw = Wrapped(p)
  OBVIOUS
<1>3. PICK w : w = Len(raw)
  OBVIOUS
<1>5. \A i \in 1 .. w : raw[i] \in {"a", "b", Space}
  <2>1. /\ Len(p) < 2 => raw = p
        /\ Len(p) >= 2 => /\ w = Len(p) + 1 /\ raw[1] = p[1] /\ raw[2] = Space
                          /\ \A i \in 3 .. Len(p) + 1 : raw[i] = p[i - 1]
        /\ Len(p) \in Nat
    <3>1. /\ Len(p) < 2 => Wrapped(p) = p
          /\ Len(p) >= 2 =>
               /\ Len(Wrapped(p)) = Len(p) + 1
               /\ Wrapped(p)[1] = p[1] /\ Wrapped(p)[2] = Space
               /\ \A i \in 3 .. Len(p) + 1 : Wrapped(p)[i] = p[i - 1]
      BY WrappedParts
    <3>2. Len(p) \in Nat
      OBVIOUS
    <3> QED
      BY <1>2, <1>3, <3>1, <3>2
  <2>2. \A i \in 1 .. Len(p) : p[i] \in {"a", "b"}
    OBVIOUS
  <2>3. CASE Len(p) < 2
    BY <1>3, <2>1, <2>2, <2>3
  <2>4. CASE Len(p) >= 2
    <3> TAKE i \in 1 .. w
    <3>1. i = 1 \/ i = 2 \/ (i \in 3 .. Len(p) + 1 /\ i - 1 \in 1 .. Len(p))
      BY <2>1, <2>4
    <3>2. 1 \in 1 .. Len(p)
      BY <2>1, <2>4
    <3> QED
      BY <2>1, <2>2, <2>4, <3>1, <3>2
  <2> QED
    BY <2>1, <2>3, <2>4
<1> QED
  BY <1>2, <1>3, <1>5

\* The data of an item with a payload.
LEMMA DataParses ==
    ASSUME NEW b \in Seq(Symbols), NEW q \in 1 .. Len(b), NEW p \in Seq({"a", "b"}), p # << >>,
           NEW t, Carries(t, Wrapped(p), Len(Wrapped(p))), Agrees(b, q, t, Len(t)),
           NEW r, DataSays(b, q, q + 10, r)
    PROVE  Answers(b, q, t, p, r)
<1>1. Wrapped(p) \in Seq(Symbols) /\ Unwrapped(Wrapped(p)) = p
  BY WrappedParts, WrappedComesBack
<1>2. PICK raw : raw = Wrapped(p)
  OBVIOUS
<1>3. PICK w : w = Len(raw)
  OBVIOUS
<1>4. raw \in Seq(Symbols) /\ w \in Nat /\ Unwrapped(raw) = p /\ Len(b) \in Nat /\ q \in Nat
  BY <1>1, <1>2, <1>3
<1>5. \A i \in 1 .. w : raw[i] \in {"a", "b", Space}
  BY <1>2, <1>3, WrappedSymbols
<1>6. /\ Len(t) = 14 + w /\ \A i \in 1 .. w : t[10 + i] = raw[i]
      /\ t[11 + w] = "</" /\ t[12 + w] = "data>" /\ t[13 + w] = "</" /\ t[14 + w] = "item>"
  BY <1>2, <1>3 DEF Carries
<1>7. /\ \A i \in 1 .. w : q + 9 + i <= Len(b) => b[q + 9 + i] = raw[i]
      /\ q + 10 + w <= Len(b) => b[q + 10 + w] = "</"
      /\ q + 11 + w <= Len(b) => b[q + 11 + w] = "data>"
      /\ q + 12 + w <= Len(b) => b[q + 12 + w] = "</"
      /\ q + 13 + w <= Len(b) => b[q + 13 + w] = "item>"
  <2>1. ASSUME NEW k \in 10 .. 13 + w, q + k <= Len(b) PROVE b[q + k] = t[k + 1]
    BY <1>4, <1>6, <2>1, AgreesAt
  <2>2. ASSUME NEW i \in 1 .. w, q + 9 + i <= Len(b) PROVE b[q + 9 + i] = raw[i]
    <3>1. 9 + i \in 10 .. 13 + w /\ q + (9 + i) = q + 9 + i /\ (9 + i) + 1 = 10 + i
      BY <1>4
    <3>2. b[q + 9 + i] = t[10 + i]
      BY <2>1, <2>2, <3>1
    <3> QED
      BY <1>6, <3>2
  <2>3. /\ 10 + w \in 10 .. 13 + w /\ q + (10 + w) = q + 10 + w /\ (10 + w) + 1 = 11 + w
        /\ 11 + w \in 10 .. 13 + w /\ q + (11 + w) = q + 11 + w /\ (11 + w) + 1 = 12 + w
        /\ 12 + w \in 10 .. 13 + w /\ q + (12 + w) = q + 12 + w /\ (12 + w) + 1 = 13 + w
        /\ 13 + w \in 10 .. 13 + w /\ q + (13 + w) = q + 13 + w /\ (13 + w) + 1 = 14 + w
    BY <1>4
  <2>4. /\ q + 10 + w <= Len(b) => b[q + 10 + w] = t[11 + w]
        /\ q + 11 + w <= Len(b) => b[q + 11 + w] = t[12 + w]
        /\ q + 12 + w <= Len(b) => b[q + 12 + w] = t[13 + w]
        /\ q + 13 + w <= Len(b) => b[q + 13 + w] = t[14 + w]
    BY <2>1, <2>3
  <2> QED
    BY <1>6, <2>2, <2>4
<1>8. \A x \in q + 10 .. Len(b) : x < q + 10 + w => b[x] \in {"a", "b", Space}
  <2> TAKE x \in q + 10 .. Len(b)
  <2> HAVE x < q + 10 + w
  <2>1. x - (q + 9) \in 1 .. w /\ q + 9 + (x - (q + 9)) = x
    BY <1>4
  <2> QED
    BY <1>5, <1>7, <2>1
<1>9. DataClose[1] = "</" /\ DataClose[2] = "data>" /\ ItemClose[1] = "</" /\ ItemClose[2] = "item>"
  BY TagParts
<1>10. CASE NoneFrom(b, q + 10, DataClose) /\ r = Unended(b, q)
  <2>1. ASSUME q + Len(t) <= Len(b) + 1 PROVE FALSE
    <3>1. q + 11 + w <= Len(b) /\ q + 10 + w \in q + 10 .. Len(b) /\ (q + 10 + w) + 1 = q + 11 + w
      BY <1>4, <1>6, <2>1
    <3>2. At(b, q + 10 + w, DataClose)
      BY <1>4, <1>7, <1>9, <3>1 DEF At
    <3> QED
      BY <1>10, <3>1, <3>2 DEF NoneFrom
  <2>2. r.is = "incomplete"
    BY <1>10 DEF Unended
  <2> QED
    BY <2>1, <2>2 DEF Answers
<1>11. ASSUME NEW d, IsNext(b, q + 10, d, DataClose), EndSays(b, q + 10, d, r)
       PROVE  Answers(b, q, t, p, r)
  <2>1. d \in q + 10 .. Len(b) /\ At(b, d, DataClose) /\ \A j \in q + 10 .. d - 1 : ~At(b, j, DataClose)
    BY <1>11 DEF IsNext
  <2>2. d + 1 <= Len(b) /\ b[d] = "</"
    BY <1>9, <2>1 DEF At
  <2>3. d >= q + 10 + w
    <3>1. d < q + 10 + w => b[d] \in {"a", "b", Space}
      BY <1>8, <2>1
    <3>2. b[d] \notin {"a", "b", Space}
      BY <2>2 DEF Space
    <3> QED
      BY <1>4, <2>1, <3>1, <3>2
  <2>4. d = q + 10 + w
    <3>1. ASSUME d # q + 10 + w PROVE FALSE
      <4>1. q + 10 + w \in q + 10 .. d - 1 /\ (q + 10 + w) + 1 <= Len(b) /\ (q + 10 + w) + 1 = q + 11 + w
        BY <1>4, <2>1, <2>3, <3>1
      <4>2. At(b, q + 10 + w, DataClose)
        BY <1>4, <1>7, <1>9, <4>1 DEF At
      <4> QED
        BY <2>1, <4>1, <4>2
    <3> QED
      BY <3>1
  <2>5. PICK g : /\ Blank(b, d + 2, g)
                 /\ \/ Fails(b, g, ItemClose, r)
                    \/ /\ At(b, g, ItemClose)
                       /\ r = IF Clean(Decodes(b, q + 10, d))
                              THEN [is |-> "item", payload |-> Decodes(b, q + 10, d), i |-> g + 2] ELSE Bad
    BY <1>11 DEF EndSays
  <2>6. g = q + 12 + w
    <3>1. d + 2 = q + 12 + w /\ d + 2 \in Nat
      BY <1>4, <2>4
    <3>2. d + 2 <= Len(b) => b[d + 2] # Space
      BY <1>7, <3>1 DEF Space
    <3> QED
      BY <2>5, <3>1, <3>2, BlankStops
  <2>7. g + 1 = q + 13 + w /\ g + 2 = q + Len(t) /\ g \in Nat
    BY <1>4, <1>6, <2>6
  <2>8. CASE At(b, g, ItemClose)
    <3>1. Decodes(b, q + 10, d) = p
      <4>1. \A j \in q + 10 .. d - 1 : b[j] \in Symbols
        <5> TAKE j \in q + 10 .. d - 1
        <5>1. j \in 1 .. Len(b)
          BY <1>4, <2>1
        <5> QED
          BY <5>1
      <4>2. /\ SubSeq(b, q + 10, d - 1) \in Seq(Symbols)
            /\ Len(SubSeq(b, q + 10, d - 1)) = IF q + 10 <= d - 1 THEN d - 1 - (q + 10) + 1 ELSE 0
            /\ \A i \in 1 .. d - 1 - (q + 10) + 1 : SubSeq(b, q + 10, d - 1)[i] = b[q + 10 + i - 1]
        <5>1. PICK m, n : m = q + 10 /\ n = d - 1
          OBVIOUS
        <5>2. m \in Int /\ n \in Int
          BY <1>4, <2>4, <5>1
        <5>3. \A j \in m .. n : b[j] \in Symbols
          BY <4>1, <5>1
        <5>4. /\ SubSeq(b, m, n) \in Seq(Symbols)
              /\ Len(SubSeq(b, m, n)) = IF m <= n THEN n - m + 1 ELSE 0
              /\ \A i \in 1 .. n - m + 1 : SubSeq(b, m, n)[i] = b[m + i - 1]
          BY <5>2, <5>3, SubSeqProperties
        <5> QED
          BY <5>1, <5>4
      <4>3. PICK s : s = SubSeq(b, q + 10, d - 1)
        OBVIOUS
      <4>4. s \in Seq(Symbols) /\ Len(s) = w
        <5>1. (IF q + 10 <= d - 1 THEN d - 1 - (q + 10) + 1 ELSE 0) = w
          BY <1>4, <2>4
        <5> QED
          BY <4>2, <4>3, <5>1
      <4>5. \A i \in 1 .. Len(s) : s[i] = raw[i]
        <5> SUFFICES ASSUME NEW i \in 1 .. w PROVE s[i] = raw[i]
          BY <4>4
        <5>1. i \in 1 .. d - 1 - (q + 10) + 1 /\ q + 10 + i - 1 = q + 9 + i /\ q + 9 + i <= Len(b)
          BY <1>4, <2>2, <2>4
        <5>2. s[i] = b[q + 9 + i]
          BY <4>2, <4>3, <5>1
        <5> QED
          BY <1>7, <5>1, <5>2
      <4>6. s = raw
        BY <1>3, <1>4, <4>4, <4>5, SeqEqual
      <4> QED
        BY <1>4, <4>3, <4>6 DEF Decodes
    <3>2. Clean(p)
      <4>1. \A i \in 1 .. Len(p) : p[i] \in {"a", "b"}
        OBVIOUS
      <4> QED
        BY <4>1 DEF Clean, ToSet
    <3>3. ~Fails(b, g, ItemClose, r)
      BY <2>8 DEF Fails
    <3>4. r = [is |-> "item", payload |-> p, i |-> g + 2]
      BY <2>5, <3>1, <3>2, <3>3
    <3>5. q + Len(t) <= Len(b) + 1
      BY <1>4, <2>7, <2>8 DEF At
    <3> QED
      BY <2>7, <3>4, <3>5 DEF Answers
  <2>9. CASE ~At(b, g, ItemClose)
    <3>1. r = IF Split(b, g, ItemClose) THEN Incomplete ELSE Bad
      BY <2>5, <2>9 DEF Fails
    <3>2. ~(g + 1 <= Len(b))
      BY <1>4, <1>7, <1>9, <2>6, <2>7, <2>9 DEF At
    <3>3. Split(b, g, ItemClose)
      BY <1>4, <1>7, <1>9, <2>6, <2>7, <3>2 DEF Split
    <3>4. ~(q + Len(t) <= Len(b) + 1)
      BY <1>4, <2>7, <3>2
    <3> QED
      BY <3>1, <3>3, <3>4 DEF Answers, Incomplete
  <2> QED
    BY <2>8, <2>9
<1> QED
  BY <1>10, <1>11 DEF DataSays

\* An item with a good payload is delivered when it is all there, and waited for until then.
LEMMA OwedParses ==
    ASSUME NEW b \in Seq(Symbols), NEW q \in 1 .. Len(b), NEW p \in Seq({"a", "b"}),
           Agrees(b, q, Sent(p), Len(Sent(p))), NEW r, ItemSays(b, q, r)
    PROVE  Answers(b, q, Sent(p), p, r)
<1>1. PICK t : t = Sent(p)
  OBVIOUS
<1> SUFFICES Answers(b, q, t, p, r)
  BY <1>1
<1>2. PICK l : l = LengthOf(p)
  OBVIOUS
<1>3. /\ t \in Seq(Symbols) /\ Opens(t, l) /\ l \in Digits
      /\ p = << >> => IsEmpty(t)
      /\ p # << >> => Carries(t, Wrapped(p), Len(Wrapped(p)))
  BY <1>1, <1>2, SentParts
<1>4. PICK n : n = Len(t)
  OBVIOUS
<1>5. n >= 9 /\ n \in Nat /\ (p # << >> => n >= 14) /\ (p = << >> => n = 9)
  <2>1. n \in Nat
    BY <1>3, <1>4
  <2>2. CASE p = << >>
    BY <1>3, <1>4, <2>2 DEF IsEmpty
  <2>3. CASE p # << >>
    <3>1. PICK w : w = Len(Wrapped(p))
      OBVIOUS
    <3>2. w \in Nat
      BY <3>1, WrappedParts
    <3>3. n = 14 + w
      BY <1>3, <1>4, <2>3, <3>1 DEF Carries
    <3> QED
      BY <2>1, <2>3, <3>2, <3>3
  <2> QED
    BY <2>2, <2>3
<1>6. Agrees(b, q, t, n) /\ q \in Nat /\ Len(b) \in Nat
  BY <1>1, <1>4
<1>7. /\ q <= Len(b) => b[q] = "<"
      /\ q + 1 <= Len(b) => b[q + 1] = "item>"
      /\ q + 2 <= Len(b) => b[q + 2] = "<"
      /\ q + 3 <= Len(b) => b[q + 3] = "length>"
      /\ q + 4 <= Len(b) => b[q + 4] = l
      /\ q + 5 <= Len(b) => b[q + 5] = "</"
      /\ q + 6 <= Len(b) => b[q + 6] = "length>"
  BY <1>3, <1>5, <1>6, AgreesOpen
<1>8. PICK a : Blank(b, q + 2, a) /\ LengthSays(b, q, a, r)
  BY DEF ItemSays
<1>9. a = q + 2
  <2>1. q + 2 \in Nat /\ (q + 2 <= Len(b) => b[q + 2] # Space)
    BY <1>6, <1>7 DEF Space
  <2> QED
    BY <1>8, <2>1, BlankStops
<1>10. /\ LengthOpen[1] = "<" /\ LengthOpen[2] = "length>"
       /\ LengthClose[1] = "</" /\ LengthClose[2] = "length>"
       /\ ItemClose[1] = "</" /\ ItemClose[2] = "item>"
       /\ DataOpen[1] = "<" /\ DataOpen[2] = "data"
  BY TagParts
<1>11. /\ a + 1 = q + 3 /\ a + 2 = q + 4 /\ a + 3 = q + 5 /\ a + 4 = q + 6 /\ a + 5 = q + 7
       /\ (a + 3) + 1 = q + 6 /\ a \in Nat
  BY <1>6, <1>9
<1>12. a + 1 <= Len(b) => At(b, a, LengthOpen)
  BY <1>6, <1>7, <1>9, <1>10, <1>11 DEF At
<1>13. q + 6 <= Len(b) => At(b, q + 5, LengthClose) /\ Lengthed(b, a)
  <2> HAVE q + 6 <= Len(b)
  <2>1. (q + 5) + 1 = q + 6 /\ q + 5 <= Len(b) /\ q + 4 <= Len(b)
    BY <1>6
  <2>2. At(b, q + 5, LengthClose)
    BY <1>7, <1>10, <2>1 DEF At
  <2>3. At(b, a, LengthOpen) /\ b[a + 2] \in Digits /\ a + 3 = q + 5
    BY <1>3, <1>6, <1>7, <1>11, <1>12, <2>1
  <2> QED
    BY <2>2, <2>3 DEF Lengthed
<1>14. ASSUME r.is = "incomplete", Len(b) < q + 8 PROVE Answers(b, q, t, p, r)
  <2>1. ~(q + Len(t) <= Len(b) + 1)
    BY <1>4, <1>5, <1>6, <1>14
  <2> QED
    BY <1>14, <2>1 DEF Answers
<1>15. CASE Fails(b, a, LengthOpen, r)
  <2>1. ~(a + 1 <= Len(b))
    BY <1>12, <1>15 DEF Fails
  <2>2. Split(b, a, LengthOpen)
    BY <1>6, <1>7, <1>9, <1>10, <2>1 DEF Split
  <2>3. r.is = "incomplete" /\ Len(b) < q + 8
    BY <1>6, <1>11, <1>15, <2>1, <2>2 DEF Fails, Incomplete
  <2> QED
    BY <1>14, <2>3
<1>16. CASE At(b, a, LengthOpen) /\ NoneFrom(b, a + 2, LengthClose) /\ r = Incomplete
  <2>1. ~(q + 6 <= Len(b))
    <3> SUFFICES ASSUME q + 6 <= Len(b) PROVE FALSE
      OBVIOUS
    <3>1. q + 5 \in a + 2 .. Len(b)
      BY <1>6, <1>11
    <3> QED
      BY <1>13, <1>16, <3>1 DEF NoneFrom
  <2>2. r.is = "incomplete" /\ Len(b) < q + 8
    BY <1>6, <1>16, <2>1 DEF Incomplete
  <2> QED
    BY <1>14, <2>2
<1>17. CASE /\ At(b, a, LengthOpen) /\ ~NoneFrom(b, a + 2, LengthClose) /\ ~Lengthed(b, a)
            /\ r = Bad
  <2>1. PICK i \in a + 2 .. Len(b) : At(b, i, LengthClose)
    BY <1>17 DEF NoneFrom
  <2>2. i + 1 <= Len(b) /\ b[i] = "</" /\ i \in Nat /\ i >= q + 4
    BY <1>6, <1>10, <1>11, <2>1 DEF At
  <2>3. i # q + 4
    <3>1. q + 4 <= Len(b) => b[q + 4] # "</"
      BY <1>3, <1>7 DEF Digits
    <3> QED
      BY <1>6, <2>2, <3>1
  <2>4. q + 6 <= Len(b)
    BY <1>6, <2>2, <2>3
  <2> QED
    BY <1>13, <1>17, <2>4
<1>18. CASE Lengthed(b, a) /\ \E c : Blank(b, a + 5, c) /\ BodySays(b, q, c, r)
  <2>1. PICK c : Blank(b, a + 5, c) /\ BodySays(b, q, c, r)
    BY <1>18
  <2>2. At(b, a + 3, LengthClose)
    BY <1>18 DEF Lengthed
  <2>3. q + 6 <= Len(b)
    BY <1>11, <2>2 DEF At
  <2>4. CASE p = << >>
    <3>1. t[8] = "</" /\ t[9] = "item>"
      BY <1>3, <2>4 DEF IsEmpty
    <3>2. /\ q + 7 <= Len(b) => b[q + 7] = "</"
          /\ q + 8 <= Len(b) => b[q + 8] = "item>"
      <4>1. ASSUME NEW k \in 7 .. 8, q + k <= Len(b) PROVE b[q + k] = t[k + 1]
        BY <1>5, <1>6, <2>4, <4>1, AgreesAt
      <4>2. /\ q + 7 <= Len(b) => b[q + 7] = t[8]
            /\ q + 8 <= Len(b) => b[q + 8] = t[9]
        BY <4>1
      <4> QED
        BY <3>1, <4>2
    <3>3. c = q + 7
      <4>1. a + 5 = q + 7 /\ q + 7 \in Nat /\ (q + 7 <= Len(b) => b[q + 7] # Space)
        BY <1>6, <1>11, <3>2 DEF Space
      <4> QED
        BY <2>1, <4>1, BlankStops
    <3>4. c + 1 = q + 8 /\ c + 2 = q + 9 /\ c \in Nat
      BY <1>6, <3>3
    <3>5. At(b, c, ItemClose) <=> c + 1 <= Len(b)
      BY <1>6, <1>10, <3>2, <3>3, <3>4 DEF At
    <3>6. ~At(b, c, DataOpen)
      BY <1>6, <1>10, <3>2, <3>3, <3>4 DEF At
    <3>7. CASE At(b, c, ItemClose)
      <4>1. r = [is |-> "item", payload |-> << >>, i |-> c + 2]
        BY <2>1, <3>6, <3>7 DEF BodySays
      <4>2. c + 2 = q + Len(t) /\ q + Len(t) <= Len(b) + 1
        <5>1. Len(t) = 9
          BY <1>4, <1>5, <2>4
        <5>2. c + 1 <= Len(b)
          BY <3>5, <3>7
        <5> QED
          BY <1>6, <3>4, <5>1, <5>2
      <4> QED
        BY <2>4, <4>1, <4>2 DEF Answers
    <3>8. CASE ~At(b, c, ItemClose)
      <4>1. Len(b) < q + 8
        BY <1>6, <3>4, <3>5, <3>8
      <4>2. Split(b, c, ItemClose)
        BY <1>6, <1>10, <3>2, <3>3, <3>4, <4>1 DEF Split
      <4>3. r = Incomplete
        BY <2>1, <3>6, <3>8, <4>2 DEF BodySays
      <4> QED
        BY <1>14, <4>1, <4>3 DEF Incomplete
    <3> QED
      BY <3>7, <3>8
  <2>5. CASE p # << >>
    <3>1. t[8] = "<" /\ t[9] = "data" /\ t[10] = ">"
      BY <1>3, <2>5 DEF Carries
    <3>2. /\ q + 7 <= Len(b) => b[q + 7] = "<"
          /\ q + 8 <= Len(b) => b[q + 8] = "data"
          /\ q + 9 <= Len(b) => b[q + 9] = ">"
      <4>1. ASSUME NEW k \in 7 .. 9, q + k <= Len(b) PROVE b[q + k] = t[k + 1]
        BY <1>5, <1>6, <2>5, <4>1, AgreesAt
      <4>2. /\ q + 7 <= Len(b) => b[q + 7] = t[8]
            /\ q + 8 <= Len(b) => b[q + 8] = t[9]
            /\ q + 9 <= Len(b) => b[q + 9] = t[10]
        BY <4>1
      <4> QED
        BY <3>1, <4>2
    <3>3. c = q + 7
      <4>1. a + 5 = q + 7 /\ q + 7 \in Nat /\ (q + 7 <= Len(b) => b[q + 7] # Space)
        BY <1>6, <1>11, <3>2 DEF Space
      <4> QED
        BY <2>1, <4>1, BlankStops
    <3>4. c + 1 = q + 8 /\ c + 2 = q + 9 /\ c \in Nat
      BY <1>6, <3>3
    <3>5. At(b, c, DataOpen) <=> c + 1 <= Len(b)
      BY <1>6, <1>10, <3>2, <3>3, <3>4 DEF At
    <3>6. ~At(b, c, ItemClose)
      BY <1>6, <1>10, <3>2, <3>3, <3>4 DEF At
    <3>7. CASE ~At(b, c, DataOpen)
      <4>1. Len(b) < q + 8
        BY <1>6, <3>4, <3>5, <3>7
      <4>2. Split(b, c, DataOpen)
        BY <1>6, <1>10, <3>2, <3>3, <3>4, <4>1 DEF Split
      <4>3. r = Incomplete
        BY <2>1, <3>6, <3>7, <4>2 DEF BodySays
      <4> QED
        BY <1>14, <4>1, <4>3 DEF Incomplete
    <3>8. CASE At(b, c, DataOpen) /\ NoTagEnd(b, c + 2, Len(b)) /\ r = Incomplete
      <4>1. ~(q + 9 <= Len(b))
        <5> SUFFICES ASSUME q + 9 <= Len(b) PROVE FALSE
          OBVIOUS
        <5>1. q + 9 \in c + 2 .. Len(b) /\ b[q + 9] = ">"
          BY <1>6, <3>2, <3>4
        <5> QED
          BY <3>8, <5>1 DEF NoTagEnd, TagEnds
      <4>2. ~(q + Len(t) <= Len(b) + 1)
        BY <1>4, <1>5, <1>6, <2>5, <4>1
      <4> QED
        BY <3>8, <4>2 DEF Answers, Incomplete
    <3>9. ASSUME NEW e \in c + 2 .. Len(b), NoTagEnd(b, c + 2, e - 1), DataSays(b, q, e + 1, r)
          PROVE  Answers(b, q, t, p, r)
      <4>1. e = q + 9
        <5> SUFFICES ASSUME e # q + 9 PROVE FALSE
          OBVIOUS
        <5>1. q + 9 \in c + 2 .. e - 1 /\ q + 9 <= Len(b)
          BY <1>6, <3>4, <3>9
        <5> QED
          BY <3>2, <3>9, <5>1 DEF NoTagEnd, TagEnds
      <4>2. e + 1 = q + 10
        BY <1>6, <4>1
      <4>3. DataSays(b, q, q + 10, r)
        BY <3>9, <4>2
      <4> QED
        BY <1>3, <1>4, <1>6, <2>5, <4>3, DataParses
    <3> QED
      BY <2>1, <3>6, <3>7, <3>8, <3>9 DEF BodySays
  <2> QED
    BY <2>4, <2>5
<1> QED
  BY <1>8, <1>15, <1>16, <1>17, <1>18 DEF LengthSays

----
(* The parser: what it answers where an item was damaged *)

\* What may follow an item that was cut short: frames, so that no tag of the item
\* is continued, and no data ends before a tag has ended and another begun.
Frames(b, k) ==
    /\ k <= Len(b) => b[k] \in {"<", "?", Space}
    /\ \A m \in k .. Len(b) :
         (\A z \in k .. m - 1 : b[z] = Space) /\ b[m] # Space =>
           /\ b[m] \in {"<", "?"}
           /\ m < Len(b) => b[m + 1] \notin {"length>", "data"}
    /\ \A e \in k .. Len(b) :
         At(b, e, DataClose) => \E h \in k .. e - 3 : b[h + 1] \in TagEnds /\ b[h + 2] = "<"

\* An item that was damaged, as far as the buffer goes.
Spoilt(b, q) ==
    \/ \E n \in 2 .. 14 : Agrees(b, q, Cut, n) /\ Frames(b, q + n)
    \/ Agrees(b, q, Garbled, 15)
    \/ Agrees(b, q, Huge, 15)
SpoiltData(b, q) ==
    \/ \E n \in 9 .. 14 : Agrees(b, q, Cut, n) /\ Frames(b, q + n)
    \/ Agrees(b, q, Garbled, 15)

\* The symbols of an item of one symbol.
LEMMA AgreesSingle ==
    ASSUME NEW b, NEW q \in Nat, NEW t, NEW n \in 0 .. 15, NEW l, NEW x, Agrees(b, q, t, n),
           Single(t, l, x)
    PROVE  /\ n >= 1 /\ q <= Len(b) => b[q] = "<"
           /\ n >= 2 /\ q + 1 <= Len(b) => b[q + 1] = "item>"
           /\ n >= 3 /\ q + 2 <= Len(b) => b[q + 2] = "<"
           /\ n >= 4 /\ q + 3 <= Len(b) => b[q + 3] = "length>"
           /\ n >= 5 /\ q + 4 <= Len(b) => b[q + 4] = l
           /\ n >= 6 /\ q + 5 <= Len(b) => b[q + 5] = "</"
           /\ n >= 7 /\ q + 6 <= Len(b) => b[q + 6] = "length>"
           /\ n >= 8 /\ q + 7 <= Len(b) => b[q + 7] = "<"
           /\ n >= 9 /\ q + 8 <= Len(b) => b[q + 8] = "data"
           /\ n >= 10 /\ q + 9 <= Len(b) => b[q + 9] = ">"
           /\ n >= 11 /\ q + 10 <= Len(b) => b[q + 10] = x
           /\ n >= 12 /\ q + 11 <= Len(b) => b[q + 11] = "</"
           /\ n >= 13 /\ q + 12 <= Len(b) => b[q + 12] = "data>"
           /\ n >= 14 /\ q + 13 <= Len(b) => b[q + 13] = "</"
<1>1. /\ n >= 1 /\ q <= Len(b) => b[q] = "<"
      /\ n >= 2 /\ q + 1 <= Len(b) => b[q + 1] = "item>"
      /\ n >= 3 /\ q + 2 <= Len(b) => b[q + 2] = "<"
      /\ n >= 4 /\ q + 3 <= Len(b) => b[q + 3] = "length>"
      /\ n >= 5 /\ q + 4 <= Len(b) => b[q + 4] = l
      /\ n >= 6 /\ q + 5 <= Len(b) => b[q + 5] = "</"
      /\ n >= 7 /\ q + 6 <= Len(b) => b[q + 6] = "length>"
  <2>1. n \in Nat /\ Opens(t, l)
    BY DEF Single
  <2> QED
    BY <2>1, AgreesOpen
<1>2. ASSUME NEW k \in 7 .. 13, n >= k + 1, q + k <= Len(b) PROVE b[q + k] = t[k + 1]
  <2>1. n \in Nat /\ k \in Nat /\ k + 1 <= n
    BY <1>2
  <2> QED
    BY <1>2, <2>1, AgreesAt
<1>3. /\ n >= 8 /\ q + 7 <= Len(b) => b[q + 7] = t[8]
      /\ n >= 9 /\ q + 8 <= Len(b) => b[q + 8] = t[9]
      /\ n >= 10 /\ q + 9 <= Len(b) => b[q + 9] = t[10]
      /\ n >= 11 /\ q + 10 <= Len(b) => b[q + 10] = t[11]
      /\ n >= 12 /\ q + 11 <= Len(b) => b[q + 11] = t[12]
      /\ n >= 13 /\ q + 12 <= Len(b) => b[q + 12] = t[13]
      /\ n >= 14 /\ q + 13 <= Len(b) => b[q + 13] = t[14]
  BY <1>2
<1> QED
  BY <1>1, <1>3 DEF Single

LEMMA TagSymbols ==
    ASSUME NEW b, NEW i
    PROVE  /\ At(b, i, ItemOpen) <=> i + 1 <= Len(b) /\ b[i] = "<" /\ b[i + 1] = "item>"
           /\ At(b, i, ItemClose) <=> i + 1 <= Len(b) /\ b[i] = "</" /\ b[i + 1] = "item>"
           /\ At(b, i, LengthOpen) <=> i + 1 <= Len(b) /\ b[i] = "<" /\ b[i + 1] = "length>"
           /\ At(b, i, LengthClose) <=> i + 1 <= Len(b) /\ b[i] = "</" /\ b[i + 1] = "length>"
           /\ At(b, i, DataOpen) <=> i + 1 <= Len(b) /\ b[i] = "<" /\ b[i + 1] = "data"
           /\ At(b, i, DataClose) <=> i + 1 <= Len(b) /\ b[i] = "</" /\ b[i + 1] = "data>"
BY TagParts DEF At

\* A damaged item is not closed, and its data, if it has any, is where it was written.
LEMMA SpoiltBody ==
    ASSUME NEW b \in Seq(Symbols), NEW q \in 1 .. Len(b), Spoilt(b, q),
           NEW a, Blank(b, q + 2, a), Lengthed(b, a), NEW c, Blank(b, a + 5, c)
    PROVE  /\ ~At(b, c, ItemClose)
           /\ At(b, c, DataOpen) => c = q + 7 /\ SpoiltData(b, q)
<1>1. q \in Nat /\ Len(b) \in Nat
  OBVIOUS
<1>2. /\ a \in q + 2 .. Len(b) + 1 /\ (\A j \in q + 2 .. a - 1 : b[j] = Space)
      /\ a <= Len(b) => b[a] # Space
  BY DEF Blank
<1>3. /\ a + 1 <= Len(b) /\ b[a] = "<" /\ b[a + 1] = "length>" /\ b[a + 2] \in Digits
      /\ (a + 3) + 1 <= Len(b) /\ b[a + 3] = "</" /\ b[(a + 3) + 1] = "length>"
  BY TagSymbols DEF Lengthed
<1>4. a \in Nat /\ (a + 3) + 1 = a + 4 /\ a + 5 \in Nat
  BY <1>1, <1>2
<1>5. /\ c \in a + 5 .. Len(b) + 1 /\ (\A j \in a + 5 .. c - 1 : b[j] = Space)
      /\ c <= Len(b) => b[c] # Space
  BY DEF Blank
<1>6. (q + 2 <= Len(b) => b[q + 2] # Space) => a = q + 2
  <2>1. q + 2 \in Nat
    BY <1>1
  <2> QED
    BY <2>1, BlankStops
<1>7. (a + 5 <= Len(b) => b[a + 5] # Space) => c = a + 5
  BY <1>4, BlankStops
<1>8. CASE Agrees(b, q, Huge, 15)
  <2>1. q + 2 <= Len(b) /\ b[q + 2] = "<"
    BY <1>1, <1>2, <1>3, <1>8, DamagedParts, AgreesSingle
  <2>2. a = q + 2
    BY <1>6, <2>1 DEF Space
  <2>3. q + 4 <= Len(b) /\ a + 2 = q + 4
    BY <1>1, <1>3, <2>2
  <2>4. b[q + 4] = "big"
    BY <1>1, <1>8, <2>3, DamagedParts, AgreesSingle
  <2> QED
    BY <1>3, <2>3, <2>4 DEF Digits
<1>9. CASE Agrees(b, q, Garbled, 15)
  <2>1. q + 2 <= Len(b) /\ b[q + 2] = "<"
    BY <1>1, <1>2, <1>3, <1>9, DamagedParts, AgreesSingle
  <2>2. a = q + 2 /\ a + 5 = q + 7
    BY <1>1, <1>6, <2>1 DEF Space
  <2>3. q + 7 <= Len(b) => b[q + 7] = "<"
    BY <1>1, <1>9, DamagedParts, AgreesSingle
  <2>4. c = q + 7
    BY <1>7, <2>2, <2>3 DEF Space
  <2>5. ~At(b, c, ItemClose)
    BY <1>1, <2>3, <2>4, TagSymbols
  <2> QED
    BY <1>9, <2>4, <2>5 DEF SpoiltData
<1>10. ASSUME NEW n \in 2 .. 14, Agrees(b, q, Cut, n), Frames(b, q + n)
       PROVE  /\ ~At(b, c, ItemClose)
              /\ At(b, c, DataOpen) => c = q + 7 /\ SpoiltData(b, q)
  <2>1. PICK k : k = q + n
    OBVIOUS
  <2>2. k \in Nat /\ k = q + n /\ n \in 0 .. 15
    BY <1>1, <2>1
  <2>3. k <= Len(b) => b[k] \in {"<", "?", Space}
    BY <1>10, <2>1 DEF Frames
  <2>4. \A m \in k .. Len(b) :
          (\A z \in k .. m - 1 : b[z] = Space) /\ b[m] # Space =>
             b[m] \in {"<", "?"} /\ (m < Len(b) => b[m + 1] \notin {"length>", "data"})
    BY <1>10, <2>1 DEF Frames
  <2>5. /\ n >= 3 /\ q + 2 <= Len(b) => b[q + 2] = "<"
        /\ n >= 4 /\ q + 3 <= Len(b) => b[q + 3] = "length>"
        /\ n >= 8 /\ q + 7 <= Len(b) => b[q + 7] = "<"
        /\ n >= 9 /\ q + 8 <= Len(b) => b[q + 8] = "data"
    BY <1>1, <1>10, <2>2, DamagedParts, AgreesSingle
  <2>6. n # 2
    <3> SUFFICES ASSUME n = 2 PROVE FALSE
      OBVIOUS
    <3>1. k = q + 2 /\ a \in k .. Len(b) /\ a < Len(b) /\ b[a] # Space
      BY <1>1, <1>2, <1>3, <2>2
    <3>2. b[a + 1] \notin {"length>", "data"}
      BY <1>2, <2>4, <3>1
    <3> QED
      BY <1>3, <3>2
  <2>7. n >= 3 /\ a = q + 2 /\ a + 1 = q + 3 /\ a + 2 = q + 4 /\ a + 3 = q + 5 /\ (a + 3) + 1 = q + 6
        /\ a + 5 = q + 7
    <3>1. n >= 3
      BY <2>6
    <3>2. a = q + 2
      BY <1>6, <2>5, <3>1 DEF Space
    <3> QED
      BY <1>1, <3>1, <3>2
  <2>8. n \notin {3, 4, 5, 6}
    <3>1. n = 3 => b[k] = "length>" /\ k <= Len(b)
      BY <1>3, <1>4, <2>2, <2>7
    <3>2. n = 4 => b[k] \in Digits /\ k <= Len(b)
      BY <1>3, <1>4, <2>2, <2>7
    <3>3. n = 5 => b[k] = "</" /\ k <= Len(b)
      BY <1>3, <1>4, <2>2, <2>7
    <3>4. n = 6 => b[k] = "length>" /\ k <= Len(b)
      BY <1>3, <1>4, <2>2, <2>7
    <3> QED
      BY <2>3, <3>1, <3>2, <3>3, <3>4 DEF Digits, Space
  <2>9. CASE n = 7
    <3>1. k = a + 5
      BY <2>2, <2>7, <2>9
    <3>2. ASSUME c + 1 <= Len(b) PROVE b[c] \in {"<", "?"} /\ b[c + 1] \notin {"length>", "data"}
      <4>1. c \in k .. Len(b) /\ c < Len(b) /\ b[c] # Space
        BY <1>1, <1>4, <1>5, <3>1, <3>2
      <4> QED
        BY <1>5, <2>4, <3>1, <4>1
    <3> QED
      BY <3>2, TagSymbols
  <2>10. CASE n >= 8
    <3>1. c = q + 7
      BY <1>7, <2>5, <2>7, <2>10 DEF Space
    <3>2. ~At(b, c, ItemClose)
      BY <1>1, <2>5, <2>10, <3>1, TagSymbols
    <3>3. CASE n = 8
      <4>1. c + 1 = k
        BY <1>1, <2>2, <3>1, <3>3
      <4>2. ~At(b, c, DataOpen)
        BY <2>3, <4>1, TagSymbols DEF Space
      <4> QED
        BY <3>2, <4>2
    <3>4. CASE n >= 9
      <4>1. n \in 9 .. 14
        BY <3>4
      <4>2. SpoiltData(b, q)
        BY <1>10, <4>1 DEF SpoiltData
      <4> QED
        BY <3>1, <3>2, <4>2
    <3> QED
      BY <2>10, <3>3, <3>4
  <2>11. n = 7 \/ n >= 8
    BY <2>6, <2>8
  <2> QED
    BY <2>9, <2>10, <2>11
<1> QED
  BY <1>8, <1>9, <1>10 DEF Spoilt

\* What is decoded holds every symbol of the text but white space.
LEMMA NotClean ==
    ASSUME NEW b \in Seq(Symbols), NEW i \in Nat \ {0}, NEW d \in 1 .. Len(b), NEW j \in i .. d - 1,
           b[j] \notin {"a", "b", Space}
    PROVE  ~Clean(Decodes(b, i, d))
<1>1. Len(b) \in Nat /\ d \in Nat /\ i \in Nat /\ j \in Nat /\ i <= d - 1 /\ d - 1 \in Nat
  OBVIOUS
<1>2. \A x \in i .. d - 1 : b[x] \in Symbols
  <2> TAKE x \in i .. d - 1
  <2>1. x \in 1 .. Len(b)
    BY <1>1
  <2> QED
    BY <2>1
<1>3. /\ SubSeq(b, i, d - 1) \in Seq(Symbols)
      /\ Len(SubSeq(b, i, d - 1)) = IF i <= d - 1 THEN d - 1 - i + 1 ELSE 0
      /\ \A x \in 1 .. d - 1 - i + 1 : SubSeq(b, i, d - 1)[x] = b[i + x - 1]
  BY <1>1, <1>2, SubSeqProperties
<1>4. PICK s : s = SubSeq(b, i, d - 1)
  OBVIOUS
<1>5. s \in Seq(Symbols) /\ Len(s) = d - 1 - i + 1
  BY <1>1, <1>3, <1>4
<1>6. PICK g : g = j - i + 1
  OBVIOUS
<1>7. g \in 1 .. d - 1 - i + 1 /\ i + g - 1 = j
  BY <1>1, <1>6
<1>8. g \in 1 .. Len(s)
  BY <1>5, <1>7
<1>9. s[g] = b[j]
  BY <1>3, <1>4, <1>7
<1>10. s[g] \in ToSet(Unwrapped(s))
  BY <1>5, <1>8, <1>9, UnwrappedHas
<1>11. Decodes(b, i, d) = Unwrapped(s)
  BY <1>4 DEF Decodes
<1> QED
  BY <1>9, <1>10, <1>11 DEF Clean

\* The data of a damaged item begins before any data ends, and does not end well.
LEMMA SpoiltEnds ==
    ASSUME NEW b \in Seq(Symbols), NEW q \in 1 .. Len(b), SpoiltData(b, q),
           NEW e \in q + 9 .. Len(b), b[e] \in TagEnds, NoTagEnd(b, q + 9, e - 1)
    PROVE  /\ \A x \in q .. e : ~At(b, x, DataClose)
           /\ \A d, r : IsNext(b, e + 1, d, DataClose) /\ EndSays(b, e + 1, d, r) => r.is # "item"
<1>1. q \in Nat /\ Len(b) \in Nat /\ e \in Nat /\ q + 9 <= Len(b) /\ e + 1 \in Nat \ {0}
  OBVIOUS
<1>2. \A x \in q + 9 .. e - 1 : b[x] \notin TagEnds
  BY DEF NoTagEnd
\* What is known of a data end.
<1>3. ASSUME NEW d, NEW r, IsNext(b, e + 1, d, DataClose), EndSays(b, e + 1, d, r), r.is = "item"
      PROVE  /\ d \in e + 1 .. Len(b) /\ d + 1 <= Len(b) /\ b[d] = "</" /\ b[d + 1] = "data>"
             /\ \A j \in e + 1 .. d - 1 : ~At(b, j, DataClose)
             /\ \A j \in e + 1 .. d - 1 : b[j] \in {"a", "b", Space}
             /\ \E g : Blank(b, d + 2, g) /\ At(b, g, ItemClose)
  <2>1. d \in e + 1 .. Len(b) /\ At(b, d, DataClose) /\ \A j \in e + 1 .. d - 1 : ~At(b, j, DataClose)
    BY <1>3 DEF IsNext
  <2>2. d + 1 <= Len(b) /\ b[d] = "</" /\ b[d + 1] = "data>"
    BY <2>1, TagSymbols
  <2>3. PICK g : /\ Blank(b, d + 2, g)
                 /\ \/ Fails(b, g, ItemClose, r)
                    \/ /\ At(b, g, ItemClose)
                       /\ r = IF Clean(Decodes(b, e + 1, d))
                              THEN [is |-> "item", payload |-> Decodes(b, e + 1, d), i |-> g + 2] ELSE Bad
    BY <1>3 DEF EndSays
  <2>4. ~Fails(b, g, ItemClose, r)
    BY <1>3 DEF Fails, Incomplete, Bad
  <2>5. At(b, g, ItemClose) /\ Clean(Decodes(b, e + 1, d))
    BY <1>3, <2>3, <2>4 DEF Bad
  <2>6. ASSUME NEW j \in e + 1 .. d - 1 PROVE b[j] \in {"a", "b", Space}
    <3>1. d \in 1 .. Len(b)
      BY <1>1, <2>1
    <3> QED
      BY <1>1, <2>5, <2>6, <3>1, NotClean
  <2> QED
    BY <2>1, <2>2, <2>3, <2>5, <2>6
<1>4. CASE Agrees(b, q, Garbled, 15)
  <2>1. /\ b[q] = "<" /\ b[q + 1] = "item>" /\ b[q + 2] = "<" /\ b[q + 3] = "length>"
        /\ b[q + 6] = "length>" /\ b[q + 7] = "<" /\ b[q + 8] = "data" /\ b[q + 9] = ">"
        /\ b[q + 4] = "1" /\ b[q + 5] = "</"
        /\ q + 10 <= Len(b) => b[q + 10] = "!"
    BY <1>1, <1>4, DamagedParts, AgreesSingle
  <2>2. e = q + 9
    <3> SUFFICES ASSUME e # q + 9 PROVE FALSE
      OBVIOUS
    <3>1. q + 9 \in q + 9 .. e - 1
      BY <1>1
    <3> QED
      BY <1>2, <2>1, <3>1 DEF TagEnds
  <2>3. ASSUME NEW x \in q .. e, At(b, x, DataClose) PROVE FALSE
    <3>1. b[x] = "</" /\ b[x + 1] = "data>"
      BY <2>3, TagSymbols
    <3>2. \/ x = q \/ x = q + 1 \/ x = q + 2 \/ x = q + 3 \/ x = q + 4 \/ x = q + 5 \/ x = q + 6
          \/ x = q + 7 \/ x = q + 8 \/ x = q + 9
      BY <1>1, <2>2
    <3>3. (q + 5) + 1 = q + 6
      BY <1>1
    <3> QED
      BY <2>1, <3>1, <3>2, <3>3
  <2>4. ASSUME NEW d, NEW r, IsNext(b, e + 1, d, DataClose), EndSays(b, e + 1, d, r), r.is = "item"
        PROVE  FALSE
    <3>1. /\ d \in e + 1 .. Len(b) /\ b[d] = "</"
          /\ \A j \in e + 1 .. d - 1 : b[j] \in {"a", "b", Space}
      BY <1>3, <2>4
    <3>2. b[q + 10] = "!"
      BY <1>1, <2>1, <2>2, <3>1
    <3>3. q + 10 \in e + 1 .. d - 1
      <4>1. d # q + 10
        BY <3>1, <3>2
      <4> QED
        BY <1>1, <2>2, <3>1, <4>1
    <3> QED
      BY <3>1, <3>2, <3>3 DEF Space
  <2> QED
    BY <2>3, <2>4
<1>5. ASSUME NEW n \in 9 .. 14, Agrees(b, q, Cut, n), Frames(b, q + n)
      PROVE  /\ \A x \in q .. e : ~At(b, x, DataClose)
             /\ \A d, r : IsNext(b, e + 1, d, DataClose) /\ EndSays(b, e + 1, d, r) => r.is # "item"
  <2>1. PICK k : k = q + n
    OBVIOUS
  <2>2. k \in Nat /\ k = q + n /\ n \in 0 .. 15 /\ n \in Nat
    BY <1>1, <2>1
  <2>3. k <= Len(b) => b[k] \in {"<", "?", Space}
    BY <1>5, <2>1 DEF Frames
  <2>4. \A m \in k .. Len(b) :
          (\A z \in k .. m - 1 : b[z] = Space) /\ b[m] # Space => b[m] \in {"<", "?"}
    BY <1>5, <2>1 DEF Frames
  <2>5. \A x \in k .. Len(b) :
          At(b, x, DataClose) => \E h \in k .. x - 3 : b[h + 1] \in TagEnds /\ b[h + 2] = "<"
    BY <1>5, <2>1 DEF Frames
  <2>6. /\ b[q] = "<" /\ b[q + 1] = "item>" /\ b[q + 2] = "<" /\ b[q + 3] = "length>"
        /\ b[q + 4] = "1" /\ b[q + 5] = "</"
        /\ b[q + 6] = "length>" /\ b[q + 7] = "<" /\ b[q + 8] = "data"
        /\ n >= 10 => b[q + 9] = ">"
        /\ n >= 11 /\ q + 10 <= Len(b) => b[q + 10] = "a"
        /\ n >= 12 /\ q + 11 <= Len(b) => b[q + 11] = "</"
        /\ n >= 13 /\ q + 12 <= Len(b) => b[q + 12] = "data>"
        /\ n >= 14 /\ q + 13 <= Len(b) => b[q + 13] = "</"
    <3>1. /\ n >= 1 /\ q <= Len(b) => b[q] = "<"
          /\ n >= 2 /\ q + 1 <= Len(b) => b[q + 1] = "item>"
          /\ n >= 3 /\ q + 2 <= Len(b) => b[q + 2] = "<"
          /\ n >= 4 /\ q + 3 <= Len(b) => b[q + 3] = "length>"
          /\ n >= 5 /\ q + 4 <= Len(b) => b[q + 4] = "1"
          /\ n >= 6 /\ q + 5 <= Len(b) => b[q + 5] = "</"
          /\ n >= 7 /\ q + 6 <= Len(b) => b[q + 6] = "length>"
          /\ n >= 8 /\ q + 7 <= Len(b) => b[q + 7] = "<"
          /\ n >= 9 /\ q + 8 <= Len(b) => b[q + 8] = "data"
          /\ n >= 10 /\ q + 9 <= Len(b) => b[q + 9] = ">"
          /\ n >= 11 /\ q + 10 <= Len(b) => b[q + 10] = "a"
          /\ n >= 12 /\ q + 11 <= Len(b) => b[q + 11] = "</"
          /\ n >= 13 /\ q + 12 <= Len(b) => b[q + 12] = "data>"
          /\ n >= 14 /\ q + 13 <= Len(b) => b[q + 13] = "</"
      BY <1>1, <1>5, <2>2, DamagedParts, AgreesSingle, SMTT(30)
    <3>2. n >= 9
      OBVIOUS
    <3>3. /\ n >= 1 /\ n >= 2 /\ n >= 3 /\ n >= 4 /\ n >= 5 /\ n >= 6 /\ n >= 7 /\ n >= 8
          /\ q <= Len(b) /\ q + 1 <= Len(b) /\ q + 2 <= Len(b) /\ q + 3 <= Len(b)
          /\ q + 4 <= Len(b) /\ q + 5 <= Len(b) /\ q + 6 <= Len(b) /\ q + 7 <= Len(b)
          /\ q + 8 <= Len(b) /\ q + 9 <= Len(b)
      BY <1>1, <2>2, <3>2
    <3> QED
      BY <3>1, <3>2, <3>3
  <2>7. n >= 10 => e = q + 9
    <3> SUFFICES ASSUME n >= 10, e # q + 9 PROVE FALSE
      OBVIOUS
    <3>1. q + 9 \in q + 9 .. e - 1
      BY <1>1
    <3> QED
      BY <1>2, <2>6, <3>1 DEF TagEnds
  <2>8. ASSUME NEW x \in q .. e, At(b, x, DataClose) PROVE FALSE
    <3>1. b[x] = "</" /\ b[x + 1] = "data>" /\ x \in Nat
      BY <1>1, <2>8, TagSymbols
    <3>2. CASE x <= q + 8
      <4>1. \/ x = q \/ x = q + 1 \/ x = q + 2 \/ x = q + 3 \/ x = q + 4 \/ x = q + 5 \/ x = q + 6
            \/ x = q + 7 \/ x = q + 8
        BY <1>1, <3>2
      <4>2. (q + 5) + 1 = q + 6
        BY <1>1
      <4> QED
        BY <2>6, <3>1, <4>1, <4>2
    <3>3. CASE x >= q + 9
      <4>1. x # e
        BY <3>1 DEF TagEnds
      <4>2. x + 1 = e
        <5> SUFFICES ASSUME x + 1 # e PROVE FALSE
          OBVIOUS
        <5>1. x + 1 \in q + 9 .. e - 1
          BY <1>1, <3>1, <3>3, <4>1
        <5> QED
          BY <1>2, <3>1, <5>1 DEF TagEnds
      <4>3. n = 9 /\ k = q + 9 /\ x \in k .. Len(b)
        BY <1>1, <2>2, <2>7, <3>1, <3>3, <4>2
      <4>4. PICK h \in k .. x - 3 : b[h + 1] \in TagEnds
        BY <2>5, <2>8, <4>3
      <4>5. h + 1 \in q + 9 .. e - 1
        BY <1>1, <3>1, <4>2, <4>3
      <4> QED
        BY <1>2, <4>4, <4>5
    <3> QED
      BY <1>1, <3>1, <3>2, <3>3
  <2>9. ASSUME NEW d, NEW r, IsNext(b, e + 1, d, DataClose), EndSays(b, e + 1, d, r), r.is = "item"
        PROVE  FALSE
    <3>1. /\ d \in e + 1 .. Len(b) /\ d + 1 <= Len(b) /\ b[d] = "</" /\ b[d + 1] = "data>"
          /\ \A j \in e + 1 .. d - 1 : ~At(b, j, DataClose)
          /\ \A j \in e + 1 .. d - 1 : b[j] \in {"a", "b", Space}
          /\ \E g : Blank(b, d + 2, g) /\ At(b, g, ItemClose)
      BY <1>3, <2>9
    <3>2. At(b, d, DataClose) /\ d \in Nat
      BY <1>1, <3>1, TagSymbols
    <3>3. CASE n <= 11
      <4>1. d >= k
        <5>1. n = 11 => d # q + 10
          BY <1>1, <2>6, <3>1
        <5>2. n # 9 => d >= q + 10
          BY <1>1, <2>7, <3>1
        <5> QED
          BY <1>1, <2>2, <3>1, <3>3, <5>1, <5>2
      <4>2. PICK h \in k .. d - 3 : b[h + 1] \in TagEnds /\ b[h + 2] = "<"
        <5>1. d \in k .. Len(b)
          BY <2>2, <3>1, <4>1
        <5> QED
          BY <2>5, <3>2, <5>1
      <4>3. h + 2 >= e + 1
        <5>1. CASE n = 9
          <6>1. h + 1 \notin q + 9 .. e - 1
            BY <1>2, <4>2
          <6> QED
            BY <1>1, <2>2, <5>1, <6>1
        <5>2. CASE n # 9
          BY <1>1, <2>2, <2>7, <5>2
        <5> QED
          BY <5>1, <5>2
      <4>4. h + 2 \in e + 1 .. d - 1
        BY <1>1, <2>2, <3>2, <4>3
      <4> QED
        BY <3>1, <4>2, <4>4 DEF Space
    <3>4. CASE n >= 12
      <4>1. e + 1 = q + 10 /\ d >= q + 11
        <5>1. e + 1 = q + 10
          BY <1>1, <2>7, <3>4
        <5>2. d # q + 10
          BY <1>1, <2>6, <3>1, <3>4
        <5> QED
          BY <1>1, <3>1, <5>1, <5>2
      <4>2. b[q + 11] = "</"
        BY <1>1, <2>6, <3>1, <3>4, <4>1
      <4>3. d = q + 11
        <5> SUFFICES ASSUME d # q + 11 PROVE FALSE
          OBVIOUS
        <5>1. q + 11 \in e + 1 .. d - 1
          BY <1>1, <3>1, <4>1
        <5> QED
          BY <3>1, <4>2, <5>1 DEF Space
      <4>4. d + 1 = q + 12 /\ d + 2 = q + 13 /\ d + 2 \in Nat
        BY <1>1, <4>3
      <4>5. n # 12
        <5> SUFFICES ASSUME n = 12 PROVE FALSE
          OBVIOUS
        <5>1. k = d + 1
          BY <2>2, <4>4
        <5> QED
          BY <2>3, <3>1, <5>1 DEF Space
      <4>6. PICK g : Blank(b, d + 2, g) /\ At(b, g, ItemClose)
        BY <3>1
      <4>7. /\ g \in d + 2 .. Len(b) + 1 /\ (\A j \in d + 2 .. g - 1 : b[j] = Space)
            /\ g + 1 <= Len(b) /\ b[g] = "</" /\ b[g + 1] = "item>"
        BY <4>6, TagSymbols DEF Blank
      <4>8. CASE n = 13
        <5>1. k = d + 2 /\ g \in k .. Len(b)
          BY <1>1, <2>2, <4>4, <4>7, <4>8
        <5>2. b[g] \in {"<", "?"}
          BY <2>4, <4>7, <5>1 DEF Space
        <5> QED
          BY <4>7, <5>2
      <4>9. CASE n = 14
        <5>1. g = d + 2
          <6>1. d + 2 <= Len(b) => b[d + 2] = "</"
            <7>1. n >= 14
              BY <4>9
            <7>2. q + 13 <= Len(b) => b[q + 13] = "</"
              BY <2>6, <7>1
            <7> QED
              BY <4>4, <7>2
          <6> QED
            BY <4>4, <4>6, <6>1, BlankStops DEF Space
        <5>2. g + 1 = k
          BY <1>1, <2>2, <4>4, <4>9, <5>1
        <5> QED
          BY <2>3, <4>7, <5>2 DEF Space
      <4> QED
        BY <3>4, <4>5, <4>8, <4>9
    <3> QED
      BY <3>3, <3>4
  <2> QED
    BY <2>8, <2>9
<1> QED
  BY <1>4, <1>5 DEF SpoiltData

\* A damaged item is never delivered.
LEMMA SpoiltNever ==
    ASSUME NEW b \in Seq(Symbols), NEW q \in 1 .. Len(b), Spoilt(b, q),
           NEW r, ItemSays(b, q, r)
    PROVE  r.is # "item"
<1>1. PICK a : Blank(b, q + 2, a) /\ LengthSays(b, q, a, r)
  BY DEF ItemSays
<1>2. CASE Fails(b, a, LengthOpen, r) \/ r = Incomplete \/ r = Bad
  BY <1>2 DEF Fails, Incomplete, Bad
<1>3. CASE Lengthed(b, a) /\ \E c : Blank(b, a + 5, c) /\ BodySays(b, q, c, r)
  <2>1. PICK c : Blank(b, a + 5, c) /\ BodySays(b, q, c, r)
    BY <1>3
  <2>2. /\ ~At(b, c, ItemClose)
        /\ At(b, c, DataOpen) => c = q + 7 /\ SpoiltData(b, q)
    BY <1>1, <1>3, <2>1, SpoiltBody
  <2>3. CASE r = Incomplete \/ r = Bad
    BY <2>3 DEF Incomplete, Bad
  <2>4. ASSUME NEW e \in c + 2 .. Len(b), At(b, c, DataOpen), b[e] \in TagEnds,
               NoTagEnd(b, c + 2, e - 1), DataSays(b, q, e + 1, r)
        PROVE  r.is # "item"
    <3>1. c + 2 = q + 9 /\ SpoiltData(b, q)
      BY <2>2, <2>4
    <3>2. e \in q + 9 .. Len(b) /\ NoTagEnd(b, q + 9, e - 1)
      BY <2>4, <3>1
    <3>3. \A d : IsNext(b, e + 1, d, DataClose) /\ EndSays(b, e + 1, d, r) => r.is # "item"
      BY <2>4, <3>1, <3>2, SpoiltEnds
    <3> QED
      BY <2>4, <3>3 DEF DataSays, Unended
  <2> QED
    BY <2>1, <2>2, <2>3, <2>4 DEF BodySays
<1> QED
  BY <1>1, <1>2, <1>3 DEF LengthSays

\* No data ends before the data of a sent item begins.
LEMMA OwedBody ==
    ASSUME NEW b \in Seq(Symbols), NEW q \in 1 .. Len(b), NEW p \in Seq({"a", "b"}),
           Agrees(b, q, Sent(p), Len(Sent(p))),
           NEW a, Blank(b, q + 2, a), Lengthed(b, a), NEW c, Blank(b, a + 5, c),
           At(b, c, DataOpen), NEW e \in c + 2 .. Len(b), NoTagEnd(b, c + 2, e - 1)
    PROVE  \A x \in q .. e : ~At(b, x, DataClose)
<1>1. PICK t : t = Sent(p)
  OBVIOUS
<1>2. PICK l : l = LengthOf(p)
  OBVIOUS
<1>3. /\ t \in Seq(Symbols) /\ Opens(t, l) /\ l \in Digits
      /\ p = << >> => IsEmpty(t)
      /\ p # << >> => Carries(t, Wrapped(p), Len(Wrapped(p)))
  BY <1>1, <1>2, SentParts
<1>4. PICK n : n = Len(t)
  OBVIOUS
<1>5. n >= 9 /\ n \in Nat /\ (p # << >> => n >= 14)
  <2>1. n \in Nat
    BY <1>3, <1>4
  <2>2. CASE p = << >>
    BY <1>3, <1>4, <2>2 DEF IsEmpty
  <2>3. CASE p # << >>
    <3>1. PICK w : w = Len(Wrapped(p))
      OBVIOUS
    <3>2. w \in Nat
      BY <3>1, WrappedParts
    <3>3. n = 14 + w
      BY <1>3, <1>4, <2>3, <3>1 DEF Carries
    <3> QED
      BY <2>1, <2>3, <3>2, <3>3
  <2> QED
    BY <2>2, <2>3
<1>6. Agrees(b, q, t, n) /\ q \in Nat /\ Len(b) \in Nat
  BY <1>1, <1>4
<1>7. /\ q <= Len(b) => b[q] = "<"
      /\ q + 1 <= Len(b) => b[q + 1] = "item>"
      /\ q + 2 <= Len(b) => b[q + 2] = "<"
      /\ q + 3 <= Len(b) => b[q + 3] = "length>"
      /\ q + 4 <= Len(b) => b[q + 4] = l
      /\ q + 5 <= Len(b) => b[q + 5] = "</"
      /\ q + 6 <= Len(b) => b[q + 6] = "length>"
  BY <1>3, <1>5, <1>6, AgreesOpen, SMTT(30)
<1>8. a = q + 2 /\ a + 5 = q + 7 /\ q + 7 \in Nat
  <2>1. q + 2 <= Len(b) => b[q + 2] # Space
    BY <1>7 DEF Space
  <2>2. a = q + 2
    <3>1. q + 2 \in Nat
      BY <1>6
    <3> QED
      BY <2>1, <3>1, BlankStops
  <2> QED
    BY <1>6, <2>2
<1>9. /\ c \in q + 7 .. Len(b) + 1 /\ c + 1 <= Len(b) /\ b[c] = "<" /\ b[c + 1] = "data"
  BY <1>8, TagSymbols DEF Blank
<1>10. ASSUME NEW k \in 7 .. 9, k + 1 <= n, q + k <= Len(b) PROVE b[q + k] = t[k + 1]
  <2>1. k \in Nat /\ q \in Nat
    BY <1>6
  <2>2. n \in Nat /\ Agrees(b, q, t, n) /\ Len(b) \in Nat
    BY <1>5, <1>6
  <2>3. k + 1 <= n /\ q + k <= Len(b)
    BY <1>10
  <2> QED
    BY ONLY <2>1, <2>2, <2>3, AgreesAt
<1>11. q + 7 <= Len(b)
  BY <1>6, <1>9
<1>12. CASE p = << >>
  <2>1. b[q + 7] = t[8] /\ t[8] = "</"
    BY <1>3, <1>5, <1>10, <1>11, <1>12 DEF IsEmpty
  <2>2. c = q + 7
    BY <1>8, <2>1, BlankStops DEF Space
  <2> QED
    BY <1>9, <2>1, <2>2
<1>13. CASE p # << >>
  <2>1. b[q + 7] = "<"
    BY <1>3, <1>5, <1>10, <1>11, <1>13 DEF Carries
  <2>2. c = q + 7
    BY <1>8, <2>1, BlankStops DEF Space
  <2>3. c + 1 = q + 8 /\ c + 2 = q + 9 /\ q + 9 <= Len(b) /\ e \in Nat
    BY <1>6, <2>2
  <2>4. b[q + 9] = ">" /\ b[q + 8] = "data"
    BY <1>3, <1>5, <1>9, <1>10, <1>13, <2>3 DEF Carries
  <2>5. e = q + 9
    <3> SUFFICES ASSUME e # q + 9 PROVE FALSE
      OBVIOUS
    <3>1. q + 9 \in c + 2 .. e - 1
      BY <1>6, <2>3
    <3> QED
      BY <2>4, <3>1 DEF NoTagEnd, TagEnds
  <2>6. ASSUME NEW x \in q .. e, At(b, x, DataClose) PROVE FALSE
    <3>1. b[x] = "</" /\ b[x + 1] = "data>"
      BY <2>6, TagSymbols
    <3>2. \/ x = q \/ x = q + 1 \/ x = q + 2 \/ x = q + 3 \/ x = q + 4 \/ x = q + 5 \/ x = q + 6
          \/ x = q + 7 \/ x = q + 8 \/ x = q + 9
      BY <1>6, <2>5
    <3>3. (q + 5) + 1 = q + 6
      BY <1>6
    <3>4. /\ b[q] = "<" /\ b[q + 1] = "item>" /\ b[q + 2] = "<" /\ b[q + 3] = "length>"
          /\ b[q + 4] \in Digits /\ b[q + 6] = "length>"
      <4>1. /\ q <= Len(b) /\ q + 1 <= Len(b) /\ q + 2 <= Len(b) /\ q + 3 <= Len(b)
            /\ q + 4 <= Len(b) /\ q + 6 <= Len(b)
        BY <1>6, <2>3
      <4> QED
        BY <1>3, <1>7, <4>1
    <3>5. b[x] # "</" \/ x = q + 5
      BY <2>1, <2>4, <3>2, <3>4 DEF Digits
    <3> QED
      BY <3>1, <3>3, <3>4, <3>5
  <2> QED
    BY <2>6
<1> QED
  BY <1>12, <1>13

\* An item that is in the text: one that is owed or one that was damaged.
Expected(b, q) ==
    Spoilt(b, q) \/ \E p \in Seq({"a", "b"}) : Agrees(b, q, Sent(p), Len(Sent(p)))

\* When the end of the data is waited for, it is not in the buffer.
LEMMA SearchedAll ==
    ASSUME NEW b \in Seq(Symbols), NEW q \in 1 .. Len(b), Expected(b, q),
           NEW r, ItemSays(b, q, r), "known" \in DOMAIN r
    PROVE  r.known = Len(b) + 1 - q /\ \A x \in q .. Len(b) : ~At(b, x, DataClose)
<1>1. PICK a : Blank(b, q + 2, a) /\ LengthSays(b, q, a, r)
  BY DEF ItemSays
<1>2. /\ "known" \notin DOMAIN Incomplete /\ "known" \notin DOMAIN Bad
      /\ \A x, y : "known" \notin DOMAIN [is |-> "item", payload |-> x, i |-> y]
  BY DEF Incomplete, Bad
<1>3. PICK c : Lengthed(b, a) /\ Blank(b, a + 5, c) /\ BodySays(b, q, c, r)
  BY <1>1, <1>2 DEF LengthSays, Fails
<1>4. PICK e \in c + 2 .. Len(b) :
        /\ At(b, c, DataOpen) /\ b[e] \in TagEnds /\ NoTagEnd(b, c + 2, e - 1)
        /\ DataSays(b, q, e + 1, r)
  BY <1>2, <1>3 DEF BodySays
<1>5. NoneFrom(b, e + 1, DataClose) /\ r = Unended(b, q)
  BY <1>2, <1>4 DEF DataSays, EndSays, Fails
<1>6. \A x \in q .. e : ~At(b, x, DataClose)
  <2>1. CASE Spoilt(b, q)
    <3>1. c = q + 7 /\ SpoiltData(b, q)
      BY <1>1, <1>3, <1>4, <2>1, SpoiltBody
    <3>2. e \in q + 9 .. Len(b) /\ NoTagEnd(b, q + 9, e - 1)
      <4>1. c + 2 = q + 9
        BY <3>1
      <4> QED
        BY <1>4, <4>1
    <3> QED
      BY <1>4, <3>1, <3>2, SpoiltEnds
  <2>2. CASE \E p \in Seq({"a", "b"}) : Agrees(b, q, Sent(p), Len(Sent(p)))
    BY <1>1, <1>3, <1>4, <2>2, OwedBody
  <2> QED
    BY <2>1, <2>2 DEF Expected
<1>7. \A x \in q .. Len(b) : x \in q .. e \/ x \in e + 1 .. Len(b)
  BY <1>4
<1> QED
  BY <1>5, <1>6, <1>7 DEF NoneFrom, Unended

----
(* The parser: what is owed stands in the text that is to be parsed *)

\* The first symbols of a text stand at a place.
ReadsTo(b, q, t, n) == q + n <= Len(b) + 1 /\ \A i \in 1 .. n : b[q + i - 1] = t[i]

Doomed(b, q) ==
    \/ \E n \in 2 .. 14 : ReadsTo(b, q, Cut, n) /\ Frames(b, q + n)
    \/ ReadsTo(b, q, Garbled, 15)
    \/ ReadsTo(b, q, Huge, 15)

\* The items that are owed stand after a place, in order and apart; whatever else
\* there begins like an item was damaged.
Marks(s, b, p, o) ==
    /\ \A i \in 1 .. Len(o) : s[i] > p /\ ReadsTo(b, s[i], Sent(o[i]), Len(Sent(o[i])))
    /\ \A i, j \in 1 .. Len(o) : i < j => s[i] + Len(Sent(o[i])) <= s[j]
    /\ \A q \in p + 1 .. Len(b) :
         At(b, q, ItemOpen) => (\E i \in 1 .. Len(o) : s[i] = q) \/ Doomed(b, q)
Owes(b, p, o) == \E s \in [1 .. Len(o) -> Nat] : Marks(s, b, p, o)

\* A buffer that holds the beginning of a text.
Prefix(c, b) == Len(c) <= Len(b) /\ \A i \in 1 .. Len(c) : c[i] = b[i]

LEMMA PrefixAgrees ==
    ASSUME NEW b \in Seq(Symbols), NEW c \in Seq(Symbols), Prefix(c, b),
           NEW q \in Nat \ {0}, NEW t, NEW n \in Nat, ReadsTo(b, q, t, n)
    PROVE  Agrees(c, q, t, n)
<1> SUFFICES ASSUME NEW i \in 1 .. n, q + i - 1 <= Len(c) PROVE c[q + i - 1] = t[i]
  BY DEF Agrees
<1>1. q + i - 1 \in 1 .. Len(c)
  OBVIOUS
<1>2. c[q + i - 1] = b[q + i - 1]
  BY <1>1 DEF Prefix
<1> QED
  BY <1>2 DEF ReadsTo

LEMMA PrefixFrames ==
    ASSUME NEW b \in Seq(Symbols), NEW c \in Seq(Symbols), Prefix(c, b),
           NEW k \in Nat \ {0}, Frames(b, k)
    PROVE  Frames(c, k)
<1>1. Len(b) \in Nat /\ Len(c) \in Nat /\ Len(c) <= Len(b) /\ \A i \in 1 .. Len(c) : c[i] = b[i]
  BY DEF Prefix
<1>2. k <= Len(c) => c[k] \in {"<", "?", Space}
  <2> HAVE k <= Len(c)
  <2>1. k \in 1 .. Len(c) /\ k <= Len(b)
    BY <1>1
  <2> QED
    BY <1>1, <2>1 DEF Frames
<1>3. ASSUME NEW m \in k .. Len(c), \A z \in k .. m - 1 : c[z] = Space, c[m] # Space
      PROVE  c[m] \in {"<", "?"} /\ (m < Len(c) => c[m + 1] \notin {"length>", "data"})
  <2>1. m \in k .. Len(b) /\ m \in 1 .. Len(c) /\ m \in Nat
    BY <1>1
  <2>2. \A z \in k .. m - 1 : b[z] = Space
    <3> TAKE z \in k .. m - 1
    <3>1. z \in 1 .. Len(c)
      BY <1>1, <2>1
    <3> QED
      BY <1>1, <1>3, <3>1
  <2>3. b[m] = c[m]
    BY <1>1, <2>1
  <2>4. b[m] \in {"<", "?"} /\ (m < Len(b) => b[m + 1] \notin {"length>", "data"})
    BY <1>3, <2>1, <2>2, <2>3 DEF Frames
  <2>5. m < Len(c) => m < Len(b) /\ m + 1 \in 1 .. Len(c)
    BY <1>1, <2>1
  <2> QED
    BY <1>1, <2>3, <2>4, <2>5
<1>4. ASSUME NEW e \in k .. Len(c), At(c, e, DataClose)
      PROVE  \E h \in k .. e - 3 : c[h + 1] \in TagEnds /\ c[h + 2] = "<"
  <2>1. e + 1 <= Len(c) /\ c[e] = "</" /\ c[e + 1] = "data>"
    BY <1>4, TagSymbols
  <2>2. e \in 1 .. Len(c) /\ e + 1 \in 1 .. Len(c) /\ e \in k .. Len(b) /\ e + 1 <= Len(b) /\ e \in Nat
    BY <1>1, <2>1
  <2>3. At(b, e, DataClose)
    BY <1>1, <2>1, <2>2, TagSymbols
  <2>4. PICK h \in k .. e - 3 : b[h + 1] \in TagEnds /\ b[h + 2] = "<"
    BY <2>2, <2>3 DEF Frames
  <2>5. h + 1 \in 1 .. Len(c) /\ h + 2 \in 1 .. Len(c)
    BY <1>1, <2>2
  <2> QED
    BY <1>1, <2>4, <2>5
<1> QED
  BY <1>2, <1>3, <1>4 DEF Frames

LEMMA PrefixSpoilt ==
    ASSUME NEW b \in Seq(Symbols), NEW c \in Seq(Symbols), Prefix(c, b),
           NEW q \in Nat \ {0}, Doomed(b, q)
    PROVE  Spoilt(c, q)
<1>1. CASE \E n \in 2 .. 14 : ReadsTo(b, q, Cut, n) /\ Frames(b, q + n)
  <2>1. PICK n \in 2 .. 14 : ReadsTo(b, q, Cut, n) /\ Frames(b, q + n)
    BY <1>1
  <2>2. n \in Nat /\ q + n \in Nat \ {0}
    OBVIOUS
  <2>3. Agrees(c, q, Cut, n) /\ Frames(c, q + n)
    BY <2>1, <2>2, PrefixAgrees, PrefixFrames
  <2> QED
    BY <2>3 DEF Spoilt
<1>2. CASE ReadsTo(b, q, Garbled, 15)
  BY <1>2, PrefixAgrees DEF Spoilt
<1>3. CASE ReadsTo(b, q, Huge, 15)
  BY <1>3, PrefixAgrees DEF Spoilt
<1> QED
  BY <1>1, <1>2, <1>3 DEF Doomed

\* A text without its first symbols.
Shifted(b, d, c) ==
    /\ c \in Seq(Symbols) /\ d \in 0 .. Len(b) /\ Len(c) = Len(b) - d
    /\ \A i \in 1 .. Len(c) : c[i] = b[i + d]

LEMMA ShiftedAt ==
    ASSUME NEW b \in Seq(Symbols), NEW c, NEW d, Shifted(b, d, c), NEW i \in d + 1 .. Len(b)
    PROVE  i - d \in 1 .. Len(c) /\ c[i - d] = b[i]
<1>1. Len(b) \in Nat /\ d \in 0 .. Len(b) /\ Len(c) = Len(b) - d
  BY DEF Shifted
<1>2. i - d \in 1 .. Len(c) /\ (i - d) + d = i
  BY <1>1
<1> QED
  BY <1>2 DEF Shifted

LEMMA ShiftedReads ==
    ASSUME NEW b \in Seq(Symbols), NEW c, NEW d, Shifted(b, d, c),
           NEW q \in Nat, q > d, NEW t, NEW n \in Nat, ReadsTo(b, q, t, n)
    PROVE  ReadsTo(c, q - d, t, n)
<1>1. Len(b) \in Nat /\ d \in 0 .. Len(b) /\ Len(c) = Len(b) - d
  BY DEF Shifted
<1>2. (q - d) + n <= Len(c) + 1
  BY <1>1 DEF ReadsTo
<1>3. ASSUME NEW i \in 1 .. n PROVE c[(q - d) + i - 1] = t[i]
  <2>1. q + n <= Len(b) + 1 /\ b[q + i - 1] = t[i]
    BY DEF ReadsTo
  <2>2. q + i - 1 \in d + 1 .. Len(b) /\ (q + i - 1) - d = (q - d) + i - 1
    <3>1. i \in Nat /\ i >= 1 /\ i <= n /\ q \in Nat /\ d \in Nat /\ q + n \in Nat
      BY <1>1
    <3>2. q + i - 1 <= Len(b) /\ q + i - 1 >= d + 1
      BY <1>1, <2>1, <3>1
    <3> QED
      BY <1>1, <3>1, <3>2
  <2>3. c[(q + i - 1) - d] = b[q + i - 1]
    BY <2>2, ShiftedAt
  <2> QED
    BY <2>1, <2>2, <2>3
<1> QED
  BY <1>2, <1>3 DEF ReadsTo

\* A tag stands in what is left where it stood in the text.
LEMMA ShiftedTag ==
    ASSUME NEW b \in Seq(Symbols), NEW c, NEW d, Shifted(b, d, c),
           NEW i \in Nat \ {0}, NEW tag
    PROVE  At(c, i, tag) <=> At(b, i + d, tag)
<1>1. Len(b) \in Nat /\ d \in 0 .. Len(b) /\ Len(c) = Len(b) - d
  BY DEF Shifted
<1>2. i + 1 <= Len(c) <=> (i + d) + 1 <= Len(b)
  BY <1>1
<1>3. i + 1 <= Len(c) => c[i] = b[i + d] /\ c[i + 1] = b[(i + d) + 1]
  <2> HAVE i + 1 <= Len(c)
  <2>1. i \in 1 .. Len(c) /\ i + 1 \in 1 .. Len(c) /\ (i + 1) + d = (i + d) + 1
    BY <1>1
  <2> QED
    BY <2>1 DEF Shifted
<1> QED
  BY <1>2, <1>3 DEF At

LEMMA ShiftedFrames ==
    ASSUME NEW b \in Seq(Symbols), NEW c, NEW d, Shifted(b, d, c),
           NEW k \in Nat, k > d, Frames(b, k)
    PROVE  Frames(c, k - d)
<1>1. Len(b) \in Nat /\ d \in 0 .. Len(b) /\ d \in Nat /\ Len(c) = Len(b) - d /\ Len(c) \in Nat
      /\ \A i \in 1 .. Len(c) : c[i] = b[i + d]
  BY DEF Shifted
<1>2. k - d <= Len(c) => c[k - d] \in {"<", "?", Space}
  <2> HAVE k - d <= Len(c)
  <2>1. k - d \in 1 .. Len(c) /\ k <= Len(b) /\ (k - d) + d = k
    BY <1>1
  <2>2. c[k - d] = b[k]
    BY <1>1, <2>1
  <2> QED
    BY <2>1, <2>2 DEF Frames
<1>3. ASSUME NEW m \in k - d .. Len(c), \A z \in k - d .. m - 1 : c[z] = Space, c[m] # Space
      PROVE  c[m] \in {"<", "?"} /\ (m < Len(c) => c[m + 1] \notin {"length>", "data"})
  <2>1. m \in Nat /\ m \in 1 .. Len(c) /\ m + d \in k .. Len(b)
    BY <1>1
  <2>2. \A z \in k .. (m + d) - 1 : b[z] = Space
    <3> TAKE z \in k .. (m + d) - 1
    <3>1. z - d \in k - d .. m - 1 /\ z - d \in 1 .. Len(c) /\ (z - d) + d = z
      BY <1>1, <2>1
    <3> QED
      BY <1>1, <1>3, <3>1
  <2>3. b[m + d] = c[m]
    BY <1>1, <2>1
  <2>4. b[m + d] \in {"<", "?"} /\ (m + d < Len(b) => b[(m + d) + 1] \notin {"length>", "data"})
    BY <1>3, <2>1, <2>2, <2>3 DEF Frames
  <2>5. m < Len(c) => m + d < Len(b) /\ m + 1 \in 1 .. Len(c) /\ (m + 1) + d = (m + d) + 1
    BY <1>1, <2>1
  <2> QED
    BY <1>1, <2>3, <2>4, <2>5
<1>4. ASSUME NEW e \in k - d .. Len(c), At(c, e, DataClose)
      PROVE  \E h \in k - d .. e - 3 : c[h + 1] \in TagEnds /\ c[h + 2] = "<"
  <2>1. e \in Nat \ {0} /\ e + d \in k .. Len(b)
    BY <1>1
  <2>2. At(b, e + d, DataClose)
    BY <1>4, <2>1, ShiftedTag
  <2>3. PICK h \in k .. (e + d) - 3 : b[h + 1] \in TagEnds /\ b[h + 2] = "<"
    BY <2>1, <2>2 DEF Frames
  <2>4. /\ h - d \in k - d .. e - 3 /\ (h - d) + 1 \in 1 .. Len(c) /\ (h - d) + 2 \in 1 .. Len(c)
        /\ ((h - d) + 1) + d = h + 1 /\ ((h - d) + 2) + d = h + 2
    BY <1>1, <2>1
  <2>5. c[(h - d) + 1] = b[h + 1] /\ c[(h - d) + 2] = b[h + 2]
    BY <1>1, <2>4
  <2> QED
    BY <2>3, <2>4, <2>5
<1> QED
  BY <1>2, <1>3, <1>4 DEF Frames

LEMMA ShiftedDoomed ==
    ASSUME NEW b \in Seq(Symbols), NEW c, NEW d, Shifted(b, d, c),
           NEW q \in Nat, q > d, Doomed(b, q)
    PROVE  Doomed(c, q - d)
<1>0. d \in Nat
  BY DEF Shifted
<1>1. CASE \E n \in 2 .. 14 : ReadsTo(b, q, Cut, n) /\ Frames(b, q + n)
  <2>1. PICK n \in 2 .. 14 : ReadsTo(b, q, Cut, n) /\ Frames(b, q + n)
    BY <1>1
  <2>2. n \in Nat /\ q + n \in Nat /\ q + n > d /\ (q + n) - d = (q - d) + n
    BY <1>0
  <2>3. ReadsTo(c, q - d, Cut, n) /\ Frames(c, (q - d) + n)
    BY <2>1, <2>2, ShiftedReads, ShiftedFrames
  <2> QED
    BY <2>3 DEF Doomed
<1>2. CASE ReadsTo(b, q, Garbled, 15)
  BY <1>2, ShiftedReads DEF Doomed
<1>3. CASE ReadsTo(b, q, Huge, 15)
  BY <1>3, ShiftedReads DEF Doomed
<1> QED
  BY <1>1, <1>2, <1>3 DEF Doomed

\* Dropping what is before the place.
LEMMA ShiftedOwes ==
    ASSUME NEW b \in Seq(Symbols), NEW c, NEW d, Shifted(b, d, c), NEW p \in Nat, p >= d,
           NEW o \in Seq(Payloads), Owes(b, p, o)
    PROVE  Owes(c, p - d, o)
<1>0. d \in Nat /\ Len(o) \in Nat /\ Len(b) \in Nat /\ Len(c) = Len(b) - d
  BY DEF Shifted
<1>1. PICK s \in [1 .. Len(o) -> Nat] : Marks(s, b, p, o)
  BY DEF Owes
<1> DEFINE z == [i \in 1 .. Len(o) |-> s[i] - d]
<1>2. ASSUME NEW i \in 1 .. Len(o) PROVE s[i] \in Nat /\ s[i] > p /\ s[i] > d
  <2>1. s[i] \in Nat
    OBVIOUS
  <2>2. s[i] > p
    BY <1>1 DEF Marks
  <2> QED
    BY <1>0, <2>1, <2>2
<1>3. z \in [1 .. Len(o) -> Nat] /\ \A i \in 1 .. Len(o) : z[i] = s[i] - d
  BY <1>0, <1>2
<1> HIDE DEF z
<1>4. ASSUME NEW i \in 1 .. Len(o)
      PROVE  z[i] > p - d /\ ReadsTo(c, z[i], Sent(o[i]), Len(Sent(o[i])))
  <2>1. o[i] \in Seq({"a", "b"})
    BY PayloadsAssumption
  <2>2. Len(Sent(o[i])) \in Nat
    BY <2>1, SentParts
  <2>3. ReadsTo(b, s[i], Sent(o[i]), Len(Sent(o[i])))
    BY <1>1 DEF Marks
  <2>4. ReadsTo(c, s[i] - d, Sent(o[i]), Len(Sent(o[i])))
    BY <1>2, <2>2, <2>3, ShiftedReads
  <2> QED
    BY <1>0, <1>2, <1>3, <2>4
<1>5. ASSUME NEW i \in 1 .. Len(o), NEW j \in 1 .. Len(o), i < j
      PROVE  z[i] + Len(Sent(o[i])) <= z[j]
  <2>1. s[i] + Len(Sent(o[i])) <= s[j]
    BY <1>1, <1>5 DEF Marks
  <2>2. Len(Sent(o[i])) \in Nat
    BY PayloadsAssumption, SentParts
  <2>3. PICK m \in Nat : m = Len(Sent(o[i]))
    BY <2>2
  <2>4. s[i] \in Nat /\ s[j] \in Nat /\ s[i] + m <= s[j] /\ z[i] = s[i] - d /\ z[j] = s[j] - d
    BY <1>2, <1>3, <2>1, <2>3
  <2>5. z[i] + m <= z[j]
    <3>1. \A x, y \in Nat : x + m <= y => (x - d) + m <= y - d
      BY <1>0
    <3>2. (s[i] - d) + m <= s[j] - d
      BY <2>4, <3>1
    <3> QED
      BY <2>4, <3>2
  <2> QED
    BY <2>3, <2>5
<1>6. ASSUME NEW q \in (p - d) + 1 .. Len(c), At(c, q, ItemOpen)
      PROVE  (\E i \in 1 .. Len(o) : z[i] = q) \/ Doomed(c, q)
  <2>1. q \in Nat \ {0} /\ q + d \in p + 1 .. Len(b) /\ (q + d) - d = q /\ q + d \in Nat /\ q + d > d
    BY <1>0
  <2>2. At(b, q + d, ItemOpen)
    BY <1>6, <2>1, ShiftedTag
  <2>3. (\E i \in 1 .. Len(o) : s[i] = q + d) \/ Doomed(b, q + d)
    BY <1>1, <2>1, <2>2 DEF Marks
  <2>4. Doomed(b, q + d) => Doomed(c, q)
    BY <2>1, ShiftedDoomed
  <2> QED
    BY <1>3, <2>1, <2>3, <2>4
<1>7. Marks(z, c, p - d, o)
  BY <1>4, <1>5, <1>6 DEF Marks
<1> QED
  BY <1>3, <1>7 DEF Owes

\* What the writer writes, whole or damaged.
Framed(t) ==
    /\ t \in Seq(Symbols) /\ Len(t) >= 1 /\ t[1] \in {"<", "?", Space}
    /\ Len(t) >= 2 => t[1] = "<" /\ t[2] = "item>"
    /\ \A x \in 1 .. Len(t) : At(t, x, ItemOpen) => x = 1
    /\ \A x \in 1 .. Len(t) : At(t, x, DataClose) => x >= 9 /\ t[7] \in TagEnds /\ t[8] = "<"

LEMMA FramedSent ==
    ASSUME NEW p \in Seq({"a", "b"})
    PROVE  Framed(Sent(p))
<1>1. PICK t : t = Sent(p)
  OBVIOUS
<1>2. PICK l : l = LengthOf(p)
  OBVIOUS
<1>3. /\ t \in Seq(Symbols) /\ Opens(t, l) /\ l \in Digits
      /\ p = << >> => IsEmpty(t)
      /\ p # << >> => Carries(t, Wrapped(p), Len(Wrapped(p)))
  BY <1>1, <1>2, SentParts
<1>4. /\ t[1] = "<" /\ t[2] = "item>" /\ t[3] = "<" /\ t[4] = "length>" /\ t[5] \in Digits
      /\ t[6] = "</" /\ t[7] = "length>"
  BY <1>3 DEF Opens
<1>5. "length>" \in TagEnds
  BY DEF TagEnds
<1>6. CASE p = << >>
  <2>1. Len(t) = 9 /\ t[8] = "</" /\ t[9] = "item>"
    BY <1>3, <1>6 DEF IsEmpty
  <2>2. ASSUME NEW x \in 1 .. Len(t)
        PROVE  (At(t, x, ItemOpen) => x = 1) /\ ~At(t, x, DataClose)
    <3>1. x = 1 \/ x = 2 \/ x = 3 \/ x = 4 \/ x = 5 \/ x = 6 \/ x = 7 \/ x = 8 \/ x = 9
      BY <2>1
    <3> QED
      BY <1>4, <2>1, <3>1, TagSymbols DEF Digits
  <2>3. Framed(t)
    BY <1>3, <1>4, <2>1, <2>2 DEF Framed
  <2> QED
    BY <1>1, <2>3
<1>7. CASE p # << >>
  <2>1. PICK w : w = Len(Wrapped(p))
    OBVIOUS
  <2>2. w \in Nat
    BY <2>1, WrappedParts
  <2>3. /\ Len(t) = 14 + w /\ t[8] = "<" /\ t[9] = "data" /\ t[10] = ">"
        /\ \A i \in 1 .. w : t[10 + i] = Wrapped(p)[i]
        /\ t[11 + w] = "</" /\ t[12 + w] = "data>" /\ t[13 + w] = "</" /\ t[14 + w] = "item>"
    BY <1>3, <1>7, <2>1 DEF Carries
  <2>4. \A i \in 1 .. w : Wrapped(p)[i] \in {"a", "b", Space}
    BY <2>1, WrappedSymbols
  <2>5. ASSUME NEW x \in 11 .. 10 + w PROVE t[x] \in {"a", "b", Space}
    <3>1. x - 10 \in 1 .. w /\ 10 + (x - 10) = x
      BY <2>2
    <3> QED
      BY <2>3, <2>4, <3>1
  <2>6. ASSUME NEW x \in 1 .. Len(t)
        PROVE  (At(t, x, ItemOpen) => x = 1) /\ (At(t, x, DataClose) => x >= 9)
    <3>1. \/ x = 1 \/ x = 2 \/ x = 3 \/ x = 4 \/ x = 5 \/ x = 6 \/ x = 7 \/ x = 8 \/ x = 9 \/ x = 10
          \/ x \in 11 .. 10 + w \/ x = 11 + w \/ x = 12 + w \/ x = 13 + w \/ x = 14 + w
      BY <2>2, <2>3
    <3>2. x >= 9 => t[x] # "<"
      BY <2>3, <2>5, <3>1 DEF Space
    <3>3. x < 9 => x \in 1 .. 8
      OBVIOUS
    <3>4. ASSUME x \in 1 .. 8 PROVE (At(t, x, ItemOpen) => x = 1) /\ ~At(t, x, DataClose)
      <4>1. x = 1 \/ x = 2 \/ x = 3 \/ x = 4 \/ x = 5 \/ x = 6 \/ x = 7 \/ x = 8
        BY <3>4
      <4>2. t[1] = "<" /\ t[2] = "item>" /\ t[3] = "<" /\ t[4] = "length>" /\ t[6] = "</"
            /\ t[7] = "length>" /\ t[8] = "<" /\ t[9] = "data"
        BY <1>4, <2>3
      <4>3. t[5] # "<" /\ t[5] # "</"
        BY <1>4 DEF Digits
      <4>4. CASE x = 1 \/ x = 2 \/ x = 3 \/ x = 4
        BY <4>2, <4>4, TagSymbols
      <4>5. CASE x = 5 \/ x = 6 \/ x = 7 \/ x = 8
        BY <4>2, <4>3, <4>5, TagSymbols
      <4> QED
        BY <4>1, <4>4, <4>5
    <3> QED
      BY <3>2, <3>3, <3>4, TagSymbols
  <2>7. Len(t) >= 1
    BY <2>2, <2>3
  <2>8. Framed(t)
    BY <1>3, <1>4, <1>5, <2>3, <2>6, <2>7 DEF Framed
  <2> QED
    BY <1>1, <2>8
<1> QED
  BY <1>6, <1>7

LEMMA FramedSingle ==
    ASSUME NEW t, NEW l \in {"1", "big"}, NEW x \in {"a", "!"}, Single(t, l, x)
    PROVE  Framed(t)
<1>1. /\ t[1] = "<" /\ t[2] = "item>" /\ t[3] = "<" /\ t[4] = "length>" /\ t[5] \in {"1", "big"}
      /\ t[6] = "</" /\ t[7] = "length>"
      /\ t[8] = "<" /\ t[9] = "data" /\ t[10] = ">" /\ t[11] \in {"a", "!"}
      /\ t[12] = "</" /\ t[13] = "data>" /\ t[14] = "</" /\ t[15] = "item>"
      /\ Len(t) = 15 /\ t \in Seq(Symbols) /\ "length>" \in TagEnds
  BY DEF Single, Opens, TagEnds
<1>2. ASSUME NEW y \in 1 .. Len(t)
      PROVE  (At(t, y, ItemOpen) => y = 1) /\ (At(t, y, DataClose) => y >= 9)
  <2>1. \/ y = 1 \/ y = 2 \/ y = 3 \/ y = 4 \/ y = 5 \/ y = 6 \/ y = 7 \/ y = 8 \/ y = 9 \/ y = 10
        \/ y = 11 \/ y = 12 \/ y = 13 \/ y = 14 \/ y = 15
    BY <1>1
  <2>2. At(t, y, ItemOpen) => y = 1
    BY <1>1, <2>1, TagSymbols
  <2>3. At(t, y, DataClose) => y >= 9
    BY <1>1, <2>1, TagSymbols
  <2> QED
    BY <2>2, <2>3
<1> QED
  BY <1>1, <1>2 DEF Framed

\* What is left of a frame that is cut short.
LEMMA FramedPart ==
    ASSUME NEW t, Framed(t), NEW u \in Seq(Symbols), Prefix(u, t), Len(u) >= 1
    PROVE  Framed(u)
<1>1. t \in Seq(Symbols) /\ Len(t) \in Nat /\ Len(u) \in Nat /\ Len(u) <= Len(t)
      /\ \A i \in 1 .. Len(u) : u[i] = t[i]
  BY DEF Framed, Prefix
<1>2. u[1] = t[1] /\ (Len(u) >= 2 => u[2] = t[2]) /\ (Len(u) >= 2 => Len(t) >= 2)
  BY <1>1
<1>3. ASSUME NEW x \in 1 .. Len(u), NEW tag, At(u, x, tag) PROVE x \in 1 .. Len(t) /\ At(t, x, tag)
  <2>1. x + 1 <= Len(u) /\ x + 1 \in 1 .. Len(u) /\ x + 1 <= Len(t)
    BY <1>1, <1>3 DEF At
  <2> QED
    BY <1>1, <1>3, <2>1 DEF At
<1>4. ASSUME NEW x \in 1 .. Len(u), At(u, x, DataClose)
      PROVE  x >= 9 /\ u[7] \in TagEnds /\ u[8] = "<"
  <2>1. x >= 9 /\ t[7] \in TagEnds /\ t[8] = "<"
    BY <1>3, <1>4 DEF Framed
  <2>2. 7 \in 1 .. Len(u) /\ 8 \in 1 .. Len(u)
    BY <1>1, <2>1
  <2> QED
    BY <1>1, <2>1, <2>2
<1>5. \A x \in 1 .. Len(u) : At(u, x, ItemOpen) => x = 1
  BY <1>3 DEF Framed
<1> QED
  BY <1>2, <1>4, <1>5 DEF Framed

\* A text that is added leaves what is there.
LEMMA AddedReads ==
    ASSUME NEW b \in Seq(Symbols), NEW t \in Seq(Symbols), NEW c, Joins(c, b, Len(b), t, Len(t)),
           NEW q \in Nat \ {0}, NEW u, NEW n \in Nat, ReadsTo(b, q, u, n)
    PROVE  ReadsTo(c, q, u, n)
<1>1. Len(c) = Len(b) + Len(t) /\ Len(b) \in Nat /\ Len(t) \in Nat
      /\ \A i \in 1 .. Len(b) : c[i] = b[i]
  BY DEF Joins
<1>2. q + n <= Len(b) + 1 /\ \A i \in 1 .. n : b[q + i - 1] = u[i]
  BY DEF ReadsTo
<1>3. \A i \in 1 .. n : q + i - 1 \in 1 .. Len(b)
  BY <1>1, <1>2
<1>4. q + n <= Len(c) + 1
  BY <1>1, <1>2
<1> QED
  BY <1>1, <1>2, <1>3, <1>4 DEF ReadsTo

\* Where a tag stands in a text to which a frame was added.
LEMMA AddedTag ==
    ASSUME NEW b \in Seq(Symbols), NEW t, Framed(t), NEW c, Joins(c, b, Len(b), t, Len(t)),
           NEW i \in 1 .. Len(c), NEW tag \in {ItemOpen, DataClose}, At(c, i, tag)
    PROVE  \/ i \in 1 .. Len(b) /\ At(b, i, tag)
           \/ i - Len(b) \in 1 .. Len(t) /\ At(t, i - Len(b), tag)
<1>1. /\ Len(c) = Len(b) + Len(t) /\ Len(b) \in Nat /\ Len(t) \in Nat
      /\ \A j \in 1 .. Len(b) : c[j] = b[j]
      /\ \A j \in 1 .. Len(t) : c[Len(b) + j] = t[j]
  BY DEF Joins, Framed
<1>2. i + 1 <= Len(c) /\ c[i] = tag[1] /\ c[i + 1] = tag[2]
  BY DEF At
<1>3. tag[2] \in {"item>", "data>"}
  BY TagParts
<1>4. t[1] \in {"<", "?", Space} /\ Len(t) >= 1
  BY DEF Framed
<1>5. CASE i + 1 <= Len(b)
  <2>1. i \in 1 .. Len(b) /\ i + 1 \in 1 .. Len(b)
    BY <1>1, <1>5
  <2> QED
    BY <1>1, <1>2, <1>5, <2>1 DEF At
<1>6. CASE i = Len(b)
  <2>1. c[i + 1] = t[1]
    BY <1>1, <1>4, <1>6
  <2> QED
    BY <1>2, <1>3, <1>4, <2>1 DEF Space
<1>7. CASE i > Len(b)
  <2>1. PICK j : j = i - Len(b)
    OBVIOUS
  <2>2. j \in 1 .. Len(t) /\ j + 1 \in 1 .. Len(t) /\ Len(b) + j = i /\ Len(b) + (j + 1) = i + 1
        /\ j + 1 <= Len(t)
    BY <1>1, <1>2, <1>7, <2>1
  <2>3. t[j] = tag[1] /\ t[j + 1] = tag[2]
    BY <1>1, <1>2, <2>2
  <2> QED
    BY <2>1, <2>2, <2>3 DEF At
<1> QED
  BY <1>1, <1>5, <1>6, <1>7

LEMMA AddedFrames ==
    ASSUME NEW b \in Seq(Symbols), NEW t, Framed(t), NEW c, Joins(c, b, Len(b), t, Len(t)),
           NEW k \in 1 .. Len(b) + 1, Frames(b, k)
    PROVE  Frames(c, k)
<1>1. /\ Len(c) = Len(b) + Len(t) /\ Len(b) \in Nat /\ Len(t) \in Nat
      /\ \A j \in 1 .. Len(b) : c[j] = b[j]
      /\ \A j \in 1 .. Len(t) : c[Len(b) + j] = t[j]
  BY DEF Joins, Framed
<1>2. t[1] \in {"<", "?", Space} /\ Len(t) >= 1 /\ (Len(t) >= 2 => t[1] = "<" /\ t[2] = "item>")
  BY DEF Framed
<1>3. c[Len(b) + 1] = t[1] /\ (Len(t) >= 2 => c[Len(b) + 2] = t[2])
  BY <1>1, <1>2
<1>4. c[k] \in {"<", "?", Space}
  <2>1. CASE k <= Len(b)
    BY <1>1, <2>1 DEF Frames
  <2>2. CASE k = Len(b) + 1
    BY <1>2, <1>3, <2>2
  <2> QED
    BY <1>1, <2>1, <2>2
<1>5. ASSUME NEW m \in k .. Len(c), \A z \in k .. m - 1 : c[z] = Space, c[m] # Space
      PROVE  c[m] \in {"<", "?"} /\ (m < Len(c) => c[m + 1] \notin {"length>", "data"})
  <2>1. CASE m <= Len(b)
    <3>1. m \in k .. Len(b) /\ m \in 1 .. Len(b) /\ c[m] = b[m]
      BY <1>1, <2>1
    <3>2. \A z \in k .. m - 1 : b[z] = Space
      <4> TAKE z \in k .. m - 1
      <4>1. z \in 1 .. Len(b)
        BY <1>1, <3>1
      <4> QED
        BY <1>1, <1>5, <4>1
    <3>3. b[m] \in {"<", "?"} /\ (m < Len(b) => b[m + 1] \notin {"length>", "data"})
      BY <1>5, <3>1, <3>2 DEF Frames
    <3>4. CASE m < Len(b)
      <4>1. m + 1 \in 1 .. Len(b)
        BY <1>1, <3>1, <3>4
      <4> QED
        BY <1>1, <3>1, <3>3, <3>4, <4>1
    <3>5. CASE m = Len(b)
      <4>1. c[m + 1] = t[1]
        BY <1>3, <3>5
      <4> QED
        BY <1>2, <3>1, <3>3, <4>1 DEF Space
    <3> QED
      BY <1>1, <2>1, <3>4, <3>5
  <2>2. CASE m = Len(b) + 1
    <3>1. c[m] \in {"<", "?"}
      BY <1>2, <1>3, <1>5, <2>2
    <3>2. m < Len(c) => c[m + 1] = "item>"
      <4>1. m < Len(c) => Len(t) >= 2 /\ m + 1 = Len(b) + 2
        BY <1>1, <2>2
      <4> QED
        BY <1>2, <1>3, <4>1
    <3> QED
      BY <3>1, <3>2
  <2>3. CASE m > Len(b) + 1
    <3>1. Len(b) + 1 \in k .. m - 1 /\ Len(t) >= 2
      BY <1>1, <2>3
    <3>2. c[Len(b) + 1] = Space
      BY <1>5, <3>1
    <3> QED
      BY <1>2, <1>3, <3>1, <3>2 DEF Space
  <2> QED
    BY <1>1, <2>1, <2>2, <2>3
<1>6. ASSUME NEW e \in k .. Len(c), At(c, e, DataClose)
      PROVE  \E h \in k .. e - 3 : c[h + 1] \in TagEnds /\ c[h + 2] = "<"
  <2>1. e \in 1 .. Len(c)
    BY <1>1
  <2>2. CASE e \in 1 .. Len(b) /\ At(b, e, DataClose)
    <3>1. e \in k .. Len(b)
      BY <2>2
    <3>2. PICK h \in k .. e - 3 : b[h + 1] \in TagEnds /\ b[h + 2] = "<"
      BY <2>2, <3>1 DEF Frames
    <3>3. h + 1 \in 1 .. Len(b) /\ h + 2 \in 1 .. Len(b)
      BY <1>1, <2>2
    <3> QED
      BY <1>1, <3>2, <3>3
  <2>3. CASE e - Len(b) \in 1 .. Len(t) /\ At(t, e - Len(b), DataClose)
    <3>1. e - Len(b) >= 9 /\ t[7] \in TagEnds /\ t[8] = "<"
      BY <2>3 DEF Framed
    <3>2. PICK h : h = Len(b) + 6
      OBVIOUS
    <3>3. h \in k .. e - 3 /\ h + 1 = Len(b) + 7 /\ h + 2 = Len(b) + 8 /\ 7 \in 1 .. Len(t) /\ 8 \in 1 .. Len(t)
      BY <1>1, <2>1, <2>3, <3>1, <3>2
    <3>4. c[h + 1] = t[7] /\ c[h + 2] = t[8]
      BY <1>1, <3>3
    <3> QED
      BY <3>1, <3>3, <3>4
  <2> QED
    BY <1>6, <2>1, <2>2, <2>3, AddedTag
<1> QED
  BY <1>4, <1>5, <1>6 DEF Frames

LEMMA AddedDoomed ==
    ASSUME NEW b \in Seq(Symbols), NEW t, Framed(t), NEW c, Joins(c, b, Len(b), t, Len(t)),
           NEW q \in Nat \ {0}, Doomed(b, q)
    PROVE  Doomed(c, q)
<1>0. t \in Seq(Symbols)
  BY DEF Framed
<1>1. CASE \E n \in 2 .. 14 : ReadsTo(b, q, Cut, n) /\ Frames(b, q + n)
  <2>1. PICK n \in 2 .. 14 : ReadsTo(b, q, Cut, n) /\ Frames(b, q + n)
    BY <1>1
  <2>2. n \in Nat /\ q + n \in 1 .. Len(b) + 1
    BY <2>1 DEF ReadsTo
  <2>3. ReadsTo(c, q, Cut, n) /\ Frames(c, q + n)
    BY <1>0, <2>1, <2>2, AddedReads, AddedFrames
  <2> QED
    BY <2>3 DEF Doomed
<1>2. CASE ReadsTo(b, q, Garbled, 15)
  BY <1>0, <1>2, AddedReads DEF Doomed
<1>3. CASE ReadsTo(b, q, Huge, 15)
  BY <1>0, <1>3, AddedReads DEF Doomed
<1> QED
  BY <1>1, <1>2, <1>3 DEF Doomed

\* What is left of an item that is not owed.
Spoils(t) ==
    Len(t) >= 2 =>
      \/ \E n \in 2 .. 14 : Len(t) = n /\ \A i \in 1 .. n : t[i] = Cut[i]
      \/ t = Garbled
      \/ t = Huge

LEMMA AddedSpoils ==
    ASSUME NEW b \in Seq(Symbols), NEW t \in Seq(Symbols), NEW c, Joins(c, b, Len(b), t, Len(t)),
           Spoils(t), Len(t) >= 2
    PROVE  Doomed(c, Len(b) + 1)
<1>1. /\ Len(c) = Len(b) + Len(t) /\ Len(b) \in Nat /\ Len(t) \in Nat
      /\ \A j \in 1 .. Len(t) : c[Len(b) + j] = t[j]
  BY DEF Joins
<1>2. PICK q : q = Len(b) + 1
  OBVIOUS
<1>3. \A i \in 1 .. Len(t) : c[q + i - 1] = t[i]
  <2> TAKE i \in 1 .. Len(t)
  <2>1. q + i - 1 = Len(b) + i
    BY <1>1, <1>2
  <2> QED
    BY <1>1, <2>1
<1>4. q + Len(t) = Len(c) + 1
  BY <1>1, <1>2
<1>5. CASE \E n \in 2 .. 14 : Len(t) = n /\ \A i \in 1 .. n : t[i] = Cut[i]
  <2>1. PICK n \in 2 .. 14 : Len(t) = n /\ \A i \in 1 .. n : t[i] = Cut[i]
    BY <1>5
  <2>2. ReadsTo(c, q, Cut, n)
    BY <1>1, <1>3, <1>4, <2>1 DEF ReadsTo
  <2>3. Frames(c, q + n)
    <3>1. q + n = Len(c) + 1 /\ Len(c) \in Nat
      BY <1>1, <1>4, <2>1
    <3>2. ~(q + n <= Len(c)) /\ \A m \in q + n .. Len(c) : FALSE
      BY <3>1
    <3> QED
      BY <3>2 DEF Frames
  <2> QED
    BY <1>2, <2>2, <2>3 DEF Doomed
<1>6. CASE t = Garbled
  <2>1. Len(t) = 15
    BY <1>6, DamagedParts DEF Single
  <2>2. ReadsTo(c, q, Garbled, 15)
    BY <1>1, <1>3, <1>4, <1>6, <2>1 DEF ReadsTo
  <2> QED
    BY <1>2, <2>2 DEF Doomed
<1>7. CASE t = Huge
  <2>1. Len(t) = 15
    BY <1>7, DamagedParts DEF Single
  <2>2. ReadsTo(c, q, Huge, 15)
    BY <1>1, <1>3, <1>4, <1>7, <2>1 DEF ReadsTo
  <2> QED
    BY <1>2, <2>2 DEF Doomed
<1> QED
  BY <1>5, <1>6, <1>7 DEF Spoils

\* A frame is an item that is owed, or something that is not and spoils nothing else.
Writes(t, o) ==
    \/ \E p \in Payloads : t = Sent(p) /\ o = <<p>>
    \/ o = << >> /\ Spoils(t)

LEMMA FrameFacts ==
    ASSUME NEW frame \in Good \cup Damaged
    PROVE  Framed(frame.text) /\ Writes(frame.text, frame.owes)
<1>1. ASSUME NEW p \in Payloads, frame = [text |-> Item(LengthOf(p), p), owes |-> <<p>>]
      PROVE  Framed(frame.text) /\ Writes(frame.text, frame.owes)
  <2>1. frame.text = Sent(p) /\ frame.owes = <<p>>
    BY <1>1 DEF Sent
  <2>2. p \in Seq({"a", "b"})
    BY PayloadsAssumption
  <2>3. Framed(Sent(p))
    BY <2>2, FramedSent
  <2> QED
    BY <2>1, <2>3 DEF Writes
<1>2. ASSUME NEW t, frame = [text |-> t, owes |-> << >>]
      PROVE  frame.text = t /\ (Spoils(t) => Writes(frame.text, frame.owes))
  BY <1>2 DEF Writes
<1>3. ASSUME NEW t, t = Garbled \/ t = Huge PROVE Framed(t) /\ Spoils(t)
  <2>1. Framed(t)
    <3>1. Framed(Garbled)
      BY DamagedParts, FramedSingle
    <3>2. Framed(Huge)
      BY DamagedParts, FramedSingle
    <3> QED
      BY <1>3, <3>1, <3>2
  <2> QED
    BY <1>3, <2>1 DEF Spoils
<1>4. ASSUME NEW x \in {"?", Space} PROVE Framed(<<x>>) /\ Spoils(<<x>>)
  <2>1. PICK t : t = <<x>>
    OBVIOUS
  <2>2. t \in Seq(Symbols) /\ Len(t) = 1 /\ t[1] = x
    <3>1. x \in Symbols
      BY DEF Symbols
    <3> QED
      BY <2>1, <3>1, OneSymbol
  <2>3. \A y \in 1 .. Len(t) : ~At(t, y, DataClose)
    BY <2>2 DEF At
  <2>4. \A y \in 1 .. Len(t) : y = 1
    BY <2>2
  <2>5. Framed(t)
    BY <2>2, <2>3, <2>4 DEF Framed
  <2>6. Spoils(t)
    BY <2>2 DEF Spoils
  <2> QED
    BY <2>1, <2>5, <2>6
<1>5. ASSUME NEW n \in 1 .. Len(Cut) - 1 PROVE Framed(SubSeq(Cut, 1, n)) /\ Spoils(SubSeq(Cut, 1, n))
  <2>1. Cut \in Seq(Symbols) /\ Len(Cut) = 15 /\ Framed(Cut)
    BY DamagedParts, FramedSingle DEF Single
  <2>2. n \in 1 .. 14 /\ \A i \in 1 .. n : Cut[i] \in Symbols
    <3>1. n \in 1 .. 14
      BY <2>1
    <3>2. \A i \in 1 .. n : i \in 1 .. 15
      BY <3>1
    <3>3. \A i \in 1 .. 15 : Cut[i] \in Symbols
      <4>1. PICK u : u = Cut
        OBVIOUS
      <4>2. u \in Seq(Symbols) /\ Len(u) = 15
        BY <2>1, <4>1
      <4>3. \A i \in 1 .. Len(u) : u[i] \in Symbols
        BY <4>2, ElementOfSeq
      <4> QED
        BY <4>1, <4>2, <4>3
    <3> QED
      BY <3>1, <3>2, <3>3
  <2>3. PICK u : u = SubSeq(Cut, 1, n)
    OBVIOUS
  <2>4. /\ SubSeq(Cut, 1, n) \in Seq(Symbols)
        /\ Len(SubSeq(Cut, 1, n)) = IF 1 <= n THEN n - 1 + 1 ELSE 0
        /\ \A i \in 1 .. n - 1 + 1 : SubSeq(Cut, 1, n)[i] = Cut[1 + i - 1]
    BY <2>2, SubSeqProperties
  <2>5. u \in Seq(Symbols) /\ Len(u) = n /\ \A i \in 1 .. n : u[i] = Cut[i]
    <3>1. n - 1 + 1 = n /\ 1 <= n /\ \A i \in 1 .. n : 1 + i - 1 = i
      BY <2>2
    <3> QED
      BY <2>3, <2>4, <3>1
  <2>6. Prefix(u, Cut) /\ Len(u) >= 1
    BY <2>1, <2>2, <2>5 DEF Prefix
  <2>7. Framed(u)
    BY <2>1, <2>5, <2>6, FramedPart
  <2>8. Spoils(u)
    BY <2>2, <2>5 DEF Spoils
  <2> QED
    BY <2>3, <2>7, <2>8
<1>6. CASE frame \in Good
  BY <1>1, <1>6 DEF Good
<1>7. CASE frame \in Damaged
  <2>1. \/ \E n \in 1 .. Len(Cut) - 1 : frame = [text |-> SubSeq(Cut, 1, n), owes |-> << >>]
        \/ \E t \in {Garbled, Huge, <<"?">>, <<Space>>} : frame = [text |-> t, owes |-> << >>]
    BY <1>7 DEF Damaged, Cut, Garbled, Huge
  <2>2. CASE \E n \in 1 .. Len(Cut) - 1 : frame = [text |-> SubSeq(Cut, 1, n), owes |-> << >>]
    BY <1>2, <1>5, <2>2
  <2>3. CASE \E t \in {Garbled, Huge, <<"?">>, <<Space>>} : frame = [text |-> t, owes |-> << >>]
    BY <1>2, <1>3, <1>4, <2>3
  <2> QED
    BY <2>1, <2>2, <2>3
<1> QED
  BY <1>6, <1>7

\* The length of what is owed.
LEMMA SentLength ==
    ASSUME NEW p \in Payloads
    PROVE  /\ p \in Seq({"a", "b"}) /\ Sent(p) \in Seq(Symbols)
           /\ Len(Sent(p)) \in Nat /\ Len(Sent(p)) >= 9 /\ Len(Sent(p)) <= MaxBuffer
           /\ Opens(Sent(p), LengthOf(p))
<1>1. p \in Seq({"a", "b"})
  BY PayloadsAssumption
<1>2. PICK t : t = Sent(p)
  OBVIOUS
<1>3. /\ t \in Seq(Symbols) /\ Opens(t, LengthOf(p))
      /\ p = << >> => IsEmpty(t)
      /\ p # << >> => Carries(t, Wrapped(p), Len(Wrapped(p)))
  BY <1>1, <1>2, SentParts
<1>4. Len(t) >= 9
  <2>1. CASE p = << >>
    <3>1. Len(t) = 9
      BY <1>3, <2>1 DEF IsEmpty
    <3> QED
      BY <3>1
  <2>2. CASE p # << >>
    <3>1. PICK w : w = Len(Wrapped(p))
      OBVIOUS
    <3>2. w \in Nat
      BY <1>1, <3>1, WrappedParts
    <3>3. Len(t) = 14 + w
      BY <1>3, <2>2, <3>1 DEF Carries
    <3> QED
      BY <3>2, <3>3
  <2> QED
    BY <2>1, <2>2
<1>5. Len(t) <= MaxBuffer
  BY <1>2, FitAssumption DEF Sent
<1> QED
  BY <1>1, <1>2, <1>3, <1>4, <1>5

\* Where an owed item stands, an item begins.
LEMMA OwedPlace ==
    ASSUME NEW b \in Seq(Symbols), NEW q \in Nat, NEW p \in Payloads,
           ReadsTo(b, q, Sent(p), Len(Sent(p)))
    PROVE  /\ q + 9 <= Len(b) + 1 /\ At(b, q, ItemOpen)
           /\ b[q] = "<" /\ b[q + 1] = "item>" /\ At(b, q + 5, LengthClose)
<1>1. PICK t : t = Sent(p)
  OBVIOUS
<1>2. Len(t) \in Nat /\ Len(t) >= 9 /\ Opens(t, LengthOf(p))
  BY <1>1, SentLength
<1>3. q + Len(t) <= Len(b) + 1 /\ \A i \in 1 .. Len(t) : b[q + i - 1] = t[i]
  BY <1>1 DEF ReadsTo
<1>4. 1 \in 1 .. Len(t) /\ 2 \in 1 .. Len(t) /\ 6 \in 1 .. Len(t) /\ 7 \in 1 .. Len(t)
  BY <1>2
<1>5. /\ b[q + 1 - 1] = t[1] /\ b[q + 2 - 1] = t[2] /\ b[q + 6 - 1] = t[6] /\ b[q + 7 - 1] = t[7]
  BY <1>3, <1>4
<1>6. /\ q + 1 - 1 = q /\ q + 2 - 1 = q + 1 /\ q + 6 - 1 = q + 5 /\ q + 7 - 1 = (q + 5) + 1
      /\ q + 9 <= Len(b) + 1 /\ q + 1 <= Len(b) /\ (q + 5) + 1 <= Len(b)
  BY <1>2, <1>3
<1>7. b[q] = "<" /\ b[q + 1] = "item>" /\ b[q + 5] = "</" /\ b[(q + 5) + 1] = "length>"
  BY <1>2, <1>5, <1>6 DEF Opens
<1> QED
  BY <1>6, <1>7, TagSymbols

\* The parser may go on to any place that is before what is owed.
LEMMA AdvancedOwes ==
    ASSUME NEW b \in Seq(Symbols), NEW p \in Nat, NEW to \in Nat, p <= to,
           NEW o \in Seq(Payloads), NEW s \in [1 .. Len(o) -> Nat], Marks(s, b, p, o),
           \A i \in 1 .. Len(o) : s[i] > to
    PROVE  Owes(b, to, o)
<1>1. \A q \in to + 1 .. Len(b) : q \in p + 1 .. Len(b)
  OBVIOUS
<1>2. Marks(s, b, to, o)
  BY <1>1 DEF Marks
<1> QED
  BY <1>2 DEF Owes

\* It may go on to any place before which no item begins in the buffer.
LEMMA OwedBehind ==
    ASSUME NEW b \in Seq(Symbols), NEW c \in Seq(Symbols), Prefix(c, b),
           NEW p \in Nat, NEW to \in Nat, p <= to, to + 1 <= Len(c),
           \A q \in p + 1 .. to : ~At(c, q, ItemOpen),
           NEW o \in Seq(Payloads), NEW s \in [1 .. Len(o) -> Nat], Marks(s, b, p, o)
    PROVE  \A i \in 1 .. Len(o) : s[i] > to
<1> TAKE i \in 1 .. Len(o)
<1>1. o[i] \in Payloads /\ s[i] \in Nat
  BY ElementOfSeq
<1>2. s[i] > p /\ ReadsTo(b, s[i], Sent(o[i]), Len(Sent(o[i])))
  BY DEF Marks
<1>3. b[s[i]] = "<" /\ b[s[i] + 1] = "item>"
  BY <1>1, <1>2, OwedPlace
<1>4. ASSUME s[i] <= to PROVE FALSE
  <2>1. PICK q \in Nat : q = s[i]
    BY <1>1
  <2>2. q \in p + 1 .. to /\ q \in 1 .. Len(c) /\ q + 1 \in 1 .. Len(c) /\ q + 1 <= Len(c)
    <3>1. q > p /\ q <= to /\ to + 1 <= Len(c) /\ Len(c) \in Nat
      BY <1>2, <1>4, <2>1
    <3> QED
      BY <3>1
  <2>3. c[q] = "<" /\ c[q + 1] = "item>"
    BY <1>3, <2>1, <2>2 DEF Prefix
  <2>4. At(c, q, ItemOpen)
    BY <2>2, <2>3, TagSymbols
  <2> QED
    BY <2>2, <2>4
<1> QED
  BY <1>1, <1>4

\* When the first of the items is delivered, the others are owed behind it.
LEMMA DeliveredOwes ==
    ASSUME NEW b \in Seq(Symbols), NEW p \in Nat, NEW o \in Seq(Payloads), Len(o) > 0,
           NEW s \in [1 .. Len(o) -> Nat], Marks(s, b, p, o),
           NEW to, to = s[1] + Len(Sent(o[1])) - 1
    PROVE  Owes(b, to, Tail(o))
<1>0. Len(o) \in Nat /\ 1 \in 1 .. Len(o) /\ o[1] \in Payloads /\ s[1] \in Nat
  <2>1. 1 \in 1 .. Len(o) /\ Len(o) \in Nat
    OBVIOUS
  <2>2. o[1] \in Payloads
    BY <2>1, ElementOfSeq
  <2>3. s[1] \in Nat
    BY <2>1
  <2> QED
    BY <2>1, <2>2, <2>3
<1>1. PICK n : n = Len(Sent(o[1]))
  OBVIOUS
<1>2. n \in Nat /\ n >= 9
  BY <1>0, <1>1, SentLength
<1>3. /\ Tail(o) \in Seq(Payloads) /\ Len(Tail(o)) = Len(o) - 1
      /\ \A i \in 1 .. Len(o) - 1 : Tail(o)[i] = o[i + 1]
  BY <1>0, HeadTailProperties
<1>4. PICK r : r = Tail(o)
  OBVIOUS
<1> DEFINE z == [i \in 1 .. Len(r) |-> s[i + 1]]
<1>5. /\ r \in Seq(Payloads) /\ Len(r) = Len(o) - 1
      /\ \A i \in 1 .. Len(r) : i + 1 \in 1 .. Len(o) /\ r[i] = o[i + 1]
  BY <1>0, <1>3, <1>4
<1>6. z \in [1 .. Len(r) -> Nat] /\ \A i \in 1 .. Len(r) : z[i] = s[i + 1]
  BY <1>5
<1> HIDE DEF z
<1>7. s[1] > p /\ to = s[1] + n - 1 /\ to \in Nat /\ to >= p
  <2>1. s[1] > p
    BY <1>0 DEF Marks
  <2> QED
    BY <1>0, <1>1, <1>2, <2>1
<1>8. ASSUME NEW i \in 1 .. Len(r)
      PROVE  z[i] > to /\ ReadsTo(b, z[i], Sent(r[i]), Len(Sent(r[i])))
  <2>1. i + 1 \in 1 .. Len(o) /\ 1 < i + 1 /\ r[i] = o[i + 1] /\ z[i] = s[i + 1] /\ s[i + 1] \in Nat
    BY <1>0, <1>5, <1>6
  <2>2. s[1] + Len(Sent(o[1])) <= s[i + 1]
    BY <1>0, <2>1 DEF Marks
  <2>3. ReadsTo(b, s[i + 1], Sent(o[i + 1]), Len(Sent(o[i + 1])))
    BY <2>1 DEF Marks
  <2>4. s[i + 1] > to
    <3>1. PICK x \in Nat, y \in Nat : x = s[1] /\ y = s[i + 1]
      BY <1>0, <2>1
    <3>2. x + n <= y /\ to = x + n - 1
      BY <1>1, <1>7, <2>2, <3>1
    <3>3. y > to
      BY <1>2, <3>2
    <3> QED
      BY <3>1, <3>3
  <2> QED
    BY <2>1, <2>3, <2>4
<1>9. ASSUME NEW i \in 1 .. Len(r), NEW j \in 1 .. Len(r), i < j
      PROVE  z[i] + Len(Sent(r[i])) <= z[j]
  <2>1. i + 1 \in 1 .. Len(o) /\ j + 1 \in 1 .. Len(o) /\ i + 1 < j + 1
    BY <1>5, <1>9
  <2>2. s[i + 1] + Len(Sent(o[i + 1])) <= s[j + 1]
    BY <2>1 DEF Marks
  <2> QED
    BY <1>5, <1>6, <2>2
<1>10. ASSUME NEW q \in to + 1 .. Len(b), At(b, q, ItemOpen)
       PROVE  (\E i \in 1 .. Len(r) : z[i] = q) \/ Doomed(b, q)
  <2>1. q \in p + 1 .. Len(b) /\ q > s[1]
    <3>1. PICK x \in Nat : x = s[1]
      BY <1>0
    <3>2. x > p /\ to = x + n - 1 /\ to >= p
      BY <1>7, <3>1
    <3>3. q \in p + 1 .. Len(b) /\ q > x
      BY <1>2, <3>2
    <3> QED
      BY <3>1, <3>3
  <2>2. (\E i \in 1 .. Len(o) : s[i] = q) \/ Doomed(b, q)
    BY <1>10, <2>1 DEF Marks
  <2>3. ASSUME NEW i \in 1 .. Len(o), s[i] = q PROVE \E k \in 1 .. Len(r) : z[k] = q
    <3>1. i # 1
      BY <1>0, <2>1, <2>3
    <3>2. i - 1 \in 1 .. Len(r) /\ (i - 1) + 1 = i
      BY <1>0, <1>5, <3>1
    <3>3. z[i - 1] = q
      BY <1>6, <2>3, <3>2
    <3> QED
      BY <3>2, <3>3
  <2> QED
    BY <2>2, <2>3
<1>11. Marks(z, b, to, r)
  BY <1>8, <1>9, <1>10 DEF Marks
<1> QED
  BY <1>4, <1>6, <1>11 DEF Owes

\* What is written is owed behind what is there.
LEMMA AddedOwes ==
    ASSUME NEW b \in Seq(Symbols), NEW t, Framed(t), NEW c, Joins(c, b, Len(b), t, Len(t)),
           NEW p \in 0 .. Len(b), NEW o \in Seq(Payloads), Owes(b, p, o), NEW w, Writes(t, w)
    PROVE  Owes(c, p, o \o w)
<1>1. PICK s \in [1 .. Len(o) -> Nat] : Marks(s, b, p, o)
  BY DEF Owes
<1>2. /\ c \in Seq(Symbols) /\ t \in Seq(Symbols)
      /\ Len(c) = Len(b) + Len(t) /\ Len(b) \in Nat /\ Len(t) \in Nat /\ Len(o) \in Nat
      /\ \A j \in 1 .. Len(t) : c[Len(b) + j] = t[j]
  BY DEF Joins, Framed
<1>3. ASSUME NEW i \in 1 .. Len(o)
      PROVE  /\ o[i] \in Payloads /\ s[i] \in Nat /\ s[i] > p
             /\ ReadsTo(c, s[i], Sent(o[i]), Len(Sent(o[i])))
             /\ s[i] + Len(Sent(o[i])) <= Len(b) + 1
  <2>1. o[i] \in Payloads /\ s[i] \in Nat
    BY ElementOfSeq
  <2>2. s[i] > p /\ ReadsTo(b, s[i], Sent(o[i]), Len(Sent(o[i])))
    BY <1>1 DEF Marks
  <2>3. s[i] \in Nat \ {0} /\ Len(Sent(o[i])) \in Nat
    BY <2>1, <2>2, SentLength
  <2>4. ReadsTo(c, s[i], Sent(o[i]), Len(Sent(o[i])))
    BY <1>2, <2>2, <2>3, AddedReads
  <2>5. s[i] + Len(Sent(o[i])) <= Len(b) + 1
    BY <2>2 DEF ReadsTo
  <2> QED
    BY <2>1, <2>2, <2>4, <2>5
<1>4. \A i, j \in 1 .. Len(o) : i < j => s[i] + Len(Sent(o[i])) <= s[j]
  BY <1>1 DEF Marks
<1>5. ASSUME NEW q \in p + 1 .. Len(c), At(c, q, ItemOpen)
      PROVE  \/ \E i \in 1 .. Len(o) : s[i] = q
             \/ Doomed(c, q)
             \/ q = Len(b) + 1 /\ Len(t) >= 2
  <2>1. q \in 1 .. Len(c) /\ q \in Nat \ {0}
    BY <1>2
  <2>2. \/ q \in 1 .. Len(b) /\ At(b, q, ItemOpen)
        \/ q - Len(b) \in 1 .. Len(t) /\ At(t, q - Len(b), ItemOpen)
    BY <1>5, <2>1, AddedTag
  <2>3. CASE q \in 1 .. Len(b) /\ At(b, q, ItemOpen)
    <3>1. q \in p + 1 .. Len(b)
      BY <2>3
    <3>2. (\E i \in 1 .. Len(o) : s[i] = q) \/ Doomed(b, q)
      BY <1>1, <2>3, <3>1 DEF Marks
    <3> QED
      BY <2>1, <3>2, AddedDoomed
  <2>4. CASE q - Len(b) \in 1 .. Len(t) /\ At(t, q - Len(b), ItemOpen)
    <3>1. q - Len(b) = 1
      BY <2>4 DEF Framed
    <3>2. 1 + 1 <= Len(t)
      BY <2>4, <3>1 DEF At
    <3>3. q = Len(b) + 1 /\ Len(t) >= 2
      BY <1>2, <2>1, <3>1, <3>2
    <3> QED
      BY <3>3
  <2> QED
    BY <2>2, <2>3, <2>4
<1>6. CASE w = << >> /\ Spoils(t)
  <2>1. o \o w = o
    BY <1>6, ConcatEmptySeq
  <2>2. ASSUME NEW q \in p + 1 .. Len(c), At(c, q, ItemOpen)
        PROVE  (\E i \in 1 .. Len(o) : s[i] = q) \/ Doomed(c, q)
    <3>1. CASE q = Len(b) + 1 /\ Len(t) >= 2
      BY <1>2, <1>6, <3>1, AddedSpoils
    <3> QED
      BY <1>5, <2>2, <3>1
  <2>3. Marks(s, c, p, o)
    BY <1>3, <1>4, <2>2 DEF Marks
  <2>4. Owes(c, p, o)
    BY <2>3 DEF Owes
  <2> QED
    BY <2>1, <2>4
<1>7. CASE \E l \in Payloads : t = Sent(l) /\ w = <<l>>
  <2>1. PICK l \in Payloads : t = Sent(l) /\ w = <<l>>
    BY <1>7
  <2>2. PICK n \in Nat : n = Len(o)
    BY <1>2
  <2>3. PICK v : v = o \o w
    OBVIOUS
  <2>4. v \in Seq(Payloads) /\ Len(v) = n + 1 /\ v[n + 1] = l /\ \A i \in 1 .. n : v[i] = o[i]
    <3>1. o \o w = Append(o, l)
      BY <2>1, AppendIsConcat
    <3>2. /\ Append(o, l) \in Seq(Payloads) /\ Len(Append(o, l)) = Len(o) + 1
          /\ \A i \in 1 .. Len(o) : Append(o, l)[i] = o[i]
          /\ Append(o, l)[Len(o) + 1] = l
      BY AppendProperties
    <3> QED
      BY <2>2, <2>3, <3>1, <3>2
  <2> DEFINE z == [i \in 1 .. n + 1 |-> IF i <= n THEN s[i] ELSE Len(b) + 1]
  <2>5. /\ z \in [1 .. n + 1 -> Nat] /\ z[n + 1] = Len(b) + 1
        /\ \A i \in 1 .. n : z[i] = s[i]
    <3>1. \A i \in 1 .. n + 1 : (IF i <= n THEN s[i] ELSE Len(b) + 1) \in Nat
      BY <1>2, <1>3, <2>2, SMTT(30)
    <3>2. n + 1 \in 1 .. n + 1 /\ ~(n + 1 <= n) /\ \A i \in 1 .. n : i \in 1 .. n + 1 /\ i <= n
      OBVIOUS
    <3> QED
      BY <3>1, <3>2
  <2> HIDE DEF z
  <2>6. ReadsTo(c, Len(b) + 1, Sent(l), Len(Sent(l)))
    <3>1. ASSUME NEW i \in 1 .. Len(t) PROVE c[(Len(b) + 1) + i - 1] = t[i]
      <4>1. (Len(b) + 1) + i - 1 = Len(b) + i
        BY <1>2
      <4> QED
        BY <1>2, <4>1
    <3>2. (Len(b) + 1) + Len(t) <= Len(c) + 1
      BY <1>2
    <3> QED
      BY <2>1, <3>1, <3>2 DEF ReadsTo
  <2>7. ASSUME NEW i \in 1 .. Len(v)
        PROVE  z[i] > p /\ ReadsTo(c, z[i], Sent(v[i]), Len(Sent(v[i])))
    <3>1. CASE i \in 1 .. n
      BY <1>3, <2>2, <2>4, <2>5, <3>1
    <3>2. CASE i = n + 1
      <4>1. z[i] = Len(b) + 1 /\ v[i] = l
        BY <2>4, <2>5, <3>2
      <4>2. Len(b) + 1 > p
        BY <1>2
      <4> QED
        BY <2>6, <4>1, <4>2
    <3> QED
      BY <2>4, <3>1, <3>2
  <2>8. ASSUME NEW i \in 1 .. Len(v), NEW j \in 1 .. Len(v), i < j
        PROVE  z[i] + Len(Sent(v[i])) <= z[j]
    <3>1. i \in 1 .. n /\ v[i] = o[i] /\ z[i] = s[i]
      <4>1. i \in 1 .. n
        BY <2>4, <2>8
      <4> QED
        BY <2>4, <2>5, <4>1
    <3>2. CASE j \in 1 .. n
      BY <1>4, <2>2, <2>5, <2>8, <3>1, <3>2
    <3>3. CASE j = n + 1
      <4>1. s[i] + Len(Sent(o[i])) <= Len(b) + 1
        BY <1>3, <2>2, <3>1
      <4> QED
        BY <2>5, <3>1, <3>3, <4>1
    <3> QED
      BY <2>4, <3>2, <3>3
  <2>9. ASSUME NEW q \in p + 1 .. Len(c), At(c, q, ItemOpen)
        PROVE  (\E i \in 1 .. Len(v) : z[i] = q) \/ Doomed(c, q)
    <3>1. CASE \E i \in 1 .. Len(o) : s[i] = q
      <4>1. PICK i \in 1 .. n : s[i] = q
        BY <2>2, <3>1
      <4>2. i \in 1 .. Len(v) /\ z[i] = q
        BY <2>4, <2>5, <4>1
      <4> QED
        BY <4>2
    <3>2. CASE q = Len(b) + 1
      <4>1. n + 1 \in 1 .. Len(v) /\ z[n + 1] = q
        BY <2>4, <2>5, <3>2
      <4> QED
        BY <4>1
    <3> QED
      BY <1>5, <2>9, <3>1, <3>2
  <2>10. Marks(z, c, p, v)
    BY <2>7, <2>8, <2>9 DEF Marks
  <2>11. Owes(c, p, v)
    BY <2>4, <2>5, <2>10 DEF Owes
  <2> QED
    BY <2>3, <2>11
<1> QED
  BY <1>6, <1>7 DEF Writes

\* Reclaiming the consumed prefix drops it.
LEMMA CompactedShift ==
    ASSUME NEW b \in Seq(Symbols), NEW p \in 0 .. Len(b), NEW c, c = Compacted(b, p)
    PROVE  \E d \in 0 .. p : Shifted(b, d, c.buf) /\ c.pos = p - d
<1>1. Len(b) \in Nat /\ p \in Nat /\ p <= Len(b)
  OBVIOUS
<1>2. CASE p > 0 /\ (p >= CompactAt \/ p = Len(b))
  <2> DEFINE rest == SubSeq(b, p + 1, Len(b))
  <2>1. \A i \in p + 1 .. Len(b) : b[i] \in Symbols
    BY <1>1, ElementOfSeq
  <2>2. /\ rest \in Seq(Symbols)
        /\ Len(rest) = IF p + 1 <= Len(b) THEN Len(b) - (p + 1) + 1 ELSE 0
        /\ \A i \in 1 .. Len(b) - (p + 1) + 1 : rest[i] = b[(p + 1) + i - 1]
    BY <1>1, <2>1, SubSeqProperties
  <2>3. c = [buf |-> rest, pos |-> 0]
    BY <1>2 DEF Compacted
  <2> HIDE DEF rest
  <2>4. Len(rest) = Len(b) - p
    BY <1>1, <2>2
  <2>5. ASSUME NEW i \in 1 .. Len(rest) PROVE rest[i] = b[i + p]
    <3>1. i \in 1 .. Len(b) - (p + 1) + 1 /\ (p + 1) + i - 1 = i + p
      BY <1>1, <2>4
    <3> QED
      BY <2>2, <3>1
  <2>6. Shifted(b, p, rest)
    BY <1>1, <2>2, <2>4, <2>5 DEF Shifted
  <2> QED
    BY <1>1, <2>3, <2>6
<1>3. CASE ~(p > 0 /\ (p >= CompactAt \/ p = Len(b)))
  <2>1. c.buf = b /\ c.pos = p
    BY <1>3 DEF Compacted
  <2>2. Shifted(b, 0, b)
    <3>1. \A i \in 1 .. Len(b) : i + 0 = i
      OBVIOUS
    <3> QED
      BY <1>1, <3>1 DEF Shifted
  <2> QED
    BY <1>1, <2>1, <2>2
<1> QED
  BY <1>2, <1>3

LEMMA ShiftedText ==
    ASSUME NEW b \in Seq(Symbols), NEW c, NEW d, Shifted(b, d, c), NEW u \in Seq(Symbols)
    PROVE  Shifted(b \o u, d, c \o u)
<1>1. /\ c \in Seq(Symbols) /\ d \in Nat /\ d <= Len(b) /\ Len(c) = Len(b) - d
      /\ Len(b) \in Nat /\ Len(u) \in Nat /\ \A i \in 1 .. Len(c) : c[i] = b[i + d]
  <2>1. /\ c \in Seq(Symbols) /\ d \in 0 .. Len(b) /\ Len(c) = Len(b) - d
        /\ \A i \in 1 .. Len(c) : c[i] = b[i + d]
    BY DEF Shifted
  <2>2. Len(b) \in Nat /\ Len(u) \in Nat
    OBVIOUS
  <2>3. d \in Nat /\ d <= Len(b)
    BY <2>1, <2>2
  <2> QED
    BY <2>1, <2>2, <2>3
<1>2. PICK x : x = b \o u
  OBVIOUS
<1>3. PICK y : y = c \o u
  OBVIOUS
<1>4. /\ x \in Seq(Symbols) /\ Len(x) = Len(b) + Len(u)
      /\ \A i \in 1 .. Len(b) : x[i] = b[i]
      /\ \A i \in 1 .. Len(u) : x[Len(b) + i] = u[i]
  <2>1. Joins(x, b, Len(b), u, Len(u))
    BY <1>2, JoinedAt
  <2> QED
    BY <2>1 DEF Joins
<1>5. /\ y \in Seq(Symbols) /\ Len(y) = Len(c) + Len(u)
      /\ \A i \in 1 .. Len(c) : y[i] = c[i]
      /\ \A i \in 1 .. Len(u) : y[Len(c) + i] = u[i]
  <2>1. Joins(y, c, Len(c), u, Len(u))
    BY <1>1, <1>3, JoinedAt
  <2> QED
    BY <2>1 DEF Joins
<1>6. ASSUME NEW i \in 1 .. Len(y) PROVE y[i] = x[i + d]
  <2>1. CASE i <= Len(c)
    <3>1. i \in 1 .. Len(c) /\ i + d \in 1 .. Len(b)
      BY <1>1, <2>1
    <3> QED
      BY <1>1, <1>4, <1>5, <3>1
  <2>2. CASE i > Len(c)
    <3>1. PICK j : j = i - Len(c)
      OBVIOUS
    <3>2. j \in 1 .. Len(u) /\ Len(c) + j = i /\ Len(b) + j = i + d
      BY <1>1, <1>5, <2>2, <3>1
    <3>3. y[Len(c) + j] = u[j] /\ x[Len(b) + j] = u[j]
      BY <1>4, <1>5, <3>2
    <3> QED
      BY <3>2, <3>3
  <2> QED
    BY <1>1, <2>1, <2>2
<1>7. d \in 0 .. Len(x) /\ Len(y) = Len(x) - d
  <2>1. PICK m \in Nat, n \in Nat : m = Len(b) /\ n = Len(u)
    BY <1>1
  <2>2. d \in Nat /\ d <= m /\ Len(x) = m + n /\ Len(y) = (m - d) + n
    BY <1>1, <1>4, <1>5, <2>1
  <2> QED
    BY <2>2
<1>8. Shifted(x, d, y)
  BY <1>5, <1>6, <1>7 DEF Shifted
<1> QED
  BY <1>2, <1>3, <1>8

LEMMA ShiftedKnown ==
    ASSUME NEW b \in Seq(Symbols), NEW c, NEW d, Shifted(b, d, c),
           NEW q \in Nat, q > d, NEW known \in Nat, Known(b, q, known)
    PROVE  Known(c, q - d, known)
<1>1. Len(b) \in Nat /\ d \in Nat /\ Len(c) = Len(b) - d
  BY DEF Shifted
<1>2. CASE known = 0
  BY <1>2 DEF Known
<1>3. CASE /\ q + known <= Len(b) + 1
           /\ \A e \in q .. q + known - 2 : ~At(b, e, DataClose)
  <2>1. (q - d) + known <= Len(c) + 1
    BY <1>1, <1>3
  <2>2. ASSUME NEW e \in q - d .. (q - d) + known - 2 PROVE ~At(c, e, DataClose)
    <3>1. e \in Nat \ {0} /\ e + d \in q .. q + known - 2
      BY <1>1
    <3>2. ~At(b, e + d, DataClose)
      BY <1>3, <3>1
    <3> QED
      BY <3>1, <3>2, ShiftedTag
  <2> QED
    BY <2>1, <2>2 DEF Known
<1> QED
  BY <1>2, <1>3 DEF Known

\* What is known stays known when more arrives.
LEMMA JoinedKnown ==
    ASSUME NEW b \in Seq(Symbols), NEW u \in Seq(Symbols), NEW c, Joins(c, b, Len(b), u, Len(u)),
           NEW q \in Nat \ {0}, NEW known \in Nat, Known(b, q, known)
    PROVE  Known(c, q, known)
<1>1. /\ Len(c) = Len(b) + Len(u) /\ Len(b) \in Nat /\ Len(u) \in Nat
      /\ \A j \in 1 .. Len(b) : c[j] = b[j]
  BY DEF Joins
<1>2. CASE known = 0
  BY <1>2 DEF Known
<1>3. CASE /\ q + known <= Len(b) + 1
           /\ \A e \in q .. q + known - 2 : ~At(b, e, DataClose)
  <2>1. q + known <= Len(c) + 1
    BY <1>1, <1>3
  <2>2. ASSUME NEW e \in q .. q + known - 2 PROVE ~At(c, e, DataClose)
    <3>1. e \in 1 .. Len(b) /\ e + 1 \in 1 .. Len(b) /\ e + 1 <= Len(b) /\ e + 1 <= Len(c)
      BY <1>1, <1>3
    <3>2. ~At(b, e, DataClose)
      BY <1>3
    <3> QED
      BY <1>1, <3>1, <3>2 DEF At
  <2> QED
    BY <2>1, <2>2 DEF Known
<1> QED
  BY <1>2, <1>3 DEF Known

----
(* The parser: whole items survive *)

\* What is still to be parsed holds what is owed; no end of the data is before the
\* hint; and a parser that waits has no item before it, or one that is not all there.
Stuck == At(buf, pos + 1, ItemOpen) /\ \E r : ItemSays(buf, pos + 1, r) /\ r.is = "incomplete"
Waits == ~draining => NoneFrom(buf, pos + 1, ItemOpen) \/ Stuck
WholeInv ==
    ~strange /\ Owes(buf \o pipe, pos, owed) /\ Known(buf, pos + 1, hint) /\ Waits

\* The parser and the FIFO hold one text.
LEMMA TextIs ==
    ASSUME PipeTypeOK
    PROVE  /\ buf \o pipe \in Seq(Symbols) /\ Joins(buf \o pipe, buf, Len(buf), pipe, Len(pipe))
           /\ Prefix(buf, buf \o pipe)
<1>1. buf \in Seq(Symbols) /\ pipe \in Seq(Symbols)
  BY DEF PipeTypeOK
<1>2. Joins(buf \o pipe, buf, Len(buf), pipe, Len(pipe))
  BY <1>1, JoinedAt
<1>3. PICK u : u = buf \o pipe
  OBVIOUS
<1>4. /\ u \in Seq(Symbols) /\ Len(u) = Len(buf) + Len(pipe)
      /\ \A i \in 1 .. Len(buf) : u[i] = buf[i]
  BY <1>2, <1>3 DEF Joins
<1>5. Len(buf) <= Len(u)
  BY <1>1, <1>4
<1>6. Prefix(buf, u)
  BY <1>4, <1>5 DEF Prefix
<1> QED
  BY <1>2, <1>3, <1>4, <1>6

\* The parser goes on to a place before which no item begins.
LEMMA GoneOn ==
    ASSUME PipeTypeOK, WholeInv, NEW to \in Nat, pos <= to, to = pos \/ to + 1 <= Len(buf),
           \A q \in pos + 1 .. to : ~At(buf, q, ItemOpen)
    PROVE  Owes(buf \o pipe, to, owed)
<1>1. PICK u : u = buf \o pipe
  OBVIOUS
<1>2. u \in Seq(Symbols) /\ buf \in Seq(Symbols) /\ Prefix(buf, u) /\ pos \in Nat /\ owed \in Seq(Payloads)
  <2>1. pos \in Nat /\ buf \in Seq(Symbols) /\ owed \in Seq(Payloads)
    BY DEF PipeTypeOK
  <2> QED
    BY <1>1, <2>1, TextIs
<1>3. Owes(u, pos, owed)
  BY <1>1 DEF WholeInv
<1>4. PICK s \in [1 .. Len(owed) -> Nat] : Marks(s, u, pos, owed)
  BY <1>3 DEF Owes
<1>5. CASE to = pos
  BY <1>1, <1>3, <1>5
<1>6. CASE to + 1 <= Len(buf)
  <2>1. \A i \in 1 .. Len(owed) : s[i] > to
    BY <1>2, <1>4, <1>6, OwedBehind
  <2>2. Owes(u, to, owed)
    BY <1>2, <1>4, <2>1, AdvancedOwes
  <2> QED
    BY <1>1, <2>2
<1> QED
  BY <1>5, <1>6

\* The first place of the buffer where an item begins is that of the first item that
\* is owed, or of one that was damaged.
LEMMA FirstPlace ==
    ASSUME PipeTypeOK, WholeInv, NEW start, IsNext(buf, pos + 1, start, ItemOpen)
    PROVE  /\ start \in pos + 1 .. Len(buf) /\ start + 1 <= Len(buf)
           /\ Owes(buf \o pipe, start - 1, owed)
           /\ \/ /\ owed # << >> /\ Head(owed) \in Payloads /\ Tail(owed) \in Seq(Payloads)
                 /\ Agrees(buf, start, Sent(Head(owed)), Len(Sent(Head(owed))))
                 /\ Owes(buf \o pipe, start + Len(Sent(Head(owed))) - 1, Tail(owed))
              \/ Spoilt(buf, start) /\ Owes(buf \o pipe, start, owed)
<1>1. PICK u : u = buf \o pipe
  OBVIOUS
<1>2. u \in Seq(Symbols) /\ Prefix(buf, u)
  BY <1>1, TextIs
<1>3. buf \in Seq(Symbols) /\ pos \in 0 .. Len(buf) /\ owed \in Seq(Payloads) /\ Len(buf) \in Nat
  BY DEF PipeTypeOK
<1>4. /\ start \in pos + 1 .. Len(buf) /\ start + 1 <= Len(buf) /\ At(buf, start, ItemOpen)
      /\ \A q \in pos + 1 .. start - 1 : ~At(buf, q, ItemOpen)
  BY DEF IsNext, At
<1>5. /\ start - 1 \in Nat /\ pos <= start - 1 /\ (start - 1) + 1 <= Len(buf) /\ start \in Nat
      /\ pos \in Nat
  BY <1>3, <1>4
<1>6. PICK s \in [1 .. Len(owed) -> Nat] : Marks(s, u, pos, owed)
  BY <1>1 DEF WholeInv, Owes
<1>7. \A i \in 1 .. Len(owed) : s[i] > start - 1
  BY <1>2, <1>3, <1>4, <1>5, <1>6, OwedBehind
<1>8. Owes(u, start - 1, owed)
  BY <1>2, <1>3, <1>5, <1>6, <1>7, AdvancedOwes
<1>9. start \in pos + 1 .. Len(u) /\ At(u, start, ItemOpen)
  <2>1. Len(buf) <= Len(u) /\ \A i \in 1 .. Len(buf) : buf[i] = u[i]
    BY <1>2 DEF Prefix
  <2>2. Len(u) \in Nat /\ start \in 1 .. Len(buf) /\ start + 1 \in 1 .. Len(buf)
    BY <1>2, <1>3, <1>4
  <2>3. buf[start] = u[start] /\ buf[start + 1] = u[start + 1]
    BY <2>1, <2>2
  <2>4. buf[start] = "<" /\ buf[start + 1] = "item>"
    BY <1>4, TagSymbols
  <2>5. start + 1 <= Len(u)
    BY <1>3, <1>4, <2>1, <2>2
  <2>6. At(u, start, ItemOpen)
    BY <2>3, <2>4, <2>5, TagSymbols
  <2> QED
    BY <1>3, <1>4, <2>1, <2>2, <2>6
<1>10. (\E i \in 1 .. Len(owed) : s[i] = start) \/ Doomed(u, start)
  BY <1>6, <1>9 DEF Marks
<1>11. CASE \E i \in 1 .. Len(owed) : s[i] = start
  <2>1. PICK i \in 1 .. Len(owed) : s[i] = start
    BY <1>11
  <2>2. Len(owed) > 0 /\ 1 \in 1 .. Len(owed) /\ owed # << >> /\ Len(owed) \in Nat
    BY <1>3, <2>1
  <2>3. owed[1] \in Payloads /\ s[1] \in Nat
    BY <1>3, <2>2, ElementOfSeq
  <2>4. PICK n : n = Len(Sent(owed[1]))
    OBVIOUS
  <2>5. n \in Nat /\ n >= 9
    BY <2>3, <2>4, SentLength
  <2>6. i = 1
    <3> SUFFICES ASSUME i # 1 PROVE FALSE
      OBVIOUS
    <3>1. 1 < i
      BY <2>1, <2>2
    <3>2. s[1] + n <= start
      BY <1>6, <2>1, <2>2, <2>4, <3>1 DEF Marks
    <3>3. PICK x \in Nat : x = s[1]
      BY <2>3
    <3>4. x > start - 1
      BY <1>7, <2>2, <3>3
    <3>5. x + n <= start
      BY <3>2, <3>3
    <3> QED
      BY <1>5, <2>5, <3>4, <3>5
  <2>7. ReadsTo(u, start, Sent(owed[1]), n)
    BY <1>6, <2>1, <2>4, <2>6 DEF Marks
  <2>8. Agrees(buf, start, Sent(owed[1]), n)
    <3>1. start \in Nat \ {0}
      BY <1>3, <1>4
    <3> QED
      BY <1>2, <1>3, <2>5, <2>7, <3>1, PrefixAgrees
  <2>9. Owes(u, start + n - 1, Tail(owed))
    <3>1. start + n - 1 = s[1] + Len(Sent(owed[1])) - 1
      BY <2>1, <2>4, <2>6
    <3> QED
      BY <1>2, <1>3, <1>5, <1>6, <2>2, <3>1, DeliveredOwes
  <2>10. Head(owed) = owed[1] /\ Tail(owed) \in Seq(Payloads)
    BY <1>3, <2>2, HeadTailProperties
  <2> QED
    BY <1>1, <1>4, <1>8, <2>2, <2>3, <2>4, <2>8, <2>9, <2>10
<1>12. CASE Doomed(u, start) /\ ~\E i \in 1 .. Len(owed) : s[i] = start
  <2>1. Spoilt(buf, start)
    <3>1. start \in Nat \ {0}
      BY <1>3, <1>4
    <3> QED
      BY <1>2, <1>3, <1>12, <3>1, PrefixSpoilt
  <2>2. \A i \in 1 .. Len(owed) : s[i] > start
    <3> TAKE i \in 1 .. Len(owed)
    <3>1. PICK x \in Nat : x = s[i]
      OBVIOUS
    <3>2. x > start - 1 /\ x # start
      BY <1>7, <1>12, <3>1
    <3>3. x > start
      BY <1>5, <3>2
    <3> QED
      BY <3>1, <3>3
  <2>3. pos <= start
    BY <1>5
  <2>4. Owes(u, start, owed)
    BY <1>2, <1>3, <1>5, <1>6, <2>2, <2>3, AdvancedOwes
  <2> QED
    BY <1>1, <1>4, <1>8, <2>1, <2>4
<1> QED
  BY <1>10, <1>11, <1>12

LEMMA AttemptKeeps ==
    ASSUME PipeTypeOK, WholeInv, NEW start, IsNext(buf, pos + 1, start, ItemOpen),
           Attempted(start), pipe' = pipe
    PROVE  WholeInv'
<1>1. /\ start \in pos + 1 .. Len(buf) /\ start + 1 <= Len(buf)
      /\ Owes(buf \o pipe, start - 1, owed)
      /\ \/ /\ owed # << >> /\ Head(owed) \in Payloads /\ Tail(owed) \in Seq(Payloads)
            /\ Agrees(buf, start, Sent(Head(owed)), Len(Sent(Head(owed))))
            /\ Owes(buf \o pipe, start + Len(Sent(Head(owed))) - 1, Tail(owed))
         \/ Spoilt(buf, start) /\ Owes(buf \o pipe, start, owed)
  BY FirstPlace
<1>2. /\ buf \in Seq(Symbols) /\ pos \in Nat /\ hint \in Nat /\ start \in 1 .. Len(buf)
      /\ At(buf, start, ItemOpen) /\ ~strange
  <2>1. buf \in Seq(Symbols) /\ pos \in Nat /\ hint \in Nat
    BY DEF PipeTypeOK
  <2>2. start \in 1 .. Len(buf)
    BY <1>1, <2>1
  <2> QED
    BY <2>1, <2>2 DEF IsNext, WholeInv
<1>3. PICK known : known = IF start = pos + 1 THEN hint ELSE 0
  OBVIOUS
<1>4. known \in Nat /\ Known(buf, start, known)
  <2>1. CASE start = pos + 1
    BY <1>2, <1>3, <2>1 DEF WholeInv
  <2>2. CASE start # pos + 1
    BY <1>3, <2>2 DEF Known
  <2> QED
    BY <2>1, <2>2
<1>5. PICK r : r = ParseItemAt(buf, start, known)
  OBVIOUS
<1>6. ItemSays(buf, start, r) /\ r.is \in {"item", "bad", "incomplete"}
  BY <1>2, <1>4, <1>5, ParseIs, ParseAnswers
<1>7. /\ \/ r.is = "item" /\ pos' = r.i - 1 /\ hint' = 0 /\ draining' = TRUE /\ Deliver(r.payload)
         \/ /\ r.is = "bad" \/ (r.is = "incomplete" /\ Overflows(start))
            /\ pos' = start /\ hint' = 0 /\ draining' = TRUE /\ Silent
         \/ /\ ~(r.is = "item") /\ ~(r.is = "bad" \/ (r.is = "incomplete" /\ Overflows(start)))
            /\ pos' = start - 1 /\ draining' = FALSE /\ Silent
            /\ hint' = IF "known" \in DOMAIN r THEN r.known ELSE known
      /\ buf' = buf
  BY <1>3, <1>5 DEF Attempted
<1>8. PICK u : u = buf \o pipe
  OBVIOUS
<1>9. buf' \o pipe' = u
  BY <1>7, <1>8
<1>10. /\ Owes(u, start - 1, owed)
       /\ \/ /\ owed # << >> /\ Head(owed) \in Payloads /\ Tail(owed) \in Seq(Payloads)
             /\ Agrees(buf, start, Sent(Head(owed)), Len(Sent(Head(owed))))
             /\ Owes(u, start + Len(Sent(Head(owed))) - 1, Tail(owed))
          \/ Spoilt(buf, start) /\ Owes(u, start, owed)
  BY <1>1, <1>8
<1>11. \A p \in Nat : Known(buf, p, 0)
  BY DEF Known
<1>12. ASSUME hint' = 0, pos' \in Nat, draining' = TRUE, ~strange', Owes(u, pos', owed')
       PROVE  WholeInv'
  <2>1. Known(buf, pos' + 1, 0)
    BY DEF Known
  <2> QED
    BY <1>7, <1>9, <1>12, <2>1 DEF WholeInv, Waits
<1>13. ASSUME ~(r.is = "item"), pos' = start - 1, draining' = FALSE, Silent,
              hint' = IF "known" \in DOMAIN r THEN r.known ELSE known
       PROVE  WholeInv'
  <2>1. r.is = "incomplete" \/ r.is = "bad"
    BY <1>6, <1>13
  <2>2. pos' + 1 = start
    BY <1>1, <1>2, <1>13
  <2>3. r.is = "incomplete"
    BY <1>6, <1>7, <1>13
  <2>4. Waits'
    BY <1>2, <1>6, <1>7, <2>2, <2>3 DEF Waits, Stuck
  <2>5. Expected(buf, start)
    <3>1. ASSUME owed # << >>, Head(owed) \in Payloads,
                 Agrees(buf, start, Sent(Head(owed)), Len(Sent(Head(owed))))
          PROVE  Expected(buf, start)
      <4>1. Head(owed) \in Seq({"a", "b"})
        BY <3>1, SentLength
      <4> QED
        BY <3>1, <4>1 DEF Expected
    <3> QED
      BY <1>10, <3>1 DEF Expected
  <2>6. Known(buf, start, hint')
    <3>1. CASE "known" \in DOMAIN r
      <4>1. r.known = Len(buf) + 1 - start /\ \A x \in start .. Len(buf) : ~At(buf, x, DataClose)
        BY <1>2, <1>6, <2>5, <3>1, SearchedAll
      <4>2. hint' = Len(buf) + 1 - start
        BY <1>13, <3>1, <4>1
      <4>3. PICK m \in Nat : m = Len(buf)
        BY <1>2
      <4>4. start \in 1 .. m /\ hint' = m + 1 - start
        BY <1>2, <4>2, <4>3
      <4>5. start + hint' <= m + 1 /\ start + hint' - 2 = m - 1
        BY <4>4
      <4>6. \A x \in start .. m - 1 : ~At(buf, x, DataClose)
        BY <4>1, <4>3
      <4> QED
        BY <4>3, <4>5, <4>6 DEF Known
    <3>2. CASE "known" \notin DOMAIN r
      BY <1>4, <1>13, <3>2
    <3> QED
      BY <3>1, <3>2
  <2>7. owed' = owed /\ ~strange'
    BY <1>2, <1>13 DEF Silent
  <2> QED
    BY <1>7, <1>9, <1>10, <1>13, <2>2, <2>4, <2>6, <2>7 DEF WholeInv
<1>14. CASE /\ owed # << >> /\ Head(owed) \in Payloads /\ Tail(owed) \in Seq(Payloads)
            /\ Agrees(buf, start, Sent(Head(owed)), Len(Sent(Head(owed))))
            /\ Owes(u, start + Len(Sent(Head(owed))) - 1, Tail(owed))
  <2>1. PICK p \in Payloads : p = Head(owed)
    BY <1>14
  <2>2. PICK n : n = Len(Sent(p))
    OBVIOUS
  <2>3. p \in Seq({"a", "b"}) /\ n \in Nat /\ n >= 9 /\ n <= MaxBuffer
    BY <2>1, <2>2, SentLength
  <2>4. Agrees(buf, start, Sent(p), n) /\ Owes(u, start + n - 1, Tail(owed))
    BY <1>14, <2>1, <2>2
  <2>5. Answers(buf, start, Sent(p), p, r)
    BY <1>2, <1>6, <2>2, <2>3, <2>4, OwedParses
  <2>6. CASE start + n <= Len(buf) + 1
    <3>1. r = [is |-> "item", payload |-> p, i |-> start + n]
      BY <2>2, <2>5, <2>6 DEF Answers
    <3>2. r.is = "item" /\ r.payload = p /\ r.i = start + n
      BY <3>1
    <3>3. pos' = start + n - 1 /\ hint' = 0 /\ draining' = TRUE /\ Deliver(r.payload)
      <4>1. pos' = r.i - 1 /\ hint' = 0 /\ draining' = TRUE /\ Deliver(r.payload)
        BY <1>7, <3>2
      <4>2. start + n - 1 = r.i - 1
        BY <1>2, <2>3, <3>2
      <4>3. pos' = start + n - 1
        BY <4>1, <4>2
      <4> QED
        BY <4>1, <4>3
    <3>4. owed' = Tail(owed) /\ ~strange'
      <4>1. Head(owed) = r.payload
        BY <2>1, <3>2
      <4> QED
        BY <1>2, <1>14, <3>3, <4>1 DEF Deliver
    <3>5. pos' \in Nat
      BY <1>2, <2>3, <3>3
    <3> QED
      BY <1>12, <2>4, <3>3, <3>4, <3>5
  <2>7. CASE ~(start + n <= Len(buf) + 1)
    <3>1. r.is = "incomplete"
      BY <2>2, <2>5, <2>7 DEF Answers
    <3>2. ~Overflows(start)
      <4>1. Len(buf) + 1 - start <= MaxBuffer
        <5>1. MaxBuffer \in Nat /\ Len(buf) \in Nat
          BY <1>2, PipeSizes
        <5> QED
          BY <1>2, <2>3, <2>7, <5>1
      <4> QED
        BY <1>2, <4>1, PipeSizes DEF Overflows
    <3> QED
      BY <1>7, <1>13, <3>1, <3>2
  <2> QED
    BY <2>6, <2>7
<1>15. CASE Spoilt(buf, start) /\ Owes(u, start, owed)
  <2>1. r.is # "item"
    BY <1>2, <1>6, <1>15, SpoiltNever
  <2>2. CASE pos' = start /\ hint' = 0 /\ draining' = TRUE /\ Silent
    <3>1. owed' = owed /\ ~strange'
      BY <1>2, <2>2 DEF Silent
    <3>2. pos' \in Nat
      BY <1>2, <2>2
    <3> QED
      BY <1>12, <1>15, <2>2, <3>1, <3>2
  <2> QED
    BY <1>7, <1>13, <2>1, <2>2
<1> QED
  BY <1>10, <1>14, <1>15

LEMMA SkipKeeps ==
    ASSUME PipeTypeOK, WholeInv, NEW start, IsNext(buf, pos + 1, start, ItemOpen),
           SkipTo(start), pipe' = pipe
    PROVE  WholeInv'
<1>1. Owes(buf \o pipe, start - 1, owed)
  BY FirstPlace
<1>2. /\ pos' = start - 1 /\ hint' = 0 /\ draining' = TRUE /\ buf' = buf
      /\ owed' = owed /\ strange' = strange /\ ~strange
  BY DEF SkipTo, Silent, WholeInv
<1>3. Known(buf, pos' + 1, 0)
  BY DEF Known
<1> QED
  BY <1>1, <1>2, <1>3 DEF WholeInv, Waits

LEMMA NoItemKeeps ==
    ASSUME PipeTypeOK, WholeInv, NoneFrom(buf, pos + 1, ItemOpen), NoItem, pipe' = pipe
    PROVE  WholeInv'
<1>1. /\ buf \in Seq(Symbols) /\ pos \in 0 .. Len(buf) /\ hint \in Nat /\ pipe \in Seq(Symbols)
      /\ owed \in Seq(Payloads) /\ Len(buf) \in Nat /\ ~strange
  BY DEF PipeTypeOK, WholeInv
<1>2. PICK m \in Nat : m = Len(buf)
  BY <1>1
<1>3. PICK skip : skip = IF m - pos > 1 THEN m - pos - 1 ELSE 0
  OBVIOUS
<1>4. /\ skip \in Nat /\ pos + skip \in 0 .. m /\ m - (pos + skip) <= 1
      /\ pos + skip = pos \/ (pos + skip) + 1 <= m
      /\ pos <= pos + skip /\ pos + skip \in Nat
  BY <1>1, <1>2, <1>3
<1>5. PICK cut : cut = Compacted(buf, pos + skip)
  OBVIOUS
<1>6. /\ hint' = IF skip > 0 THEN 0 ELSE hint
      /\ \/ buf' = cut.buf /\ pos' = cut.pos /\ draining' = FALSE
         \/ buf' = buf /\ pos' = pos + skip /\ draining' = TRUE
      /\ owed' = owed /\ strange' = strange
  <2>1. Len(ItemOpen) = 2
    BY TagWords
  <2>2. skip = IF Len(buf) - pos > Len(ItemOpen) - 1 THEN Len(buf) - pos - (Len(ItemOpen) - 1) ELSE 0
    BY <1>2, <1>3, <2>1
  <2> QED
    BY <1>5, <2>2 DEF NoItem, Silent
<1>7. Owes(buf \o pipe, pos + skip, owed)
  <2>1. \A q \in pos + 1 .. pos + skip : ~At(buf, q, ItemOpen)
    <3> TAKE q \in pos + 1 .. pos + skip
    <3>1. q \in pos + 1 .. Len(buf)
      BY <1>1, <1>2, <1>4
    <3> QED
      BY <3>1 DEF NoneFrom
  <2> QED
    BY <1>2, <1>4, <2>1, GoneOn
<1>8. hint' \in Nat /\ Known(buf, (pos + skip) + 1, hint')
  <2>1. CASE skip > 0
    BY <1>6, <2>1 DEF Known
  <2>2. CASE ~(skip > 0)
    <3>1. skip = 0 /\ pos + skip = pos /\ hint' = hint
      BY <1>1, <1>4, <1>6, <2>2
    <3>2. Known(buf, pos + 1, hint)
      BY DEF WholeInv
    <3> QED
      BY <1>1, <3>1, <3>2
  <2> QED
    BY <2>1, <2>2
<1>9. CASE buf' = buf /\ pos' = pos + skip /\ draining' = TRUE
  BY <1>1, <1>6, <1>7, <1>8, <1>9 DEF WholeInv, Waits
<1>10. CASE buf' = cut.buf /\ pos' = cut.pos /\ draining' = FALSE
  <2>1. PICK d \in 0 .. pos + skip : Shifted(buf, d, cut.buf) /\ cut.pos = (pos + skip) - d
    BY <1>1, <1>2, <1>4, <1>5, CompactedShift
  <2>2. PICK c : c = cut.buf
    OBVIOUS
  <2>3. d \in Nat /\ d <= pos + skip /\ Shifted(buf, d, c) /\ pos' = (pos + skip) - d /\ buf' = c
    BY <1>4, <1>10, <2>1, <2>2
  <2>4. Shifted(buf \o pipe, d, c \o pipe)
    BY <1>1, <2>3, ShiftedText
  <2>5. buf \o pipe \in Seq(Symbols)
    BY TextIs
  <2>6. Owes(c \o pipe, (pos + skip) - d, owed)
    <3>1. PICK u : u = buf \o pipe
      OBVIOUS
    <3>2. PICK z : z = c \o pipe
      OBVIOUS
    <3>3. u \in Seq(Symbols) /\ Shifted(u, d, z) /\ Owes(u, pos + skip, owed)
      BY <1>7, <2>4, <2>5, <3>1, <3>2
    <3>4. pos + skip >= d
      BY <1>4, <2>3
    <3>5. Owes(z, (pos + skip) - d, owed)
      BY <1>1, <1>4, <3>3, <3>4, ShiftedOwes
    <3> QED
      BY <3>2, <3>5
  <2>7. Known(c, pos' + 1, hint')
    <3>1. (pos + skip) + 1 \in Nat /\ (pos + skip) + 1 > d /\ ((pos + skip) + 1) - d = pos' + 1
      BY <1>4, <2>3
    <3>2. Known(c, ((pos + skip) + 1) - d, hint')
      BY <1>1, <1>8, <2>3, <3>1, ShiftedKnown
    <3> QED
      BY <3>1, <3>2
  <2>8. NoneFrom(c, pos' + 1, ItemOpen)
    <3> SUFFICES ASSUME NEW i \in pos' + 1 .. Len(c), At(c, i, ItemOpen) PROVE FALSE
      BY DEF NoneFrom
    <3>1. i + 1 <= Len(c) /\ Len(c) = m - d
      BY <1>2, <2>3 DEF At, Shifted
    <3>2. PICK x \in Nat, y \in Nat : x = pos' /\ y = pos + skip
      BY <1>4, <2>3
    <3>3. x = y - d /\ m - y <= 1 /\ y <= m
      BY <1>4, <2>3, <3>2
    <3>4. PICK l \in Nat : l = m - d /\ l = Len(c)
      BY <2>3, <3>1, <3>3
    <3>5. i \in x + 1 .. l /\ i + 1 <= l
      BY <3>1, <3>2, <3>4
    <3> QED
      BY <2>3, <3>3, <3>4, <3>5
  <2>9. c \o pipe = buf' \o pipe' /\ c = buf'
    BY <2>3
  <2>10. Owes(buf' \o pipe', pos', owed')
    BY <1>6, <2>3, <2>6, <2>9
  <2>11. Known(buf', pos' + 1, hint') /\ Waits' /\ ~strange'
    BY <1>1, <1>6, <2>7, <2>8, <2>9 DEF Waits
  <2> QED
    BY <2>10, <2>11 DEF WholeInv
<1> QED
  BY <1>6, <1>9, <1>10

LEMMA NextItemKeeps == PipeTypeOK /\ WholeInv /\ NextItem => WholeInv'
<1> SUFFICES ASSUME PipeTypeOK, WholeInv, NextItem PROVE WholeInv'
  OBVIOUS
<1>1. buf \in Seq(Symbols) /\ pos + 1 \in Nat \ {0} /\ pipe' = pipe
  <2>1. buf \in Seq(Symbols) /\ pos \in Nat
    BY DEF PipeTypeOK
  <2> QED
    BY <2>1 DEF NextItem
<1>2. PICK starts : starts = Places(buf, pos + 1, ItemOpen)
  OBVIOUS
<1>3. IF starts = {} THEN NoItem ELSE Attempted(First(starts)) \/ SkipTo(First(starts))
  BY <1>2 DEF NextItem
<1>4. ItemOpen \in Tags
  BY TagParts
<1>5. CASE starts = {}
  <2>1. NoneFrom(buf, pos + 1, ItemOpen)
    BY <1>1, <1>2, <1>4, <1>5, PlacesAre
  <2> QED
    BY <1>1, <1>3, <1>5, <2>1, NoItemKeeps
<1>6. CASE starts # {}
  <2>1. PICK start : start = First(starts)
    OBVIOUS
  <2>2. IsNext(buf, pos + 1, start, ItemOpen)
    BY <1>1, <1>2, <1>4, <1>6, <2>1, NextOf
  <2>3. Attempted(start) \/ SkipTo(start)
    BY <1>3, <1>6, <2>1
  <2> QED
    BY <1>1, <2>2, <2>3, AttemptKeeps, SkipKeeps
<1> QED
  BY <1>5, <1>6

LEMMA ReadOwes == PipeTypeOK /\ WholeInv /\ Read => WholeInv'
<1> SUFFICES ASSUME PipeTypeOK, WholeInv, Read PROVE WholeInv'
  OBVIOUS
<1>1. /\ pipe \in Seq(Symbols) /\ buf \in Seq(Symbols) /\ pos \in 0 .. Len(buf) /\ pos \in Nat
      /\ hint \in Nat /\ owed \in Seq(Payloads) /\ ~strange
  BY DEF PipeTypeOK, WholeInv
<1>2. PICK size \in Pieces :
         LET n == Least(size, Len(pipe))
             cut == Compacted(buf, pos)
         IN /\ buf' = cut.buf \o SubSeq(pipe, 1, n) /\ pos' = cut.pos
            /\ pipe' = SubSeq(pipe, n + 1, Len(pipe))
  BY DEF Read
<1>3. PICK n : n = Least(size, Len(pipe))
  OBVIOUS
<1>4. PICK cut : cut = Compacted(buf, pos)
  OBVIOUS
<1>5. PICK piece : piece = SubSeq(pipe, 1, n)
  OBVIOUS
<1>6. PICK rest : rest = SubSeq(pipe, n + 1, Len(pipe))
  OBVIOUS
<1>7. buf' = cut.buf \o piece /\ pos' = cut.pos /\ pipe' = rest
  BY <1>2, <1>3, <1>4, <1>5, <1>6
<1>8. hint' = hint /\ owed' = owed /\ strange' = strange /\ draining' = TRUE
  BY DEF Read
<1>9. n \in 0 .. Len(pipe) /\ Len(pipe) \in Nat
  <2>1. size \in Nat /\ Len(pipe) \in Nat
    BY <1>1, PipeSizes
  <2> QED
    BY <1>3, <2>1 DEF Least
<1>10. piece \in Seq(Symbols) /\ rest \in Seq(Symbols) /\ piece \o rest = pipe
  <2>1. \A i \in 1 .. Len(pipe) : pipe[i] \in Symbols
    BY <1>1, ElementOfSeq
  <2>2. piece \in Seq(Symbols)
    <3>1. \A i \in 1 .. n : pipe[i] \in Symbols
      BY <1>9, <2>1
    <3> QED
      BY <1>5, <1>9, <3>1, SubSeqProperties
  <2>3. rest \in Seq(Symbols)
    <3>1. \A i \in n + 1 .. Len(pipe) : pipe[i] \in Symbols
      BY <1>9, <2>1
    <3>2. n + 1 \in Nat
      BY <1>9
    <3> QED
      BY <1>6, <1>9, <3>1, <3>2, SubSeqProperties
  <2>4. piece \o rest = pipe
    <3>1. SubSeq(pipe, 1, n) \o SubSeq(pipe, n + 1, Len(pipe)) = SubSeq(pipe, 1, Len(pipe))
      <4>1. 1 \in 1 .. Len(pipe) + 1 /\ n \in 1 - 1 .. Len(pipe) /\ Len(pipe) \in n .. Len(pipe)
        BY <1>9
      <4> QED
        BY <1>1, <4>1, ConcatAdjacentSubSeq
    <3> QED
      BY <1>1, <1>5, <1>6, <3>1, SubSeqFull
  <2> QED
    BY <2>2, <2>3, <2>4
<1>11. PICK d \in 0 .. pos : Shifted(buf, d, cut.buf) /\ cut.pos = pos - d
  BY <1>1, <1>4, CompactedShift
<1>12. PICK c : c = cut.buf
  OBVIOUS
<1>13. /\ d \in Nat /\ d <= pos /\ Shifted(buf, d, c) /\ pos' = pos - d /\ pos' \in Nat
       /\ buf' = c \o piece /\ c \in Seq(Symbols)
  BY <1>1, <1>7, <1>11, <1>12 DEF Shifted
<1>14. buf' \o pipe' = c \o pipe
  <2>1. (c \o piece) \o rest = c \o (piece \o rest)
    <3>1. c \in Seq(Symbols) /\ piece \in Seq(Symbols) /\ rest \in Seq(Symbols)
      BY <1>10, <1>13
    <3> QED
      BY <3>1, ConcatAssociative
  <2> QED
    BY <1>7, <1>10, <1>13, <2>1
<1>15. Owes(buf' \o pipe', pos', owed')
  <2>1. PICK u : u = buf \o pipe
    OBVIOUS
  <2>2. PICK z : z = c \o pipe
    OBVIOUS
  <2>3. u \in Seq(Symbols) /\ Owes(u, pos, owed)
    BY <2>1, TextIs DEF WholeInv
  <2>4. Shifted(u, d, z)
    BY <1>1, <1>13, <2>1, <2>2, ShiftedText
  <2>5. pos >= d
    BY <1>1, <1>13
  <2>6. Owes(z, pos - d, owed)
    BY <1>1, <2>3, <2>4, <2>5, ShiftedOwes
  <2> QED
    BY <1>8, <1>13, <1>14, <2>2, <2>6
<1>16. Known(buf', pos' + 1, hint')
  <2>1. pos + 1 \in Nat /\ pos + 1 > d /\ (pos + 1) - d = pos' + 1 /\ pos' + 1 \in Nat \ {0}
    BY <1>1, <1>13
  <2>2. Known(buf, pos + 1, hint)
    BY DEF WholeInv
  <2>3. Known(c, pos' + 1, hint)
    <3>1. Known(c, (pos + 1) - d, hint)
      BY <1>1, <1>13, <2>1, <2>2, ShiftedKnown
    <3> QED
      BY <2>1, <3>1
  <2>4. PICK v : v = c \o piece
    OBVIOUS
  <2>5. Joins(v, c, Len(c), piece, Len(piece))
    BY <1>10, <1>13, <2>4, JoinedAt
  <2>6. Known(v, pos' + 1, hint)
    BY <1>1, <1>10, <1>13, <2>1, <2>3, <2>5, JoinedKnown
  <2> QED
    BY <1>8, <1>13, <2>4, <2>6
<1> QED
  BY <1>1, <1>8, <1>15, <1>16 DEF WholeInv, Waits

\* Nothing is owed in an empty text.
LEMMA NothingOwed == Owes(<< >> \o << >>, 0, << >>)
<1>1. << >> \o << >> = << >> /\ << >> \in Seq(Symbols) /\ Len(<< >>) = 0
  OBVIOUS
<1>2. PICK b : b = << >> \o << >>
  OBVIOUS
<1>3. PICK o : o = << >>
  OBVIOUS
<1>4. Len(b) = 0 /\ Len(o) = 0
  BY <1>1, <1>2, <1>3
<1>5. 1 .. Len(o) = {} /\ 0 + 1 .. Len(b) = {}
  BY <1>4
<1> DEFINE s == [i \in 1 .. Len(o) |-> 0]
<1>6. s \in [1 .. Len(o) -> Nat]
  OBVIOUS
<1> HIDE DEF s
<1>7. Marks(s, b, 0, o)
  BY <1>5 DEF Marks
<1>8. Owes(b, 0, o)
  BY <1>6, <1>7 DEF Owes
<1> QED
  BY <1>2, <1>3, <1>8

LEMMA WriteOwes == PipeTypeOK /\ WholeInv /\ WriteFrame => WholeInv'
<1> SUFFICES ASSUME PipeTypeOK, WholeInv, WriteFrame PROVE WholeInv'
  OBVIOUS
<1>1. PICK frame \in Good \cup Damaged : pipe' = pipe \o frame.text /\ owed' = owed \o frame.owes
  BY DEF WriteFrame
<1>2. PICK t : t = frame.text
  OBVIOUS
<1>3. PICK w : w = frame.owes
  OBVIOUS
<1>4. Framed(t) /\ Writes(t, w) /\ t \in Seq(Symbols)
  BY <1>2, <1>3, FrameFacts DEF Framed
<1>5. /\ buf' = buf /\ pos' = pos /\ hint' = hint /\ draining' = draining /\ strange' = strange
      /\ pipe' = pipe \o t /\ owed' = owed \o w
  BY <1>1, <1>2, <1>3 DEF WriteFrame, parser
<1>6. /\ pipe \in Seq(Symbols) /\ buf \in Seq(Symbols) /\ pos \in 0 .. Len(buf)
      /\ owed \in Seq(Payloads)
  BY DEF PipeTypeOK
<1>7. PICK u : u = buf \o pipe
  OBVIOUS
<1>8. PICK c : c = u \o t
  OBVIOUS
<1>9. u \in Seq(Symbols) /\ Prefix(buf, u) /\ Owes(u, pos, owed)
  BY <1>7, TextIs DEF WholeInv
<1>10. Joins(c, u, Len(u), t, Len(t))
  BY <1>4, <1>8, <1>9, JoinedAt
<1>11. pos \in 0 .. Len(u)
  <2>1. Len(buf) <= Len(u) /\ Len(u) \in Nat /\ Len(buf) \in Nat
    BY <1>6, <1>9 DEF Prefix
  <2> QED
    BY <1>6, <2>1
<1>12. Owes(c, pos, owed \o w)
  BY <1>4, <1>6, <1>9, <1>10, <1>11, AddedOwes
<1>13. c = buf' \o pipe'
  <2>1. (buf \o pipe) \o t = buf \o (pipe \o t)
    BY <1>4, <1>6, ConcatAssociative
  <2> QED
    BY <1>5, <1>7, <1>8, <2>1
<1>14. Owes(buf' \o pipe', pos', owed')
  BY <1>5, <1>12, <1>13
<1>15. Known(buf', pos' + 1, hint') /\ Waits' /\ ~strange'
  BY <1>5 DEF WholeInv, Waits, Stuck
<1> QED
  BY <1>14, <1>15 DEF WholeInv

LEMMA WholeStep == PipeInv /\ WholeInv /\ [PipeNext]_pipeVars => WholeInv'
<1> SUFFICES ASSUME PipeTypeOK, WholeInv, [PipeNext]_pipeVars PROVE WholeInv'
  BY DEF PipeInv
<1>1. CASE NextItem
  BY <1>1, NextItemKeeps
<1>2. CASE Read
  BY <1>2, ReadOwes
<1>3. CASE ReadEof
  <2>1. /\ pipe' = << >> /\ buf' = << >> /\ pos' = 0 /\ hint' = 0 /\ owed' = << >> /\ ~strange'
    BY <1>3 DEF ReadEof, WholeInv
  <2>2. Known(buf', pos' + 1, hint')
    BY <2>1 DEF Known
  <2>3. NoneFrom(buf', pos' + 1, ItemOpen)
    <3>1. Len(buf') = 0
      BY <2>1
    <3>2. pos' + 1 .. Len(buf') = {}
      BY <2>1, <3>1
    <3> QED
      BY <3>2 DEF NoneFrom
  <2>4. Owes(buf' \o pipe', pos', owed')
    BY <2>1, NothingOwed
  <2> QED
    BY <2>1, <2>2, <2>3, <2>4 DEF WholeInv, Waits
<1>4. CASE WriteFrame
  BY <1>4, WriteOwes
<1>5. CASE Open \/ Close \/ UNCHANGED pipeVars
  <2>1. UNCHANGED <<pipe, buf, pos, hint, draining, owed, strange>>
    BY <1>5 DEF Open, Close, pipeVars, parser
  <2> QED
    BY <2>1 DEF WholeInv, Waits, Stuck
<1> QED
  BY <1>1, <1>2, <1>3, <1>4, <1>5 DEF PipeNext

LEMMA WholeStart == PipeInit => WholeInv
<1> SUFFICES ASSUME PipeInit PROVE WholeInv
  OBVIOUS
<1>1. /\ pipe = << >> /\ buf = << >> /\ pos = 0 /\ hint = 0 /\ owed = << >> /\ ~strange
  BY DEF PipeInit
<1>2. NoneFrom(buf, pos + 1, ItemOpen)
  <2>1. Len(buf) = 0
    BY <1>1
  <2>2. pos + 1 .. Len(buf) = {}
    BY <1>1, <2>1
  <2> QED
    BY <2>2 DEF NoneFrom
<1>3. Owes(buf \o pipe, pos, owed)
  BY <1>1, NothingOwed
<1> QED
  BY <1>1, <1>2, <1>3 DEF WholeInv, Waits, Known

\* White space ends at one place.
LEMMA BlankIsOne ==
    ASSUME NEW b \in Seq(Symbols), NEW from \in Nat, NEW i, Blank(b, from, i),
           NEW j, Blank(b, from, j)
    PROVE  i = j
<1>1. /\ i \in from .. Len(b) + 1 /\ j \in from .. Len(b) + 1 /\ Len(b) \in Nat
      /\ \A x \in from .. i - 1 : b[x] = Space
      /\ \A x \in from .. j - 1 : b[x] = Space
      /\ i <= Len(b) => b[i] # Space
      /\ j <= Len(b) => b[j] # Space
  BY DEF Blank
<1>2. CASE i < j
  <2>1. i \in from .. j - 1 /\ i <= Len(b)
    BY <1>1, <1>2
  <2> QED
    BY <1>1, <2>1
<1>3. CASE j < i
  <2>1. j \in from .. i - 1 /\ j <= Len(b)
    BY <1>1, <1>3
  <2> QED
    BY <1>1, <2>1
<1> QED
  BY <1>1, <1>2, <1>3

\* White space ends before a symbol that is none.
LEMMA BlankBefore ==
    ASSUME NEW b \in Seq(Symbols), NEW from \in Nat, NEW i, Blank(b, from, i),
           NEW x \in from .. Len(b), b[x] # Space
    PROVE  i \in from .. x
<1>1. i \in from .. Len(b) + 1 /\ \A y \in from .. i - 1 : b[y] = Space
  BY DEF Blank
<1>2. ASSUME x < i PROVE FALSE
  <2>1. x \in from .. i - 1
    BY <1>1, <1>2
  <2> QED
    BY <1>1, <2>1
<1> QED
  BY <1>1, <1>2

\* A damaged item that is waited for, with an item behind it, has begun its data; and
\* what ends the data there is the last thing the buffer holds.
LEMMA StuckSays ==
    ASSUME NEW b \in Seq(Symbols), NEW q \in 1 .. Len(b), At(b, q, ItemOpen), Spoilt(b, q),
           NEW r, ItemSays(b, q, r), r.is = "incomplete",
           NEW x \in q + 1 .. Len(b), x + 9 <= Len(b) + 1, b[x] = "<", b[x + 1] = "item>",
           At(b, x + 5, LengthClose)
    PROVE  /\ \E c \in q .. Len(b) : At(b, c, DataOpen)
           /\ \A d : IsNext(b, q, d, DataClose) =>
                \E g : Blank(b, d + 2, g) /\ g >= Len(b)
<1>1. /\ Len(b) \in Nat /\ q \in Nat /\ x \in Nat /\ x + 1 <= Len(b) /\ x < Len(b)
      /\ x + 1 \in Nat /\ x + 5 \in 1 .. Len(b)
  OBVIOUS
<1>2. b[q + 1] = "item>"
  BY TagSymbols
<1>3. x >= q + 2 /\ x \in q + 2 .. Len(b)
  <2>1. x # q + 1
    BY <1>2
  <2> QED
    BY <1>1, <2>1
<1>4. PICK a : Blank(b, q + 2, a) /\ LengthSays(b, q, a, r)
  BY DEF ItemSays
<1>5. a \in q + 2 .. x /\ a \in Nat
  <2>1. a \in q + 2 .. x
    BY <1>3, <1>4, BlankBefore DEF Space
  <2> QED
    BY <1>1, <2>1
<1>6. ~Fails(b, a, LengthOpen, r)
  <2>1. ~Split(b, a, LengthOpen)
    <3>1. a < Len(b)
      BY <1>1, <1>5
    <3> QED
      BY <1>1, <1>5, <3>1 DEF Split
  <2> QED
    BY <2>1 DEF Fails, Bad
<1>7. ~NoneFrom(b, a + 2, LengthClose)
  <2>1. x + 5 \in a + 2 .. Len(b)
    BY <1>1, <1>5
  <2> QED
    BY <2>1 DEF NoneFrom
<1>8. Lengthed(b, a) /\ \E c : Blank(b, a + 5, c) /\ BodySays(b, q, c, r)
  BY <1>4, <1>6, <1>7 DEF LengthSays, Bad
<1>9. PICK c : Blank(b, a + 5, c) /\ BodySays(b, q, c, r)
  BY <1>8
<1>10. /\ b[a + 1] = "length>" /\ b[a + 2] \in Digits /\ b[a + 3] = "</" /\ b[a + 4] = "length>"
       /\ a + 4 <= Len(b)
  <2>1. (a + 3) + 1 = a + 4
    BY <1>5
  <2> QED
    BY <1>8, <2>1, TagSymbols DEF Lengthed
<1>11. x >= a + 5 /\ x \in a + 5 .. Len(b)
  <2>1. x # a
    BY <1>10
  <2>2. x # a + 1 /\ x # a + 2 /\ x # a + 3 /\ x # a + 4
    BY <1>10 DEF Digits
  <2> QED
    BY <1>1, <1>5, <2>1, <2>2
<1>12. c \in a + 5 .. x /\ c \in Nat /\ a + 5 \in Nat
  <2>1. a + 5 \in Nat
    BY <1>5
  <2>2. c \in a + 5 .. x
    BY <1>9, <1>11, <2>1, BlankBefore DEF Space
  <2> QED
    BY <1>1, <2>1, <2>2
<1>13. /\ ~At(b, c, ItemClose)
       /\ At(b, c, DataOpen) => c = q + 7 /\ SpoiltData(b, q)
  BY <1>4, <1>8, <1>9, SpoiltBody
<1>14. ~Split(b, c, ItemClose) /\ ~Split(b, c, DataOpen)
  <2>1. c < Len(b)
    BY <1>1, <1>12
  <2> QED
    BY <1>1, <1>12, <2>1 DEF Split
<1>15. /\ At(b, c, DataOpen)
       /\ \/ NoTagEnd(b, c + 2, Len(b))
          \/ \E e \in c + 2 .. Len(b) :
               b[e] \in TagEnds /\ NoTagEnd(b, c + 2, e - 1) /\ DataSays(b, q, e + 1, r)
  BY <1>9, <1>13, <1>14 DEF BodySays, Bad
<1>16. c = q + 7 /\ SpoiltData(b, q)
  BY <1>13, <1>15
<1>17. x >= c + 2
  <2>1. b[c + 1] = "data"
    BY <1>15, TagSymbols
  <2>2. x # c /\ x # c + 1
    BY <2>1
  <2> QED
    BY <1>1, <1>12, <2>2
<1>18. ~NoTagEnd(b, c + 2, Len(b))
  <2>1. x + 1 \in c + 2 .. Len(b)
    BY <1>1, <1>12, <1>17
  <2>2. b[x + 1] \in TagEnds
    BY DEF TagEnds
  <2> QED
    BY <2>1, <2>2 DEF NoTagEnd
<1>19. PICK e \in c + 2 .. Len(b) :
          b[e] \in TagEnds /\ NoTagEnd(b, c + 2, e - 1) /\ DataSays(b, q, e + 1, r)
  BY <1>15, <1>18
<1>20. e \in q + 9 .. Len(b) /\ c + 2 = q + 9 /\ e \in Nat
  BY <1>1, <1>12, <1>16
<1>21. \A y \in q .. e : ~At(b, y, DataClose)
  BY <1>16, <1>19, <1>20, SpoiltEnds
<1>22. c \in q .. Len(b)
  BY <1>1, <1>5, <1>12
<1>23. ASSUME NEW d, IsNext(b, q, d, DataClose) PROVE \E g : Blank(b, d + 2, g) /\ g >= Len(b)
  <2>1. d \in q .. Len(b) /\ At(b, d, DataClose) /\ \A j \in q .. d - 1 : ~At(b, j, DataClose)
    BY <1>23 DEF IsNext
  <2>2. d \in e + 1 .. Len(b)
    <3>1. ~(d <= e)
      <4>1. d <= e => d \in q .. e
        BY <1>1, <1>20, <2>1
      <4> QED
        BY <1>21, <2>1, <4>1
    <3> QED
      BY <1>1, <1>20, <2>1, <3>1
  <2>3. ~NoneFrom(b, e + 1, DataClose)
    BY <2>1, <2>2 DEF NoneFrom
  <2>4. PICK d2 : IsNext(b, e + 1, d2, DataClose) /\ EndSays(b, e + 1, d2, r)
    BY <1>19, <2>3 DEF DataSays
  <2>5. d2 = d
    <3>1. d2 \in e + 1 .. Len(b) /\ At(b, d2, DataClose) /\ \A j \in e + 1 .. d2 - 1 : ~At(b, j, DataClose)
      BY <2>4 DEF IsNext
    <3>2. ~(d2 < d)
      <4>1. d2 < d => d2 \in q .. d - 1
        BY <1>1, <1>20, <2>1, <3>1
      <4> QED
        BY <2>1, <3>1, <4>1
    <3>3. ~(d < d2)
      <4>1. d < d2 => d \in e + 1 .. d2 - 1
        BY <1>1, <1>20, <2>2, <3>1
      <4> QED
        BY <2>1, <3>1, <4>1
    <3> QED
      BY <1>1, <1>20, <2>2, <3>1, <3>2, <3>3
  <2>6. PICK g : /\ Blank(b, d + 2, g)
                 /\ \/ Fails(b, g, ItemClose, r)
                    \/ /\ At(b, g, ItemClose)
                       /\ r = IF Clean(Decodes(b, e + 1, d))
                              THEN [is |-> "item", payload |-> Decodes(b, e + 1, d), i |-> g + 2]
                              ELSE Bad
    BY <2>4, <2>5 DEF EndSays
  <2>7. Fails(b, g, ItemClose, r)
    BY <2>6 DEF Bad
  <2>8. Split(b, g, ItemClose)
    BY <2>7 DEF Fails, Bad
  <2>9. g >= Len(b)
    BY <2>8 DEF Split
  <2> QED
    BY <2>6, <2>9
<1> QED
  BY <1>15, <1>22, <1>23

LEMMA WholeHolds == PipeInv /\ WholeInv => WholeItemsSurvive
<1> SUFFICES ASSUME PipeInv, WholeInv, ~draining, pipe = << >>, owed # << >>
             PROVE  /\ Starts(buf, pos + 1, ItemOpen) /\ Places(buf, pos + 1, DataOpen) # {}
                    /\ LET ends == Places(buf, pos + 1, DataClose)
                       IN ends # {} => AfterSpace(buf, First(ends) + Len(DataClose)) >= Len(buf)
                    /\ Len(buf) - pos <= MaxBuffer
  BY DEF WholeItemsSurvive, WholeInv
<1>1. /\ buf \in Seq(Symbols) /\ pos \in 0 .. Len(buf) /\ owed \in Seq(Payloads) /\ PipeTypeOK
      /\ Len(buf) \in Nat /\ pos \in Nat /\ Len(buf) - pos <= MaxBuffer
  BY DEF PipeInv, PipeTypeOK, Rested
<1>2. PICK s \in [1 .. Len(owed) -> Nat] : Marks(s, buf, pos, owed)
  <2>1. buf \o pipe = buf
    BY <1>1, ConcatEmptySeq
  <2>2. Owes(buf, pos, owed)
    BY <2>1 DEF WholeInv
  <2> QED
    BY <2>2 DEF Owes
<1>3. 1 \in 1 .. Len(owed)
  BY <1>1
<1>4. owed[1] \in Payloads
  BY <1>1, <1>3, ElementOfSeq
<1>5. PICK x \in Nat : x = s[1]
  BY <1>3
<1>6. x > pos /\ ReadsTo(buf, x, Sent(owed[1]), Len(Sent(owed[1])))
  BY <1>2, <1>3, <1>5 DEF Marks
<1>7. /\ x + 9 <= Len(buf) + 1 /\ At(buf, x, ItemOpen) /\ buf[x] = "<" /\ buf[x + 1] = "item>"
      /\ At(buf, x + 5, LengthClose)
  BY <1>1, <1>4, <1>6, OwedPlace
<1>8. PICK q : q = pos + 1
  OBVIOUS
<1>9. q \in 1 .. Len(buf) /\ x \in q .. Len(buf) /\ q \in Nat
  BY <1>1, <1>6, <1>7, <1>8
<1>10. PICK r : At(buf, q, ItemOpen) /\ ItemSays(buf, q, r) /\ r.is = "incomplete"
  <2>1. ~NoneFrom(buf, q, ItemOpen)
    BY <1>7, <1>9 DEF NoneFrom
  <2> QED
    BY <1>8, <2>1 DEF WholeInv, Waits, Stuck
<1>11. \A i \in 1 .. Len(owed) : s[i] # q
  <2> SUFFICES ASSUME NEW i \in 1 .. Len(owed), s[i] = q PROVE FALSE
    OBVIOUS
  <2>1. PICK p \in Payloads : p = owed[i]
    BY <1>1, ElementOfSeq
  <2>2. PICK n : n = Len(Sent(p))
    OBVIOUS
  <2>3. ReadsTo(buf, q, Sent(p), n)
    BY <1>2, <2>1, <2>2 DEF Marks
  <2>4. p \in Seq({"a", "b"}) /\ n \in Nat
    BY <2>2, SentLength
  <2>5. q + n <= Len(buf) + 1 /\ Agrees(buf, q, Sent(p), n)
    BY <2>3 DEF ReadsTo, Agrees
  <2>6. Answers(buf, q, Sent(p), p, r)
    BY <1>1, <1>9, <1>10, <2>2, <2>4, <2>5, OwedParses
  <2>7. r = [is |-> "item", payload |-> p, i |-> q + n]
    BY <2>2, <2>5, <2>6 DEF Answers
  <2> QED
    BY <1>10, <2>7
<1>12. Doomed(buf, q)
  BY <1>2, <1>8, <1>9, <1>10, <1>11 DEF Marks
<1>13. Spoilt(buf, q)
  <2>1. Prefix(buf, buf) /\ q \in Nat \ {0}
    BY <1>1, <1>9 DEF Prefix
  <2> QED
    BY <1>1, <1>12, <2>1, PrefixSpoilt
<1>14. x \in q + 1 .. Len(buf)
  <2>1. x # q
    BY <1>3, <1>5, <1>11
  <2> QED
    BY <1>1, <1>9, <2>1
<1>15. /\ \E c \in q .. Len(buf) : At(buf, c, DataOpen)
       /\ \A d : IsNext(buf, q, d, DataClose) => \E g : Blank(buf, d + 2, g) /\ g >= Len(buf)
  BY <1>1, <1>7, <1>9, <1>10, <1>13, <1>14, StuckSays
<1>16. q \in Nat \ {0} /\ DataOpen \in Tags /\ DataClose \in Tags /\ ItemOpen \in Tags
       /\ Len(DataClose) = 2
  BY <1>9, TagParts, TagWords
<1>17. Starts(buf, q, ItemOpen)
  BY <1>1, <1>10, <1>16, StartsAt
<1>18. Places(buf, q, DataOpen) # {}
  BY <1>1, <1>15, <1>16, PlacesAre DEF NoneFrom
<1>19. ASSUME Places(buf, q, DataClose) # {}
       PROVE  AfterSpace(buf, First(Places(buf, q, DataClose)) + Len(DataClose)) >= Len(buf)
  <2>1. PICK d : d = First(Places(buf, q, DataClose))
    OBVIOUS
  <2>2. IsNext(buf, q, d, DataClose)
    BY <1>1, <1>16, <1>19, <2>1, NextOf
  <2>3. PICK g : Blank(buf, d + 2, g) /\ g >= Len(buf)
    BY <1>15, <2>2
  <2>4. d \in q .. Len(buf) /\ d + 1 <= Len(buf)
    BY <2>2 DEF IsNext, At
  <2>5. d + 2 \in 1 .. Len(buf) + 1 /\ d + 2 \in Nat
    BY <1>1, <1>9, <2>4
  <2>6. Blank(buf, d + 2, AfterSpace(buf, d + 2))
    BY <1>1, <2>5, SpaceIs
  <2>7. AfterSpace(buf, d + 2) = g
    BY <1>1, <2>3, <2>5, <2>6, BlankIsOne
  <2> QED
    BY <1>16, <2>1, <2>3, <2>7
<1> QED
  BY <1>1, <1>8, <1>17, <1>18, <1>19

\* Items that were written whole are delivered once, in order, and nothing else is,
\* however the bytes are cut into reads and whatever damaged item or junk comes
\* between (parser.rs, parse_item_at, next_item).
THEOREM WholeTheorem == PipeSpec => []WholeItemsSurvive
<1>1. PipeInit => PipeInv /\ WholeInv
  BY PipeStart, WholeStart
<1>2. PipeInv /\ WholeInv /\ [PipeNext]_pipeVars => (PipeInv /\ WholeInv)'
  BY PipeStep, WholeStep
<1>3. PipeInv /\ WholeInv => WholeItemsSurvive
  BY WholeHolds
<1> QED
  BY <1>1, <1>2, <1>3, PTL DEF PipeSpec
====
