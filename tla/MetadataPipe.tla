---- MODULE MetadataPipe ----
(***************************************************************************)
(* The metadata FIFO and the framing parser behind it                      *)
(* (crates/artd/src/pipe.rs, crates/spmeta/src/parser.rs).  shairport-sync *)
(* writes items back to back; the reader takes them in pieces of any size, *)
(* may find an item cut short, and goes on at the next <item>.             *)
(*                                                                         *)
(* A symbol stands for a few bytes, so that every tag is two symbols and   *)
(* can be split between two reads.  The type, the code and the length of   *)
(* an item are one field; its body is the length.  A payload symbol that   *)
(* is not base64 is "!".  The writer is external: it may be killed, or     *)
(* lose the rest of an item, anywhere.                                     *)
(***************************************************************************)
EXTENDS Naturals, Sequences, SequencesExt

CONSTANTS
    Payloads,     \* payloads of the items that are sent
    Pieces,       \* sizes of the pieces a read returns
    MaxBuffer,    \* Limits::max_buffer_bytes
    CompactAt,    \* consumed bytes worth reclaiming, 64 KiB
    PipeCapacity, \* bound of the model: bytes in the FIFO
    MaxFrames     \* bound of the model: writes

ASSUME SizesAssumption ==
    /\ Pieces \subseteq Nat \ {0} /\ Pieces # {}
    /\ {MaxBuffer, CompactAt, PipeCapacity, MaxFrames} \subseteq Nat /\ MaxBuffer > 0
ASSUME PayloadsAssumption == Payloads \subseteq Seq({"a", "b"})

VARIABLES
    pipe,      \* the FIFO
    writer,    \* whether there is a writer
    written,   \* frames written so far
    attached,  \* run: a writer has been seen since the last end of file
    buf,       \* Parser::buf
    pos,       \* Parser::pos
    hint,      \* Parser::scan_hint
    draining,  \* run: next_event has not answered None yet
    owed,      \* history: payloads written whole and not delivered yet
    strange    \* history: something was delivered that was not owed

parser == <<buf, pos, hint>>
pipeVars == <<pipe, writer, written, attached, parser, draining, owed, strange>>

ItemOpen == <<"<", "item>">>
ItemClose == <<"</", "item>">>
LengthOpen == <<"<", "length>">>
LengthClose == <<"</", "length>">>
DataOpen == <<"<", "data">>
DataClose == <<"</", "data>">>
TagEnds == {">", "item>", "length>", "data>"}
Space == "w"

\* Everything that can be in the pipe.
Symbols == {"<", "</", "data", Space, "?", "!", "a", "b", "0", "1", "2", "big"} \cup TagEnds

\* Payloads of more than one byte are wrapped.
Wrapped(payload) == IF Len(payload) < 2 THEN payload ELSE <<Head(payload), Space>> \o Tail(payload)

LengthOf(payload) == CASE Len(payload) = 0 -> "0" [] Len(payload) = 1 -> "1" [] OTHER -> "2"

Body(payload) ==
    IF payload = << >> THEN << >>
    ELSE DataOpen \o <<">">> \o Wrapped(payload) \o DataClose

Item(length, payload) ==
    ItemOpen \o LengthOpen \o <<length>> \o LengthClose \o Body(payload) \o ItemClose

Good == {[text |-> Item(LengthOf(p), p), owes |-> <<p>>] : p \in Payloads}

\* What is whole fits in the buffer: max_buffer_bytes is twice max_item_bytes, and
\* base64 makes four bytes of three.
ASSUME FitAssumption == \A p \in Payloads : Len(Item(LengthOf(p), p)) <= MaxBuffer

\* Items cut short anywhere, items the parser refuses, and bytes that are no item.
Damaged ==
    {[text |-> SubSeq(Item("1", <<"a">>), 1, n), owes |-> << >>] :
       n \in 1 .. Len(Item("1", <<"a">>)) - 1}
    \cup {[text |-> t, owes |-> << >>] :
            t \in {Item("1", <<"!">>), Item("big", <<"a">>), <<"?">>, <<Space>>}}

\* Invariant: the parser stands inside its buffer.
PipeTypeOK ==
    /\ pipe \in Seq(Symbols) /\ writer \in BOOLEAN /\ written \in 0 .. MaxFrames
    /\ attached \in BOOLEAN /\ draining \in BOOLEAN /\ strange \in BOOLEAN
    /\ buf \in Seq(Symbols) /\ pos \in 0 .. Len(buf) /\ hint \in Nat
    /\ owed \in Seq(Payloads)

PipeInit ==
    /\ pipe = << >> /\ writer = FALSE /\ written = 0 /\ attached = FALSE
    /\ buf = << >> /\ pos = 0 /\ hint = 0
    /\ draining = FALSE
    /\ owed = << >> /\ strange = FALSE

----
(* Parsing an item at a place of the buffer *)

\* A step of the cursor: where it is, or why it stopped.
Ok(i) == [is |-> "ok", i |-> i]
Incomplete == [is |-> "incomplete"]
Bad == [is |-> "bad"]
Then(step, Rest(_)) == IF step.is = "ok" THEN Rest(step.i) ELSE step

Starts(b, i, tag) ==
    i + Len(tag) - 1 <= Len(b) /\ SubSeq(b, i, i + Len(tag) - 1) = tag
Splits(b, i, tag) == i + Len(tag) - 1 > Len(b) /\ IsPrefix(SubSeq(b, i, Len(b)), tag)

\* Cursor::tag: a tag that is still arriving is not a wrong one.
Tag(b, i, tag) ==
    CASE Starts(b, i, tag) -> Ok(i + Len(tag))
      [] ~Starts(b, i, tag) /\ Splits(b, i, tag) -> Incomplete
      [] OTHER -> Bad

\* find
Places(b, from, needle) == {i \in from .. Len(b) : Starts(b, i, needle)}
First(places) == CHOOSE i \in places : \A j \in places : i <= j

\* Cursor::until
Until(b, from, needle) ==
    IF Places(b, from, needle) = {} THEN Incomplete ELSE Ok(First(Places(b, from, needle)))

AfterTagEnd(b, from) ==
    LET places == {i \in from .. Len(b) : b[i] \in TagEnds}
    IN IF places = {} THEN Incomplete ELSE Ok(First(places) + 1)

\* Cursor::ws
AfterSpace(b, i) ==
    First({j \in i .. Len(b) : b[j] # Space} \cup {Len(b) + 1})

\* hex_field and dec_field, with the limit on the declared length.
Field(b, i) ==
    Then(Tag(b, i, LengthOpen), LAMBDA j :
      Then(Until(b, j, LengthClose), LAMBDA k :
        IF k = j + 1 /\ b[j] \in {"0", "1", "2"} THEN Ok(k + Len(LengthClose)) ELSE Bad))

\* Mutant: the scan resumes where the last one ended.
FromHint(start, known, i) == IF start + known > i THEN start + known ELSE i

\* until_hinted backs off, for a terminator split between two reads.
Resume(start, known, i) ==
    IF start + known > i + Len(DataClose) - 1
    THEN start + known - (Len(DataClose) - 1) ELSE i

\* What is decoded is the text without the line wrapping.
Unwrapped(raw) ==
    LET kept[n \in 0 .. Len(raw)] ==
          IF n = 0 THEN << >>
          ELSE IF raw[n] = Space THEN kept[n - 1] ELSE Append(kept[n - 1], raw[n])
    IN kept[Len(raw)]

\* The end of an item with data: what was decoded, and where it ends.
DataItem(b, start, known, i) ==
    LET end == Until(b, Resume(start, known, i), DataClose)
    IN IF end.is # "ok" THEN [is |-> "incomplete", known |-> Len(b) + 1 - start]
       ELSE Then(Tag(b, AfterSpace(b, end.i + Len(DataClose)), ItemClose), LAMBDA j :
              LET payload == Unwrapped(SubSeq(b, i, end.i - 1))
              IN IF \A s \in ToSet(payload) : s = "a" \/ s = "b"
                 THEN [is |-> "item", payload |-> payload, i |-> j] ELSE Bad)

\* parse_item_at
ParseItemAt(b, start, known) ==
    Then(Tag(b, start, ItemOpen), LAMBDA i :
      Then(Field(b, AfterSpace(b, i)), LAMBDA j :
        LET k == AfterSpace(b, j)
        IN CASE Starts(b, k, ItemClose) ->
                  [is |-> "item", payload |-> << >>, i |-> k + Len(ItemClose)]
             [] Starts(b, k, DataOpen) ->
                  Then(AfterTagEnd(b, k + Len(DataOpen)), LAMBDA l :
                    DataItem(b, start, known, l))
             [] ~Starts(b, k, ItemClose) /\ ~Starts(b, k, DataOpen)
                /\ (Splits(b, k, ItemClose) \/ Splits(b, k, DataOpen)) -> Incomplete
             [] OTHER -> Bad))

----
(* Parser::next_item *)

\* compact
Compacted(b, p) ==
    IF p > 0 /\ (p >= CompactAt \/ p = Len(b))
    THEN [buf |-> SubSeq(b, p + 1, Len(b)), pos |-> 0]
    ELSE [buf |-> b, pos |-> p]

Deliver(payload) ==
    IF owed # << >> /\ Head(owed) = payload
    THEN owed' = Tail(owed) /\ UNCHANGED strange
    ELSE strange' = TRUE /\ UNCHANGED owed

Silent == UNCHANGED <<owed, strange>>

\* Mutant: an item that never ends is waited for.
WaitsForEver(start) == FALSE

\* More than max_buffer_bytes, and still no end of the item.
Overflows(start) == Len(buf) + 1 - start > MaxBuffer

\* No item starts in the buffer: what may be the start of one is kept.
NoItem ==
    LET unparsed == Len(buf) - pos
        skip == IF unparsed > Len(ItemOpen) - 1 THEN unparsed - (Len(ItemOpen) - 1) ELSE 0
        junk == ToSet(SubSeq(buf, pos + 1, pos + skip))
        cut == Compacted(buf, pos + skip)
    IN /\ hint' = IF skip > 0 THEN 0 ELSE hint
       /\ IF junk \subseteq {Space}
          THEN buf' = cut.buf /\ pos' = cut.pos /\ draining' = FALSE
          ELSE buf' = buf /\ pos' = pos + skip /\ draining' = TRUE
       /\ Silent

\* What is before the item is reported first, unless it is white space.
SkipTo(start) ==
    /\ pos' = start - 1 /\ hint' = 0
    /\ draining' = TRUE
    /\ Silent /\ UNCHANGED buf

Attempted(start) ==
    LET result == ParseItemAt(buf, start, IF start = pos + 1 THEN hint ELSE 0)
    IN /\ CASE result.is = "item" ->
                 /\ pos' = result.i - 1 /\ hint' = 0
                 /\ draining' = TRUE
                 /\ Deliver(result.payload)
            [] result.is = "bad" \/ (result.is = "incomplete" /\ Overflows(start)) ->
                 /\ pos' = start /\ hint' = 0
                 /\ draining' = TRUE
                 /\ Silent
            [] OTHER ->
                 /\ pos' = start - 1
                 /\ hint' = IF "known" \in DOMAIN result THEN result.known
                            ELSE IF start = pos + 1 THEN hint ELSE 0
                 /\ draining' = FALSE
                 /\ Silent
       /\ UNCHANGED buf

NextItem ==
    /\ draining
    /\ LET starts == Places(buf, pos + 1, ItemOpen)
       IN IF starts = {} THEN NoItem
          ELSE LET start == First(starts)
                   junk == ToSet(SubSeq(buf, pos + 1, start - 1))
               IN IF junk \subseteq {Space} THEN Attempted(start) ELSE SkipTo(start)
    /\ UNCHANGED <<pipe, writer, written, attached>>

----
(* pipe.rs: run *)

Least(a, b) == IF a < b THEN a ELSE b

\* feed: the consumed prefix goes before the piece is added.
Read ==
    /\ ~draining /\ pipe # << >>
    /\ \E size \in Pieces :
         LET n == Least(size, Len(pipe))
             cut == Compacted(buf, pos)
         IN /\ buf' = cut.buf \o SubSeq(pipe, 1, n) /\ pos' = cut.pos
            /\ pipe' = SubSeq(pipe, n + 1, Len(pipe))
    /\ attached' = TRUE /\ draining' = TRUE
    /\ UNCHANGED <<writer, written, hint, owed, strange>>

\* The end of the file: the next writer starts with a new decoder, and what is
\* still in the old one is given up.
ReadEof ==
    /\ ~draining /\ pipe = << >> /\ ~writer /\ attached
    /\ attached' = FALSE
    /\ buf' = << >> /\ pos' = 0 /\ hint' = 0
    /\ owed' = << >>
    /\ UNCHANGED <<pipe, writer, written, draining, strange>>

----
(* shairport-sync *)

Open ==
    /\ ~writer /\ written < MaxFrames
    /\ writer' = TRUE
    /\ UNCHANGED <<pipe, written, attached, parser, draining, owed, strange>>

WriteFrame ==
    /\ writer /\ written < MaxFrames
    /\ \E frame \in Good \cup Damaged :
         /\ Len(pipe) + Len(frame.text) <= PipeCapacity
         /\ pipe' = pipe \o frame.text
         /\ owed' = owed \o frame.owes
    /\ written' = written + 1
    /\ UNCHANGED <<writer, attached, parser, draining, strange>>

Close ==
    /\ writer
    /\ writer' = FALSE
    /\ UNCHANGED <<pipe, written, attached, parser, draining, owed, strange>>

PipeNext == NextItem \/ Read \/ ReadEof \/ Open \/ WriteFrame \/ Close

PipeSpec == PipeInit /\ [][PipeNext]_pipeVars

----
(* Properties *)

\* Items that were written whole are delivered once, in order, and nothing else
\* is, however the bytes are cut into reads and whatever damaged item or junk
\* comes between.  When the reader waits, the only whole items it has not
\* delivered stand behind an item that has begun its data and has not ended, and
\* they fit in the buffer.  (parser.rs, "resynchronising scanner"; next_item,
\* until_hinted.)
WholeItemsSurvive ==
    /\ ~strange
    /\ ~draining /\ pipe = << >> /\ owed # << >> =>
         LET ends == Places(buf, pos + 1, DataClose)
         IN /\ Starts(buf, pos + 1, ItemOpen) /\ Places(buf, pos + 1, DataOpen) # {}
            /\ ends # {} => AfterSpace(buf, First(ends) + Len(DataClose)) >= Len(buf)
            /\ Len(buf) - pos <= MaxBuffer

\* The buffer holds no more than what may be an item, what was just read, and a
\* prefix not worth reclaiming.  (parser.rs, Limits, compact.)
BufferIsBounded ==
    \E most \in Pieces : Len(buf) <= CompactAt + MaxBuffer + most
====
