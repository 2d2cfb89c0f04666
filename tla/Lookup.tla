---- MODULE Lookup ----
(***************************************************************************)
(* One search for a sharper cover (crates/artd/src/enrich/mod.rs,          *)
(* catalogue.rs, gate.rs): each source in turn is asked, at most three     *)
(* times, for records; the best of them is fetched in the largest size     *)
(* that exists; and gates decide whether it replaces the cover on display. *)
(*                                                                         *)
(* The world answers what each attempt at a source meets: an album that is *)
(* "gone", no longer the one that plays, or the catalogue with an error or *)
(* with the records offered, each of them [scores, has, reshaped, decodes, *)
(* alike].  Asked for a size, has says what the server sends: whether it   *)
(* arrives, and the side of the picture, which need not be the size asked. *)
(* The scores are those of Matching.                                       *)
(***************************************************************************)
EXTENDS Matching

MaxAttempts == 3
RetryBackoff == 2

(* catalogue.rs *)

AppleFallbackSizes == <<1500, 1000, 600>>
Clamped(dimension) == Max({Min({dimension, 3000}), 1})

\* apple_art_urls, each named by its size, in its place; dedup drops a size next
\* to its equal only, and a thumbnail of another shape is kept.
AppleArtUrls(record, maxDimension) ==
    LET limit == Clamped(maxDimension)
        sizes == <<limit>> \o AppleFallbackSizes
        kept == {i \in DOMAIN sizes : sizes[i] <= limit /\ (i = 1 \/ sizes[i] # sizes[i - 1])}
    IN IF record.reshaped THEN <<100>> ELSE [i \in kept |-> sizes[i]]

CaaFront == <<1200>>

Urls(source, record, maxDimension) ==
    IF source = "itunes" THEN AppleArtUrls(record, maxDimension) ELSE CaaFront

\* retry_after: a minute if the server did not say, and never above an hour.
RetryAfter(header) == IF header = << >> THEN 60 ELSE Min({header[1], 3600})

\* CatalogueError::is_transient
IsTransient(answer) ==
    answer.is \in {"network", "limited"} \/ (answer.is = "status" /\ answer.code >= 500)

StatusOf(record, size) == IF size \in DOMAIN record.has THEN record.has[size].is ELSE "notfound"
Sent(record, size) == [is |-> StatusOf(record, size), size |-> size, side |-> record.has[size].side]

\* Mutant: any failure tries the next size.
FirstThatWorks(record, urls) ==
    LET hits == {i \in DOMAIN urls : StatusOf(record, urls[i]) = "ok"}
    IN IF hits = {} THEN [is |-> "notfound"] ELSE Sent(record, urls[Min(hits)])

\* fetch_image: only a size that does not exist lets it try the next.
FetchImage(record, urls) ==
    LET hits == {i \in DOMAIN urls : StatusOf(record, urls[i]) # "notfound"}
    IN IF hits = {} THEN [is |-> "notfound"] ELSE Sent(record, urls[Min(hits)])

(* gate.rs *)

SizeGate(current, candidate) == 2 * candidate >= 3 * current

\* judge, for what is up: [side, known, readable].
Judged(record, side, current, strictness) ==
    LET shown == IF current.known \/ current.readable THEN current.side ELSE 0
    IN CASE ~record.decodes -> "undecodable"
         [] record.decodes /\ ~SizeGate(shown, side) -> "size_rejected"
         [] record.decodes /\ SizeGate(shown, side) ->
              IF \/ strictness = "text_only"
                 \/ NearExact(record.scores) /\ strictness # "strict"
              THEN "upgraded"
              ELSE IF ~current.readable THEN "undecodable"
              ELSE IF record.alike THEN "upgraded" ELSE "perceptual_rejected"

(* mod.rs *)

Nothing == [is |-> "nothing"]
Failed(verdict) == [is |-> "failed", verdict |-> verdict]

\* One attempt of try_source, which asks nobody when the album is gone: a search
\* that is over stays over.
Attempted(s, answer) ==
    LET n == s.tries + 1
    IN CASE s.over -> s
         [] ~s.over /\ answer.is = "limited" ->
              [s EXCEPT !.tries = n, !.pauses = Append(@, RetryAfter(answer.header))]
         [] ~s.over /\ answer.is = "offer" ->
              [s EXCEPT !.tries = n, !.over = TRUE, !.offer = <<answer.records>>]
         [] ~s.over /\ answer.is \in {"gone", "notfound"} ->
              [s EXCEPT !.tries = n, !.over = TRUE, !.outcome = Nothing]
         [] ~s.over /\ answer.is \in {"network", "status"} /\ IsTransient(answer)
              /\ n < MaxAttempts ->
              [s EXCEPT !.tries = n, !.slept = @ + s.delay, !.delay = 2 * @]
         [] OTHER ->
              [s EXCEPT !.tries = n, !.over = TRUE,
                        !.outcome = Failed(IF IsTransient(answer) THEN "unreachable"
                                           ELSE "undecodable")]

Searched(answers) ==
    FoldLeft(Attempted,
             [tries |-> 0, over |-> FALSE, pauses |-> << >>, slept |-> 0, delay |-> RetryBackoff,
              offer |-> << >>, outcome |-> Failed("unreachable")],
             SubSeq(answers, 1, Min({Len(answers), MaxAttempts})))

\* What a search finds, in its places: itunes passes over records without a picture.
Candidates(source, found) ==
    LET kept == {i \in DOMAIN found : source = "itunes" => found[i].has # << >>}
    IN [i \in kept |-> found[i]]

\* try_source, once it has candidates; without any, the search says NotFound.
Tried(source, records, world) ==
    LET scores == [i \in DOMAIN records |-> records[i].scores]
        best == records[Best(scores)]
        image == FetchImage(best, Urls(source, best, world.max_dimension))
    IN IF DOMAIN records = {} THEN Nothing
       ELSE IF ~Passes(best.scores) THEN [is |-> "no_text_match"]
       ELSE CASE image.is = "notfound" -> Nothing
              [] image.is = "broken" -> Failed("unreachable")
              [] image.is = "ok" ->
                   [is |-> "verdict", record |-> best, size |-> image.size, side |-> image.side,
                    verdict |-> Judged(best, image.side, world.current, world.strictness)]

TrySource(source, world) ==
    LET s == Searched(world.answers[source])
    IN IF s.offer = << >> THEN s.outcome
       ELSE Tried(source, Candidates(source, s.offer[1]), world)

\* Inner::run, when the cache knows nothing: the first verdict or failure ends it.
Run(world) ==
    LET outcomes == [i \in DOMAIN world.sources |-> TrySource(world.sources[i], world)]
        final == {i \in DOMAIN outcomes : outcomes[i].is \in {"verdict", "failed"}}
        text == \E i \in DOMAIN outcomes : outcomes[i].is = "no_text_match"
    IN IF final # {} THEN [outcome |-> outcomes[Min(final)], at |-> Min(final)]
       ELSE [outcome |-> [is |-> "missed",
                          verdict |-> IF text THEN "text_rejected" ELSE "no_match"],
             at |-> Len(world.sources)]

----
(* What is promised *)

\* The attempts meet a final answer, or are three in vain.
FinalAnswer(answers) ==
    LET final == {i \in DOMAIN answers : i <= MaxAttempts /\ ~IsTransient(answers[i])}
    IN IF final = {} THEN [is |-> "none"] ELSE answers[Min(final)]

\* The records offered have no cover for the album: the one that fits best does
\* not fit well enough, or has no picture.
NoCover(source, records, maxDimension) ==
    \/ \A r \in ToSet(records) : r.has = << >>
    \/ \E r \in ToSet(records) :
         /\ \A other \in ToSet(records) : other.has # << >> => ~Better(other.scores, r.scores)
         /\ \/ ~Passes(r.scores)
            \/ \A size \in ToSet(Urls(source, r, maxDimension)) : StatusOf(r, size) = "notfound"

FairSearch(world, run) ==
    LET seen == world.current.known \/ world.current.readable
        r == run.outcome
        tries(i) == Searched(world.answers[world.sources[i]]).tries
    IN /\ r.is = "missed" =>
            \A s \in ToSet(world.sources) :
               LET a == FinalAnswer(world.answers[s])
               IN \/ a.is \in {"gone", "notfound"}
                  \/ a.is = "offer" /\ NoCover(s, a.records, world.max_dimension)
       /\ \A i \in 1 .. run.at :
            /\ tries(i) <= MaxAttempts
            /\ \A n \in 1 .. tries(i) - 1 : IsTransient(world.answers[world.sources[i]][n])
       /\ r.verdict = "upgraded" =>
            /\ Passes(r.record.scores) /\ r.record.decodes
            /\ r.side = r.record.has[r.size].side /\ (seen => r.side > world.current.side)
            /\ \A size \in ToSet(Urls(world.sources[run.at], r.record, world.max_dimension)) :
                 size > r.size => StatusOf(r.record, size) = "notfound"
            /\ \/ world.strictness = "text_only"
               \/ NearExact(r.record.scores) /\ world.strictness # "strict"
               \/ r.record.alike

\* An album is remembered as missing only when every source that was not given up,
\* because the album had gone, was reached and had no cover of it; a cover that is
\* taken is what the server sends for the largest size that it has, is itself larger
\* than the one on display, and is recognised by its text and, unless the text is
\* enough, by the eye; and nobody is asked again after an answer that would not
\* change, nor more than three times.  (mod.rs, run, try_source and judge;
\* catalogue.rs, fetch_image, "Whether retrying the identical request could
\* plausibly work".)
LookupIsFair(world) == FairSearch(world, Run(world))
====
