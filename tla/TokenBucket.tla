---- MODULE TokenBucket ----
(***************************************************************************)
(* How fast a catalogue is asked (crates/artd/src/enrich/limit.rs).  The   *)
(* bucket is a fold over the calls that workers make: each comes some time *)
(* after the one before it, and takes a token or reports a 429.            *)
(*                                                                         *)
(* Tokens are counted in the time it takes to earn them, so that one token *)
(* is Period: exact where the code has a floating-point number.            *)
(***************************************************************************)
EXTENDS Integers, Sequences, SequencesExt, FiniteSetsExt

CONSTANTS
    Period,     \* the time in which one token is earned, 1 / per_sec
    Capacity    \* tokens the bucket can hold

NoPause == -1

\* Bucket::new: a bucket starts full.
FullBucket ==
    [tokens |-> Capacity * Period, now |-> 0, last |-> 0, paused |-> NoPause, answers |-> << >>]

\* Mutant: what was earned before the refill is lost.
RefilledAfresh(b) ==
    [b EXCEPT !.tokens = Min({b.now - b.last, Capacity * Period}), !.last = b.now]

\* State::refill
Refilled(b) ==
    [b EXCEPT !.tokens = Min({@ + b.now - b.last, Capacity * Period}), !.last = b.now]

Answered(b, wait) == [b EXCEPT !.answers = Append(@, [at |-> b.now, wait |-> wait])]

\* State::take: no wait, or how long.
Taken(b) ==
    CASE b.paused > b.now -> Answered(b, b.paused - b.now)
      [] b.paused <= b.now /\ b.tokens >= Period ->
           Answered([b EXCEPT !.paused = NoPause, !.tokens = @ - Period], 0)
      [] OTHER -> Answered([b EXCEPT !.paused = NoPause], Period - b.tokens)

\* Bucket::pause never shortens a pause.
Paused(b, time) == [b EXCEPT !.paused = Max({@, b.now + time})]

\* A call [gap, pause]: it takes when it does not pause.
Called(b, call) ==
    LET at == [b EXCEPT !.now = @ + call.gap]
    IN IF call.pause > 0 THEN Answered(Paused(at, call.pause), 0) ELSE Taken(Refilled(at))

BucketAfter(calls) == FoldLeft(Called, FullBucket, calls)

----
(* What is promised, said of the whole history *)

\* A request goes out exactly when no 429 asks for silence and no window that ends
\* with it then holds more than a full bucket and what the window earned; one that
\* has to wait is told the time after which, if nobody comes first, it may go.
\* (limit.rs, "Never shorten an existing pause", "a token bucket bounds how fast we
\* ask"; acquire checks again after it slept.)
CatalogueIsSpared(calls) ==
    LET answers == BucketAfter(calls).answers
        takes == {i \in DOMAIN calls : calls[i].pause = 0}
        granted == {i \in takes : answers[i].wait = 0}
        At(i) == answers[i].at
        Silent(i) == \E p \in 1 .. i - 1 : p \notin takes /\ At(p) + calls[p].pause > At(i)
        Asked(from, i) == Cardinality({g \in granted : from <= g /\ g < i}) + 1
        Fits(i) == \A from \in (granted \cap 1 .. i - 1) \cup {i} :
                     (Asked(from, i) - Capacity) * Period <= At(i) - At(from)
    IN \A i \in takes :
         /\ i \in granted <=> ~Silent(i) /\ Fits(i)
         /\ i \notin granted /\ ~Silent(i) /\ i + 1 \in takes =>
              (i + 1 \in granted <=> At(i + 1) >= At(i) + answers[i].wait)
====
