---- MODULE AlgorithmsProofs ----
(***************************************************************************)
(* Theorems about the parts that compute without waiting, with their       *)
(* proofs.                                                                 *)
(***************************************************************************)
EXTENDS Algorithms, FiniteSetTheorems, SequenceTheorems, WellFoundedInduction, TLAPS

----
(* Numbers and folds *)

\* A set of numbers has a least one.
LEMMA LeastNumber ==
    ASSUME NEW S, S \subseteq Nat, S # {}
    PROVE  \E x \in S : \A y \in S : x =< y
<1>1. IsWellFoundedOn(OpToRel(<, Nat), Nat)
  BY NatLessThanWellFounded
<1>2. PICK x \in S : \A y \in S : ~(<<y, x>> \in OpToRel(<, Nat))
  BY <1>1, WFMin
<1>3. \A a, b \in Nat : a < b <=> <<a, b>> \in OpToRel(<, Nat)
  BY DEF OpToRel
<1>4. \A y \in S : ~(y < x)
  BY <1>2, <1>3
<1> QED
  BY <1>4

LEMMA Extremes ==
    ASSUME NEW a \in Int, NEW b \in Int
    PROVE  /\ Limit!Min({a, b}) = IF a <= b THEN a ELSE b
           /\ Limit!Max({a, b}) = IF a <= b THEN b ELSE a
BY DEF Limit!Min, Limit!Max

\* The last of some positions.
LEMMA LastOf ==
    ASSUME NEW n \in Nat, NEW s \in SUBSET (1 .. n), s # {}
    PROVE  Limit!Max(s) \in s /\ \A x \in s : Limit!Max(s) >= x
<1>1. PICK d \in {n - x : x \in s} : \A e \in {n - x : x \in s} : d =< e
  <2> DEFINE gaps == {n - x : x \in s}
  <2>1. \A x \in s : n - x \in Nat
    OBVIOUS
  <2>2. gaps \subseteq Nat /\ gaps # {}
    BY <2>1
  <2> HIDE DEF gaps
  <2>3. \E d \in gaps : \A e \in gaps : d =< e
    BY <2>2, LeastNumber
  <2> QED
    BY <2>3 DEF gaps
<1>2. PICK x \in s : d = n - x
  BY <1>1
<1>3. \A y \in s : n - x =< n - y
  BY <1>1, <1>2
<1>4. \A y \in s : x >= y
  BY <1>3
<1> QED
  BY <1>4 DEF Limit!Max

LEMMA LastOfPrefix ==
    ASSUME NEW n \in Nat, NEW k \in 1 .. n
    PROVE  Limit!Max(1 .. k) = k /\ (1 .. k) \ {k} = 1 .. k - 1
<1>1. 1 .. k \in SUBSET (1 .. n) /\ k \in 1 .. k
  OBVIOUS
<1>2. Limit!Max(1 .. k) \in 1 .. k /\ Limit!Max(1 .. k) >= k
  BY <1>1, LastOf
<1> QED
  BY <1>2

\* A fold over a sequence: from a first state, by a step for every element.
FoldsBy(f, step, start, calls) ==
    f = [s \in SUBSET DOMAIN calls |->
           IF s = {} THEN start
           ELSE step[f[s \ {Limit!Max(s)}], calls[Limit!Max(s)]]]

\* There is such a function, by the sizes of the sets: if there were none for some
\* size, there would be none for a least one.
LEMMA FoldExists ==
    ASSUME NEW States, NEW Elements, NEW step \in [States \X Elements -> States],
           NEW start \in States, NEW n \in Nat, NEW calls \in [1 .. n -> Elements]
    PROVE  \E f \in [SUBSET DOMAIN calls -> States] : FoldsBy(f, step, start, calls)
<1> DEFINE D == DOMAIN calls
           one(s) == Limit!Max(s)
           small(m) == {s \in SUBSET D : Cardinality(s) =< m}
           fold(f, s) == IF s = {} THEN start ELSE step[f[s \ {one(s)}], calls[one(s)]]
           fits(f, m) == f \in [small(m) -> States] /\ \A s \in small(m) : f[s] = fold(f, s)
           fails == {m \in Nat : ~\E f : fits(f, m)}
<1>0. D = 1 .. n /\ IsFiniteSet(D) /\ Cardinality(D) = n
  BY FS_Interval
<1>1. \A s \in SUBSET D : IsFiniteSet(s) /\ Cardinality(s) \in Nat /\ Cardinality(s) =< n
  BY <1>0, FS_Subset, FS_CardinalityType
<1>2. \A s \in SUBSET D : s # {} => one(s) \in s
  BY <1>0, LastOf
<1>3. \A s \in SUBSET D : s # {} => /\ s \ {one(s)} \in SUBSET D
                                    /\ Cardinality(s \ {one(s)}) = Cardinality(s) - 1
  <2> TAKE s \in SUBSET D
  <2> HAVE s # {}
  <2> QED
    BY <1>1, <1>2, FS_RemoveElement
<1>10. \A s \in SUBSET D : s # {} => calls[one(s)] \in Elements
  BY <1>0, <1>2
<1> HIDE DEF one, D
<1>4. fails = {}
  <2> SUFFICES ASSUME fails # {} PROVE FALSE
    OBVIOUS
  <2>1. fails \subseteq Nat
    OBVIOUS
  <2> HIDE DEF fails
  <2>2. PICK m \in fails : \A k \in fails : m =< k
    BY <2>1, LeastNumber
  <2>3. m \in Nat /\ ~\E f : fits(f, m)
    BY <2>2 DEF fails
  <2>6. m \in Nat
    BY <2>1, <2>2
  <2>4. CASE m = 0
    <3>1. \A s \in small(0) : s = {}
      <4>1. \A s \in small(0) : IsFiniteSet(s) /\ Cardinality(s) = 0
        BY <1>1
      <4> QED
        BY <4>1, FS_EmptySet
    <3> DEFINE f == [s \in small(0) |-> start]
    <3>2. f \in [small(0) -> States]
      OBVIOUS
    <3>3. \A s \in small(0) : f[s] = fold(f, s)
      BY <3>1
    <3> HIDE DEF f, fold, small
    <3> QED
      BY <2>3, <2>4, <3>2, <3>3
  <2>5. CASE m # 0
    <3>1. m - 1 \in Nat /\ m - 1 \notin fails
      <4> HIDE DEF fits
      <4> QED
        BY <2>2, <2>3, <2>5
    <3>2. PICK f : fits(f, m - 1)
      BY <3>1 DEF fails
    <3> DEFINE g == [s \in small(m) |-> fold(f, s)]
    <3>3. ASSUME NEW s \in small(m), s # {}
          PROVE  s \ {one(s)} \in small(m - 1) /\ s \ {one(s)} \in small(m)
      <4>1. s \ {one(s)} \in SUBSET D /\ Cardinality(s \ {one(s)}) = Cardinality(s) - 1
        BY <1>3, <3>3
      <4>2. Cardinality(s \ {one(s)}) \in Nat /\ Cardinality(s) \in Nat /\ Cardinality(s) =< m
        BY <1>1, <4>1
      <4>3. \A a, b \in Nat : a = b - 1 /\ b =< m => a =< m - 1 /\ a =< m
        BY <2>6
      <4>4. Cardinality(s \ {one(s)}) =< m - 1 /\ Cardinality(s \ {one(s)}) =< m
        <5> HIDE DEF small
        <5> QED
          BY <4>1, <4>2, <4>3
      <4> QED
        BY <4>1, <4>4
    <3>4. ASSUME NEW s \in small(m)
          PROVE  fold(f, s) \in States
      <4>1. CASE s = {}
        BY <4>1
      <4>2. CASE s # {}
        <5>1. f[s \ {one(s)}] \in States
          <6> HIDE DEF small, fold
          <6> QED
            BY <3>2, <3>3, <4>2
        <5>2. calls[one(s)] \in Elements
          BY <1>10, <4>2
        <5> QED
          BY <4>2, <5>1, <5>2
      <4> QED
        BY <4>1, <4>2
    <3>5. ASSUME NEW s \in small(m)
          PROVE  g[s] = fold(g, s)
      <4>1. CASE s = {}
        BY <4>1
      <4>2. CASE s # {}
        <5> DEFINE less == s \ {one(s)}
        <5>1. less \in small(m - 1) /\ less \in small(m)
          BY <3>3, <4>2
        <5>2. f[less] = fold(f, less) /\ g[less] = fold(f, less)
          <6> HIDE DEF small, fold, less
          <6> QED
            BY <3>2, <5>1
        <5>3. g[s] = fold(f, s)
          OBVIOUS
        <5> QED
          BY <4>2, <5>2, <5>3
      <4> QED
        BY <4>1, <4>2
    <3>6. g \in [small(m) -> States]
      <4> HIDE DEF small, fold
      <4> QED
        BY <3>4
    <3> HIDE DEF g, fold, small
    <3> QED
      BY <2>3, <3>5, <3>6
  <2> QED
    BY <2>4, <2>5
<1>5. n \notin fails /\ small(n) = SUBSET D
  BY <1>1, <1>4
<1>6. PICK f : fits(f, n)
  <2> HIDE DEF small, fits
  <2> QED
    BY <1>5
<1>7. f = [s \in SUBSET D |-> fold(f, s)]
  <2>1. f \in [SUBSET D -> States] /\ \A s \in SUBSET D : f[s] = fold(f, s)
    BY <1>5, <1>6
  <2> HIDE DEF fold
  <2> QED
    BY <2>1
<1> QED
  BY <1>5, <1>6, <1>7 DEF FoldsBy, one, D

\* Induction over the positions of a sequence, with a set for what is proved.
LEMMA Induct ==
    ASSUME NEW n \in Nat, NEW S, 0 \in S, \A k \in 0 .. n : k \in S /\ k + 1 <= n => k + 1 \in S
    PROVE  0 .. n \subseteq S
<1> DEFINE out == (0 .. n) \ S
<1>1. out = {}
  <2> SUFFICES ASSUME out # {} PROVE FALSE
    OBVIOUS
  <2>1. out \subseteq Nat
    OBVIOUS
  <2> HIDE DEF out
  <2>2. PICK k \in out : \A j \in out : k =< j
    BY <2>1, LeastNumber
  <2>3. k \in 0 .. n /\ k \notin S /\ k # 0
    BY <2>2 DEF out
  <2>4. k - 1 \in 0 .. n /\ k - 1 \notin out
    BY <2>2, <2>3
  <2>5. k - 1 \in S
    BY <2>4 DEF out
  <2>6. (k - 1) + 1 \in S
    BY <2>3, <2>4, <2>5
  <2> QED
    BY <2>3, <2>6
<1> QED
  BY <1>1

----
(* The rate limiter: what a call does *)

CallType == [gap : Nat, pause : Nat]
Answer == [at : Nat, wait : Nat]
Bucket == [tokens : Nat, now : Nat, last : Nat, paused : Nat \cup {Limit!NoPause},
           answers : Seq(Answer)]

Full == Capacity * Period

\* A bucket holds no more than it can, and was refilled before now.
Sound(b) == b \in Bucket /\ b.tokens <= Full /\ b.last <= b.now

LEMMA FullFacts == /\ Period \in Nat /\ Period > 0 /\ Capacity \in Nat /\ Capacity > 0
                   /\ Full \in Nat /\ Full >= Period
<1>1. Period \in Nat /\ Period > 0 /\ Capacity \in Nat /\ Capacity > 0
  BY PartsAssumption
<1>2. \A p \in Nat, c \in Nat : c > 0 => c * p \in Nat /\ c * p >= p
  OBVIOUS
<1> QED
  BY <1>1, <1>2 DEF Full

\* The tokens after a refill, when time has gone on by gap.
Topped(b, gap) ==
    IF b.tokens + (b.now + gap) - b.last <= Full THEN b.tokens + (b.now + gap) - b.last ELSE Full

\* The state and the answer that a call leaves, by what it is.
Silenced(b, c, d) ==
    /\ c.pause > 0
    /\ d.tokens = b.tokens /\ d.last = b.last
    /\ d.paused = IF b.paused <= d.now + c.pause THEN d.now + c.pause ELSE b.paused

Refused(b, c, d, wait) ==
    /\ c.pause = 0 /\ b.paused > d.now
    /\ d.tokens = Topped(b, c.gap) /\ d.last = d.now
    /\ d.paused = b.paused /\ wait = b.paused - d.now

Let(b, c, d, wait) ==
    /\ c.pause = 0 /\ b.paused <= d.now /\ Topped(b, c.gap) >= Period
    /\ d.tokens = Topped(b, c.gap) - Period /\ d.last = d.now
    /\ d.paused = Limit!NoPause /\ wait = 0

Delayed(b, c, d, wait) ==
    /\ c.pause = 0 /\ b.paused <= d.now /\ Topped(b, c.gap) < Period
    /\ d.tokens = Topped(b, c.gap) /\ d.last = d.now
    /\ d.paused = Limit!NoPause /\ wait = Period - Topped(b, c.gap)

CallLeaves(b, c, d) ==
    /\ Sound(d) /\ d.now = b.now + c.gap
    /\ \E wait \in Nat :
         /\ d.answers = Append(b.answers, [at |-> d.now, wait |-> wait])
         /\ \/ Silenced(b, c, d)
            \/ Refused(b, c, d, wait)
            \/ Let(b, c, d, wait)
            \/ Delayed(b, c, d, wait)

LEMMA BucketFields ==
    ASSUME NEW b \in Bucket
    PROVE  /\ b.tokens \in Nat /\ b.now \in Nat /\ b.last \in Nat /\ b.paused \in Int
           /\ b.paused \in Nat \cup {Limit!NoPause} /\ b.answers \in Seq(Answer)
BY DEF Bucket, Limit!NoPause

LEMMA AnsweredFacts ==
    ASSUME NEW x \in Bucket, NEW wait \in Nat, NEW d, d = Limit!Answered(x, wait)
    PROVE  /\ d \in Bucket /\ d.tokens = x.tokens /\ d.now = x.now /\ d.last = x.last
           /\ d.paused = x.paused
           /\ d.answers = Append(x.answers, [at |-> x.now, wait |-> wait])
<1>1. [at |-> x.now, wait |-> wait] \in Answer
  BY DEF Answer, Bucket
<1>2. Append(x.answers, [at |-> x.now, wait |-> wait]) \in Seq(Answer)
  BY <1>1, AppendProperties DEF Bucket
<1>3. d = [x EXCEPT !.answers = Append(x.answers, [at |-> x.now, wait |-> wait])]
  BY DEF Limit!Answered
<1> QED
  BY <1>2, <1>3 DEF Bucket

\* What the bucket is when a call comes, after the pause of that call or after the
\* refill.
LEMMA PausedFacts ==
    ASSUME NEW at \in Bucket, NEW time \in Nat, NEW x, x = Limit!Paused(at, time)
    PROVE  /\ x \in Bucket /\ x.tokens = at.tokens /\ x.now = at.now /\ x.last = at.last
           /\ x.paused = IF at.paused <= at.now + time THEN at.now + time ELSE at.paused
           /\ x.answers = at.answers
<1> DEFINE until == IF at.paused <= at.now + time THEN at.now + time ELSE at.paused
<1>1. at.now + time \in Int /\ at.paused \in Int /\ at.now + time \in Nat
  BY BucketFields
<1>2. Limit!Max({at.paused, at.now + time}) = until
  BY <1>1, Extremes
<1>3. x = [at EXCEPT !.paused = until]
  BY <1>2 DEF Limit!Paused
<1>4. until \in Nat \cup {Limit!NoPause}
  BY <1>1, BucketFields
<1> HIDE DEF until
<1>5. /\ x \in Bucket /\ x.tokens = at.tokens /\ x.now = at.now /\ x.last = at.last
      /\ x.paused = until /\ x.answers = at.answers
  BY <1>3, <1>4 DEF Bucket
<1> QED
  BY <1>5 DEF until

LEMMA RefilledFacts ==
    ASSUME NEW b, Sound(b), NEW gap \in Nat, NEW r, NEW at \in Bucket, r = Limit!Refilled(at),
           at.now = b.now + gap, at.tokens = b.tokens, at.last = b.last
    PROVE  /\ r \in Bucket /\ r.tokens = Topped(b, gap) /\ r.now = at.now /\ r.last = at.now
           /\ r.paused = at.paused /\ r.answers = at.answers
           /\ Topped(b, gap) \in Nat /\ Topped(b, gap) <= Full
<1>1. /\ b.tokens \in Nat /\ b.now \in Nat /\ b.last \in Nat /\ b.tokens <= Full /\ b.last <= b.now
      /\ Full \in Nat /\ at.now \in Nat
  BY BucketFields, FullFacts DEF Sound
<1> DEFINE earned == b.tokens + (b.now + gap) - b.last
<1>2. earned \in Nat
  BY <1>1
<1>3. at.tokens + at.now - at.last = earned
  BY <1>1
<1> HIDE DEF earned
<1> DEFINE top == IF earned <= Full THEN earned ELSE Full
<1>4. top = Topped(b, gap) /\ top \in Nat /\ top <= Full
  BY <1>1, <1>2 DEF Topped, earned
<1>5. Limit!Min({earned, Full}) = top
  BY <1>1, <1>2, Extremes
<1> HIDE DEF top
<1>6. r = [at EXCEPT !.tokens = top, !.last = at.now]
  BY <1>3, <1>5 DEF Limit!Refilled, Full
<1>7. r \in Bucket /\ r.tokens = top /\ r.now = at.now /\ r.last = at.now /\ r.paused = at.paused /\ r.answers = at.answers
  BY <1>1, <1>4, <1>6 DEF Bucket
<1> QED
  BY <1>4, <1>7

LEMMA TakenFacts ==
    ASSUME NEW r \in Bucket, NEW d, d = Limit!Taken(r)
    PROVE  /\ d \in Bucket /\ d.now = r.now /\ d.last = r.last
           /\ \E wait \in Nat :
                /\ d.answers = Append(r.answers, [at |-> r.now, wait |-> wait])
                /\ \/ /\ r.paused > r.now /\ wait = r.paused - r.now
                      /\ d.tokens = r.tokens /\ d.paused = r.paused
                   \/ /\ r.paused <= r.now /\ r.tokens >= Period /\ wait = 0
                      /\ d.tokens = r.tokens - Period /\ d.paused = Limit!NoPause
                   \/ /\ r.paused <= r.now /\ r.tokens < Period /\ wait = Period - r.tokens
                      /\ d.tokens = r.tokens /\ d.paused = Limit!NoPause
<1>1. r.tokens \in Nat /\ r.now \in Nat /\ r.paused \in Int /\ Period \in Nat
  BY BucketFields, FullFacts
<1>2. CASE r.paused > r.now
  <2>1. r.paused - r.now \in Nat
    BY <1>1, <1>2
  <2>2. d = Limit!Answered(r, r.paused - r.now)
    <3>1. ~(r.paused <= r.now)
      BY <1>1, <1>2
    <3> QED
      BY <1>2, <3>1, Zenon DEF Limit!Taken
  <2>3. /\ d \in Bucket /\ d.tokens = r.tokens /\ d.now = r.now /\ d.last = r.last
        /\ d.paused = r.paused
        /\ d.answers = Append(r.answers, [at |-> r.now, wait |-> r.paused - r.now])
    BY <2>1, <2>2, AnsweredFacts, Zenon
  <2> QED
    BY <1>2, <2>1, <2>3
<1>3. CASE r.paused <= r.now /\ r.tokens >= Period
  <2> DEFINE open == [r EXCEPT !.paused = Limit!NoPause]
             x == [r EXCEPT !.paused = Limit!NoPause, !.tokens = @ - Period]
  <2>1. r.tokens - Period \in Nat /\ Limit!NoPause \in Nat \cup {Limit!NoPause}
    BY <1>1, <1>3
  <2>2. /\ open \in Bucket /\ open.tokens = r.tokens /\ open.now = r.now /\ open.last = r.last
        /\ open.paused = Limit!NoPause /\ open.answers = r.answers
    BY DEF Bucket
  <2>5. x = [open EXCEPT !.tokens = r.tokens - Period]
    OBVIOUS
  <2> HIDE DEF open
  <2>3. d = Limit!Answered(x, 0)
    <3>1. ~(r.paused > r.now)
      BY <1>1, <1>3
    <3> QED
      BY <1>3, <3>1 DEF Limit!Taken
  <2> HIDE DEF x
  <2>4. x \in Bucket /\ x.tokens = r.tokens - Period /\ x.now = r.now /\ x.last = r.last
        /\ x.paused = Limit!NoPause /\ x.answers = r.answers
    BY <2>1, <2>2, <2>5 DEF Bucket
  <2>6. /\ d \in Bucket /\ d.tokens = x.tokens /\ d.now = x.now /\ d.last = x.last
        /\ d.paused = x.paused /\ d.answers = Append(x.answers, [at |-> x.now, wait |-> 0])
    BY <2>3, <2>4, AnsweredFacts
  <2> QED
    BY <1>3, <2>4, <2>6
<1>4. CASE r.paused <= r.now /\ r.tokens < Period
  <2> DEFINE x == [r EXCEPT !.paused = Limit!NoPause]
  <2>1. x \in Bucket /\ x.tokens = r.tokens /\ x.now = r.now /\ x.last = r.last
        /\ x.paused = Limit!NoPause /\ x.answers = r.answers
    BY DEF Bucket
  <2>2. d = Limit!Answered(x, Period - r.tokens)
    <3>1. ~(r.paused > r.now) /\ ~(r.tokens >= Period)
      BY <1>1, <1>4
    <3> QED
      BY <1>4, <3>1 DEF Limit!Taken
  <2>3. Period - r.tokens \in Nat
    BY <1>1, <1>4
  <2> HIDE DEF x
  <2>4. /\ d \in Bucket /\ d.tokens = x.tokens /\ d.now = x.now /\ d.last = x.last
        /\ d.paused = x.paused
        /\ d.answers = Append(x.answers, [at |-> x.now, wait |-> Period - r.tokens])
    BY <2>1, <2>2, <2>3, AnsweredFacts, Zenon
  <2> QED
    BY <1>4, <2>1, <2>3, <2>4
<1> QED
  BY <1>1, <1>2, <1>3, <1>4

LEMMA CallFacts ==
    ASSUME NEW b, Sound(b), NEW c \in CallType, NEW d, d = Limit!Called(b, c)
    PROVE  CallLeaves(b, c, d)
<1> DEFINE at == [b EXCEPT !.now = @ + c.gap]
<1>1. /\ b \in Bucket /\ c.gap \in Nat /\ c.pause \in Nat /\ b.tokens \in Nat /\ b.now \in Nat
      /\ b.last \in Nat /\ b.paused \in Int /\ b.tokens <= Full /\ b.last <= b.now
  BY BucketFields DEF Sound, CallType
<1>2. /\ at \in Bucket /\ at.now = b.now + c.gap /\ at.tokens = b.tokens /\ at.last = b.last
      /\ at.paused = b.paused /\ at.answers = b.answers
  BY <1>1 DEF Bucket
<1>3. d = IF c.pause > 0 THEN Limit!Answered(Limit!Paused(at, c.pause), 0)
          ELSE Limit!Taken(Limit!Refilled(at))
  BY DEF Limit!Called
<1> HIDE DEF at
<1>4. CASE c.pause > 0
  <2>1. PICK x : x = Limit!Paused(at, c.pause)
    OBVIOUS
  <2>2. /\ x \in Bucket /\ x.tokens = b.tokens /\ x.now = b.now + c.gap /\ x.last = b.last
        /\ x.paused = (IF b.paused <= x.now + c.pause THEN x.now + c.pause ELSE b.paused)
        /\ x.answers = b.answers
    <3>1. /\ x \in Bucket /\ x.tokens = at.tokens /\ x.now = at.now /\ x.last = at.last
          /\ x.paused = (IF at.paused <= at.now + c.pause THEN at.now + c.pause ELSE at.paused)
          /\ x.answers = at.answers
      <4>1. at \in Bucket /\ c.pause \in Nat
        BY <1>1, <1>2
      <4> HIDE DEF at
      <4>2. \A t \in Nat : \A y : y = Limit!Paused(at, t) =>
              /\ y \in Bucket /\ y.tokens = at.tokens /\ y.now = at.now /\ y.last = at.last
              /\ y.paused = (IF at.paused <= at.now + t THEN at.now + t ELSE at.paused)
              /\ y.answers = at.answers
        BY <4>1, PausedFacts, Zenon
      <4> QED
        BY <2>1, <4>1, <4>2
    <3> QED
      BY <1>2, <3>1
  <2>3. d = Limit!Answered(x, 0)
    BY <1>3, <1>4, <2>1
  <2>4. /\ d \in Bucket /\ d.tokens = x.tokens /\ d.now = x.now /\ d.last = x.last
        /\ d.paused = x.paused /\ d.answers = Append(x.answers, [at |-> x.now, wait |-> 0])
    BY <2>2, <2>3, AnsweredFacts
  <2>5. Sound(d)
    BY <1>1, <2>2, <2>4 DEF Sound
  <2> QED
    BY <1>4, <2>2, <2>4, <2>5 DEF CallLeaves, Silenced
<1>5. CASE c.pause = 0
  <2>1. PICK r : r = Limit!Refilled(at)
    OBVIOUS
  <2>2. /\ r \in Bucket /\ r.tokens = Topped(b, c.gap) /\ r.now = b.now + c.gap /\ r.last = r.now
        /\ r.paused = b.paused /\ r.answers = b.answers
        /\ Topped(b, c.gap) \in Nat /\ Topped(b, c.gap) <= Full
    BY <1>1, <1>2, <2>1, RefilledFacts
  <2>3. d = Limit!Taken(r)
    BY <1>1, <1>3, <1>5, <2>1
  <2>4. /\ d \in Bucket /\ d.now = r.now /\ d.last = r.last
        /\ \E wait \in Nat :
             /\ d.answers = Append(r.answers, [at |-> r.now, wait |-> wait])
             /\ \/ /\ r.paused > r.now /\ wait = r.paused - r.now
                   /\ d.tokens = r.tokens /\ d.paused = r.paused
                \/ /\ r.paused <= r.now /\ r.tokens >= Period /\ wait = 0
                   /\ d.tokens = r.tokens - Period /\ d.paused = Limit!NoPause
                \/ /\ r.paused <= r.now /\ r.tokens < Period /\ wait = Period - r.tokens
                   /\ d.tokens = r.tokens /\ d.paused = Limit!NoPause
    BY <2>2, <2>3, TakenFacts
  <2>5. Sound(d)
    <3>1. d.tokens <= Full
      BY <2>2, <2>4, FullFacts
    <3>2. d.last <= d.now
      BY <1>1, <2>2, <2>4
    <3> QED
      BY <2>4, <3>1, <3>2 DEF Sound
  <2>6. d.last = d.now /\ d.now = b.now + c.gap
    BY <2>2, <2>4
  <2>7. PICK wait \in Nat :
             /\ d.answers = Append(r.answers, [at |-> r.now, wait |-> wait])
             /\ \/ /\ r.paused > r.now /\ wait = r.paused - r.now
                   /\ d.tokens = r.tokens /\ d.paused = r.paused
                \/ /\ r.paused <= r.now /\ r.tokens >= Period /\ wait = 0
                   /\ d.tokens = r.tokens - Period /\ d.paused = Limit!NoPause
                \/ /\ r.paused <= r.now /\ r.tokens < Period /\ wait = Period - r.tokens
                   /\ d.tokens = r.tokens /\ d.paused = Limit!NoPause
    BY <2>4
  <2>8. \/ Refused(b, c, d, wait) \/ Let(b, c, d, wait) \/ Delayed(b, c, d, wait)
    BY <1>5, <2>2, <2>4, <2>6, <2>7 DEF Refused, Let, Delayed
  <2>9. d.answers = Append(b.answers, [at |-> d.now, wait |-> wait])
    BY <2>2, <2>4, <2>7
  <2> QED
    BY <2>5, <2>6, <2>8, <2>9 DEF CallLeaves
<1> QED
  BY <1>1, <1>4, <1>5

----
(* The rate limiter: what is known after every call *)

\* The states of a bucket from the start through the calls.
IsRun(run, calls, n) ==
    /\ n \in Nat /\ DOMAIN calls = 1 .. n /\ \A i \in 1 .. n : calls[i] \in CallType
    /\ run[0] = Limit!FullBucket
    /\ \A k \in 1 .. n : run[k] = Limit!Called(run[k - 1], calls[k])

LEMMA StartSound == Sound(Limit!FullBucket) /\ Limit!FullBucket.answers = << >>
<1>1. << >> \in Seq(Answer)
  OBVIOUS
<1>2. Capacity * Period \in Nat /\ Capacity * Period <= Full
  BY FullFacts DEF Full
<1> QED
  BY <1>1, <1>2 DEF Sound, Bucket, Limit!FullBucket, Limit!NoPause

\* The function BucketAfter is computed with.
BucketFolds(f, calls) ==
    f = [s \in SUBSET DOMAIN calls |->
           IF s = {} THEN Limit!FullBucket
           ELSE LET x == Limit!Max(s) IN Limit!Called(f[s \ {x}], calls[x])]

LEMMA BucketFoldExists ==
    ASSUME NEW n \in Nat, NEW calls \in [1 .. n -> CallType]
    PROVE  \E f : BucketFolds(f, calls)
<1> DEFINE Buckets == {b \in Bucket : Sound(b)}
           step == [p \in Buckets \X CallType |-> Limit!Called(p[1], p[2])]
           one(s) == Limit!Max(s)
<1>1. \A b \in Buckets, c \in CallType : Limit!Called(b, c) \in Buckets
  <2> TAKE b \in Buckets, c \in CallType
  <2>1. Sound(Limit!Called(b, c))
    BY CallFacts DEF CallLeaves
  <2> QED
    BY <2>1 DEF Sound
<1>2. step \in [Buckets \X CallType -> Buckets]
  BY <1>1
<1>3. \A b \in Buckets, c \in CallType : step[b, c] = Limit!Called(b, c)
  OBVIOUS
<1>4. Limit!FullBucket \in Buckets
  BY StartSound DEF Sound
<1> HIDE DEF step, Buckets
<1>5. PICK f \in [SUBSET DOMAIN calls -> Buckets] : FoldsBy(f, step, Limit!FullBucket, calls)
  BY <1>2, <1>4, FoldExists
<1>6. ASSUME NEW s \in SUBSET DOMAIN calls, s # {}
      PROVE  step[f[s \ {one(s)}], calls[one(s)]] = Limit!Called(f[s \ {one(s)}], calls[one(s)])
  <2>1. one(s) \in 1 .. n
    BY <1>6, LastOf
  <2>2. calls[one(s)] \in CallType /\ f[s \ {one(s)}] \in Buckets
    BY <2>1
  <2> HIDE DEF one
  <2> QED
    BY <1>3, <2>2
<1> HIDE DEF one
<1>7. f = [s \in SUBSET DOMAIN calls |->
             IF s = {} THEN Limit!FullBucket ELSE step[f[s \ {one(s)}], calls[one(s)]]]
  BY <1>5 DEF FoldsBy, one
<1>8. f = [s \in SUBSET DOMAIN calls |->
             IF s = {} THEN Limit!FullBucket ELSE Limit!Called(f[s \ {one(s)}], calls[one(s)])]
  BY <1>6, <1>7
<1> QED
  BY <1>8 DEF BucketFolds, one

\* The states of the bucket before, between and after the calls.
LEMMA BucketRuns ==
    ASSUME NEW n \in Nat, NEW calls \in [1 .. n -> CallType]
    PROVE  \E run : /\ run[0] = Limit!FullBucket
                    /\ \A k \in 1 .. n : run[k] = Limit!Called(run[k - 1], calls[k])
                    /\ Limit!BucketAfter(calls) = run[n]
<1> DEFINE it == CHOOSE f : BucketFolds(f, calls)
<1>1. BucketFolds(it, calls)
  BY BucketFoldExists
<1>2. Limit!BucketAfter(calls) = it[DOMAIN calls]
  BY DEF Limit!BucketAfter, Limit!FoldLeft, Limit!MapThenFoldSet, BucketFolds
<1> HIDE DEF it
<1> DEFINE run == [k \in 0 .. n |-> it[1 .. k]]
<1>3. run[0] = Limit!FullBucket
  <2>1. 1 .. 0 = {} /\ 0 \in 0 .. n
    OBVIOUS
  <2> QED
    BY <1>1, <2>1 DEF BucketFolds
<1>4. ASSUME NEW k \in 1 .. n PROVE run[k] = Limit!Called(run[k - 1], calls[k])
  <2>1. 1 .. k \in SUBSET DOMAIN calls /\ 1 .. k # {} /\ k \in 0 .. n /\ k - 1 \in 0 .. n
    <3>1. 1 .. k \subseteq 1 .. n /\ k \in 1 .. k /\ k \in 0 .. n /\ k - 1 \in 0 .. n
      OBVIOUS
    <3>2. DOMAIN calls = 1 .. n
      OBVIOUS
    <3> QED
      BY <3>1, <3>2
  <2>2. it[1 .. k] = Limit!Called(it[(1 .. k) \ {Limit!Max(1 .. k)}], calls[Limit!Max(1 .. k)])
    BY <1>1, <2>1 DEF BucketFolds
  <2> QED
    BY <2>1, <2>2, LastOfPrefix
<1>5. Limit!BucketAfter(calls) = run[n] /\ DOMAIN calls = 1 .. n
  BY <1>2
<1> HIDE DEF run
<1> QED
  BY <1>3, <1>4, <1>5

LEMMA RunIsSound ==
    ASSUME NEW run, NEW calls, NEW n, IsRun(run, calls, n)
    PROVE  \A k \in 0 .. n : Sound(run[k]) /\ Len(run[k].answers) = k
<1> DEFINE S == {k \in 0 .. n : Sound(run[k]) /\ Len(run[k].answers) = k}
<1>1. 0 \in S /\ n \in Nat
  BY StartSound DEF IsRun
<1>2. ASSUME NEW k \in 0 .. n, k \in S, k + 1 <= n PROVE k + 1 \in S
  <2>1. k + 1 \in 1 .. n /\ k + 1 \in 0 .. n /\ (k + 1) - 1 = k
    BY <1>1, <1>2
  <2>2. run[k + 1] = Limit!Called(run[k], calls[k + 1]) /\ calls[k + 1] \in CallType
    BY <2>1 DEF IsRun
  <2>3. Sound(run[k]) /\ Len(run[k].answers) = k
    BY <1>2
  <2>4. CallLeaves(run[k], calls[k + 1], run[k + 1])
    BY <2>2, <2>3, CallFacts
  <2>5. run[k].answers \in Seq(Answer)
    BY <2>3, BucketFields DEF Sound
  <2>6. \E wait \in Nat : run[k + 1].answers = Append(run[k].answers, [at |-> run[k + 1].now, wait |-> wait])
    BY <2>4 DEF CallLeaves
  <2>7. Len(run[k + 1].answers) = k + 1
    <3>1. PICK w \in Nat : run[k + 1].answers = Append(run[k].answers, [at |-> run[k + 1].now, wait |-> w])
      BY <2>6
    <3>2. [at |-> run[k + 1].now, wait |-> w] \in Answer
      BY <2>4, BucketFields DEF CallLeaves, Sound, Answer
    <3> QED
      BY <2>3, <2>5, <3>1, <3>2, AppendProperties
  <2>8. Sound(run[k + 1])
    BY <2>4 DEF CallLeaves
  <2> QED
    BY <2>1, <2>7, <2>8
<1> HIDE DEF S
<1>3. 0 .. n \subseteq S
  BY <1>1, <1>2, Induct
<1> QED
  BY <1>3 DEF S

\* What a call leaves, said of the run.
LEMMA RunSteps ==
    ASSUME NEW run, NEW calls, NEW n, IsRun(run, calls, n), NEW k \in 1 .. n
    PROVE  /\ Sound(run[k - 1]) /\ Sound(run[k]) /\ Len(run[k - 1].answers) = k - 1
           /\ CallLeaves(run[k - 1], calls[k], run[k])
<1>1. n \in Nat /\ k - 1 \in 0 .. n /\ k \in 0 .. n
  BY DEF IsRun
<1>2. run[k] = Limit!Called(run[k - 1], calls[k]) /\ calls[k] \in CallType
  BY DEF IsRun
<1>3. Sound(run[k - 1]) /\ Sound(run[k]) /\ Len(run[k - 1].answers) = k - 1
  BY <1>1, RunIsSound
<1> QED
  BY <1>2, <1>3, CallFacts

\* The answer to a call, when it came.
Said(run, i) == run[i].answers[i]

LEMMA SaidFacts ==
    ASSUME NEW run, NEW calls, NEW n, IsRun(run, calls, n), NEW k \in 1 .. n
    PROVE  /\ Said(run, k).at = run[k].now /\ Said(run, k).wait \in Nat
           /\ \A i \in 1 .. k - 1 : run[k].answers[i] = run[k - 1].answers[i]
           /\ \/ Silenced(run[k - 1], calls[k], run[k])
              \/ Refused(run[k - 1], calls[k], run[k], Said(run, k).wait)
              \/ Let(run[k - 1], calls[k], run[k], Said(run, k).wait)
              \/ Delayed(run[k - 1], calls[k], run[k], Said(run, k).wait)
<1>1. /\ Sound(run[k - 1]) /\ Sound(run[k]) /\ Len(run[k - 1].answers) = k - 1
      /\ CallLeaves(run[k - 1], calls[k], run[k])
  BY RunSteps
<1>2. PICK wait \in Nat :
         /\ run[k].answers = Append(run[k - 1].answers, [at |-> run[k].now, wait |-> wait])
         /\ \/ Silenced(run[k - 1], calls[k], run[k])
            \/ Refused(run[k - 1], calls[k], run[k], wait)
            \/ Let(run[k - 1], calls[k], run[k], wait)
            \/ Delayed(run[k - 1], calls[k], run[k], wait)
  BY <1>1 DEF CallLeaves
<1> DEFINE answer == [at |-> run[k].now, wait |-> wait]
<1>3. run[k - 1].answers \in Seq(Answer) /\ answer \in Answer
  BY <1>1, BucketFields DEF Sound, Answer
<1>4. n \in Nat /\ k \in Nat /\ k >= 1
  BY DEF IsRun
<1>5. /\ Append(run[k - 1].answers, answer)[k] = answer
      /\ \A i \in 1 .. k - 1 : Append(run[k - 1].answers, answer)[i] = run[k - 1].answers[i]
  BY <1>1, <1>3, <1>4, AppendProperties
<1>6. Said(run, k) = answer
  BY <1>2, <1>5 DEF Said
<1>7. answer.at = run[k].now /\ answer.wait = wait
  OBVIOUS
<1> HIDE DEF answer
<1>8. Said(run, k).at = run[k].now /\ Said(run, k).wait = wait
  BY <1>6, <1>7
<1>9. \A i \in 1 .. k - 1 : run[k].answers[i] = run[k - 1].answers[i]
  BY <1>2, <1>5 DEF answer
<1> QED
  BY <1>2, <1>8, <1>9

\* The answers at the end are those that were given.
LEMMA AnswersStand ==
    ASSUME NEW run, NEW calls, NEW n, IsRun(run, calls, n)
    PROVE  \A i \in 1 .. n : run[n].answers[i] = Said(run, i)
<1> DEFINE S == {k \in 0 .. n : \A i \in 1 .. k : run[k].answers[i] = Said(run, i)}
<1>1. 0 \in S /\ n \in Nat
  BY DEF IsRun
<1>2. ASSUME NEW k \in 0 .. n, k \in S, k + 1 <= n PROVE k + 1 \in S
  <2>1. k + 1 \in 1 .. n /\ k + 1 \in 0 .. n /\ (k + 1) - 1 = k
    BY <1>1, <1>2
  <2>2. \A i \in 1 .. k : run[k + 1].answers[i] = run[k].answers[i]
    BY <2>1, SaidFacts
  <2>3. \A i \in 1 .. k + 1 : run[k + 1].answers[i] = Said(run, i)
    <3> TAKE i \in 1 .. k + 1
    <3>1. CASE i = k + 1
      BY <3>1 DEF Said
    <3>2. CASE i # k + 1
      <4>1. i \in 1 .. k
        BY <3>2
      <4> QED
        BY <1>2, <2>2, <4>1
    <3> QED
      BY <3>1, <3>2
  <2> QED
    BY <2>1, <2>3
<1> HIDE DEF S
<1>3. n \in S
  <2>1. 0 .. n \subseteq S
    BY <1>1, <1>2, Induct
  <2> QED
    BY <1>1, <2>1
<1> QED
  BY <1>3 DEF S

\* Time goes on.
LEMMA TimeGoesOn ==
    ASSUME NEW run, NEW calls, NEW n, IsRun(run, calls, n)
    PROVE  \A k \in 0 .. n : run[k].now \in Nat /\ \A i \in 0 .. k : run[i].now <= run[k].now
<1> DEFINE S == {k \in 0 .. n : run[k].now \in Nat /\ \A i \in 0 .. k : run[i].now <= run[k].now}
<1>0. n \in Nat /\ \A k \in 0 .. n : run[k].now \in Nat
  BY RunIsSound, BucketFields DEF IsRun, Sound
<1>1. 0 \in S
  BY <1>0
<1>2. ASSUME NEW k \in 0 .. n, k \in S, k + 1 <= n PROVE k + 1 \in S
  <2>1. k + 1 \in 1 .. n /\ k + 1 \in 0 .. n /\ (k + 1) - 1 = k
    BY <1>0, <1>2
  <2>2. run[k].now <= run[k + 1].now
    <3>1. CallLeaves(run[k], calls[k + 1], run[k + 1])
      BY <2>1, RunSteps
    <3>2. run[k + 1].now = run[k].now + calls[k + 1].gap /\ calls[k + 1].gap \in Nat
      BY <2>1, <3>1 DEF CallLeaves, IsRun, CallType
    <3> QED
      BY <1>0, <3>2
  <2>3. \A i \in 0 .. k + 1 : run[i].now <= run[k + 1].now
    <3> TAKE i \in 0 .. k + 1
    <3>1. CASE i = k + 1
      BY <1>0, <2>1, <3>1
    <3>2. CASE i # k + 1
      <4>1. i \in 0 .. k /\ i \in 0 .. n
        BY <1>0, <3>2
      <4>2. run[i].now <= run[k].now
        BY <1>2, <4>1
      <4> QED
        BY <1>0, <2>1, <2>2, <4>1, <4>2
    <3> QED
      BY <3>1, <3>2
  <2> QED
    BY <1>0, <2>1, <2>3
<1> HIDE DEF S
<1>3. 0 .. n \subseteq S
  BY <1>0, <1>1, <1>2, Induct
<1> QED
  BY <1>3 DEF S

\* The calls that may go on at once, and how many of them a window holds.
Grants(run, calls, n) == {i \in 1 .. n : calls[i].pause = 0 /\ Said(run, i).wait = 0}
Since(G, from, k) == Cardinality({g \in G : from <= g /\ g <= k})

LEMMA Counted ==
    ASSUME NEW n \in Nat, NEW G \in SUBSET (1 .. n), NEW k \in 1 .. n, NEW from \in 1 .. n
    PROVE  /\ Since(G, from, k) \in Nat /\ Since(G, from, k - 1) \in Nat
           /\ k \in G /\ from <= k => Since(G, from, k) = Since(G, from, k - 1) + 1
           /\ k \notin G => Since(G, from, k) = Since(G, from, k - 1)
           /\ from = k => Since(G, from, k - 1) = 0
<1> DEFINE upto == {g \in G : from <= g /\ g <= k}
           before == {g \in G : from <= g /\ g <= k - 1}
<1>1. IsFiniteSet(1 .. n) /\ k \in Nat /\ from \in Nat /\ \A g \in G : g \in Nat
  BY FS_Interval
<1>2. IsFiniteSet(upto) /\ IsFiniteSet(before)
  BY <1>1, FS_Subset
<1>3. Cardinality(upto) \in Nat /\ Cardinality(before) \in Nat
  BY <1>2, FS_CardinalityType
<1>4. \A g \in G : g <= k <=> g <= k - 1 \/ g = k
  BY <1>1
<1>5. k \in G /\ from <= k => Cardinality(upto) = Cardinality(before) + 1
  <2> SUFFICES ASSUME k \in G, from <= k
               PROVE  Cardinality(upto) = Cardinality(before) + 1
    OBVIOUS
  <2>1. ~(k <= k - 1) /\ k <= k
    BY <1>1
  <2>2. upto = before \cup {k}
    BY <1>4, <2>1
  <2>3. k \notin before
    BY <2>1
  <2> QED
    BY <1>2, <2>2, <2>3, FS_AddElement
<1>6. k \notin G => upto = before
  BY <1>4
<1>7. from = k => Cardinality(before) = 0
  <2>1. \A g \in G : ~(k <= g /\ g <= k - 1)
    BY <1>1
  <2>2. from = k => before = {}
    BY <2>1
  <2> QED
    BY <2>2, FS_EmptySet
<1> QED
  BY <1>3, <1>5, <1>6, <1>7 DEF Since

LEMMA Worth ==
    ASSUME NEW m \in Nat
    PROVE  m * Period \in Nat /\ (m + 1) * Period = m * Period + Period /\ 0 * Period = 0
<1>1. Period \in Nat
  BY FullFacts
<1>2. \A p \in Nat : m * p \in Nat /\ (m + 1) * p = m * p + p /\ 0 * p = 0
  OBVIOUS
<1> QED
  BY <1>1, <1>2

\* What is left in the bucket is a full one less what was granted and more what was
\* earned, over the window that makes it least.
Balanced(run, G, k) ==
    /\ \A g \in G : g <= k =>
         run[k].tokens + Since(G, g, k) * Period <= Full + run[k].last - run[g].now
    /\ \/ run[k].tokens = Full
       \/ \E g \in G : /\ g <= k
                       /\ run[k].tokens + Since(G, g, k) * Period = Full + run[k].last - run[g].now

\* The same after a refill and before a token is taken.
BalancedAt(tokens, now, run, G, k) ==
    /\ \A g \in G : g <= k => tokens + Since(G, g, k) * Period <= Full + now - run[g].now
    /\ \/ tokens = Full
       \/ \E g \in G : g <= k /\ tokens + Since(G, g, k) * Period = Full + now - run[g].now

LEMMA Refills ==
    ASSUME NEW run, NEW calls, NEW n, IsRun(run, calls, n), NEW k \in 1 .. n,
           Balanced(run, Grants(run, calls, n), k - 1)
    PROVE  /\ Topped(run[k - 1], calls[k].gap) \in Nat /\ Topped(run[k - 1], calls[k].gap) <= Full
           /\ BalancedAt(Topped(run[k - 1], calls[k].gap), run[k].now, run, Grants(run, calls, n), k - 1)
<1> DEFINE b == run[k - 1]
           now == run[k].now
           gap == calls[k].gap
           G == Grants(run, calls, n)
<1>1. /\ b.tokens \in Nat /\ b.now \in Nat /\ b.last \in Nat /\ b.tokens <= Full /\ b.last <= b.now
      /\ now = b.now + gap /\ gap \in Nat /\ Full \in Nat /\ now \in Nat
  <2>1. Sound(b) /\ CallLeaves(b, calls[k], run[k]) /\ calls[k] \in CallType
    BY RunSteps DEF IsRun
  <2> QED
    BY <2>1, BucketFields, FullFacts DEF Sound, CallLeaves, CallType
<1> DEFINE t == Topped(b, gap)
<1>2. /\ t \in Nat /\ t <= Full /\ t <= b.tokens + now - b.last
      /\ t = Full \/ t = b.tokens + now - b.last
      /\ b.tokens = Full => t = Full
  BY <1>1 DEF Topped
<1>3. \A g \in G : g \in 1 .. n /\ run[g].now \in Nat /\ Since(G, g, k - 1) * Period \in Nat
  <2> TAKE g \in G
  <2>1. n \in Nat /\ G \in SUBSET (1 .. n) /\ g \in 1 .. n
    BY DEF IsRun, Grants
  <2>2. Since(G, g, k - 1) \in Nat
    BY <2>1, Counted
  <2>3. run[g].now \in Nat
    BY <2>1, TimeGoesOn
  <2> QED
    BY <2>1, <2>2, <2>3, Worth
<1> HIDE DEF t, b, now, gap, G
<1>4. Balanced(run, G, k - 1) /\ b = run[k - 1]
  BY DEF b, G
<1>5. \A g \in G : g <= k - 1 => t + Since(G, g, k - 1) * Period <= Full + now - run[g].now
  <2> TAKE g \in G
  <2> HAVE g <= k - 1
  <2>1. b.tokens + Since(G, g, k - 1) * Period <= Full + b.last - run[g].now
    BY <1>4 DEF Balanced
  <2>2. run[g].now \in Nat /\ Since(G, g, k - 1) * Period \in Nat
    BY <1>3
  <2> HIDE DEF Since
  <2> QED
    BY <1>1, <1>2, <2>1, <2>2
<1>6. ASSUME t # Full
      PROVE  \E g \in G : g <= k - 1 /\ t + Since(G, g, k - 1) * Period = Full + now - run[g].now
  <2>1. t = b.tokens + now - b.last /\ b.tokens # Full
    BY <1>2, <1>6
  <2>2. PICK g \in G : g <= k - 1 /\ b.tokens + Since(G, g, k - 1) * Period = Full + b.last - run[g].now
    BY <1>4, <2>1 DEF Balanced
  <2>3. run[g].now \in Nat /\ Since(G, g, k - 1) * Period \in Nat
    BY <1>3
  <2>4. t + Since(G, g, k - 1) * Period = Full + now - run[g].now
    BY <1>1, <1>2, <2>1, <2>2, <2>3
  <2> QED
    BY <2>2, <2>4
<1> QED
  BY <1>2, <1>5, <1>6 DEF BalancedAt, t, b, now, gap, G

LEMMA BalanceStep ==
    ASSUME NEW run, NEW calls, NEW n, IsRun(run, calls, n), NEW k \in 1 .. n,
           Balanced(run, Grants(run, calls, n), k - 1)
    PROVE  Balanced(run, Grants(run, calls, n), k)
<1> DEFINE G == Grants(run, calls, n)
           d == run[k]
           t == Topped(run[k - 1], calls[k].gap)
<1>1. /\ n \in Nat /\ k \in Nat /\ G \in SUBSET (1 .. n) /\ Full \in Nat /\ Period \in Nat
      /\ d.tokens \in Nat /\ d.last \in Nat /\ d.now \in Nat
  <2>1. d \in Bucket
    BY RunSteps DEF Sound
  <2>2. d.tokens \in Nat /\ d.last \in Nat /\ d.now \in Nat
    BY <2>1, BucketFields
  <2>3. n \in Nat /\ k \in Nat /\ G \in SUBSET (1 .. n)
    BY DEF IsRun, Grants
  <2> QED
    BY <2>2, <2>3, FullFacts
<1>2. \A g \in G : /\ g \in 1 .. n /\ run[g].now \in Nat
                   /\ Since(G, g, k) \in Nat /\ Since(G, g, k - 1) \in Nat
                   /\ Since(G, g, k - 1) * Period \in Nat
                   /\ k \notin G => Since(G, g, k) = Since(G, g, k - 1)
                   /\ k \in G /\ g <= k =>
                        Since(G, g, k) * Period = Since(G, g, k - 1) * Period + Period
                   /\ g = k => Since(G, g, k - 1) * Period = 0
  <2> TAKE g \in G
  <2>1. g \in 1 .. n
    BY <1>1
  <2>2. run[g].now \in Nat
    BY <1>1, <2>1, TimeGoesOn
  <2>3. /\ Since(G, g, k) \in Nat /\ Since(G, g, k - 1) \in Nat
        /\ k \in G /\ g <= k => Since(G, g, k) = Since(G, g, k - 1) + 1
        /\ k \notin G => Since(G, g, k) = Since(G, g, k - 1)
        /\ g = k => Since(G, g, k - 1) = 0
    BY <1>1, <2>1, Counted
  <2>4. /\ Since(G, g, k - 1) * Period \in Nat /\ 0 * Period = 0
        /\ (Since(G, g, k - 1) + 1) * Period = Since(G, g, k - 1) * Period + Period
    BY <2>3, Worth
  <2> HIDE DEF G
  <2> QED
    BY <2>1, <2>2, <2>3, <2>4
<1>3. \/ Silenced(run[k - 1], calls[k], d)
      \/ Refused(run[k - 1], calls[k], d, Said(run, k).wait)
      \/ Let(run[k - 1], calls[k], d, Said(run, k).wait)
      \/ Delayed(run[k - 1], calls[k], d, Said(run, k).wait)
  BY SaidFacts
<1>4. t \in Nat /\ t <= Full /\ BalancedAt(t, d.now, run, G, k - 1)
  BY Refills
<1>5. k \in G <=> calls[k].pause = 0 /\ Said(run, k).wait = 0
  BY DEF Grants
<1>6. /\ run[k - 1].paused \in Int /\ calls[k].pause \in Nat /\ d = run[k]
      /\ Balanced(run, G, k - 1)
  BY RunSteps, BucketFields DEF Sound, IsRun, CallType
<1> HIDE DEF G, t, d
<1>7. \A g \in G : g <= k /\ g # k => g <= k - 1
  BY <1>1, <1>2
<1>8. ASSUME Silenced(run[k - 1], calls[k], d) PROVE Balanced(run, G, k)
  <2>1. k \notin G /\ d.tokens = run[k - 1].tokens /\ d.last = run[k - 1].last
    BY <1>5, <1>6, <1>8 DEF Silenced
  <2>2. \A g \in G : g <= k => g <= k - 1
    BY <1>7, <2>1
  <2>3. \A g \in G : g <= k - 1 => g <= k
    BY <1>1, <1>2
  <2>4. \A g \in G : Since(G, g, k) = Since(G, g, k - 1)
    BY <1>2, <2>1
  <2>5. \A g \in G : g <= k =>
           d.tokens + Since(G, g, k) * Period <= Full + d.last - run[g].now
    BY <1>6, <2>1, <2>2, <2>4 DEF Balanced
  <2>6. \/ d.tokens = Full
        \/ \E g \in G : /\ g <= k
                        /\ d.tokens + Since(G, g, k) * Period = Full + d.last - run[g].now
    BY <1>6, <2>1, <2>3, <2>4 DEF Balanced
  <2> QED
    BY <1>6, <2>5, <2>6 DEF Balanced, d
<1>9. ASSUME k \notin G, d.tokens = t, d.last = d.now PROVE Balanced(run, G, k)
  <2>2. \A g \in G : g <= k => g <= k - 1
    BY <1>7, <1>9
  <2>3. \A g \in G : g <= k - 1 => g <= k
    BY <1>1, <1>2
  <2>4. \A g \in G : Since(G, g, k) = Since(G, g, k - 1)
    BY <1>2, <1>9
  <2>5. \A g \in G : g <= k =>
           d.tokens + Since(G, g, k) * Period <= Full + d.last - run[g].now
    BY <1>4, <1>9, <2>2, <2>4 DEF BalancedAt
  <2>6. \/ d.tokens = Full
        \/ \E g \in G : /\ g <= k
                        /\ d.tokens + Since(G, g, k) * Period = Full + d.last - run[g].now
    BY <1>4, <1>9, <2>3, <2>4 DEF BalancedAt
  <2> QED
    BY <1>6, <2>5, <2>6 DEF Balanced, d
<1>10. ASSUME k \in G, d.tokens = t - Period, d.last = d.now PROVE Balanced(run, G, k)
  <2>1. \A g \in G : g <= k =>
           d.tokens + Since(G, g, k) * Period <= Full + d.last - run[g].now
    <3> TAKE g \in G
    <3> HAVE g <= k
    <3>1. Since(G, g, k) * Period = Since(G, g, k - 1) * Period + Period
          /\ Since(G, g, k - 1) * Period \in Nat /\ run[g].now \in Nat
      BY <1>2, <1>10
    <3>2. CASE g = k
      <4>1. Since(G, g, k - 1) * Period = 0 /\ run[g].now = d.now
        BY <1>2, <3>2 DEF d
      <4> QED
        BY <1>1, <1>4, <1>10, <3>1, <4>1
    <3>3. CASE g # k
      <4>1. t + Since(G, g, k - 1) * Period <= Full + d.now - run[g].now
        BY <1>4, <1>7, <3>3 DEF BalancedAt
      <4> QED
        BY <1>1, <1>4, <1>10, <3>1, <4>1
    <3> QED
      BY <3>2, <3>3
  <2>2. \E g \in G : /\ g <= k
                     /\ d.tokens + Since(G, g, k) * Period = Full + d.last - run[g].now
    <3>1. CASE t = Full
      <4>1. /\ Since(G, k, k - 1) * Period = 0 /\ run[k].now = d.now /\ k <= k
            /\ Since(G, k, k) * Period = Since(G, k, k - 1) * Period + Period
        BY <1>1, <1>2, <1>10 DEF d
      <4>2. d.tokens + Since(G, k, k) * Period = Full + d.last - run[k].now
        BY <1>1, <1>10, <3>1, <4>1
      <4> QED
        BY <1>10, <4>1, <4>2
    <3>2. CASE t # Full
      <4>1. PICK g \in G : g <= k - 1 /\ t + Since(G, g, k - 1) * Period = Full + d.now - run[g].now
        BY <1>4, <3>2 DEF BalancedAt
      <4>2. g <= k
        BY <1>1, <1>2, <4>1
      <4>3. Since(G, g, k) * Period = Since(G, g, k - 1) * Period + Period
            /\ Since(G, g, k - 1) * Period \in Nat /\ run[g].now \in Nat
        BY <1>2, <1>10, <4>2
      <4>4. d.tokens + Since(G, g, k) * Period = Full + d.last - run[g].now
        BY <1>1, <1>4, <1>10, <4>1, <4>3
      <4> QED
        BY <4>2, <4>4
    <3> QED
      BY <3>1, <3>2
  <2> QED
    BY <1>6, <2>1, <2>2 DEF Balanced, d
<1>11. ~Silenced(run[k - 1], calls[k], d) =>
         \/ k \notin G /\ d.tokens = t /\ d.last = d.now
         \/ k \in G /\ d.tokens = t - Period /\ d.last = d.now
  <2>1. CASE Refused(run[k - 1], calls[k], d, Said(run, k).wait)
    <3>1. Said(run, k).wait # 0
      BY <1>1, <1>6, <2>1 DEF Refused
    <3> QED
      BY <1>5, <2>1, <3>1 DEF Refused, t
  <2>2. CASE Let(run[k - 1], calls[k], d, Said(run, k).wait)
    BY <1>5, <2>2 DEF Let, t
  <2>3. CASE Delayed(run[k - 1], calls[k], d, Said(run, k).wait)
    <3>1. Said(run, k).wait # 0
      BY <1>1, <1>4, <2>3 DEF Delayed, t
    <3> QED
      BY <1>5, <2>3, <3>1 DEF Delayed, t
  <2> QED
    BY <1>3, <2>1, <2>2, <2>3
<1>12. Balanced(run, G, k)
  BY <1>8, <1>9, <1>10, <1>11
<1> QED
  BY <1>12 DEF G

LEMMA Balance ==
    ASSUME NEW run, NEW calls, NEW n, IsRun(run, calls, n)
    PROVE  \A k \in 0 .. n : Balanced(run, Grants(run, calls, n), k)
<1> DEFINE S == {k \in 0 .. n : Balanced(run, Grants(run, calls, n), k)}
<1>1. n \in Nat
  BY DEF IsRun
<1>2. 0 \in S
  <2>1. run[0].tokens = Full
    BY DEF IsRun, Limit!FullBucket, Full
  <2>2. \A g \in Grants(run, calls, n) : ~(g <= 0)
    BY <1>1 DEF Grants
  <2> QED
    BY <1>1, <2>1, <2>2 DEF Balanced
<1>3. ASSUME NEW k \in 0 .. n, k \in S, k + 1 <= n PROVE k + 1 \in S
  <2>1. k + 1 \in 1 .. n /\ k + 1 \in 0 .. n /\ (k + 1) - 1 = k
    BY <1>1, <1>3
  <2> QED
    BY <1>3, <2>1, BalanceStep
<1> HIDE DEF S
<1>4. 0 .. n \subseteq S
  BY <1>1, <1>2, <1>3, Induct
<1> QED
  BY <1>4 DEF S

\* A pause ends when the last of those asked for ends.
Pausing(run, calls, k) ==
    /\ \A p \in 1 .. k :
         calls[p].pause > 0 /\ run[p].now + calls[p].pause > run[k].now =>
           run[k].paused >= run[p].now + calls[p].pause
    /\ \/ run[k].paused = Limit!NoPause
       \/ \E p \in 1 .. k : calls[p].pause > 0 /\ run[k].paused = run[p].now + calls[p].pause

LEMMA PauseStep ==
    ASSUME NEW run, NEW calls, NEW n, IsRun(run, calls, n), NEW k \in 1 .. n,
           Pausing(run, calls, k - 1)
    PROVE  Pausing(run, calls, k)
<1> DEFINE b == run[k - 1]
           d == run[k]
           P(p) == run[p].now + calls[p].pause
<1>1. /\ k \in Nat /\ n \in Nat /\ b.paused \in Int /\ d.paused \in Int /\ d.now \in Nat /\ b.now \in Nat
      /\ b.now <= d.now /\ Limit!NoPause = -1
  <2>1. Sound(b) /\ Sound(d) /\ CallLeaves(b, calls[k], d) /\ calls[k] \in CallType
    BY RunSteps DEF IsRun
  <2>2. d.now = b.now + calls[k].gap /\ calls[k].gap \in Nat
    BY <2>1 DEF CallLeaves, CallType
  <2>3. b.paused \in Int /\ d.paused \in Int /\ d.now \in Nat /\ b.now \in Nat
    BY <2>1, BucketFields DEF Sound
  <2> QED
    BY <2>2, <2>3 DEF IsRun, Limit!NoPause
<1>2. \A p \in 1 .. k : /\ calls[p].pause \in Nat /\ run[p].now \in Nat /\ P(p) \in Nat
                        /\ p # k => p \in 1 .. k - 1
  <2> TAKE p \in 1 .. k
  <2>1. p \in 1 .. n /\ p \in 0 .. n
    BY <1>1
  <2>2. calls[p].pause \in Nat
    BY <2>1 DEF IsRun, CallType
  <2>3. run[p].now \in Nat
    BY <2>1, TimeGoesOn
  <2> QED
    BY <1>1, <2>2, <2>3
<1>3. \A p \in 1 .. k - 1 : p \in 1 .. k
  BY <1>1
<1>4. \/ Silenced(b, calls[k], d)
      \/ Refused(b, calls[k], d, Said(run, k).wait)
      \/ Let(b, calls[k], d, Said(run, k).wait)
      \/ Delayed(b, calls[k], d, Said(run, k).wait)
  BY SaidFacts
<1>5. /\ \A p \in 1 .. k - 1 : calls[p].pause > 0 /\ P(p) > b.now => b.paused >= P(p)
      /\ b.paused = Limit!NoPause \/ \E p \in 1 .. k - 1 : calls[p].pause > 0 /\ b.paused = P(p)
  BY DEF Pausing
<1>6. k \in 1 .. k /\ P(k) = d.now + calls[k].pause
  BY <1>1
<1> HIDE DEF b, d, P
<1>7. \/ /\ calls[k].pause > 0
         /\ d.paused = IF b.paused <= d.now + calls[k].pause THEN d.now + calls[k].pause ELSE b.paused
      \/ calls[k].pause = 0 /\ b.paused > d.now /\ d.paused = b.paused
      \/ calls[k].pause = 0 /\ b.paused <= d.now /\ d.paused = Limit!NoPause
  BY <1>4 DEF Silenced, Refused, Let, Delayed
<1>8. \A p \in 1 .. k : calls[p].pause > 0 /\ P(p) > d.now => d.paused >= P(p)
  <2> TAKE p \in 1 .. k
  <2> HAVE calls[p].pause > 0 /\ P(p) > d.now
  <2>1. P(p) \in Nat /\ calls[p].pause \in Nat
    BY <1>2
  <2>2. CASE p = k
    <3>1. calls[k].pause > 0 /\ calls[k].pause # 0 /\ P(k) \in Nat
      BY <2>1, <2>2
    <3>2. d.paused = IF b.paused <= P(k) THEN P(k) ELSE b.paused
      BY <1>6, <1>7, <3>1
    <3> QED
      BY <1>1, <2>2, <3>1, <3>2
  <2>3. CASE p # k
    <3>1. p \in 1 .. k - 1
      BY <1>2, <2>3
    <3>2. P(p) > b.now
      BY <1>1, <2>1
    <3>3. b.paused >= P(p)
      BY <1>5, <3>1, <3>2
    <3>4. ~(b.paused <= d.now)
      BY <1>1, <2>1, <3>3
    <3>5. d.paused >= b.paused
      <4>1. calls[k].pause \in Nat
        BY <1>2, <1>6
      <4> QED
        BY <1>1, <1>7, <3>4, <4>1
    <3> QED
      BY <1>1, <2>1, <3>3, <3>5
  <2> QED
    BY <2>2, <2>3
<1>9. d.paused = Limit!NoPause \/ \E p \in 1 .. k : calls[p].pause > 0 /\ d.paused = P(p)
  <2>1. CASE d.paused = b.paused
    BY <1>3, <1>5, <2>1
  <2>2. CASE d.paused = Limit!NoPause
    BY <2>2
  <2>3. CASE calls[k].pause > 0 /\ d.paused = d.now + calls[k].pause
    BY <1>6, <2>3
  <2> QED
    BY <1>7, <2>1, <2>2, <2>3
<1> QED
  BY <1>8, <1>9 DEF Pausing, d, P

LEMMA Pauses ==
    ASSUME NEW run, NEW calls, NEW n, IsRun(run, calls, n)
    PROVE  \A k \in 0 .. n : Pausing(run, calls, k)
<1> DEFINE S == {k \in 0 .. n : Pausing(run, calls, k)}
<1>1. n \in Nat
  BY DEF IsRun
<1>2. 0 \in S
  <2>1. run[0].paused = Limit!NoPause
    BY DEF IsRun, Limit!FullBucket
  <2> QED
    BY <1>1, <2>1 DEF Pausing
<1>3. ASSUME NEW k \in 0 .. n, k \in S, k + 1 <= n PROVE k + 1 \in S
  <2>1. k + 1 \in 1 .. n /\ k + 1 \in 0 .. n /\ (k + 1) - 1 = k
    BY <1>1, <1>3
  <2> QED
    BY <1>3, <2>1, PauseStep
<1> HIDE DEF S
<1>4. 0 .. n \subseteq S
  BY <1>1, <1>2, <1>3, Induct
<1> QED
  BY <1>4 DEF S

----
(* The rate limiter: what is promised *)

\* Somebody was told to be silent until after the call.
Silence(run, calls, i) ==
    \E p \in 1 .. i - 1 : calls[p].pause > 0 /\ run[p].now + calls[p].pause > run[i].now

LEMMA SilenceHeard ==
    ASSUME NEW run, NEW calls, NEW n, IsRun(run, calls, n), NEW i \in 1 .. n
    PROVE  run[i - 1].paused > run[i].now <=> Silence(run, calls, i)
<1> DEFINE b == run[i - 1]
           d == run[i]
<1>1. i \in Nat /\ n \in Nat /\ i - 1 \in 0 .. n /\ i \in 0 .. n
  BY DEF IsRun
<1>2. /\ b.paused \in Int /\ d.now \in Nat /\ b.now \in Nat /\ b.now <= d.now
      /\ Limit!NoPause = -1
  <2>1. d.now \in Nat /\ b.now \in Nat /\ b.now <= d.now
    BY <1>1, TimeGoesOn
  <2>2. b.paused \in Int
    BY RunSteps, BucketFields DEF Sound
  <2> QED
    BY <2>1, <2>2 DEF Limit!NoPause
<1>3. \A p \in 1 .. i - 1 : calls[p].pause \in Nat /\ run[p].now + calls[p].pause \in Nat
  <2> TAKE p \in 1 .. i - 1
  <2>1. p \in 1 .. n /\ p \in 0 .. n
    BY <1>1
  <2>2. run[p].now \in Nat /\ calls[p].pause \in Nat
    BY <2>1, TimeGoesOn DEF IsRun, CallType
  <2> QED
    BY <2>2
<1>4. Pausing(run, calls, i - 1)
  BY <1>1, Pauses
<1> HIDE DEF b, d
<1>5. ASSUME b.paused > d.now PROVE Silence(run, calls, i)
  <2>1. b.paused # Limit!NoPause
    BY <1>2, <1>5
  <2>2. PICK p \in 1 .. i - 1 : calls[p].pause > 0 /\ b.paused = run[p].now + calls[p].pause
    BY <1>4, <2>1 DEF Pausing, b
  <2> QED
    BY <1>5, <2>2 DEF Silence, d
<1>6. ASSUME Silence(run, calls, i) PROVE b.paused > d.now
  <2>1. PICK p \in 1 .. i - 1 : calls[p].pause > 0 /\ run[p].now + calls[p].pause > d.now
    BY <1>6 DEF Silence, d
  <2>2. run[p].now + calls[p].pause > b.now
    BY <1>2, <1>3, <2>1
  <2>3. b.paused >= run[p].now + calls[p].pause
    BY <1>4, <2>1, <2>2 DEF Pausing, b
  <2> QED
    BY <1>2, <1>3, <2>1, <2>3
<1> QED
  BY <1>5, <1>6 DEF b, d

\* No window that ends with the call holds too many.
Fitting(run, G, i) ==
    \A from \in (G \cap 1 .. i - 1) \cup {i} :
      (Since(G, from, i - 1) + 1 - Capacity) * Period <= run[i].now - run[from].now

LEMMA FitsWhenFull ==
    ASSUME NEW run, NEW calls, NEW n, IsRun(run, calls, n), NEW i \in 1 .. n
    PROVE  Topped(run[i - 1], calls[i].gap) >= Period <=> Fitting(run, Grants(run, calls, n), i)
<1> DEFINE G == Grants(run, calls, n)
           t == Topped(run[i - 1], calls[i].gap)
           now == run[i].now
<1>1. i \in Nat /\ n \in Nat /\ i - 1 \in 0 .. n /\ i \in 0 .. n /\ G \in SUBSET (1 .. n)
  BY DEF IsRun, Grants
<1>2. t \in Nat /\ t <= Full /\ BalancedAt(t, now, run, G, i - 1)
  <2>1. Balanced(run, G, i - 1)
    BY <1>1, Balance
  <2> QED
    BY <2>1, Refills
<1>3. now \in Nat /\ \A g \in 1 .. n : run[g].now \in Nat
  BY <1>1, TimeGoesOn
<1>4. /\ Period \in Nat /\ Capacity \in Nat /\ Full \in Nat /\ Full >= Period /\ Full = Capacity * Period
  BY FullFacts DEF Full
<1>5. \A g \in 1 .. n : /\ Since(G, g, i - 1) \in Nat /\ Since(G, g, i - 1) * Period \in Nat
                        /\ (Since(G, g, i - 1) + 1 - Capacity) * Period
                             = Since(G, g, i - 1) * Period + Period - Full
  <2> TAKE g \in 1 .. n
  <2>1. Since(G, g, i - 1) \in Nat
    BY <1>1, Counted
  <2>2. \A m \in Nat, c \in Nat, p \in Nat : (m + 1 - c) * p = m * p + p - c * p
    OBVIOUS
  <2> QED
    BY <1>4, <2>1, <2>2, Worth
<1>6. Since(G, i, i - 1) * Period = 0
  <2>1. Since(G, i, i - 1) = 0
    BY <1>1, Counted
  <2> QED
    BY <2>1, Worth
<1> HIDE DEF G, t, now
<1>7. \A g \in G : g \in 1 .. n
  BY <1>1
<1>8. ASSUME t >= Period, NEW from \in (G \cap 1 .. i - 1) \cup {i}
      PROVE  (Since(G, from, i - 1) + 1 - Capacity) * Period <= now - run[from].now
  <2>1. CASE from = i
    <3>1. now - run[from].now = 0
      BY <1>3, <2>1 DEF now
    <3>2. (Since(G, from, i - 1) + 1 - Capacity) * Period = 0 + Period - Full
      BY <1>5, <1>6, <2>1
    <3> QED
      BY <1>4, <3>1, <3>2
  <2>2. CASE from \in G /\ from \in 1 .. i - 1
    <3>1. t + Since(G, from, i - 1) * Period <= Full + now - run[from].now
      BY <1>1, <1>2, <2>2 DEF BalancedAt
    <3>2. /\ (Since(G, from, i - 1) + 1 - Capacity) * Period
               = Since(G, from, i - 1) * Period + Period - Full
          /\ Since(G, from, i - 1) * Period \in Nat /\ run[from].now \in Nat
      BY <1>3, <1>5, <1>7, <2>2
    <3> QED
      BY <1>2, <1>3, <1>4, <1>8, <3>1, <3>2
  <2> QED
    BY <2>1, <2>2
<1>9. ASSUME Fitting(run, G, i) PROVE t >= Period
  <2>1. CASE t = Full
    BY <1>4, <2>1
  <2>2. CASE t # Full
    <3>1. PICK g \in G : g <= i - 1 /\ t + Since(G, g, i - 1) * Period = Full + now - run[g].now
      BY <1>2, <2>2 DEF BalancedAt
    <3>2. g \in (G \cap 1 .. i - 1) \cup {i} /\ g \in 1 .. n
      BY <1>1, <1>7, <3>1
    <3>3. (Since(G, g, i - 1) + 1 - Capacity) * Period <= now - run[g].now
      BY <1>9, <3>2 DEF Fitting, now
    <3>4. /\ (Since(G, g, i - 1) + 1 - Capacity) * Period
               = Since(G, g, i - 1) * Period + Period - Full
          /\ Since(G, g, i - 1) * Period \in Nat /\ run[g].now \in Nat
      BY <1>3, <1>5, <3>2
    <3> QED
      BY <1>2, <1>3, <1>4, <3>1, <3>3, <3>4
  <2> QED
    BY <2>1, <2>2
<1>10. t >= Period <=> Fitting(run, G, i)
  BY <1>8, <1>9 DEF Fitting, now
<1> QED
  BY <1>10 DEF t, G

\* Who waited the time that was said, with nobody coming first, may go.
LEMMA WaitingPays ==
    ASSUME NEW run, NEW calls, NEW n, IsRun(run, calls, n), NEW i \in 1 .. n, i + 1 \in 1 .. n,
           calls[i].pause = 0, calls[i + 1].pause = 0,
           i \notin Grants(run, calls, n), ~Silence(run, calls, i)
    PROVE  i + 1 \in Grants(run, calls, n) <=> run[i + 1].now >= run[i].now + Said(run, i).wait
<1> DEFINE b == run[i - 1]
           d == run[i]
           e == run[i + 1]
           t == Topped(b, calls[i].gap)
<1>1. i \in Nat /\ (i + 1) - 1 = i /\ i \in 0 .. n /\ i + 1 \in 0 .. n
  BY DEF IsRun
<1>2. Delayed(b, calls[i], d, Said(run, i).wait)
  <2>1. ~(b.paused > d.now)
    BY SilenceHeard
  <2>2. \/ Silenced(b, calls[i], d)
        \/ Refused(b, calls[i], d, Said(run, i).wait)
        \/ Let(b, calls[i], d, Said(run, i).wait)
        \/ Delayed(b, calls[i], d, Said(run, i).wait)
    BY SaidFacts
  <2>3. ~Silenced(b, calls[i], d)
    BY DEF Silenced
  <2>4. ~Let(b, calls[i], d, Said(run, i).wait)
    BY DEF Let, Grants
  <2> QED
    BY <2>1, <2>2, <2>3, <2>4 DEF Refused
<1>3. d.tokens = t /\ d.last = d.now /\ d.paused = -1 /\ Said(run, i).wait = Period - t /\ t < Period
  BY <1>2 DEF Delayed, Limit!NoPause
<1>4. /\ Sound(d) /\ Sound(e) /\ e.now = d.now + calls[i + 1].gap /\ calls[i + 1].gap \in Nat
      /\ d.now \in Nat /\ e.now \in Nat /\ d.tokens \in Nat
  <2>1. /\ Sound(d) /\ Sound(e) /\ CallLeaves(d, calls[i + 1], e) /\ calls[i + 1] \in CallType
    BY <1>1, RunSteps DEF IsRun
  <2> QED
    BY <2>1, BucketFields DEF Sound, CallLeaves, CallType
<1>5. \/ Silenced(d, calls[i + 1], e)
      \/ Refused(d, calls[i + 1], e, Said(run, i + 1).wait)
      \/ Let(d, calls[i + 1], e, Said(run, i + 1).wait)
      \/ Delayed(d, calls[i + 1], e, Said(run, i + 1).wait)
  BY <1>1, SaidFacts
<1> DEFINE u == Topped(d, calls[i + 1].gap)
<1>6. Full \in Nat /\ Period \in Nat /\ Full >= Period /\ t \in Nat
  BY <1>3, <1>4, FullFacts
<1>7. u = IF t + e.now - d.now <= Full THEN t + e.now - d.now ELSE Full
  BY <1>3, <1>4 DEF Topped
<1>8. i + 1 \in Grants(run, calls, n) <=> Said(run, i + 1).wait = 0
  BY DEF Grants
<1> HIDE DEF b, d, e, t, u
<1>9. Said(run, i + 1).wait = 0 <=> u >= Period
  <2>1. ~Silenced(d, calls[i + 1], e)
    BY DEF Silenced
  <2>2. ~Refused(d, calls[i + 1], e, Said(run, i + 1).wait)
    BY <1>3, <1>4 DEF Refused
  <2>3. CASE Let(d, calls[i + 1], e, Said(run, i + 1).wait)
    BY <2>3 DEF Let, u
  <2>4. CASE Delayed(d, calls[i + 1], e, Said(run, i + 1).wait)
    <3>1. u < Period /\ Said(run, i + 1).wait = Period - u
      BY <2>4 DEF Delayed, u
    <3>2. u \in Int
      BY <1>4, <1>6, <1>7
    <3> QED
      BY <1>6, <3>1, <3>2
  <2> QED
    BY <1>5, <2>1, <2>2, <2>3, <2>4
<1>10. u >= Period <=> e.now >= d.now + (Period - t)
  BY <1>4, <1>6, <1>7
<1> QED
  BY <1>3, <1>8, <1>9, <1>10 DEF d, e

\* The bucket counts as everybody does.
LEMMA SameCount == \A S : Limit!Cardinality(S) = Cardinality(S)
BY DEF Limit!Cardinality, Limit!ExistsBijection, Limit!Bijection, Limit!Injection, Limit!Surjection,
       Limit!IsInjective,
       Cardinality, ExistsBijection, Bijection, Injection, Surjection, IsInjective

LEMMA GoesOut ==
    ASSUME NEW run, NEW calls, NEW n, IsRun(run, calls, n), NEW i \in 1 .. n, calls[i].pause = 0
    PROVE  i \in Grants(run, calls, n) <=>
             ~Silence(run, calls, i) /\ Fitting(run, Grants(run, calls, n), i)
<1> DEFINE b == run[i - 1]
           d == run[i]
           t == Topped(b, calls[i].gap)
           wait == Said(run, i).wait
           G == Grants(run, calls, n)
<1>1. i \in G <=> wait = 0
  BY DEF Grants
<1>2. b.paused > d.now <=> Silence(run, calls, i)
  BY SilenceHeard
<1>3. t >= Period <=> Fitting(run, G, i)
  BY FitsWhenFull
<1>4. \/ Silenced(b, calls[i], d) \/ Refused(b, calls[i], d, wait)
      \/ Let(b, calls[i], d, wait) \/ Delayed(b, calls[i], d, wait)
  BY SaidFacts
<1>5. /\ b.paused \in Int /\ d.now \in Nat /\ Period \in Nat
      /\ t \in Nat
  <2>1. Sound(b) /\ Sound(d)
    BY RunSteps
  <2>2. i \in 1 .. n /\ i - 1 \in 0 .. n
    BY DEF IsRun
  <2>3. t \in Nat
    BY <2>2, Balance, Refills
  <2> QED
    BY <2>1, <2>3, BucketFields, FullFacts DEF Sound
<1> HIDE DEF b, d, t, wait, G
<1>6. ~Silenced(b, calls[i], d)
  BY DEF Silenced
<1>7. Refused(b, calls[i], d, wait) => b.paused > d.now /\ wait # 0
  BY <1>5 DEF Refused
<1>8. Let(b, calls[i], d, wait) => ~(b.paused > d.now) /\ t >= Period /\ wait = 0
  BY <1>5 DEF Let, t
<1>9. Delayed(b, calls[i], d, wait) => ~(t >= Period) /\ wait # 0
  BY <1>5 DEF Delayed, t
<1>10. i \in G <=> ~Silence(run, calls, i) /\ Fitting(run, G, i)
  BY <1>1, <1>2, <1>3, <1>4, <1>6, <1>7, <1>8, <1>9
<1> QED
  BY <1>10 DEF G

\* Whatever the calls and whenever they come, a request goes out exactly when no
\* pause and no window forbids it (limit.rs, State::take, State::refill, pause).
THEOREM BucketTheorem ==
    ASSUME NEW calls \in Seq(CallType)
    PROVE  Limit!CatalogueIsSpared(calls)
<1> DEFINE n == Len(calls)
<1>1. /\ n \in Nat /\ DOMAIN calls = 1 .. n /\ \A i \in 1 .. n : calls[i] \in CallType
      /\ calls \in [1 .. n -> CallType]
  OBVIOUS
<1> HIDE DEF n
<1>2. PICK run : /\ run[0] = Limit!FullBucket
                 /\ \A k \in 1 .. n : run[k] = Limit!Called(run[k - 1], calls[k])
                 /\ Limit!BucketAfter(calls) = run[n]
  BY <1>1, BucketRuns
<1>3. IsRun(run, calls, n)
  BY <1>1, <1>2 DEF IsRun
<1> DEFINE answers == Limit!BucketAfter(calls).answers
           takes == {i \in DOMAIN calls : calls[i].pause = 0}
           granted == {i \in takes : answers[i].wait = 0}
           At(i) == answers[i].at
           Quiet(i) == \E p \in 1 .. i - 1 : p \notin takes /\ At(p) + calls[p].pause > At(i)
           Asked(from, i) == Limit!Cardinality({g \in granted : from <= g /\ g < i}) + 1
           Fits(i) == \A from \in (granted \cap 1 .. i - 1) \cup {i} :
                        (Asked(from, i) - Capacity) * Period <= At(i) - At(from)
           G == Grants(run, calls, n)
<1>4. \A i \in 1 .. n : answers[i] = Said(run, i) /\ answers[i].at = run[i].now
  BY <1>2, <1>3, AnswersStand, SaidFacts
<1>5. granted = G /\ takes \in SUBSET (1 .. n) /\ G \in SUBSET (1 .. n)
  BY <1>1, <1>4 DEF Grants
<1>6. ASSUME NEW i \in 1 .. n PROVE Quiet(i) <=> Silence(run, calls, i)
  <2>1. \A p \in 1 .. i - 1 : /\ p \in 1 .. n /\ calls[p].pause \in Nat
    BY <1>1 DEF CallType
  <2>2. \A p \in 1 .. i - 1 : p \notin takes <=> calls[p].pause > 0
    BY <1>1, <2>1
  <2>3. At(i) = run[i].now /\ \A p \in 1 .. i - 1 : At(p) = run[p].now
    BY <1>4, <2>1
  <2> HIDE DEF takes, At
  <2> QED
    BY <2>2, <2>3 DEF Silence
<1>7. ASSUME NEW i \in 1 .. n PROVE Fits(i) <=> Fitting(run, G, i)
  <2>1. ASSUME NEW from PROVE Asked(from, i) = Since(G, from, i - 1) + 1
    <3>1. \A g \in G : g < i <=> g <= i - 1
      BY <1>1, <1>5
    <3>2. {g \in granted : from <= g /\ g < i} = {g \in G : from <= g /\ g <= i - 1}
      BY <1>5, <3>1
    <3> QED
      BY <3>2, SameCount DEF Since
  <2>2. \A from \in (G \cap 1 .. i - 1) \cup {i} : At(from) = run[from].now
    BY <1>1, <1>4, <1>5
  <2>3. At(i) = run[i].now
    BY <1>4
  <2> HIDE DEF At, Asked
  <2>4. \A from \in (G \cap 1 .. i - 1) \cup {i} :
           (Asked(from, i) - Capacity) * Period <= At(i) - At(from)
             <=> (Since(G, from, i - 1) + 1 - Capacity) * Period <= run[i].now - run[from].now
    <3> TAKE from \in (G \cap 1 .. i - 1) \cup {i}
    <3>1. Asked(from, i) = Since(G, from, i - 1) + 1 /\ At(i) = run[i].now /\ At(from) = run[from].now
      BY <2>1, <2>2, <2>3
    <3> DEFINE a == Asked(from, i)
               s == Since(G, from, i - 1)
               x == At(i) - At(from)
               y == run[i].now - run[from].now
    <3>2. a - Capacity = s + 1 - Capacity /\ x = y
      <4>1. a = s + 1
        BY <3>1
      <4>2. x = y
        BY <3>1, Zenon
      <4>3. s \in Nat /\ Capacity \in Nat
        <5>1. n \in Nat /\ from \in 1 .. n /\ i \in 1 .. n
          BY <1>1, <1>5
        <5> QED
          BY <1>5, <5>1, Counted, FullFacts
      <4> HIDE DEF a, s, x, y
      <4> QED
        BY <4>1, <4>2, <4>3
    <3> HIDE DEF a, s, x, y
    <3>3. (a - Capacity) * Period <= x <=> (s + 1 - Capacity) * Period <= y
      BY <3>2, Zenon
    <3> QED
      BY <3>3 DEF a, s, x, y
  <2>5. (granted \cap 1 .. i - 1) \cup {i} = (G \cap 1 .. i - 1) \cup {i}
    BY <1>5
  <2> HIDE DEF granted, G
  <2> QED
    BY <2>4, <2>5, Zenon DEF Fitting
<1> HIDE DEF Quiet, Fits, At, granted, answers, G
<1>8. ASSUME NEW i \in takes
      PROVE  /\ i \in granted <=> ~Quiet(i) /\ Fits(i)
             /\ i \notin granted /\ ~Quiet(i) /\ i + 1 \in takes =>
                  (i + 1 \in granted <=> At(i + 1) >= At(i) + answers[i].wait)
  <2>1. i \in 1 .. n /\ calls[i].pause = 0
    BY <1>1
  <2>2. i \in granted <=> ~Quiet(i) /\ Fits(i)
    BY <1>3, <1>5, <1>6, <1>7, <2>1, GoesOut DEF G
  <2>3. ASSUME i \notin granted, ~Quiet(i), i + 1 \in takes
        PROVE  i + 1 \in granted <=> At(i + 1) >= At(i) + answers[i].wait
    <3>1. i + 1 \in 1 .. n /\ calls[i + 1].pause = 0
      BY <1>1, <2>3
    <3>2. i \notin Grants(run, calls, n) /\ ~Silence(run, calls, i)
      BY <1>5, <1>6, <2>1, <2>3 DEF G
    <3>3. i + 1 \in Grants(run, calls, n) <=> run[i + 1].now >= run[i].now + Said(run, i).wait
      BY <1>3, <2>1, <3>1, <3>2, WaitingPays
    <3>4. /\ At(i + 1) = run[i + 1].now /\ At(i) = run[i].now
          /\ answers[i].wait = Said(run, i).wait
      BY <1>4, <2>1, <3>1 DEF At
    <3> QED
      BY <1>5, <3>3, <3>4 DEF G
  <2> HIDE DEF takes
  <2> QED
    BY <2>2, <2>3
<1>9. \A i \in takes :
        /\ i \in granted <=> ~Quiet(i) /\ Fits(i)
        /\ i \notin granted /\ ~Quiet(i) /\ i + 1 \in takes =>
             (i + 1 \in granted <=> At(i + 1) >= At(i) + answers[i].wait)
  BY <1>8, Zenon
<1> QED
  BY ONLY <1>9 DEF Limit!CatalogueIsSpared, Quiet, Fits, At, granted, answers

----
(* The track: what an item does to the machine *)

Fields == UNION {[keys -> Contents] : keys \in SUBSET Machine!FieldNames}
Progresses ==
    {[position |-> Machine!Elapsed(item.start, item.current),
      duration |-> Machine!Elapsed(item.start, item.end)] : item \in Items}
Machines ==
    [session : BOOLEAN, pending : Fields \cup {Absent},
     track : Machine!Tracks(Contents) \cup {Absent}, tracks : Nat,
     progress : Progresses \cup {Absent}]

\* None is no bundle of fields and no track.
LEMMA AbsentApart == Absent \notin Fields /\ Absent \notin Machine!Tracks(Contents)
BY AbsentAssumption DEF Fields

LEMMA EmptyFields == << >> \in Fields /\ \A f \in Fields : f = << >> <=> DOMAIN f = {}
<1>1. << >> \in [{} -> Contents]
  OBVIOUS
<1>2. << >> \in Fields
  BY <1>1 DEF Fields
<1>3. ASSUME NEW f \in Fields PROVE f = << >> <=> DOMAIN f = {}
  <2>1. PICK keys \in SUBSET Machine!FieldNames : f \in [keys -> Contents]
    BY DEF Fields
  <2>2. DOMAIN f = keys
    BY <2>1
  <2>3. CASE keys = {}
    <3>1. f \in [{} -> Contents]
      BY <2>1, <2>3
    <3>2. f = << >>
      BY <3>1
    <3> QED
      BY <2>2, <2>3, <3>2
  <2>4. CASE keys # {}
    <3>1. DOMAIN << >> = {}
      OBVIOUS
    <3> QED
      BY <2>2, <2>4, <3>1
  <2> QED
    BY <2>3, <2>4
<1> QED
  BY <1>2, <1>3

\* Looking a field up, and what a field is made of.
LEMMA FieldFacts ==
    ASSUME NEW f \in Fields
    PROVE  \A key : Machine!Field(f, key) \in Contents
<1> TAKE key
<1>1. PICK keys \in SUBSET Machine!FieldNames : f \in [keys -> Contents]
  BY DEF Fields
<1>2. DOMAIN f = keys /\ \A k \in keys : f[k] \in Contents
  BY <1>1
<1>3. Absent \in Contents
  BY DEF Contents
<1> QED
  BY <1>2, <1>3 DEF Machine!Field

LEMMA DecodedFacts ==
    ASSUME NEW item \in Items, Machine!IsCore(item)
    PROVE  /\ Machine!Decoded(item).key \in Machine!FieldNames
           /\ Machine!Decoded(item).value \in Contents
<1> DEFINE text == item.code \in DOMAIN Machine!TextFields
           number == item.code \in DOMAIN Machine!NumberFields /\ item.width \in {1, 2, 4, 8}
<1>1. /\ DOMAIN Machine!TextFields = {"minm", "asar", "asal"}
      /\ DOMAIN Machine!NumberFields = {"astm", "mper"}
      /\ \A c \in {"minm", "asar", "asal"} : Machine!TextFields[c] \in {"title", "artist", "album"}
      /\ \A c \in {"astm", "mper"} : Machine!NumberFields[c] \in {"duration_ms", "persistent_id"}
  BY DEF Machine!TextFields, Machine!NumberFields
<1>2. text => item.text \in Texts
  BY DEF Texts
<1>3. number => item.value \in Nat
  BY ItemsAssumption
<1>4. CASE text
  <2>1. Machine!Decoded(item) = [key |-> Machine!TextFields[item.code], value |-> item.text]
    BY <1>1, <1>4 DEF Machine!Decoded
  <2> QED
    BY <1>1, <1>2, <1>4, <2>1 DEF Machine!FieldNames, Contents
<1>5. CASE number
  <2>1. ~text
    BY <1>1, <1>5
  <2>2. Machine!Decoded(item) = [key |-> Machine!NumberFields[item.code], value |-> item.value]
    BY <1>5, <2>1 DEF Machine!Decoded
  <2> QED
    BY <1>1, <1>3, <1>5, <2>2 DEF Machine!FieldNames, Contents
<1>6. CASE ~text /\ ~number
  <2>1. Machine!Decoded(item) = [key |-> "other", value |-> Absent]
    BY <1>6 DEF Machine!Decoded
  <2> QED
    BY <2>1 DEF Machine!FieldNames, Contents
<1> QED
  BY <1>4, <1>5, <1>6

LEMMA NonEmptyFacts ==
    ASSUME NEW text \in Contents
    PROVE  Machine!NonEmpty(text) \in Contents /\ Machine!Lower(text) \in Contents
BY DEF Machine!NonEmpty, Machine!Lower, Contents

LEMMA TrackFacts ==
    ASSUME NEW f \in Fields
    PROVE  /\ Machine!Track(f) \in Machine!Tracks(Contents)
           /\ Machine!Track(f).title = Machine!NonEmpty(Machine!Field(f, "title"))
           /\ Machine!Track(f).artist = Machine!NonEmpty(Machine!Field(f, "artist"))
           /\ Machine!Track(f).album = Machine!NonEmpty(Machine!Field(f, "album"))
           /\ Machine!Track(f).duration = Machine!Field(f, "duration_ms")
<1> DEFINE C == Contents
<1>1. \A key : Machine!Field(f, key) \in C
  BY FieldFacts
<1>2. \A key : Machine!NonEmpty(Machine!Field(f, key)) \in C
               /\ Machine!Lower(Machine!NonEmpty(Machine!Field(f, key))) \in C
  BY <1>1, NonEmptyFacts
<1>3. Absent \in C
  BY DEF Contents
<1> HIDE DEF C
<1>4. Machine!Identity(f) \in [sender : C, text : [{"artist", "album", "title"} -> C] \cup {Absent}]
  <2> DEFINE named == [key \in {"artist", "album", "title"} |->
                         Machine!Lower(Machine!NonEmpty(Machine!Field(f, key)))]
  <2>1. named \in [{"artist", "album", "title"} -> C]
    BY <1>2
  <2> HIDE DEF named
  <2>2. \/ Machine!Identity(f) = [sender |-> Machine!Field(f, "persistent_id"), text |-> Absent]
        \/ Machine!Identity(f) = [sender |-> Absent, text |-> named]
    BY DEF Machine!Identity, named
  <2> QED
    BY <1>1, <1>3, <2>1, <2>2
<1>5. Machine!Track(f) = [title |-> Machine!NonEmpty(Machine!Field(f, "title")),
                          artist |-> Machine!NonEmpty(Machine!Field(f, "artist")),
                          album |-> Machine!NonEmpty(Machine!Field(f, "album")),
                          duration |-> Machine!Field(f, "duration_ms"),
                          id |-> Machine!Identity(f)]
  BY DEF Machine!Track
<1> QED
  BY <1>1, <1>2, <1>4, <1>5 DEF Machine!Tracks, C

\* The codes of items with a field.
LEMMA CoreCodes ==
    /\ DOMAIN Machine!TextFields = {"minm", "asar", "asal"}
    /\ DOMAIN Machine!NumberFields = {"astm", "mper"}
    /\ \A item : Machine!IsCore(item) <=> item.code \in {"minm", "asar", "asal", "astm", "mper"}
BY DEF Machine!IsCore, Machine!TextFields, Machine!NumberFields

\* An item that ends the session that is on.
Ending(b, item) == item.code \in {"aend", "eof"} /\ b.session

\* A field that is added to those of a bundle.
With(fields, field) ==
    [key \in DOMAIN fields \cup {field.key} |->
       IF key = field.key THEN field.value ELSE fields[key]]

LEMMA WithFacts ==
    ASSUME NEW f \in Fields, NEW item \in Items, Machine!IsCore(item)
    PROVE  With(f, Machine!Decoded(item)) \in Fields
<1> DEFINE field == Machine!Decoded(item)
<1>1. PICK keys \in SUBSET Machine!FieldNames : f \in [keys -> Contents]
  BY DEF Fields
<1>2. field.key \in Machine!FieldNames /\ field.value \in Contents
  BY DecodedFacts
<1> HIDE DEF field
<1>3. DOMAIN f = keys
  BY <1>1
<1>4. With(f, field) \in [keys \cup {field.key} -> Contents]
  BY <1>1, <1>2, <1>3 DEF With
<1>5. keys \cup {field.key} \in SUBSET Machine!FieldNames
  BY <1>2
<1> QED
  BY <1>4, <1>5 DEF Fields, field

\* What an item makes of the machine, part by part.
Leaves(b, item, d) ==
    /\ d.session <=> item.code \in {"abeg", "pbeg"} \/ (b.session /\ item.code \notin {"aend", "eof"})
    /\ item.code = "mdst" => d.pending = << >>
    /\ item.code = "mden" \/ Ending(b, item) => d.pending = Absent
    /\ Machine!IsCore(item) =>
         d.pending = IF b.pending = Absent THEN Absent ELSE With(b.pending, Machine!Decoded(item))
    /\ item.code \notin {"mdst", "mden"} /\ ~Machine!IsCore(item) /\ ~Ending(b, item) =>
         d.pending = b.pending
    /\ IF item.code = "mden" /\ b.pending # Absent /\ b.pending # << >>
       THEN d.track = Machine!Track(b.pending) /\ d.tracks \in {b.tracks, b.tracks + 1}
       ELSE d.track = b.track /\ d.tracks = b.tracks
    /\ d.progress # Absent /\ item.code # "prgr" =>
         /\ d.progress = b.progress /\ ~Ending(b, item)
         /\ ~(item.code = "pend" /\ b.session)

LEMMA CommitFacts ==
    ASSUME NEW b \in Machines, NEW item \in Items, item.code = "mden"
    PROVE  LET d == Machine!Committed(b) IN d \in Machines /\ Leaves(b, item, d)
<1> DEFINE d == Machine!Committed(b)
<1>1. ~Machine!IsCore(item) /\ ~Ending(b, item)
  BY CoreCodes DEF Ending
<1>2. CASE b.pending \in {Absent, << >>}
  <2>1. d = [b EXCEPT !.pending = Absent]
    BY <1>2 DEF Machine!Committed
  <2> QED
    BY <1>1, <1>2, <2>1 DEF Machines, Leaves
<1>3. CASE b.pending \notin {Absent, << >>}
  <2> DEFINE track == Machine!Track(b.pending)
             count == IF b.track # Absent /\ b.track.id = track.id THEN b.tracks ELSE b.tracks + 1
  <2>1. b.pending \in Fields /\ b.tracks \in Nat
    BY <1>3 DEF Machines
  <2>2. track \in Machine!Tracks(Contents)
    BY <2>1, TrackFacts
  <2>3. d = [b EXCEPT !.pending = Absent, !.track = track, !.tracks = count]
    BY <1>3 DEF Machine!Committed
  <2>4. count \in {b.tracks, b.tracks + 1} /\ count \in Nat
    BY <2>1
  <2>5. track = Machine!Track(b.pending)
    OBVIOUS
  <2> HIDE DEF track, count, d
  <2> QED
    BY <1>1, <1>3, <2>2, <2>3, <2>4, <2>5 DEF Machines, Leaves, d
<1> QED
  BY <1>2, <1>3

LEMMA HeardFacts ==
    ASSUME NEW b \in Machines, NEW item \in Items, NEW d, d = Machine!Heard(b, item)
    PROVE  d \in Machines /\ Leaves(b, item, d)
<1> DEFINE c == item.code
           core == Machine!IsCore(item)
<1>1. core <=> c \in {"minm", "asar", "asal", "astm", "mper"}
  BY CoreCodes
<1>2. CASE c \in {"abeg", "pbeg"}
  <2>1. d = [b EXCEPT !.session = TRUE]
    BY <1>2, <1>1 DEF Machine!Heard
  <2> QED
    BY <1>1, <1>2, <2>1 DEF Machines, Leaves, Ending
<1>3. CASE c \in {"aend", "eof"}
  <2>1. d = Machine!Idled(b)
    BY <1>3, <1>1 DEF Machine!Heard
  <2>2. CASE b.session
    <3>1. d = [b EXCEPT !.session = FALSE, !.pending = Absent, !.progress = Absent]
      BY <2>1, <2>2 DEF Machine!Idled
    <3> QED
      BY <1>1, <1>3, <2>2, <3>1 DEF Machines, Leaves, Ending
  <2>3. CASE ~b.session
    <3>1. d = b
      BY <2>1, <2>3 DEF Machine!Idled
    <3> QED
      BY <1>1, <1>3, <2>3, <3>1 DEF Machines, Leaves, Ending
  <2> QED
    BY <2>2, <2>3
<1>4. CASE c = "pend" /\ b.session
  <2>1. d = [b EXCEPT !.progress = Absent]
    BY <1>4, <1>1 DEF Machine!Heard
  <2> QED
    BY <1>1, <1>4, <2>1 DEF Machines, Leaves, Ending
<1>5. CASE c = "mdst"
  <2>1. d = [b EXCEPT !.pending = << >>]
    BY <1>5, <1>1 DEF Machine!Heard, Machine!Opened
  <2> QED
    BY <1>1, <1>5, <2>1, EmptyFields DEF Machines, Leaves, Ending
<1>6. CASE c = "mden"
  <2>1. d = Machine!Committed(b)
    BY <1>6, <1>1 DEF Machine!Heard
  <2> QED
    BY <1>6, <2>1, CommitFacts
<1>7. CASE core
  <2>1. d = Machine!Collected(b, Machine!Decoded(item))
    BY <1>7, <1>1 DEF Machine!Heard
  <2>2. CASE b.pending = Absent
    <3>1. d = b
      BY <2>1, <2>2 DEF Machine!Collected
    <3> QED
      BY <1>1, <1>7, <2>2, <3>1 DEF Leaves, Ending
  <2>3. CASE b.pending # Absent
    <3>1. b.pending \in Fields
      BY <2>3 DEF Machines
    <3>2. With(b.pending, Machine!Decoded(item)) \in Fields
      BY <1>7, <3>1, WithFacts
    <3>3. d = [b EXCEPT !.pending = With(b.pending, Machine!Decoded(item))]
      BY <2>1, <2>3 DEF Machine!Collected, With
    <3> QED
      BY <1>1, <1>7, <2>3, <3>2, <3>3 DEF Machines, Leaves, Ending
  <2> QED
    BY <2>2, <2>3
<1>8. CASE c = "prgr"
  <2> DEFINE at == [position |-> Machine!Elapsed(item.start, item.current),
                    duration |-> Machine!Elapsed(item.start, item.end)]
  <2>1. d = [b EXCEPT !.progress = at]
    BY <1>8, <1>1 DEF Machine!Heard
  <2>2. at \in Progresses
    BY DEF Progresses
  <2> HIDE DEF at
  <2> QED
    BY <1>1, <1>8, <2>1, <2>2 DEF Machines, Leaves, Ending
<1>9. CASE /\ c \notin {"abeg", "pbeg", "aend", "eof", "mdst", "mden", "prgr"}
           /\ ~core /\ ~(c = "pend" /\ b.session)
  <2>1. d = b
    BY <1>9, <1>1 DEF Machine!Heard
  <2> QED
    BY <1>1, <1>9, <2>1 DEF Leaves, Ending
<1> QED
  BY <1>2, <1>3, <1>4, <1>5, <1>6, <1>7, <1>8, <1>9

----
(* The track: the fold over the items is a run of machines *)

LEMMA StartsSilent == Machine!Silence \in Machines
BY DEF Machine!Silence, Machines

\* The function MachineAfter is computed with.
MachineFolds(f, items) ==
    f = [s \in SUBSET DOMAIN items |->
           IF s = {} THEN Machine!Silence
           ELSE LET x == Machine!Max(s) IN Machine!Heard(f[s \ {x}], items[x])]

LEMMA MachineFoldExists ==
    ASSUME NEW n \in Nat, NEW items \in [1 .. n -> Items]
    PROVE  \E f : MachineFolds(f, items)
<1> DEFINE step == [p \in Machines \X Items |-> Machine!Heard(p[1], p[2])]
           one(s) == Limit!Max(s)
<1>1. \A b \in Machines, item \in Items : Machine!Heard(b, item) \in Machines
  BY HeardFacts
<1>2. step \in [Machines \X Items -> Machines]
  BY <1>1
<1>3. \A b \in Machines, item \in Items : step[b, item] = Machine!Heard(b, item)
  OBVIOUS
<1> HIDE DEF step
<1>4. PICK f \in [SUBSET DOMAIN items -> Machines] : FoldsBy(f, step, Machine!Silence, items)
  BY <1>2, StartsSilent, FoldExists
<1>5. ASSUME NEW s \in SUBSET DOMAIN items, s # {}
      PROVE  step[f[s \ {one(s)}], items[one(s)]] = Machine!Heard(f[s \ {one(s)}], items[one(s)])
  <2>1. one(s) \in 1 .. n
    BY <1>5, LastOf
  <2>2. items[one(s)] \in Items /\ f[s \ {one(s)}] \in Machines
    BY <2>1
  <2> HIDE DEF one
  <2> QED
    BY <1>3, <2>2
<1>6. \A s : Machine!Max(s) = one(s)
  BY DEF Machine!Max, Limit!Max
<1> HIDE DEF one
<1>7. f = [s \in SUBSET DOMAIN items |->
             IF s = {} THEN Machine!Silence ELSE step[f[s \ {one(s)}], items[one(s)]]]
  BY <1>4 DEF FoldsBy, one
<1>8. f = [s \in SUBSET DOMAIN items |->
             IF s = {} THEN Machine!Silence ELSE Machine!Heard(f[s \ {one(s)}], items[one(s)])]
  BY <1>5, <1>7
<1> QED
  BY <1>6, <1>8 DEF MachineFolds

\* The machines before, between and after the items of a history.
IsHistory(run, items, n) ==
    /\ n \in Nat /\ items \in [1 .. n -> Items]
    /\ run[0] = Machine!Silence
    /\ \A k \in 1 .. n : run[k] = Machine!Heard(run[k - 1], items[k])

LEMMA MachineRuns ==
    ASSUME NEW n \in Nat, NEW items \in [1 .. n -> Items]
    PROVE  \E run : IsHistory(run, items, n) /\ Machine!MachineAfter(items) = run[n]
<1> DEFINE it == CHOOSE f : MachineFolds(f, items)
<1>1. MachineFolds(it, items)
  BY MachineFoldExists
<1>2. Machine!MachineAfter(items) = it[DOMAIN items]
  BY DEF Machine!MachineAfter, Machine!FoldLeft, Machine!MapThenFoldSet, MachineFolds
<1> HIDE DEF it
<1> DEFINE run == [k \in 0 .. n |-> it[1 .. k]]
<1>3. run[0] = Machine!Silence
  <2>1. 1 .. 0 = {} /\ 0 \in 0 .. n
    OBVIOUS
  <2> QED
    BY <1>1, <2>1 DEF MachineFolds
<1>4. ASSUME NEW k \in 1 .. n PROVE run[k] = Machine!Heard(run[k - 1], items[k])
  <2>1. 1 .. k \in SUBSET DOMAIN items /\ 1 .. k # {} /\ k \in 0 .. n /\ k - 1 \in 0 .. n
    <3>1. 1 .. k \subseteq 1 .. n /\ k \in 1 .. k /\ k \in 0 .. n /\ k - 1 \in 0 .. n
      OBVIOUS
    <3>2. DOMAIN items = 1 .. n
      OBVIOUS
    <3> QED
      BY <3>1, <3>2
  <2>2. it[1 .. k] = Machine!Heard(it[(1 .. k) \ {Machine!Max(1 .. k)}], items[Machine!Max(1 .. k)])
    BY <1>1, <2>1 DEF MachineFolds
  <2>3. Machine!Max(1 .. k) = k /\ (1 .. k) \ {k} = 1 .. k - 1
    BY LastOfPrefix DEF Machine!Max, Limit!Max
  <2> QED
    BY <2>1, <2>2, <2>3
<1>5. Machine!MachineAfter(items) = run[n] /\ DOMAIN items = 1 .. n
  BY <1>2
<1> HIDE DEF run
<1> QED
  BY <1>3, <1>4, <1>5 DEF IsHistory

LEMMA HistoryTypes ==
    ASSUME NEW run, NEW items, NEW n, IsHistory(run, items, n)
    PROVE  \A k \in 0 .. n : run[k] \in Machines
<1> DEFINE S == {k \in 0 .. n : run[k] \in Machines}
<1>1. n \in Nat /\ 0 \in S
  BY StartsSilent DEF IsHistory
<1>2. ASSUME NEW k \in 0 .. n, k \in S, k + 1 <= n PROVE k + 1 \in S
  <2>1. k + 1 \in 1 .. n /\ k + 1 \in 0 .. n /\ (k + 1) - 1 = k
    BY <1>1, <1>2
  <2>2. run[k + 1] = Machine!Heard(run[k], items[k + 1]) /\ items[k + 1] \in Items
    BY <2>1 DEF IsHistory
  <2>3. run[k + 1] \in Machines
    BY <1>2, <2>2, HeardFacts
  <2> QED
    BY <2>1, <2>3
<1> HIDE DEF S
<1>3. 0 .. n \subseteq S
  BY <1>1, <1>2, Induct
<1> QED
  BY <1>3 DEF S

LEMMA HistorySteps ==
    ASSUME NEW run, NEW items, NEW n, IsHistory(run, items, n), NEW k \in 1 .. n
    PROVE  /\ n \in Nat /\ k \in Nat /\ k - 1 \in 0 .. n /\ k \in 0 .. n
           /\ items[k] \in Items /\ run[k - 1] \in Machines /\ run[k] \in Machines
           /\ Leaves(run[k - 1], items[k], run[k])
<1>1. n \in Nat /\ k \in Nat /\ k - 1 \in 0 .. n /\ k \in 0 .. n
  BY DEF IsHistory
<1>2. run[k] = Machine!Heard(run[k - 1], items[k]) /\ items[k] \in Items
  BY DEF IsHistory
<1>3. run[k - 1] \in Machines /\ run[k] \in Machines
  BY <1>1, HistoryTypes
<1> QED
  BY <1>1, <1>2, <1>3, HeardFacts

\* The machine is in a session when the history says so.
LEMMA SessionRuns ==
    ASSUME NEW run, NEW items, NEW n, IsHistory(run, items, n)
    PROVE  \A k \in 0 .. n : run[k].session <=> Machine!InSession(items, k + 1)
<1> DEFINE On(k) == Machine!InSession(items, k + 1)
           S == {k \in 0 .. n : run[k].session <=> On(k)}
<1>1. n \in Nat /\ 0 \in S
  <2>1. n \in Nat /\ run[0].session = FALSE
    BY DEF IsHistory, Machine!Silence
  <2>2. ~On(0)
    <3>1. 1 .. (0 + 1) - 1 = {}
      OBVIOUS
    <3> QED
      BY <3>1 DEF Machine!InSession
  <2> QED
    BY <2>1, <2>2
<1>2. ASSUME NEW k \in 0 .. n, k \in S, k + 1 <= n PROVE k + 1 \in S
  <2>1. k + 1 \in 1 .. n /\ k + 1 \in 0 .. n /\ (k + 1) - 1 = k /\ k \in Nat
    BY <1>1, <1>2
  <2>2. run[k + 1].session <=> \/ items[k + 1].code \in {"abeg", "pbeg"}
                              \/ (run[k].session /\ items[k + 1].code \notin {"aend", "eof"})
    BY <2>1, HistorySteps DEF Leaves
  <2>3. (k + 1) + 1 - 1 = k + 1 /\ 1 .. (k + 1) + 1 - 1 = (1 .. (k + 1) - 1) \cup {k + 1}
    BY <2>1
  <2>4. On(k + 1) <=> \/ items[k + 1].code \in {"abeg", "pbeg"}
                      \/ (On(k) /\ items[k + 1].code \notin {"aend", "eof"})
    <3>1. ASSUME On(k + 1), items[k + 1].code \notin {"abeg", "pbeg"}
          PROVE  On(k) /\ items[k + 1].code \notin {"aend", "eof"}
      <4>1. PICK b \in 1 .. (k + 1) + 1 - 1 :
               /\ items[b].code \in {"abeg", "pbeg"}
               /\ \A j \in b + 1 .. (k + 1) + 1 - 1 : items[j].code \notin {"aend", "eof"}
        BY <3>1 DEF Machine!InSession
      <4>2. b # k + 1 /\ b \in 1 .. (k + 1) - 1
        BY <2>3, <3>1, <4>1
      <4>3. k + 1 \in b + 1 .. (k + 1) + 1 - 1 /\ b + 1 .. (k + 1) - 1 \subseteq b + 1 .. (k + 1) + 1 - 1
        BY <2>1, <4>2
      <4> QED
        BY <4>1, <4>2, <4>3 DEF Machine!InSession
    <3>2. ASSUME items[k + 1].code \in {"abeg", "pbeg"}
          PROVE  On(k + 1)
      <4>1. k + 1 \in 1 .. (k + 1) + 1 - 1 /\ (k + 1) + 1 .. (k + 1) + 1 - 1 = {}
        BY <2>1
      <4> QED
        BY <3>2, <4>1 DEF Machine!InSession
    <3>3. ASSUME On(k), items[k + 1].code \notin {"aend", "eof"}
          PROVE  On(k + 1)
      <4>1. PICK b \in 1 .. (k + 1) - 1 :
               /\ items[b].code \in {"abeg", "pbeg"}
               /\ \A j \in b + 1 .. (k + 1) - 1 : items[j].code \notin {"aend", "eof"}
        BY <3>3 DEF Machine!InSession
      <4>2. b \in 1 .. (k + 1) + 1 - 1
        BY <2>1
      <4>3. \A j \in b + 1 .. (k + 1) + 1 - 1 : j = k + 1 \/ j \in b + 1 .. (k + 1) - 1
        BY <2>1
      <4> QED
        BY <3>3, <4>1, <4>2, <4>3 DEF Machine!InSession
    <3> QED
      BY <3>1, <3>2, <3>3
  <2> HIDE DEF On
  <2> QED
    BY <1>2, <2>1, <2>2, <2>4
<1> HIDE DEF S
<1>3. 0 .. n \subseteq S
  BY <1>1, <1>2, Induct
<1> QED
  BY <1>3 DEF S

\* So an item ends the session of the history when it ends that of the machine.
LEMMA EndingsAgree ==
    ASSUME NEW run, NEW items, NEW n, IsHistory(run, items, n), NEW k \in 1 .. n
    PROVE  /\ Ending(run[k - 1], items[k]) <=> Machine!EndsSession(items, k)
           /\ run[k - 1].session <=> Machine!InSession(items, k)
<1>1. k - 1 \in 0 .. n /\ (k - 1) + 1 = k
  BY DEF IsHistory
<1>2. run[k - 1].session <=> Machine!InSession(items, k)
  BY <1>1, SessionRuns
<1> QED
  BY <1>2 DEF Ending, Machine!EndsSession

----
(* The track: the bundle that is being collected *)

\* The bundle that began with the a-th item is open after the k-th.
OpenSince(items, a, k) ==
    /\ a \in 1 .. k /\ items[a].code = "mdst"
    /\ \A i \in a + 1 .. k : /\ items[i].code \notin {"mdst", "mden"}
                             /\ ~Machine!EndsSession(items, i)

\* These are the fields of that bundle.
Gathered(fields, items, a, k) ==
    /\ fields \in Fields
    /\ fields = << >> <=> Machine!FieldsOf(items, a, k + 1) = {}
    /\ \A key : Machine!Field(fields, key) = Machine!LastOf(items, <<a, k + 1>>, key)

LEMMA NextFields ==
    ASSUME NEW items, NEW k \in Nat, NEW a \in 1 .. k
    PROVE  Machine!FieldsOf(items, a, (k + 1) + 1) =
             Machine!FieldsOf(items, a, k + 1)
               \cup (IF Machine!IsCore(items[k + 1]) THEN {k + 1} ELSE {})
<1>1. a + 1 .. ((k + 1) + 1) - 1 = (a + 1 .. (k + 1) - 1) \cup {k + 1}
  OBVIOUS
<1> QED
  BY <1>1 DEF Machine!FieldsOf

\* The last value of a field is replaced by a new one of the same name only.
LEMMA NextLast ==
    ASSUME NEW items, NEW k \in Nat, NEW a \in 1 .. k, NEW key
    PROVE  Machine!LastOf(items, <<a, (k + 1) + 1>>, key) =
             IF Machine!IsCore(items[k + 1]) /\ Machine!Decoded(items[k + 1]).key = key
             THEN Machine!Decoded(items[k + 1]).value
             ELSE Machine!LastOf(items, <<a, k + 1>>, key)
<1> DEFINE named(to) == {i \in Machine!FieldsOf(items, a, to) : Machine!Decoded(items[i]).key = key}
           last(s) == CHOOSE i \in s : \A j \in s : j <= i
<1>1. \A to : Machine!LastOf(items, <<a, to>>, key) =
                IF named(to) = {} THEN Absent ELSE Machine!Decoded(items[last(named(to))]).value
  BY DEF Machine!LastOf
<1>2. CASE Machine!IsCore(items[k + 1]) /\ Machine!Decoded(items[k + 1]).key = key
  <2>1. named((k + 1) + 1) = named(k + 1) \cup {k + 1}
    BY <1>2, NextFields
  <2>2. \A i \in named(k + 1) : i \in Nat /\ i < k + 1
    BY DEF Machine!FieldsOf
  <2> DEFINE s == named((k + 1) + 1)
  <2>3. k + 1 \in s /\ (\A j \in s : j <= k + 1) /\ \A i \in s : i \in Nat
    BY <2>1, <2>2
  <2> HIDE DEF s
  <2>4. last(s) = k + 1
    BY <2>3
  <2> QED
    BY <1>1, <1>2, <2>3, <2>4 DEF s
<1>3. CASE ~(Machine!IsCore(items[k + 1]) /\ Machine!Decoded(items[k + 1]).key = key)
  <2>1. named((k + 1) + 1) = named(k + 1)
    BY <1>3, NextFields
  <2> HIDE DEF named, last
  <2> QED
    BY <1>1, <1>3, <2>1
<1> QED
  BY <1>2, <1>3

LEMMA NoFieldsYet ==
    ASSUME NEW items, NEW k \in Nat
    PROVE  Gathered(<< >>, items, k, k)
<1>1. Machine!FieldsOf(items, k, k + 1) = {}
  BY DEF Machine!FieldsOf
<1>2. \A key : Machine!LastOf(items, <<k, k + 1>>, key) = Absent
  BY <1>1 DEF Machine!LastOf
<1>3. << >> \in Fields /\ DOMAIN << >> = {}
  BY EmptyFields
<1>4. \A key : Machine!Field(<< >>, key) = Absent
  BY <1>3 DEF Machine!Field
<1> QED
  BY <1>1, <1>2, <1>3, <1>4 DEF Gathered

LEMMA GatherMore ==
    ASSUME NEW items, NEW k \in Nat, NEW a \in 1 .. k, NEW fields, Gathered(fields, items, a, k),
           items[k + 1] \in Items
    PROVE  Gathered(IF Machine!IsCore(items[k + 1])
                    THEN With(fields, Machine!Decoded(items[k + 1])) ELSE fields,
                    items, a, k + 1)
<1> DEFINE item == items[k + 1]
           field == Machine!Decoded(item)
           more == With(fields, field)
<1>1. fields \in Fields /\ (fields = << >> <=> Machine!FieldsOf(items, a, k + 1) = {})
      /\ \A key : Machine!Field(fields, key) = Machine!LastOf(items, <<a, k + 1>>, key)
  BY DEF Gathered
<1>2. CASE Machine!IsCore(item)
  <2>1. more \in Fields
    BY <1>1, <1>2, WithFacts
  <2>2. DOMAIN more = DOMAIN fields \cup {field.key}
    BY DEF With
  <2>3. more # << >>
    BY <2>1, <2>2, EmptyFields
  <2>4. Machine!FieldsOf(items, a, (k + 1) + 1) # {}
    BY <1>2, NextFields, SMTT(30)
  <2>5. ASSUME NEW key
        PROVE  Machine!Field(more, key) = Machine!LastOf(items, <<a, (k + 1) + 1>>, key)
    <3>1. Machine!Field(more, key) = IF field.key = key THEN field.value ELSE Machine!Field(fields, key)
      BY <2>2 DEF Machine!Field, With
    <3>2. Machine!LastOf(items, <<a, (k + 1) + 1>>, key) =
            IF field.key = key THEN field.value ELSE Machine!LastOf(items, <<a, k + 1>>, key)
      BY <1>2, NextLast
    <3> QED
      BY <1>1, <3>1, <3>2
  <2> HIDE DEF more
  <2>6. Gathered(more, items, a, k + 1)
    BY <2>1, <2>3, <2>4, <2>5 DEF Gathered
  <2> QED
    BY <1>2, <2>6 DEF more
<1>3. CASE ~Machine!IsCore(item)
  <2>1. Machine!FieldsOf(items, a, (k + 1) + 1) = Machine!FieldsOf(items, a, k + 1)
    <3>1. Machine!FieldsOf(items, a, (k + 1) + 1) = Machine!FieldsOf(items, a, k + 1) \cup {}
      BY <1>3, NextFields
    <3> QED
      BY <3>1
  <2>2. \A key : Machine!LastOf(items, <<a, (k + 1) + 1>>, key) = Machine!LastOf(items, <<a, k + 1>>, key)
    BY <1>3, NextLast
  <2>3. Gathered(fields, items, a, k + 1)
    BY <1>1, <2>1, <2>2 DEF Gathered
  <2> QED
    BY <1>3, <2>3
<1> QED
  BY <1>2, <1>3

PendingIs(pending, items, k) ==
    /\ pending = Absent <=> \A a \in 1 .. k : ~OpenSince(items, a, k)
    /\ \A a \in 1 .. k : OpenSince(items, a, k) => Gathered(pending, items, a, k)

\* A bundle stays open until something opens another, closes it or ends the session.
LEMMA NextOpen ==
    ASSUME NEW items, NEW k \in Nat, NEW a \in 1 .. k + 1
    PROVE  OpenSince(items, a, k + 1) <=>
             \/ a = k + 1 /\ items[k + 1].code = "mdst"
             \/ /\ a \in 1 .. k /\ OpenSince(items, a, k)
                /\ items[k + 1].code \notin {"mdst", "mden"} /\ ~Machine!EndsSession(items, k + 1)
<1>1. CASE a = k + 1
  <2>1. a + 1 .. k + 1 = {} /\ a \notin 1 .. k
    BY <1>1
  <2> QED
    BY <1>1, <2>1 DEF OpenSince
<1>2. CASE a # k + 1
  <2>1. a \in 1 .. k /\ a + 1 .. k + 1 = (a + 1 .. k) \cup {k + 1}
    BY <1>2
  <2> QED
    BY <1>2, <2>1 DEF OpenSince
<1> QED
  BY <1>1, <1>2

LEMMA PendingStep ==
    ASSUME NEW run, NEW items, NEW n, IsHistory(run, items, n), NEW k \in Nat, k + 1 \in 1 .. n,
           PendingIs(run[k].pending, items, k)
    PROVE  PendingIs(run[k + 1].pending, items, k + 1)
<1> DEFINE b == run[k]
           d == run[k + 1]
           item == items[k + 1]
<1>1. /\ item \in Items /\ b \in Machines /\ Leaves(b, item, d)
      /\ Ending(b, item) <=> Machine!EndsSession(items, k + 1)
  <2>1. (k + 1) - 1 = k
    OBVIOUS
  <2> QED
    BY <2>1, HistorySteps, EndingsAgree
<1>2. \A f \in Fields : f # Absent
  BY AbsentApart
<1>3. CASE item.code = "mdst"
  <2>1. d.pending = << >> /\ << >> # Absent
    BY <1>1, <1>2, <1>3, EmptyFields DEF Leaves
  <2>2. \A a \in 1 .. k + 1 : OpenSince(items, a, k + 1) <=> a = k + 1
    BY <1>3, NextOpen
  <2>3. k + 1 \in 1 .. k + 1 /\ Gathered(<< >>, items, k + 1, k + 1)
    BY NoFieldsYet
  <2> QED
    BY <2>1, <2>2, <2>3 DEF PendingIs
<1>4. CASE item.code = "mden" \/ Ending(b, item)
  <2>1. d.pending = Absent
    BY <1>1, <1>4 DEF Leaves
  <2>2. \A a \in 1 .. k + 1 : ~OpenSince(items, a, k + 1)
    <3>1. item.code # "mdst"
      BY <1>4 DEF Ending
    <3> QED
      BY <1>1, <1>4, <3>1, NextOpen
  <2> QED
    BY <2>1, <2>2 DEF PendingIs
<1>5. CASE item.code \notin {"mdst", "mden"} /\ ~Ending(b, item)
  <2>1. \A a \in 1 .. k + 1 : OpenSince(items, a, k + 1) <=> a \in 1 .. k /\ OpenSince(items, a, k)
    BY <1>1, <1>5, NextOpen
  <2>2. d.pending = IF b.pending = Absent THEN Absent
                    ELSE IF Machine!IsCore(item) THEN With(b.pending, Machine!Decoded(item))
                         ELSE b.pending
    BY <1>1, <1>5 DEF Leaves
  <2>3. ASSUME NEW a \in 1 .. k, OpenSince(items, a, k)
        PROVE  d.pending # Absent /\ Gathered(d.pending, items, a, k + 1)
    <3>1. b.pending # Absent /\ Gathered(b.pending, items, a, k)
      BY <2>3 DEF PendingIs
    <3>2. Gathered(d.pending, items, a, k + 1)
      BY <1>1, <2>2, <3>1, GatherMore
    <3> QED
      BY <1>2, <3>2 DEF Gathered
  <2>4. ASSUME \A a \in 1 .. k : ~OpenSince(items, a, k)
        PROVE  d.pending = Absent
    BY <2>2, <2>4 DEF PendingIs
  <2>5. 1 .. k \subseteq 1 .. k + 1
    OBVIOUS
  <2> HIDE DEF d
  <2>6. d.pending = Absent <=> \A a \in 1 .. k : ~OpenSince(items, a, k)
    BY <2>3, <2>4
  <2>7. (\A a \in 1 .. k + 1 : ~OpenSince(items, a, k + 1)) <=> \A a \in 1 .. k : ~OpenSince(items, a, k)
    BY <2>1, <2>5
  <2>8. \A a \in 1 .. k + 1 : OpenSince(items, a, k + 1) => Gathered(d.pending, items, a, k + 1)
    BY <2>1, <2>3
  <2>9. PendingIs(d.pending, items, k + 1)
    BY <2>6, <2>7, <2>8 DEF PendingIs
  <2> QED
    BY <2>9 DEF d
<1> QED
  BY <1>3, <1>4, <1>5

LEMMA PendingRuns ==
    ASSUME NEW run, NEW items, NEW n, IsHistory(run, items, n)
    PROVE  \A k \in 0 .. n : PendingIs(run[k].pending, items, k)
<1> DEFINE S == {k \in 0 .. n : PendingIs(run[k].pending, items, k)}
<1>1. n \in Nat /\ 0 \in S
  <2>1. n \in Nat /\ run[0].pending = Absent
    BY DEF IsHistory, Machine!Silence
  <2>2. 1 .. 0 = {}
    OBVIOUS
  <2> QED
    BY <2>1, <2>2 DEF PendingIs
<1>2. ASSUME NEW k \in 0 .. n, k \in S, k + 1 <= n PROVE k + 1 \in S
  <2>1. k + 1 \in 1 .. n /\ k + 1 \in 0 .. n /\ k \in Nat
    BY <1>1, <1>2
  <2>2. PendingIs(run[k].pending, items, k)
    BY <1>2
  <2> QED
    BY <2>1, <2>2, PendingStep
<1> HIDE DEF S
<1>3. 0 .. n \subseteq S
  BY <1>1, <1>2, Induct
<1> QED
  BY <1>3 DEF S

----
(* The track: what the last bundle leaves *)

BundlesBy(items, k) == {span \in Machine!Bundles(items) : span[2] <= k}

IsOf(track, items, span) ==
    /\ track.title = Machine!NonEmpty(Machine!LastOf(items, span, "title"))
    /\ track.artist = Machine!NonEmpty(Machine!LastOf(items, span, "artist"))
    /\ track.album = Machine!NonEmpty(Machine!LastOf(items, span, "album"))
    /\ track.duration = Machine!LastOf(items, span, "duration_ms")

IsLast(span, spans) == span \in spans /\ \A other \in spans : other[2] <= span[2]

TrackIs(m, items, k) ==
    /\ m.track = Absent <=> BundlesBy(items, k) = {}
    /\ \A span : IsLast(span, BundlesBy(items, k)) => IsOf(m.track, items, span)
    /\ m.tracks <= Cardinality(BundlesBy(items, k))

\* A bundle ends where one is open that has fields.
LEMMA BundleEnds ==
    ASSUME NEW items, NEW k \in Nat, NEW a \in 1 .. k
    PROVE  Machine!IsBundle(items, a, k + 1) <=>
             /\ items[k + 1].code = "mden" /\ OpenSince(items, a, k)
             /\ Machine!FieldsOf(items, a, k + 1) # {}
<1>1. a + 1 .. (k + 1) - 1 = a + 1 .. k
  OBVIOUS
<1> QED
  BY <1>1 DEF Machine!IsBundle, OpenSince

LEMMA SpanFacts ==
    ASSUME NEW n \in Nat, NEW items, DOMAIN items = 1 .. n
    PROVE  /\ \A a, b : <<a, b>> \in Machine!Bundles(items) <=>
                          a \in 1 .. n /\ b \in 1 .. n /\ a < b /\ Machine!IsBundle(items, a, b)
           /\ \A span \in Machine!Bundles(items) :
                span = <<span[1], span[2]>> /\ span[1] \in 1 .. n /\ span[2] \in 1 .. n
           /\ \A k : IsFiniteSet(BundlesBy(items, k))
<1>1. Machine!Bundles(items) \subseteq (1 .. n) \X (1 .. n)
  BY DEF Machine!Bundles
<1>2. IsFiniteSet((1 .. n) \X (1 .. n))
  <2>1. IsFiniteSet(1 .. n)
    BY FS_Interval
  <2> QED
    BY <2>1, FS_Product
<1>3. \A k : IsFiniteSet(BundlesBy(items, k))
  BY <1>1, <1>2, FS_Subset DEF BundlesBy
<1>4. \A span \in Machine!Bundles(items) :
                span = <<span[1], span[2]>> /\ span[1] \in 1 .. n /\ span[2] \in 1 .. n
  BY <1>1
<1>5. \A a, b : <<a, b>> \in Machine!Bundles(items) <=>
                  a \in 1 .. n /\ b \in 1 .. n /\ a < b /\ Machine!IsBundle(items, a, b)
  BY DEF Machine!Bundles
<1> QED
  BY <1>3, <1>4, <1>5

\* What is new with the next item.
LEMMA NextBundle ==
    ASSUME NEW n \in Nat, NEW items, DOMAIN items = 1 .. n, NEW k \in Nat, k + 1 \in 1 .. n
    PROVE  \A span : span \in BundlesBy(items, k + 1) <=>
             \/ span \in BundlesBy(items, k)
             \/ \E a \in 1 .. k : span = <<a, k + 1>> /\ Machine!IsBundle(items, a, k + 1)
<1> TAKE span
<1>1. ASSUME span \in BundlesBy(items, k + 1), span \notin BundlesBy(items, k)
      PROVE  \E a \in 1 .. k : span = <<a, k + 1>> /\ Machine!IsBundle(items, a, k + 1)
  <2>1. span \in Machine!Bundles(items) /\ span[2] <= k + 1 /\ ~(span[2] <= k)
    BY <1>1 DEF BundlesBy
  <2>2. span = <<span[1], span[2]>> /\ span[1] \in 1 .. n /\ span[2] \in 1 .. n
    BY <2>1, SpanFacts
  <2>3. span[2] = k + 1
    BY <2>1, <2>2
  <2>4. span[1] < span[2] /\ Machine!IsBundle(items, span[1], span[2])
    BY <2>1, <2>2, SpanFacts
  <2>5. span[1] \in 1 .. k
    BY <2>2, <2>3, <2>4
  <2> QED
    BY <2>2, <2>3, <2>4, <2>5
<1>2. ASSUME span \in BundlesBy(items, k)
      PROVE  span \in BundlesBy(items, k + 1)
  <2>1. span[2] \in 1 .. n /\ span[2] <= k
    BY <1>2, SpanFacts DEF BundlesBy
  <2>2. span[2] <= k + 1
    BY <2>1
  <2> QED
    BY <1>2, <2>2 DEF BundlesBy
<1>3. ASSUME NEW a \in 1 .. k, span = <<a, k + 1>>, Machine!IsBundle(items, a, k + 1)
      PROVE  span \in BundlesBy(items, k + 1)
  <2>1. a \in 1 .. n /\ a < k + 1 /\ span[2] = k + 1
    BY <1>3
  <2>2. span \in Machine!Bundles(items)
    BY <1>3, <2>1, SpanFacts
  <2> QED
    BY <2>1, <2>2 DEF BundlesBy
<1> QED
  BY <1>1, <1>2, <1>3

LEMMA TrackStep ==
    ASSUME NEW run, NEW items, NEW n, IsHistory(run, items, n), NEW k \in Nat, k + 1 \in 1 .. n,
           TrackIs(run[k], items, k)
    PROVE  TrackIs(run[k + 1], items, k + 1)
<1> DEFINE b == run[k]
           d == run[k + 1]
           item == items[k + 1]
           old == BundlesBy(items, k)
           new == BundlesBy(items, k + 1)
<1>1. /\ n \in Nat /\ DOMAIN items = 1 .. n /\ k \in 0 .. n
      /\ b \in Machines /\ d \in Machines /\ Leaves(b, item, d)
  <2>1. (k + 1) - 1 = k
    OBVIOUS
  <2>2. n \in Nat /\ k \in 0 .. n /\ b \in Machines /\ d \in Machines /\ Leaves(b, item, d)
    BY <2>1, HistorySteps
  <2>3. DOMAIN items = 1 .. n
    BY DEF IsHistory
  <2> QED
    BY <2>2, <2>3
<1>2. PendingIs(b.pending, items, k)
  BY <1>1, PendingRuns
<1>3. \A a \in 1 .. k : Machine!IsBundle(items, a, k + 1) <=>
        /\ item.code = "mden" /\ OpenSince(items, a, k) /\ b.pending # << >>
        /\ b.pending # Absent /\ Gathered(b.pending, items, a, k)
  <2> TAKE a \in 1 .. k
  <2>1. OpenSince(items, a, k) =>
          /\ b.pending # Absent /\ Gathered(b.pending, items, a, k)
          /\ b.pending = << >> <=> Machine!FieldsOf(items, a, k + 1) = {}
    BY <1>2 DEF PendingIs, Gathered
  <2> QED
    BY <2>1, BundleEnds
<1>4. IsFiniteSet(old) /\ IsFiniteSet(new) /\ old \subseteq new
  BY <1>1, SpanFacts, NextBundle
<1>5. b.tracks \in Nat /\ d.tracks \in Nat /\ Cardinality(old) \in Nat /\ Cardinality(new) \in Nat
  BY <1>1, <1>4, FS_CardinalityType DEF Machines
<1>6. CASE item.code = "mden" /\ b.pending # Absent /\ b.pending # << >>
  <2>1. d.track = Machine!Track(b.pending) /\ d.tracks \in {b.tracks, b.tracks + 1}
    BY <1>1, <1>6 DEF Leaves
  <2>2. b.pending \in Fields
    BY <1>1, <1>6 DEF Machines
  <2>3. PICK a \in 1 .. k : OpenSince(items, a, k)
    BY <1>2, <1>6 DEF PendingIs
  <2>4. Machine!IsBundle(items, a, k + 1)
    BY <1>2, <1>3, <1>6, <2>3 DEF PendingIs
  <2> DEFINE one == <<a, k + 1>>
  <2>5. one \in new /\ one \notin old /\ one[2] = k + 1
    <3>1. one \in new
      BY <1>1, <2>4, NextBundle
    <3>2. one[2] = k + 1 /\ ~(k + 1 <= k)
      OBVIOUS
    <3> QED
      BY <3>1, <3>2 DEF BundlesBy
  <2>6. d.track # Absent
    BY <2>1, <2>2, TrackFacts, AbsentApart
  <2>7. ASSUME NEW span, IsLast(span, new)
        PROVE  IsOf(d.track, items, span)
    <3>1. span \in new /\ k + 1 <= span[2]
      BY <2>5, <2>7 DEF IsLast
    <3>2. span \notin old
      <4>1. span[2] \in Nat
        BY <1>1, <3>1, SpanFacts DEF BundlesBy
      <4>2. ~(span[2] <= k)
        BY <3>1, <4>1
      <4> QED
        BY <4>2 DEF BundlesBy
    <3>3. PICK c \in 1 .. k : span = <<c, k + 1>> /\ Machine!IsBundle(items, c, k + 1)
      BY <1>1, <3>1, <3>2, NextBundle
    <3>4. \A key : Machine!Field(b.pending, key) = Machine!LastOf(items, span, key)
      BY <1>3, <3>3 DEF Gathered
    <3> QED
      BY <2>1, <2>2, <3>4, TrackFacts DEF IsOf
  <2>8. d.tracks <= Cardinality(new)
    <3>1. /\ Cardinality(old \cup {one}) = Cardinality(old) + 1
          /\ IsFiniteSet(old \cup {one}) /\ old \cup {one} \subseteq new
      BY <1>4, <2>5, FS_AddElement
    <3>2. Cardinality(old \cup {one}) <= Cardinality(new)
      BY <1>4, <3>1, FS_Subset
    <3>3. b.tracks <= Cardinality(old)
      BY DEF TrackIs
    <3> QED
      BY <1>5, <2>1, <3>1, <3>2, <3>3
  <2>9. new # {}
    BY <2>5
  <2> QED
    BY <2>6, <2>7, <2>8, <2>9 DEF TrackIs
<1>7. CASE ~(item.code = "mden" /\ b.pending # Absent /\ b.pending # << >>)
  <2>1. d.track = b.track /\ d.tracks = b.tracks
    BY <1>1, <1>7 DEF Leaves
  <2>2. new = old
    <3>1. \A a \in 1 .. k : ~Machine!IsBundle(items, a, k + 1)
      BY <1>3, <1>7
    <3>2. \A span : span \in new <=> span \in old
      BY <1>1, <3>1, NextBundle
    <3> QED
      BY <3>2
  <2> QED
    BY <2>1, <2>2 DEF TrackIs
<1> QED
  BY <1>6, <1>7

LEMMA TrackRuns ==
    ASSUME NEW run, NEW items, NEW n, IsHistory(run, items, n)
    PROVE  \A k \in 0 .. n : TrackIs(run[k], items, k)
<1> DEFINE S == {k \in 0 .. n : TrackIs(run[k], items, k)}
<1>1. n \in Nat /\ 0 \in S
  <2>1. n \in Nat /\ DOMAIN items = 1 .. n /\ run[0].track = Absent /\ run[0].tracks = 0
    BY DEF IsHistory, Machine!Silence
  <2>2. BundlesBy(items, 0) = {}
    <3>1. \A span \in Machine!Bundles(items) : ~(span[2] <= 0)
      BY <2>1, SpanFacts
    <3> QED
      BY <3>1 DEF BundlesBy
  <2>3. Cardinality(BundlesBy(items, 0)) = 0
    BY <2>2, FS_EmptySet
  <2> QED
    BY <2>1, <2>2, <2>3 DEF TrackIs, IsLast
<1>2. ASSUME NEW k \in 0 .. n, k \in S, k + 1 <= n PROVE k + 1 \in S
  <2>1. k + 1 \in 1 .. n /\ k + 1 \in 0 .. n /\ k \in Nat
    BY <1>1, <1>2
  <2>2. TrackIs(run[k], items, k)
    BY <1>2
  <2> QED
    BY <2>1, <2>2, TrackStep
<1> HIDE DEF S
<1>3. 0 .. n \subseteq S
  BY <1>1, <1>2, Induct
<1> QED
  BY <1>3 DEF S

\* A position is one that was told, and nothing has ended its stream since.
Plays(items, i, k) ==
    /\ items[i].code = "prgr"
    /\ \A j \in i + 1 .. k : /\ ~Machine!EndsSession(items, j)
                             /\ ~(items[j].code = "pend" /\ Machine!InSession(items, j))

LEMMA ProgressRuns ==
    ASSUME NEW run, NEW items, NEW n, IsHistory(run, items, n)
    PROVE  \A k \in 0 .. n : run[k].progress # Absent => \E i \in 1 .. k : Plays(items, i, k)
<1> DEFINE S == {k \in 0 .. n : run[k].progress # Absent => \E i \in 1 .. k : Plays(items, i, k)}
<1>1. n \in Nat /\ 0 \in S
  BY DEF IsHistory, Machine!Silence
<1>2. ASSUME NEW k \in 0 .. n, k \in S, k + 1 <= n PROVE k + 1 \in S
  <2>1. k + 1 \in 1 .. n /\ k + 1 \in 0 .. n /\ (k + 1) - 1 = k /\ k \in Nat
    BY <1>1, <1>2
  <2>2. ASSUME run[k + 1].progress # Absent PROVE \E i \in 1 .. k + 1 : Plays(items, i, k + 1)
    <3>1. CASE items[k + 1].code = "prgr"
      <4>1. k + 1 \in 1 .. k + 1 /\ (k + 1) + 1 .. k + 1 = {}
        BY <2>1
      <4> QED
        BY <3>1, <4>1 DEF Plays
    <3>2. CASE items[k + 1].code # "prgr"
      <4>1. Leaves(run[k], items[k + 1], run[k + 1])
        BY <2>1, HistorySteps
      <4>2. /\ run[k].progress # Absent /\ ~Ending(run[k], items[k + 1])
            /\ ~(items[k + 1].code = "pend" /\ run[k].session)
        BY <2>2, <3>2, <4>1 DEF Leaves
      <4>3. /\ ~Machine!EndsSession(items, k + 1)
            /\ ~(items[k + 1].code = "pend" /\ Machine!InSession(items, k + 1))
        BY <2>1, <4>2, EndingsAgree
      <4>4. PICK i \in 1 .. k : Plays(items, i, k)
        BY <1>2, <4>2
      <4>5. i \in 1 .. k + 1 /\ \A j \in i + 1 .. k + 1 : j = k + 1 \/ j \in i + 1 .. k
        BY <2>1
      <4> QED
        BY <4>3, <4>4, <4>5 DEF Plays
    <3> QED
      BY <3>1, <3>2
  <2> QED
    BY <2>1, <2>2
<1> HIDE DEF S
<1>3. 0 .. n \subseteq S
  BY <1>1, <1>2, Induct
<1> QED
  BY <1>3 DEF S

\* Whatever the pipe carries, and whatever of it is lost: what plays is the last
\* whole bundle and nothing of any other (machine.rs, commit_bundle, enter_idle).
THEOREM BundleTheorem ==
    ASSUME NEW items \in Seq(Items)
    PROVE  Machine!TrackIsOneBundle(items)
<1> DEFINE n == Len(items)
           m == Machine!MachineAfter(items)
           all == Machine!Bundles(items)
           last == CHOOSE span \in all : \A other \in all : other[2] <= span[2]
<1>1. n \in Nat /\ DOMAIN items = 1 .. n /\ items \in [1 .. n -> Items]
  OBVIOUS
<1>2. PICK run : IsHistory(run, items, n) /\ m = run[n]
  BY <1>1, MachineRuns
<1>3. n \in 0 .. n /\ TrackIs(m, items, n)
      /\ (m.progress # Absent => \E i \in 1 .. n : Plays(items, i, n))
  BY <1>1, <1>2, TrackRuns, ProgressRuns
<1> HIDE DEF n, m
<1>4. BundlesBy(items, n) = all
  <2>1. \A span \in all : span[2] <= n
    BY <1>1, SpanFacts
  <2> QED
    BY <2>1 DEF BundlesBy
<1>5. ASSUME all # {} PROVE IsLast(last, all)
  <2> DEFINE ends == {span[2] : span \in all}
  <2>1. ends \in SUBSET (1 .. n) /\ ends # {}
    BY <1>1, <1>5, SpanFacts
  <2>2. Limit!Max(ends) \in ends /\ \A e \in ends : Limit!Max(ends) >= e
    BY <1>1, <2>1, LastOf
  <2>3. PICK span \in all : span[2] = Limit!Max(ends)
    BY <2>2
  <2>4. \A other \in all : other[2] \in 1 .. n /\ span[2] >= other[2] /\ span[2] \in 1 .. n
    BY <2>1, <2>2, <2>3
  <2>5. \A other \in all : other[2] <= span[2]
    BY <2>4
  <2>6. \E s \in all : \A other \in all : other[2] <= s[2]
    BY <2>5
  <2> QED
    BY <2>6 DEF IsLast
<1> HIDE DEF all, last
<1>6. /\ m.track = Absent <=> all = {}
      /\ all # {} => IsOf(m.track, items, last)
      /\ m.tracks <= Cardinality(all)
  BY <1>3, <1>4, <1>5 DEF TrackIs
<1>7. m.progress # Absent =>
        \E i \in DOMAIN items :
           /\ items[i].code = "prgr"
           /\ \A j \in i + 1 .. Len(items) :
                 /\ ~Machine!EndsSession(items, j)
                 /\ ~(items[j].code = "pend" /\ Machine!InSession(items, j))
  BY <1>1, <1>3 DEF Plays, n
<1>8. \A S : Machine!Cardinality(S) = Cardinality(S)
  BY DEF Machine!Cardinality, Cardinality
<1> QED
  BY <1>6, <1>7, <1>8 DEF Machine!TrackIsOneBundle, IsOf, all, last, m

----
(* A search: the attempts at one source *)

Answering == {"gone", "network", "malformed", "notfound", "limited", "status", "offer"}

\* The answers of one source.
Given(answers) == {answers[i] : i \in DOMAIN answers}
IsScript(answers) ==
    /\ answers \in Seq(Given(answers))
    /\ \A i \in DOMAIN answers : IsAnswer(answers[i])

Failures == {Gate!Failed("unreachable"), Gate!Failed("undecodable")}
Offers(answers) == {<< >>} \cup {<<answers[i].records>> : i \in DOMAIN answers}
Searches(answers) ==
    [tries : Nat, over : BOOLEAN, pauses : Seq(Nat), slept : Nat, delay : Nat,
     offer : Offers(answers), outcome : Failures \cup {Gate!Nothing}]

\* What an attempt makes of a search and an answer.
AttemptLeaves(s, answer, t) ==
    /\ s.over => t = s
    /\ ~s.over => t.tries = s.tries + 1
    /\ ~t.over => ~s.over /\ Gate!IsTransient(answer) /\ t.offer = s.offer
    /\ ~s.over /\ t.over =>
         \/ ~Gate!IsTransient(answer) /\ answer.is = "offer" /\ t.offer = <<answer.records>>
         \/ t.offer = s.offer /\ t.outcome \in Failures
         \/ /\ ~Gate!IsTransient(answer) /\ answer.is \in {"gone", "notfound"}
            /\ t.offer = s.offer /\ t.outcome = Gate!Nothing
    /\ ~t.over => t.outcome = s.outcome

LEMMA GateMin ==
    ASSUME NEW a \in Int, NEW b \in Int
    PROVE  Gate!Min({a, b}) = IF a <= b THEN a ELSE b
BY Extremes DEF Gate!Min, Limit!Min

LEMMA GateMax ==
    ASSUME NEW a \in Int, NEW b \in Int
    PROVE  Gate!Max({a, b}) = IF a <= b THEN b ELSE a
BY Extremes DEF Gate!Max, Limit!Max

LEMMA PauseFacts ==
    ASSUME NEW header \in Seq(Nat)
    PROVE  Gate!RetryAfter(header) \in Nat
<1>1. CASE header = << >>
  BY <1>1 DEF Gate!RetryAfter
<1>2. CASE header # << >>
  <2>1. header[1] \in Nat
    BY <1>2
  <2>2. Gate!Min({header[1], 3600}) \in Nat
    BY <2>1, GateMin
  <2> QED
    BY <1>2, <2>2 DEF Gate!RetryAfter
<1> QED
  BY <1>1, <1>2

LEMMA AttemptFacts ==
    ASSUME NEW answers, IsScript(answers), NEW s \in Searches(answers), NEW i \in DOMAIN answers
    PROVE  /\ Gate!Attempted(s, answers[i]) \in Searches(answers)
           /\ AttemptLeaves(s, answers[i], Gate!Attempted(s, answers[i]))
<1> DEFINE a == answers[i]
           n == s.tries + 1
           t == Gate!Attempted(s, a)
           failed == Gate!Failed(IF Gate!IsTransient(a) THEN "unreachable" ELSE "undecodable")
<1>1. a.is \in Answering /\ (a.is = "limited" => a.header \in Seq(Nat))
  BY DEF IsScript, IsAnswer, Answering
<1>2. failed \in Failures
  BY DEF Failures
<1>3. /\ a.is \in {"network", "limited"} => Gate!IsTransient(a)
      /\ a.is \notin {"network", "limited", "status"} => ~Gate!IsTransient(a)
  BY DEF Gate!IsTransient
<1>4. Gate!MaxAttempts = 3
  BY DEF Gate!MaxAttempts
<1>5. s.tries \in Nat /\ n \in Nat /\ s.over \in BOOLEAN
  BY DEF Searches
<1>6. <<a.records>> \in Offers(answers)
  BY DEF Offers
<1> HIDE DEF a
<1>a. CASE s.over
  <2>1. t = s
    BY <1>a DEF Gate!Attempted
  <2> QED
    BY <1>a, <2>1 DEF AttemptLeaves, a
<1>b. CASE ~s.over /\ a.is = "limited"
  <2>1. t = [s EXCEPT !.tries = n, !.pauses = Append(@, Gate!RetryAfter(a.header))]
    BY <1>b DEF Gate!Attempted
  <2>2. Append(s.pauses, Gate!RetryAfter(a.header)) \in Seq(Nat)
    <3>1. s.pauses \in Seq(Nat) /\ Gate!RetryAfter(a.header) \in Nat
      BY <1>1, <1>b, PauseFacts DEF Searches
    <3> QED
      BY <3>1
  <2>3. /\ t \in Searches(answers) /\ t.tries = n /\ ~t.over
        /\ t.offer = s.offer /\ t.outcome = s.outcome
    BY <1>5, <1>b, <2>1, <2>2 DEF Searches
  <2> QED
    BY <1>3, <1>b, <2>3 DEF AttemptLeaves, a
<1>c. CASE ~s.over /\ a.is = "offer"
  <2>1. t = [s EXCEPT !.tries = n, !.over = TRUE, !.offer = <<a.records>>]
    BY <1>c DEF Gate!Attempted
  <2>2. t \in Searches(answers) /\ t.tries = n /\ t.over /\ t.offer = <<a.records>>
    BY <1>5, <1>6, <2>1 DEF Searches
  <2> QED
    BY <1>3, <1>c, <2>2 DEF AttemptLeaves, a
<1>d. CASE ~s.over /\ a.is \in {"gone", "notfound"}
  <2>1. t = [s EXCEPT !.tries = n, !.over = TRUE, !.outcome = Gate!Nothing]
    BY <1>d DEF Gate!Attempted
  <2>2. /\ t \in Searches(answers) /\ t.tries = n /\ t.over
        /\ t.offer = s.offer /\ t.outcome = Gate!Nothing
    BY <1>5, <2>1 DEF Searches
  <2> QED
    BY <1>3, <1>d, <2>2 DEF AttemptLeaves, a
<1>e. CASE ~s.over /\ a.is \in {"network", "status"} /\ Gate!IsTransient(a) /\ n < 3
  <2>1. t = [s EXCEPT !.tries = n, !.slept = @ + s.delay, !.delay = 2 * @]
    BY <1>4, <1>e DEF Gate!Attempted
  <2>2. s.slept + s.delay \in Nat /\ 2 * s.delay \in Nat
    BY DEF Searches
  <2>3. /\ t \in Searches(answers) /\ t.tries = n /\ ~t.over
        /\ t.offer = s.offer /\ t.outcome = s.outcome
    BY <1>5, <1>e, <2>1, <2>2 DEF Searches
  <2> QED
    BY <1>e, <2>3 DEF AttemptLeaves, a
<1>f. CASE ~s.over /\ a.is \notin {"gone", "limited", "offer", "notfound"}
             /\ ~(a.is \in {"network", "status"} /\ Gate!IsTransient(a) /\ n < 3)
  <2>1. t = [s EXCEPT !.tries = n, !.over = TRUE, !.outcome = failed]
    BY <1>4, <1>f DEF Gate!Attempted
  <2>2. /\ t \in Searches(answers) /\ t.tries = n /\ t.over
        /\ t.offer = s.offer /\ t.outcome \in Failures
    BY <1>2, <1>5, <2>1 DEF Searches
  <2> QED
    BY <1>f, <2>2 DEF AttemptLeaves, a
<1> QED
  BY <1>a, <1>b, <1>c, <1>d, <1>e, <1>f

\* A search before any attempt.
Unasked == [tries |-> 0, over |-> FALSE, pauses |-> << >>, slept |-> 0, delay |-> Gate!RetryBackoff,
            offer |-> << >>, outcome |-> Gate!Failed("unreachable")]

LEMMA UnaskedFacts == \A answers : Unasked \in Searches(answers)
<1>1. << >> \in Seq(Nat) /\ Gate!Failed("unreachable") \in Failures /\ Gate!RetryBackoff \in Nat
  BY DEF Failures, Gate!RetryBackoff
<1>2. \A answers : << >> \in Offers(answers)
  BY DEF Offers
<1> QED
  BY <1>1, <1>2 DEF Unasked, Searches

\* The answers that a search comes to see: its first three.
Heeded(answers) == Gate!SubSeq(answers, 1, Gate!Min({Gate!Len(answers), Gate!MaxAttempts}))

LEMMA HeededFacts ==
    ASSUME NEW answers, IsScript(answers)
    PROVE  \E n \in 0 .. 3 : /\ DOMAIN Heeded(answers) = 1 .. n
                             /\ 1 .. n \subseteq DOMAIN answers
                             /\ Heeded(answers) \in [1 .. n -> Given(answers)]
                             /\ \A i \in 1 .. n : Heeded(answers)[i] = answers[i]
<1> DEFINE S == Given(answers)
           n == Gate!Min({Len(answers), 3})
<1>1. answers \in Seq(S) /\ Len(answers) \in Nat /\ DOMAIN answers = 1 .. Len(answers)
  BY DEF IsScript
<1>2. n = IF Len(answers) <= 3 THEN Len(answers) ELSE 3
  BY <1>1, GateMin
<1> HIDE DEF n
<1>3. n \in 0 .. 3 /\ 1 .. n \subseteq DOMAIN answers /\ n \in Int /\ 1 \in Int
  <2>1. n \in Nat /\ n <= 3 /\ n <= Len(answers)
    BY <1>1, <1>2
  <2>2. 1 .. n \subseteq 1 .. Len(answers)
    BY <1>1, <2>1
  <2> QED
    BY <1>1, <2>1, <2>2
<1>4. Heeded(answers) = SubSeq(answers, 1, n)
  BY DEF Heeded, Gate!MaxAttempts, n
<1>5. \A i \in 1 .. n : answers[i] \in S
  BY <1>3 DEF Given
<1> HIDE DEF S
<1>6. /\ SubSeq(answers, 1, n) \in Seq(S)
      /\ Len(SubSeq(answers, 1, n)) = IF 1 <= n THEN n - 1 + 1 ELSE 0
      /\ \A i \in 1 .. n - 1 + 1 : SubSeq(answers, 1, n)[i] = answers[1 + i - 1]
  BY ONLY <1>3, <1>5, SubSeqProperties
<1>7. Len(Heeded(answers)) = n /\ Heeded(answers) \in Seq(S)
  BY <1>3, <1>4, <1>6
<1>8. \A i \in 1 .. n : Heeded(answers)[i] = answers[i]
  BY <1>3, <1>4, <1>6
<1> QED
  BY <1>3, <1>7, <1>8 DEF S

\* The function Searched is computed with.
SearchFolds(f, heeded) ==
    f = [s \in SUBSET DOMAIN heeded |->
           IF s = {} THEN Unasked
           ELSE LET x == Gate!Max(s) IN Gate!Attempted(f[s \ {x}], heeded[x])]

LEMMA SearchFoldExists ==
    ASSUME NEW answers, IsScript(answers),
           NEW n \in Nat, NEW heeded \in [1 .. n -> Given(answers)]
    PROVE  \E f : SearchFolds(f, heeded)
<1> DEFINE Elements == Given(answers)
           States == Searches(answers)
           step == [p \in States \X Elements |-> Gate!Attempted(p[1], p[2])]
           one(s) == Limit!Max(s)
<1>1. \A b \in States, a \in Elements : Gate!Attempted(b, a) \in States
  BY AttemptFacts DEF Given
<1>2. step \in [States \X Elements -> States]
  BY <1>1
<1>4. Unasked \in States
  BY UnaskedFacts
<1>10. heeded \in [1 .. n -> Elements]
  OBVIOUS
<1> HIDE DEF States, Elements
<1>3. \A b \in States, a \in Elements : step[b, a] = Gate!Attempted(b, a)
  OBVIOUS
<1> HIDE DEF step
<1>5. PICK f \in [SUBSET DOMAIN heeded -> States] : FoldsBy(f, step, Unasked, heeded)
  BY <1>2, <1>4, <1>10, FoldExists
<1>6. ASSUME NEW s \in SUBSET DOMAIN heeded, s # {}
      PROVE  step[f[s \ {one(s)}], heeded[one(s)]] = Gate!Attempted(f[s \ {one(s)}], heeded[one(s)])
  <2>1. one(s) \in 1 .. n
    BY <1>6, LastOf
  <2>2. heeded[one(s)] \in Elements /\ f[s \ {one(s)}] \in States
    BY <1>10, <2>1
  <2> HIDE DEF one
  <2> QED
    BY <1>3, <2>2
<1>7. \A s : Gate!Max(s) = one(s)
  BY DEF Gate!Max, Limit!Max
<1> HIDE DEF one
<1>8. f = [s \in SUBSET DOMAIN heeded |->
             IF s = {} THEN Unasked ELSE step[f[s \ {one(s)}], heeded[one(s)]]]
  BY <1>5 DEF FoldsBy, one
<1>9. f = [s \in SUBSET DOMAIN heeded |->
             IF s = {} THEN Unasked ELSE Gate!Attempted(f[s \ {one(s)}], heeded[one(s)])]
  BY <1>6, <1>8
<1> QED
  BY <1>7, <1>9 DEF SearchFolds

\* The states of a search before, between and after its attempts.
IsSearchRun(run, answers, n) ==
    /\ n \in 0 .. 3 /\ 1 .. n \subseteq DOMAIN answers
    /\ run[0] = Unasked
    /\ \A k \in 1 .. n : run[k] = Gate!Attempted(run[k - 1], answers[k])

LEMMA SearchRuns ==
    ASSUME NEW answers, IsScript(answers)
    PROVE  \E n, run : IsSearchRun(run, answers, n) /\ Gate!Searched(answers) = run[n]
<1> DEFINE heeded == Heeded(answers)
           it == CHOOSE f : SearchFolds(f, heeded)
<1>1. PICK n \in 0 .. 3 : /\ DOMAIN heeded = 1 .. n
                          /\ 1 .. n \subseteq DOMAIN answers
                          /\ heeded \in [1 .. n -> Given(answers)]
                          /\ \A i \in 1 .. n : heeded[i] = answers[i]
  BY HeededFacts
<1>2. Gate!Searched(answers) = it[DOMAIN heeded]
  BY DEF Gate!Searched, Gate!FoldLeft, Gate!MapThenFoldSet, SearchFolds, Unasked, Heeded
<1> HIDE DEF heeded
<1>3. SearchFolds(it, heeded)
  <2>1. \E f : SearchFolds(f, heeded)
    BY <1>1, SearchFoldExists
  <2> QED
    BY <2>1
<1> HIDE DEF it
<1> DEFINE run == [k \in 0 .. n |-> it[1 .. k]]
<1>4. run[0] = Unasked
  <2>1. 1 .. 0 = {} /\ 0 \in 0 .. n
    BY <1>1
  <2> QED
    BY <1>3, <2>1 DEF SearchFolds
<1>5. ASSUME NEW k \in 1 .. n PROVE run[k] = Gate!Attempted(run[k - 1], answers[k])
  <2>1. 1 .. k \in SUBSET DOMAIN heeded /\ 1 .. k # {} /\ k \in 0 .. n /\ k - 1 \in 0 .. n
    <3>1. 1 .. k \subseteq 1 .. n /\ k \in 1 .. k /\ k \in 0 .. n /\ k - 1 \in 0 .. n
      BY <1>1
    <3> QED
      BY <1>1, <3>1
  <2>2. it[1 .. k] = Gate!Attempted(it[(1 .. k) \ {Gate!Max(1 .. k)}], heeded[Gate!Max(1 .. k)])
    BY <1>3, <2>1 DEF SearchFolds
  <2>3. Gate!Max(1 .. k) = k /\ (1 .. k) \ {k} = 1 .. k - 1
    BY <1>1, LastOfPrefix DEF Gate!Max, Limit!Max
  <2>4. heeded[k] = answers[k]
    BY <1>1
  <2> QED
    BY <2>1, <2>2, <2>3, <2>4
<1>6. Gate!Searched(answers) = run[n]
  <2>1. n \in 0 .. n
    BY <1>1
  <2> QED
    BY <1>1, <1>2, <2>1
<1> HIDE DEF run
<1> QED
  BY <1>1, <1>4, <1>5, <1>6 DEF IsSearchRun

\* What is known of a search after some answers.
SearchSays(s, answers, k) ==
    /\ s \in Searches(answers) /\ s.tries \in 0 .. k /\ (~s.over => s.tries = k)
    /\ \A i \in 1 .. s.tries - 1 : Gate!IsTransient(answers[i])
    /\ ~s.over => /\ \A i \in 1 .. s.tries : Gate!IsTransient(answers[i])
                  /\ s.offer = << >> /\ s.outcome \in Failures
    /\ s.over => s.tries \in 1 .. k
    /\ s.offer # << >> =>
         /\ s.over /\ ~Gate!IsTransient(answers[s.tries])
         /\ answers[s.tries].is = "offer" /\ s.offer = <<answers[s.tries].records>>
    /\ s.offer = << >> /\ s.outcome \notin Failures =>
         /\ s.over /\ ~Gate!IsTransient(answers[s.tries])
         /\ answers[s.tries].is \in {"gone", "notfound"} /\ s.outcome = Gate!Nothing

LEMMA SearchedFacts ==
    ASSUME NEW answers, IsScript(answers)
    PROVE  \E n \in 0 .. 3 : /\ 1 .. n \subseteq DOMAIN answers
                             /\ SearchSays(Gate!Searched(answers), answers, n)
<1>1. PICK n, run : IsSearchRun(run, answers, n) /\ Gate!Searched(answers) = run[n]
  BY SearchRuns
<1>2. n \in 0 .. 3 /\ n \in Nat /\ 1 .. n \subseteq DOMAIN answers
  BY <1>1 DEF IsSearchRun
<1> DEFINE S == {k \in 0 .. n : SearchSays(run[k], answers, k)}
<1>3. 0 \in S
  <2>1. run[0] = Unasked /\ Unasked \in Searches(answers)
    BY <1>1, UnaskedFacts DEF IsSearchRun
  <2>2. Unasked.tries = 0 /\ ~Unasked.over /\ Unasked.offer = << >> /\ Unasked.outcome \in Failures
    BY DEF Unasked, Failures
  <2>3. SearchSays(Unasked, answers, 0)
    BY <2>1, <2>2 DEF SearchSays
  <2> QED
    BY <1>2, <2>1, <2>3
<1>4. ASSUME NEW k \in 0 .. n, k \in S, k + 1 <= n PROVE k + 1 \in S
  <2> DEFINE s == run[k]
             t == run[k + 1]
             a == answers[k + 1]
  <2>1. k \in Nat /\ k + 1 \in 1 .. n /\ k + 1 \in 0 .. n /\ (k + 1) - 1 = k
    BY <1>2, <1>4
  <2>2. SearchSays(s, answers, k) /\ k + 1 \in DOMAIN answers
    BY <1>2, <1>4, <2>1
  <2>3. t = Gate!Attempted(s, a)
    BY <1>1, <2>1 DEF IsSearchRun
  <2>4. t \in Searches(answers) /\ AttemptLeaves(s, a, t)
    BY <2>2, <2>3, AttemptFacts DEF SearchSays
  <2> HIDE DEF s, t
  <2>5. SearchSays(t, answers, k + 1)
    <3>1. CASE s.over
      <4>1. t = s
        BY <2>4, <3>1 DEF AttemptLeaves
      <4> QED
        BY <2>1, <2>2, <3>1, <4>1 DEF SearchSays
    <3>2. CASE ~s.over
      <4>1. s.tries = k /\ t.tries = k + 1 /\ s.offer = << >> /\ s.outcome \in Failures
        BY <2>2, <2>4, <3>2 DEF SearchSays, AttemptLeaves
      <4>2. \A i \in 1 .. k : Gate!IsTransient(answers[i])
        BY <2>2, <3>2, <4>1 DEF SearchSays
      <4>3. t.tries \in 0 .. k + 1 /\ t.tries \in 1 .. k + 1 /\ t.tries - 1 = k
        BY <2>1, <4>1
      <4>4. ~t.over => Gate!IsTransient(a) /\ t.offer = << >> /\ t.outcome \in Failures
        BY <2>4, <4>1 DEF AttemptLeaves
      <4>5. ~t.over => \A i \in 1 .. k + 1 : Gate!IsTransient(answers[i])
        BY <2>1, <4>2, <4>4
      <4>6. t.offer # << >> =>
              /\ t.over /\ ~Gate!IsTransient(a) /\ a.is = "offer" /\ t.offer = <<a.records>>
        BY <2>4, <3>2, <4>1, <4>4 DEF AttemptLeaves
      <4>7. t.offer = << >> /\ t.outcome \notin Failures =>
              /\ t.over /\ ~Gate!IsTransient(a) /\ a.is \in {"gone", "notfound"} /\ t.outcome = Gate!Nothing
        <5>1. <<a.records>> # << >>
          OBVIOUS
        <5> QED
          BY <2>4, <3>2, <4>1, <4>4, <5>1 DEF AttemptLeaves
      <4> QED
        BY <2>4, <4>1, <4>2, <4>3, <4>4, <4>5, <4>6, <4>7 DEF SearchSays
    <3> QED
      BY <3>1, <3>2
  <2> QED
    BY <2>1, <2>5 DEF t
<1> HIDE DEF S
<1>5. 0 .. n \subseteq S
  BY <1>2, <1>3, <1>4, Induct
<1>6. n \in 0 .. n
  BY <1>2
<1> QED
  BY <1>1, <1>2, <1>5, <1>6 DEF S

\* The first position of some.
LEMMA FirstThatExists ==
    ASSUME NEW s \in SUBSET Nat, s # {}
    PROVE  Gate!Min(s) \in s /\ \A x \in s : Gate!Min(s) =< x
<1>1. PICK x \in s : \A y \in s : x =< y
  BY LeastNumber
<1> QED
  BY <1>1 DEF Gate!Min

\* A search that ends with an offer or with nothing has the final answer.
LEMMA Ended ==
    ASSUME NEW answers, IsScript(answers), NEW n \in 0 .. 3, 1 .. n \subseteq DOMAIN answers,
           NEW s, SearchSays(s, answers, n), s.over, ~Gate!IsTransient(answers[s.tries])
    PROVE  Gate!FinalAnswer(answers) = answers[s.tries]
<1> DEFINE final == {i \in DOMAIN answers : i <= 3 /\ ~Gate!IsTransient(answers[i])}
<1>1. DOMAIN answers = 1 .. Len(answers) /\ Len(answers) \in Nat
  BY DEF IsScript
<1>2. s.tries \in 1 .. n /\ \A i \in 1 .. s.tries - 1 : Gate!IsTransient(answers[i])
  BY DEF SearchSays
<1>3. final \subseteq Nat /\ s.tries \in final
  BY <1>1, <1>2
<1>4. \A i \in final : s.tries <= i
  BY <1>1, <1>2
<1>5. Gate!FinalAnswer(answers) = IF final = {} THEN [is |-> "none"] ELSE answers[Gate!Min(final)]
  BY DEF Gate!FinalAnswer, Gate!MaxAttempts
<1> HIDE DEF final
<1>6. Gate!Min(final) \in final /\ Gate!Min(final) <= s.tries
  BY <1>3, FirstThatExists
<1>7. Gate!Min(final) \in Nat /\ s.tries \in Nat /\ s.tries <= Gate!Min(final)
  BY <1>3, <1>4, <1>6
<1>8. Gate!Min(final) = s.tries
  BY <1>6, <1>7
<1> QED
  BY <1>3, <1>5, <1>8

----
(* A search: what is made of an offer *)

\* Sizes in the order they are tried, none larger than the one before.
Falling(urls) ==
    /\ DOMAIN urls \subseteq Nat
    /\ \A i \in DOMAIN urls : urls[i] \in Nat /\ urls[i] >= 1
    /\ \A i, j \in DOMAIN urls : i < j => urls[j] <= urls[i]

LEMMA ClampedFacts ==
    ASSUME NEW max \in Nat
    PROVE  Gate!Clamped(max) \in Nat /\ Gate!Clamped(max) >= 1
<1>1. Gate!Min({max, 3000}) \in Nat
  BY GateMin
<1> QED
  BY <1>1, GateMax DEF Gate!Clamped

LEMMA SizesFall ==
    ASSUME NEW source, NEW record, NEW max \in Nat
    PROVE  Falling(Gate!Urls(source, record, max))
<1> DEFINE limit == Gate!Clamped(max)
           sizes == <<limit>> \o Gate!AppleFallbackSizes
           kept == {i \in DOMAIN sizes : sizes[i] <= limit /\ (i = 1 \/ sizes[i] # sizes[i - 1])}
           apple == [i \in kept |-> sizes[i]]
<1>1. limit \in Nat /\ limit >= 1
  BY ClampedFacts
<1> HIDE DEF limit
<1>2. <<limit>> \in Seq(Nat) /\ <<1500, 1000, 600>> \in Seq(Nat)
  BY <1>1
<1>10. /\ sizes \in Seq(Nat)
       /\ Len(sizes) = Len(<<limit>>) + Len(<<1500, 1000, 600>>)
       /\ \A i \in 1 .. Len(<<limit>>) + Len(<<1500, 1000, 600>>) :
            sizes[i] = IF i <= Len(<<limit>>) THEN <<limit>>[i] ELSE <<1500, 1000, 600>>[i - Len(<<limit>>)]
  BY <1>2, ConcatProperties DEF Gate!AppleFallbackSizes
<1> HIDE DEF sizes
<1>11. Len(<<limit>>) = 1 /\ Len(<<1500, 1000, 600>>) = 3
  OBVIOUS
<1>12. DOMAIN sizes = 1 .. 4
       /\ \A i \in 1 .. 4 : sizes[i] = IF i <= 1 THEN <<limit>>[i] ELSE <<1500, 1000, 600>>[i - 1]
  BY <1>10, <1>11
<1>13. 1 \in 1 .. 4 /\ 2 \in 1 .. 4 /\ 3 \in 1 .. 4 /\ 4 \in 1 .. 4
  OBVIOUS
<1>3. /\ DOMAIN sizes = 1 .. 4
      /\ sizes[1] = limit /\ sizes[2] = 1500 /\ sizes[3] = 1000 /\ sizes[4] = 600
  BY <1>12, <1>13
<1>4. kept \subseteq 1 .. 4 /\ \A i \in kept : sizes[i] <= limit
  BY <1>3
<1> HIDE DEF kept
<1>5. \A i \in 1 .. 4 : sizes[i] \in Nat /\ sizes[i] >= 1
  BY <1>1, <1>3
<1>6. \A i, j \in 1 .. 4 : i < j => i = 1 \/ sizes[j] <= sizes[i]
  BY <1>3
<1>7. Falling(apple)
  BY <1>3, <1>4, <1>5, <1>6 DEF Falling
<1>8. Falling(<<100>>) /\ Falling(Gate!CaaFront)
  BY DEF Falling, Gate!CaaFront
<1>9. Gate!Urls(source, record, max) \in {apple, <<100>>, Gate!CaaFront}
  BY DEF Gate!Urls, Gate!AppleArtUrls, limit, sizes, kept
<1> QED
  BY <1>7, <1>8, <1>9

\* What the server says of a record's sizes.
LEMMA StatusFacts ==
    ASSUME NEW record, IsRecord(record), NEW size
    PROVE  Gate!StatusOf(record, size) \in {"ok", "broken", "notfound"}
BY DEF IsRecord, Gate!StatusOf

Unavailable(record, urls) == \A size \in Gate!ToSet(urls) : Gate!StatusOf(record, size) = "notfound"
LargestThere(record, urls, largest) ==
    \A size \in Gate!ToSet(urls) : size > largest => Gate!StatusOf(record, size) = "notfound"

\* The image fetched is what is sent for the largest size that exists.
LEMMA FetchFacts ==
    ASSUME NEW record, IsRecord(record), NEW urls, Falling(urls),
           NEW image, image = Gate!FetchImage(record, urls)
    PROVE  /\ image.is \in {"ok", "broken", "notfound"}
           /\ image.is = "notfound" => Unavailable(record, urls)
           /\ image.is = "ok" => /\ image.side \in Nat /\ image.side >= 1
                                 /\ image.side = record.has[image.size].side
                                 /\ LargestThere(record, urls, image.size)
<1> DEFINE hits == {i \in DOMAIN urls : Gate!StatusOf(record, urls[i]) # "notfound"}
           first == Gate!Min(hits)
<1>1. image = IF hits = {} THEN [is |-> "notfound"]
              ELSE [is |-> Gate!StatusOf(record, urls[first]), size |-> urls[first],
                    side |-> record.has[urls[first]].side]
  BY DEF Gate!FetchImage, Gate!Sent
<1>2. \A i \in DOMAIN urls : i \in hits <=> Gate!StatusOf(record, urls[i]) # "notfound"
  OBVIOUS
<1>3. hits \in SUBSET Nat /\ hits \subseteq DOMAIN urls
  BY DEF Falling
<1> HIDE DEF hits, first
<1>4. \A size \in Gate!ToSet(urls) : \E i \in DOMAIN urls : size = urls[i]
  BY DEF Gate!ToSet
<1>5. CASE hits = {}
  <2>1. Unavailable(record, urls)
    BY <1>2, <1>4, <1>5 DEF Unavailable
  <2> QED
    BY <1>1, <1>5, <2>1
<1>6. CASE hits # {}
  <2>1. first \in hits /\ \A i \in hits : first =< i
    BY <1>3, <1>6, FirstThatExists DEF first
  <2>2. first \in DOMAIN urls /\ Gate!StatusOf(record, urls[first]) \in {"ok", "broken"}
    BY <1>2, <1>3, <2>1, StatusFacts
  <2>3. urls[first] \in Nat /\ urls[first] >= 1
    BY <2>2 DEF Falling
  <2>5. record.has[urls[first]].side \in Nat /\ record.has[urls[first]].side >= 1
    <3>1. urls[first] \in DOMAIN record.has
      BY <2>2, <1>2, <2>1 DEF Gate!StatusOf
    <3> QED
      BY <3>1 DEF IsRecord
  <2>4. LargestThere(record, urls, urls[first])
    <3> SUFFICES ASSUME NEW i \in DOMAIN urls, urls[i] > urls[first]
                 PROVE  Gate!StatusOf(record, urls[i]) = "notfound"
      BY <1>4 DEF LargestThere
    <3>1. i \in Nat /\ first \in Nat /\ urls[i] \in Nat
      BY <2>2 DEF Falling
    <3>2. ~(first =< i)
      <4>1. first < i => urls[i] <= urls[first]
        BY <2>2 DEF Falling
      <4>2. first = i => urls[i] <= urls[first]
        BY <2>3
      <4> QED
        BY <2>3, <3>1, <4>1, <4>2
    <3> QED
      BY <1>2, <2>1, <3>2
  <2> QED
    BY <1>1, <1>6, <2>2, <2>4, <2>5
<1> QED
  BY <1>5, <1>6

\* The sum of the scores of a record.
Weight(record) == record.scores.artist + record.scores.album

LEMMA WeightFacts ==
    ASSUME NEW record, IsRecord(record)
    PROVE  Weight(record) \in Nat /\ Weight(record) <= 2 * Perfect
<1>1. Perfect \in Nat
  BY DEF Perfect
<1>2. record.scores.artist \in 0 .. Perfect /\ record.scores.album \in 0 .. Perfect
  BY DEF IsRecord
<1>3. \A p \in Nat : \A a, b \in 0 .. p : a + b \in Nat /\ a + b <= 2 * p
  OBVIOUS
<1> QED
  BY <1>1, <1>2, <1>3 DEF Weight

Records(records) == DOMAIN records \subseteq Nat /\ \A i \in DOMAIN records : IsRecord(records[i])
Scored(records) == [i \in DOMAIN records |-> records[i].scores]

\* No record is better than the best.
LEMMA BestFacts ==
    ASSUME NEW records, Records(records), DOMAIN records # {}
    PROVE  LET b == Gate!Best(Scored(records))
           IN b \in DOMAIN records
              /\ \A j \in DOMAIN records : ~Gate!Better(records[j].scores, records[b].scores)
<1> DEFINE room(i) == 2 * Perfect - Weight(records[i])
           rooms == {room(i) : i \in DOMAIN records}
           NoneBetter(i) == \A j \in DOMAIN records : ~Gate!Better(records[j].scores, records[i].scores)
           bests == {i \in DOMAIN records : NoneBetter(i)}
<1>1. /\ \A i \in DOMAIN records : Weight(records[i]) \in Nat /\ Weight(records[i]) <= 2 * Perfect
      /\ Perfect \in Nat
  BY WeightFacts DEF Records, Perfect
<1>2. \A p, w \in Nat : w <= 2 * p => 2 * p - w \in Nat
  OBVIOUS
<1>3. \A i \in DOMAIN records : room(i) \in Nat
  BY <1>1, <1>2
<1>4. rooms \subseteq Nat /\ rooms # {}
  BY <1>3
<1>5. PICK d \in rooms : \A e \in rooms : d =< e
  <2> HIDE DEF rooms
  <2> QED
    BY <1>4, LeastNumber
<1>6. PICK i \in DOMAIN records : d = room(i)
  BY <1>5
<1>7. \A j \in DOMAIN records : room(i) =< room(j)
  BY <1>5, <1>6
<1>8. \A p, v, w \in Nat : 2 * p - v =< 2 * p - w => w <= v
  OBVIOUS
<1>9. \A j \in DOMAIN records : Weight(records[j]) <= Weight(records[i])
  BY <1>1, <1>7, <1>8
<1>10. NoneBetter(i)
  <2>1. \A v, w \in Nat : w <= v => ~(w > v)
    OBVIOUS
  <2> QED
    BY <1>1, <1>9, <2>1 DEF Gate!Better, Weight
<1>11. bests \in SUBSET Nat /\ i \in bests
  BY <1>10 DEF Records
<1>12. Gate!Best(Scored(records)) = Gate!Min(bests)
  <2>1. DOMAIN Scored(records) = DOMAIN records
        /\ \A j \in DOMAIN records : Scored(records)[j] = records[j].scores
    BY DEF Scored
  <2>2. bests = {k \in DOMAIN Scored(records) :
                   \A j \in DOMAIN Scored(records) : ~Gate!Better(Scored(records)[j], Scored(records)[k])}
    BY <2>1
  <2> QED
    BY <2>2 DEF Gate!Best
<1>13. Gate!Min(bests) \in bests
  <2> HIDE DEF bests
  <2> QED
    BY <1>11, FirstThatExists
<1> QED
  BY <1>12, <1>13

\* What Algorithms assumes of the world.
IsWorld(world) ==
    /\ world.sources \in Seq({"itunes", "musicbrainz"})
    /\ \A source \in {"itunes", "musicbrainz"} : IsScript(world.answers[source])
    /\ world.max_dimension \in Nat /\ world.current.side \in Nat
    /\ {world.current.known, world.current.readable} \subseteq BOOLEAN

Ladder(world, source, record) == Gate!Urls(source, record, world.max_dimension)

\* A cover that may take the place of the one on display.
RightCover(world, source, o) ==
    /\ Gate!Passes(o.record.scores) /\ o.record.decodes
    /\ o.side = o.record.has[o.size].side
    /\ world.current.known \/ world.current.readable => o.side > world.current.side
    /\ LargestThere(o.record, Ladder(world, source, o.record), o.size)
    /\ \/ world.strictness = "text_only"
       \/ Gate!NearExact(o.record.scores) /\ world.strictness # "strict"
       \/ o.record.alike

\* Twice the one is at least three times the other.
LEMMA Larger ==
    ASSUME NEW side \in Nat, side >= 1, NEW shown \in Nat, 2 * side >= 3 * shown
    PROVE  side > shown
OBVIOUS

\* A cover that the gates let through is recognised, and larger than the one shown.
LEMMA JudgedFacts ==
    ASSUME NEW world, IsWorld(world), NEW record, NEW side \in Nat, side >= 1,
           Gate!Judged(record, side, world.current, world.strictness) = "upgraded"
    PROVE  /\ record.decodes
           /\ world.current.known \/ world.current.readable => side > world.current.side
           /\ \/ world.strictness = "text_only"
              \/ Gate!NearExact(record.scores) /\ world.strictness # "strict"
              \/ record.alike
<1> DEFINE current == world.current
           shown == IF current.known \/ current.readable THEN current.side ELSE 0
           text == \/ world.strictness = "text_only"
                   \/ Gate!NearExact(record.scores) /\ world.strictness # "strict"
<1>1. record.decodes
  <2> SUFFICES ASSUME ~record.decodes PROVE FALSE
    OBVIOUS
  <2>1. Gate!Judged(record, side, current, world.strictness) = "undecodable"
    BY DEF Gate!Judged
  <2> QED
    BY <2>1
<1>2. Gate!SizeGate(shown, side)
  <2> SUFFICES ASSUME ~Gate!SizeGate(shown, side) PROVE FALSE
    OBVIOUS
  <2>1. Gate!Judged(record, side, current, world.strictness) = "size_rejected"
    BY <1>1 DEF Gate!Judged
  <2> QED
    BY <2>1
<1>3. Gate!Judged(record, side, current, world.strictness) =
        IF text THEN "upgraded"
        ELSE IF ~current.readable THEN "undecodable"
        ELSE IF record.alike THEN "upgraded" ELSE "perceptual_rejected"
  BY <1>1, <1>2 DEF Gate!Judged
<1>4. text \/ record.alike
  BY <1>3
<1>5. current.known \/ current.readable => side > current.side
  <2> SUFFICES ASSUME current.known \/ current.readable PROVE side > current.side
    OBVIOUS
  <2>1. shown = current.side /\ current.side \in Nat
    BY DEF IsWorld
  <2>2. 2 * side >= 3 * current.side
    BY <1>2, <2>1 DEF Gate!SizeGate
  <2> QED
    BY <2>1, <2>2, Larger
<1> QED
  BY <1>1, <1>4, <1>5

\* The best of some records does not pass, or has no picture.
HasNone(world, source, records) ==
    \/ DOMAIN records = {}
    \/ \E b \in DOMAIN records :
         /\ \A j \in DOMAIN records : ~Gate!Better(records[j].scores, records[b].scores)
         /\ \/ ~Gate!Passes(records[b].scores)
            \/ Unavailable(records[b], Ladder(world, source, records[b]))

\* What comes of a source's records.
OfferEnds(world, source, records, o) ==
    /\ o.is \in {"nothing", "no_text_match", "failed", "verdict"}
    /\ o.is = "failed" => o \in Failures
    /\ o.is \in {"nothing", "no_text_match"} => HasNone(world, source, records)
    /\ o.is = "verdict" /\ o.verdict = "upgraded" => RightCover(world, source, o)

LEMMA TriedFacts ==
    ASSUME NEW world, IsWorld(world), NEW source, NEW records, Records(records)
    PROVE  OfferEnds(world, source, records, Gate!Tried(source, records, world))
<1> DEFINE o == Gate!Tried(source, records, world)
           b == Gate!Best(Scored(records))
           best == records[b]
           urls == Ladder(world, source, best)
           image == Gate!FetchImage(best, urls)
           taken == [is |-> "verdict", record |-> best, size |-> image.size, side |-> image.side,
                     verdict |-> Gate!Judged(best, image.side, world.current, world.strictness)]
<1>1. CASE DOMAIN records = {}
  <2>1. o = Gate!Nothing
    BY <1>1 DEF Gate!Tried
  <2>2. o.is = "nothing"
    BY <2>1 DEF Gate!Nothing
  <2> QED
    BY <1>1, <2>2 DEF OfferEnds, HasNone
<1>2. CASE DOMAIN records # {}
  <2>1. o = IF ~Gate!Passes(best.scores) THEN [is |-> "no_text_match"]
            ELSE CASE image.is = "notfound" -> Gate!Nothing
                   [] image.is = "broken" -> Gate!Failed("unreachable")
                   [] image.is = "ok" -> taken
    BY <1>2 DEF Gate!Tried, Scored, Ladder
  <2>2. b \in DOMAIN records
        /\ \A j \in DOMAIN records : ~Gate!Better(records[j].scores, best.scores)
    BY <1>2, BestFacts
  <2>3. IsRecord(best)
    BY <2>2 DEF Records
  <2>4. Falling(urls)
    <3>1. world.max_dimension \in Nat
      BY DEF IsWorld
    <3> QED
      BY <3>1, SizesFall DEF Ladder
  <2> HIDE DEF o, b
  <2>5. /\ image.is \in {"ok", "broken", "notfound"}
        /\ image.is = "notfound" => Unavailable(best, urls)
        /\ image.is = "ok" => /\ image.side \in Nat /\ image.side >= 1
                              /\ image.side = best.has[image.size].side
                              /\ LargestThere(best, urls, image.size)
    BY <2>3, <2>4, FetchFacts
  <2> HIDE DEF image, best, urls
  <2>6. CASE ~Gate!Passes(best.scores)
    <3>1. o.is = "no_text_match"
      BY <2>1, <2>6
    <3>2. HasNone(world, source, records)
      BY <2>2, <2>6 DEF HasNone, best
    <3> QED
      BY <3>1, <3>2 DEF OfferEnds, o
  <2>7. CASE Gate!Passes(best.scores) /\ image.is = "notfound"
    <3>1. o = Gate!Nothing
      BY <2>1, <2>7
    <3>2. o.is = "nothing"
      BY <3>1 DEF Gate!Nothing
    <3>3. Unavailable(best, urls)
      BY <2>5, <2>7
    <3>4. HasNone(world, source, records)
      BY <2>2, <3>3 DEF HasNone, best, urls
    <3> QED
      BY <3>2, <3>4 DEF OfferEnds, o
  <2>8. CASE Gate!Passes(best.scores) /\ image.is = "broken"
    <3>1. o = Gate!Failed("unreachable")
      BY <2>1, <2>8
    <3>2. o.is = "failed" /\ o \in Failures
      BY <3>1 DEF Gate!Failed, Failures
    <3> QED
      BY <3>2 DEF OfferEnds, o
  <2>9. CASE Gate!Passes(best.scores) /\ image.is = "ok"
    <3>1. o = taken
      BY <2>1, <2>9
    <3>2. /\ o.is = "verdict" /\ o.record = best /\ o.size = image.size /\ o.side = image.side
          /\ o.verdict = Gate!Judged(best, image.side, world.current, world.strictness)
      BY <3>1
    <3>3. ASSUME o.verdict = "upgraded" PROVE RightCover(world, source, o)
      <4>1. /\ image.side \in Nat /\ image.side >= 1 /\ image.side = best.has[image.size].side
            /\ LargestThere(best, urls, image.size)
        BY <2>5, <2>9
      <4>2. /\ best.decodes
            /\ world.current.known \/ world.current.readable => image.side > world.current.side
            /\ \/ world.strictness = "text_only"
               \/ Gate!NearExact(best.scores) /\ world.strictness # "strict"
               \/ best.alike
        BY <3>2, <3>3, <4>1, JudgedFacts
      <4> QED
        BY <2>9, <3>2, <4>1, <4>2 DEF RightCover, urls
    <3> QED
      BY <3>2, <3>3 DEF OfferEnds, o
  <2> QED
    BY <2>5, <2>6, <2>7, <2>8, <2>9 DEF o
<1> QED
  BY <1>1, <1>2

\* The candidates are the records, those without a picture left out of some.
LEMMA CandidatesFacts ==
    ASSUME NEW world, NEW source, NEW found, DOMAIN found \subseteq Nat,
           \A i \in DOMAIN found : IsRecord(found[i]),
           NEW records, records = Gate!Candidates(source, found)
    PROVE  /\ Records(records)
           /\ HasNone(world, source, records) => Gate!NoCover(source, found, world.max_dimension)
<1> DEFINE kept == {i \in DOMAIN found : source = "itunes" => found[i].has # << >>}
<1>1. records = [i \in kept |-> found[i]]
  BY DEF Gate!Candidates
<1>2. /\ kept \subseteq DOMAIN found
      /\ \A i \in DOMAIN found : found[i].has # << >> => i \in kept
  OBVIOUS
<1> HIDE DEF kept
<1>3. DOMAIN records = kept /\ \A i \in kept : records[i] = found[i]
  BY <1>1
<1>4. Records(records)
  BY <1>2, <1>3 DEF Records
<1>5. \A r \in Gate!ToSet(found) : \E i \in DOMAIN found : r = found[i]
  BY DEF Gate!ToSet
<1>6. ASSUME HasNone(world, source, records)
      PROVE  Gate!NoCover(source, found, world.max_dimension)
  <2>1. CASE DOMAIN records = {}
    <3>1. \A r \in Gate!ToSet(found) : r.has = << >>
      BY <1>2, <1>3, <1>5, <2>1
    <3> QED
      BY <3>1 DEF Gate!NoCover
  <2>2. CASE DOMAIN records # {}
    <3>1. PICK b \in DOMAIN records :
            /\ \A j \in DOMAIN records : ~Gate!Better(records[j].scores, records[b].scores)
            /\ \/ ~Gate!Passes(records[b].scores)
               \/ Unavailable(records[b], Ladder(world, source, records[b]))
      BY <1>6, <2>2 DEF HasNone
    <3> DEFINE r == found[b]
    <3>2. r = records[b] /\ r \in Gate!ToSet(found)
      BY <1>2, <1>3 DEF Gate!ToSet
    <3> HIDE DEF r
    <3>3. \A other \in Gate!ToSet(found) : other.has # << >> => ~Gate!Better(other.scores, r.scores)
      BY <1>2, <1>3, <1>5, <3>1, <3>2
    <3>4. \/ ~Gate!Passes(r.scores)
          \/ \A size \in Gate!ToSet(Gate!Urls(source, r, world.max_dimension)) :
               Gate!StatusOf(r, size) = "notfound"
      BY <3>1, <3>2 DEF Unavailable, Ladder
    <3> QED
      BY <3>2, <3>3, <3>4 DEF Gate!NoCover
  <2> QED
    BY <2>1, <2>2
<1> QED
  BY <1>4, <1>6

\* A source that was given up, the album gone, or was reached and has no cover of it.
Misses(world, source) ==
    LET a == Gate!FinalAnswer(world.answers[source])
    IN \/ a.is \in {"gone", "notfound"}
       \/ a.is = "offer" /\ Gate!NoCover(source, a.records, world.max_dimension)

\* What comes of asking a source.
SourceEnds(world, source, o) ==
    /\ o.is \in {"nothing", "no_text_match", "failed", "verdict"}
    /\ o.is = "failed" => o \in Failures
    /\ o.is \in {"nothing", "no_text_match"} => Misses(world, source)
    /\ o.is = "verdict" /\ o.verdict = "upgraded" => RightCover(world, source, o)

LEMMA TrySourceFacts ==
    ASSUME NEW world, IsWorld(world), NEW source \in {"itunes", "musicbrainz"}
    PROVE  SourceEnds(world, source, Gate!TrySource(source, world))
<1> DEFINE answers == world.answers[source]
           s == Gate!Searched(answers)
           o == Gate!TrySource(source, world)
           records == Gate!Candidates(source, s.offer[1])
<1>1. IsScript(answers)
  BY DEF IsWorld
<1>2. PICK n \in 0 .. 3 : 1 .. n \subseteq DOMAIN answers /\ SearchSays(s, answers, n)
  BY <1>1, SearchedFacts
<1>3. o = IF s.offer = << >> THEN s.outcome ELSE Gate!Tried(source, records, world)
  BY DEF Gate!TrySource
<1> HIDE DEF s, o
<1>4. CASE s.offer = << >> /\ s.outcome \in Failures
  <2>1. o \in Failures /\ o.is = "failed"
    BY <1>3, <1>4 DEF Failures, Gate!Failed
  <2> QED
    BY <2>1 DEF SourceEnds, o
<1>5. CASE s.offer = << >> /\ s.outcome \notin Failures
  <2>1. /\ s.over /\ ~Gate!IsTransient(answers[s.tries])
        /\ answers[s.tries].is \in {"gone", "notfound"} /\ s.outcome = Gate!Nothing
    BY <1>2, <1>5 DEF SearchSays
  <2>2. Gate!FinalAnswer(answers) = answers[s.tries]
    BY <1>1, <1>2, <2>1, Ended
  <2>3. Misses(world, source)
    BY <2>1, <2>2 DEF Misses
  <2>4. o.is = "nothing"
    BY <1>3, <1>5, <2>1 DEF Gate!Nothing
  <2> QED
    BY <2>3, <2>4 DEF SourceEnds, o
<1>6. CASE s.offer # << >>
  <2> DEFINE a == answers[s.tries]
  <2>1. /\ s.over /\ ~Gate!IsTransient(a) /\ a.is = "offer" /\ s.offer = <<a.records>>
        /\ s.tries \in 1 .. n
    BY <1>2, <1>6 DEF SearchSays
  <2>2. Gate!FinalAnswer(answers) = a
    BY <1>1, <1>2, <2>1, Ended
  <2>3. IsAnswer(a)
    BY <1>1, <1>2, <2>1 DEF IsScript
  <2> HIDE DEF a
  <2> DEFINE found == a.records
  <2>4. /\ found \in Seq({found[i] : i \in DOMAIN found})
        /\ \A i \in DOMAIN found : IsRecord(found[i])
    BY <2>1, <2>3 DEF IsAnswer
  <2>5. DOMAIN found \subseteq Nat
    BY <2>4
  <2>6. records = Gate!Candidates(source, found)
    BY <2>1
  <2> HIDE DEF found, records
  <2>7. /\ Records(records)
        /\ HasNone(world, source, records) => Gate!NoCover(source, found, world.max_dimension)
    BY <2>4, <2>5, <2>6, CandidatesFacts
  <2>8. OfferEnds(world, source, records, o)
    <3>1. o = Gate!Tried(source, records, world)
      BY <1>3, <1>6
    <3> QED
      BY <2>7, <3>1, TriedFacts
  <2>9. HasNone(world, source, records) => Misses(world, source)
    BY <2>1, <2>2, <2>7 DEF Misses, found
  <2> QED
    BY <2>8, <2>9 DEF OfferEnds, SourceEnds, o
<1> QED
  BY <1>4, <1>5, <1>6

\* A source is asked three times at most, and again only after a transient error.
LEMMA Spared ==
    ASSUME NEW world, IsWorld(world), NEW source \in {"itunes", "musicbrainz"},
           NEW asked, asked = Gate!Searched(world.answers[source]).tries
    PROVE  /\ asked <= Gate!MaxAttempts
           /\ \A n \in 1 .. asked - 1 : Gate!IsTransient(world.answers[source][n])
<1> DEFINE answers == world.answers[source]
<1>1. IsScript(answers)
  BY DEF IsWorld
<1>2. PICK n \in 0 .. 3 : SearchSays(Gate!Searched(answers), answers, n)
  BY <1>1, SearchedFacts
<1>3. asked \in 0 .. n /\ \A i \in 1 .. asked - 1 : Gate!IsTransient(answers[i])
  BY <1>2 DEF SearchSays
<1> QED
  BY <1>3 DEF Gate!MaxAttempts

\* For every world: an album counts as missing only when every source was reached
\* and has no cover of it, or was given up since the album had gone, and what is
\* taken is the right cover (mod.rs, Inner::run).
LEMMA SearchIsFair ==
    ASSUME NEW world, IsWorld(world)
    PROVE  Gate!LookupIsFair(world)
<1> DEFINE sources == world.sources
           outcomes == [i \in DOMAIN sources |-> Gate!TrySource(sources[i], world)]
           final == {i \in DOMAIN outcomes : outcomes[i].is \in {"verdict", "failed"}}
           text == \E i \in DOMAIN outcomes : outcomes[i].is = "no_text_match"
           first == Gate!Min(final)
           run == Gate!Run(world)
           Miss == \A s \in Gate!ToSet(sources) : Misses(world, s)
           Cover == run.outcome.verdict = "upgraded" => RightCover(world, sources[run.at], run.outcome)
           Good == /\ run.outcome.is = "missed" => Miss
                   /\ Cover
                   /\ run.at \in Nat /\ run.at <= Len(sources)
<1>1. sources \in Seq({"itunes", "musicbrainz"})
  BY DEF IsWorld
<1>2. Len(sources) \in Nat /\ DOMAIN sources = 1 .. Len(sources)
      /\ \A i \in DOMAIN sources : sources[i] \in {"itunes", "musicbrainz"}
  BY <1>1
<1>3. /\ DOMAIN outcomes = DOMAIN sources
      /\ \A i \in DOMAIN sources : outcomes[i] = Gate!TrySource(sources[i], world)
  OBVIOUS
<1>4. run = IF final # {} THEN [outcome |-> outcomes[first], at |-> first]
            ELSE [outcome |-> [is |-> "missed",
                               verdict |-> IF text THEN "text_rejected" ELSE "no_match"],
                  at |-> Gate!Len(sources)]
  BY DEF Gate!Run
<1>5. \A i \in DOMAIN sources : i \in final <=> outcomes[i].is \in {"verdict", "failed"}
  BY <1>3
<1>6. final \in SUBSET Nat /\ final \subseteq DOMAIN sources
  BY <1>2, <1>3
<1> HIDE DEF sources, outcomes
<1>7. \A i \in DOMAIN sources : SourceEnds(world, sources[i], outcomes[i])
  BY <1>2, <1>3, TrySourceFacts
<1> HIDE DEF final, text, run, first
<1>8. ASSUME final # {} PROVE Good
  <2>1. first \in DOMAIN sources /\ first \in final
    BY <1>6, <1>8, FirstThatExists DEF first
  <2>2. run.outcome = outcomes[first] /\ run.at = first
    BY <1>4, <1>8
  <2>3. outcomes[first].is \in {"verdict", "failed"}
    BY <1>5, <2>1
  <2>4. run.outcome.is # "missed"
    BY <2>2, <2>3
  <2>5. Cover
    <3>1. CASE outcomes[first].is = "failed"
      <4>1. outcomes[first] \in Failures
        BY <1>7, <2>1, <3>1 DEF SourceEnds
      <4>2. \A f \in Failures : f.verdict # "upgraded"
        BY DEF Failures, Gate!Failed
      <4> QED
        BY <2>2, <4>1, <4>2
    <3>2. CASE outcomes[first].is = "verdict"
      BY <1>7, <2>1, <2>2, <3>2 DEF SourceEnds
    <3> QED
      BY <2>3, <3>1, <3>2
  <2> QED
    BY <1>2, <2>1, <2>2, <2>4, <2>5
<1>9. ASSUME final = {} PROVE Good
  <2>1. /\ run.outcome.is = "missed" /\ run.at = Len(sources)
        /\ run.outcome.verdict \in {"text_rejected", "no_match"}
    BY <1>4, <1>9
  <2>2. ASSUME NEW i \in DOMAIN sources PROVE Misses(world, sources[i])
    <3>1. outcomes[i].is \notin {"verdict", "failed"}
      BY <1>5, <1>9
    <3> QED
      BY <1>7, <3>1 DEF SourceEnds
  <2>3. Miss
    BY <2>2 DEF Gate!ToSet
  <2> QED
    BY <1>2, <2>1, <2>3
<1>10. Good
  BY <1>8, <1>9
<1>11. ASSUME NEW i \in 1 .. run.at,
              NEW asked, asked = Gate!Searched(world.answers[sources[i]]).tries
       PROVE  /\ asked <= Gate!MaxAttempts
              /\ \A n \in 1 .. asked - 1 : Gate!IsTransient(world.answers[sources[i]][n])
  <2>1. sources[i] \in {"itunes", "musicbrainz"}
    BY <1>2, <1>10
  <2> QED
    BY <1>11, <2>1, Spared
<1>12. Gate!FairSearch(world, run)
  BY <1>10, <1>11 DEF Gate!FairSearch, sources, Misses, RightCover, LargestThere, Ladder
<1> QED
  BY <1>12 DEF Gate!LookupIsFair, run

----
(* The configuration files *)

LEMMA OverFacts ==
    ASSUME NEW f, NEW g
    PROVE  /\ DOMAIN Config!Over(f, g) = DOMAIN f \cup DOMAIN g
           /\ \A p \in DOMAIN f : Config!Over(f, g)[p] = f[p]
           /\ \A p \in DOMAIN g : p \notin DOMAIN f => Config!Over(f, g)[p] = g[p]
BY DEF Config!Over

LEMMA OnlyFacts ==
    ASSUME NEW p, NEW leaf
    PROVE  DOMAIN Config!Only(p, leaf) = {p} /\ Config!Only(p, leaf)[p] = leaf
BY DEF Config!Only

Paths == {Config!Stall, Config!SessionAfter, Config!BlankAfter, Config!AmbientAfter,
          Config!Rotation, Config!Margin, Config!Dim, Config!ArtRetain,
          Config!CacheSize, Config!Enriches, Config!Sources, Config!Contact,
          Config!WebEnabled, Config!Bind, Config!WebAuth, Config!WebHash,
          Config!Insecure}

\* Two names tell a path from every other, and those of the deeper table are its own.
LEMMA PathShapes ==
    /\ Config!Stall[1] = "timeouts" /\ Config!Stall[2] = "stall" /\ Len(Config!Stall) = 2
    /\ Config!SessionAfter[1] = "timeouts" /\ Config!SessionAfter[2] = "session" /\ Len(Config!SessionAfter) = 2
    /\ Config!BlankAfter[1] = "power" /\ Config!BlankAfter[3] = "blank_after" /\ Len(Config!BlankAfter) = 3
    /\ Config!AmbientAfter[1] = "power" /\ Config!AmbientAfter[3] = "ambient_after" /\ Len(Config!AmbientAfter) = 3
    /\ Config!Rotation[1] = "display" /\ Config!Rotation[2] = "rotation" /\ Len(Config!Rotation) = 2
    /\ Config!Margin[1] = "display" /\ Config!Margin[2] = "margin_percent" /\ Len(Config!Margin) = 2
    /\ Config!Dim[1] = "render" /\ Config!Dim[2] = "background_dim" /\ Len(Config!Dim) = 2
    /\ Config!ArtRetain[1] = "ipc" /\ Config!ArtRetain[2] = "art_retain" /\ Len(Config!ArtRetain) = 2
    /\ Config!CacheSize[1] = "cache" /\ Config!CacheSize[2] = "max_bytes" /\ Len(Config!CacheSize) = 2
    /\ Config!Enriches[1] = "enrichment" /\ Config!Enriches[2] = "enabled" /\ Len(Config!Enriches) = 2
    /\ Config!Sources[1] = "enrichment" /\ Config!Sources[2] = "sources" /\ Len(Config!Sources) = 2
    /\ Config!Contact[1] = "enrichment" /\ Config!Contact[2] = "contact" /\ Len(Config!Contact) = 2
    /\ Config!WebEnabled[1] = "web" /\ Config!WebEnabled[2] = "enabled" /\ Len(Config!WebEnabled) = 2
    /\ Config!Bind[1] = "web" /\ Config!Bind[2] = "bind" /\ Len(Config!Bind) = 2
    /\ Config!WebAuth[1] = "web" /\ Config!WebAuth[2] = "auth" /\ Len(Config!WebAuth) = 2
    /\ Config!WebHash[1] = "web" /\ Config!WebHash[2] = "password_hash" /\ Len(Config!WebHash) = 2
    /\ Config!Insecure[1] = "web" /\ Config!Insecure[2] = "insecure_no_auth" /\ Len(Config!Insecure) = 2
BY DEF Config!Stall, Config!SessionAfter, Config!BlankAfter, Config!AmbientAfter,
       Config!Rotation, Config!Margin, Config!Dim, Config!ArtRetain,
       Config!CacheSize, Config!Enriches, Config!Sources, Config!Contact,
       Config!WebEnabled, Config!Bind, Config!WebAuth, Config!WebHash, Config!Insecure

\* No path lies under another.
LEMMA PathsApart ==
    \A p, q \in Paths : Config!Under(p, q) <=> p = q
<1>1. \A p \in Paths : \/ Len(p) = 2 /\ p = <<p[1], p[2]>>
                       \/ Len(p) = 3 /\ p[1] = "power" /\ p = <<p[1], p[2], p[3]>>
  BY DEF Paths, Config!Stall, Config!SessionAfter, Config!BlankAfter, Config!AmbientAfter,
       Config!Rotation, Config!Margin, Config!Dim, Config!ArtRetain,
       Config!CacheSize, Config!Enriches, Config!Sources, Config!Contact,
       Config!WebEnabled, Config!Bind, Config!WebAuth, Config!WebHash, Config!Insecure
<1>2. \A p \in Paths : Len(p) = 2 => p[1] # "power"
  BY PathShapes DEF Paths
<1>3. ASSUME NEW p \in Paths, NEW q \in Paths PROVE Config!IsPrefix(p, q) => p = q
  <2> SUFFICES ASSUME Len(p) <= Len(q), SubSeq(p, 1, Len(p)) = SubSeq(q, 1, Len(p)) PROVE p = q
    BY DEF Config!IsPrefix
  <2>1. CASE Len(p) = 2
    <3>1. p[1] = q[1] /\ p[2] = q[2]
      BY <1>1, <2>1
    <3>2. Len(q) = 2
      BY <1>1, <1>2, <2>1, <3>1
    <3> QED
      BY <1>1, <2>1, <3>1, <3>2
  <2>2. CASE Len(p) = 3
    <3>1. Len(q) = 3 /\ p[1] = q[1] /\ p[2] = q[2] /\ p[3] = q[3]
      BY <1>1, <2>2
    <3> QED
      BY <1>1, <2>2, <3>1
  <2> QED
    BY <1>1, <2>1, <2>2
<1>4. \A p : Config!IsPrefix(p, p)
  BY <1>1 DEF Config!IsPrefix
<1> QED
  BY <1>3, <1>4 DEF Config!Under

KindOf(p) == Config!Defaults[p][1]

\* The kinds of the settings, and their defaults.
LEMMA Schema ==
    /\ DOMAIN Config!Defaults = Paths
    /\ Config!Defaults[Config!Stall] = Config!Secs(15)
    /\ Config!Defaults[Config!SessionAfter] = Config!Secs(60)
    /\ Config!Defaults[Config!BlankAfter] = Config!Secs(300)
    /\ Config!Defaults[Config!AmbientAfter] = Config!Leaf("maybe", [tenths |-> 0, unit |-> "off"])
    /\ Config!Defaults[Config!Rotation] = Config!Leaf("number", 0)
    /\ Config!Defaults[Config!Margin] = Config!Leaf("number", 0)
    /\ Config!Defaults[Config!Dim] = Config!Leaf("number", 35)
    /\ Config!Defaults[Config!ArtRetain] = Config!Leaf("number", 4)
    /\ Config!Defaults[Config!CacheSize] = Config!Leaf("size", [n |-> 2, unit |-> "GiB"])
    /\ Config!Defaults[Config!Enriches] = Config!Leaf("flag", TRUE)
    /\ Config!Defaults[Config!Sources] = Config!Leaf("names", {"itunes"})
    /\ Config!Defaults[Config!Contact] = Config!Leaf("text", "")
    /\ Config!Defaults[Config!WebEnabled] = Config!Leaf("flag", TRUE)
    /\ Config!Defaults[Config!Bind] = Config!Leaf("text", "lan")
    /\ Config!Defaults[Config!WebAuth] = Config!Leaf("flag", TRUE)
    /\ Config!Defaults[Config!WebHash] = Config!Leaf("text", "")
    /\ Config!Defaults[Config!Insecure] = Config!Leaf("flag", FALSE)
<1> DEFINE T == Config!TimeoutDefaults
           P == Config!PowerDefaults
           D == Config!DisplayDefaults
           R == Config!RenderDefaults
           E == Config!EnrichmentDefaults
           I == Config!IpcDefaults
           C == Config!CacheDefaults
           W == Config!WebDefaults
<1>1. /\ DOMAIN T = {Config!Stall, Config!SessionAfter}
      /\ T[Config!Stall] = Config!Secs(15)
      /\ T[Config!SessionAfter] = Config!Secs(60)
      /\ \A p \in DOMAIN T : p[1] = "timeouts"
  <2>1. /\ DOMAIN T = {Config!Stall, Config!SessionAfter}
        /\ T[Config!Stall] = Config!Secs(15)
        /\ T[Config!SessionAfter] = Config!Secs(60)
    BY PathShapes DEF Config!Over, Config!Only, Config!TimeoutDefaults
  <2>2. \A p \in DOMAIN T : p[1] = "timeouts"
    BY <2>1, PathShapes
  <2> QED
    BY <2>1, <2>2
<1>2. /\ DOMAIN P = {Config!BlankAfter, Config!AmbientAfter}
      /\ P[Config!BlankAfter] = Config!Secs(300)
      /\ P[Config!AmbientAfter] = Config!Leaf("maybe", [tenths |-> 0, unit |-> "off"])
      /\ \A p \in DOMAIN P : p[1] = "power"
  <2>1. /\ DOMAIN P = {Config!BlankAfter, Config!AmbientAfter}
        /\ P[Config!BlankAfter] = Config!Secs(300)
        /\ P[Config!AmbientAfter] = Config!Leaf("maybe", [tenths |-> 0, unit |-> "off"])
    BY PathShapes DEF Config!Over, Config!Only, Config!PowerDefaults
  <2>2. \A p \in DOMAIN P : p[1] = "power"
    BY <2>1, PathShapes
  <2> QED
    BY <2>1, <2>2
<1>3. /\ DOMAIN D = {Config!Rotation, Config!Margin}
      /\ D[Config!Rotation] = Config!Leaf("number", 0)
      /\ D[Config!Margin] = Config!Leaf("number", 0)
      /\ \A p \in DOMAIN D : p[1] = "display"
  <2>1. /\ DOMAIN D = {Config!Rotation, Config!Margin}
        /\ D[Config!Rotation] = Config!Leaf("number", 0)
        /\ D[Config!Margin] = Config!Leaf("number", 0)
    BY PathShapes DEF Config!Over, Config!Only, Config!DisplayDefaults
  <2>2. \A p \in DOMAIN D : p[1] = "display"
    BY <2>1, PathShapes
  <2> QED
    BY <2>1, <2>2
<1>4. /\ DOMAIN R = {Config!Dim}
      /\ R[Config!Dim] = Config!Leaf("number", 35)
      /\ \A p \in DOMAIN R : p[1] = "render"
  <2>1. /\ DOMAIN R = {Config!Dim}
        /\ R[Config!Dim] = Config!Leaf("number", 35)
    BY PathShapes DEF Config!Over, Config!Only, Config!RenderDefaults
  <2>2. \A p \in DOMAIN R : p[1] = "render"
    BY <2>1, PathShapes
  <2> QED
    BY <2>1, <2>2
<1>5. /\ DOMAIN E = {Config!Enriches, Config!Sources, Config!Contact}
      /\ E[Config!Enriches] = Config!Leaf("flag", TRUE)
      /\ E[Config!Sources] = Config!Leaf("names", {"itunes"})
      /\ E[Config!Contact] = Config!Leaf("text", "")
      /\ \A p \in DOMAIN E : p[1] = "enrichment"
  <2>1. /\ DOMAIN E = {Config!Enriches, Config!Sources, Config!Contact}
        /\ E[Config!Enriches] = Config!Leaf("flag", TRUE)
        /\ E[Config!Sources] = Config!Leaf("names", {"itunes"})
        /\ E[Config!Contact] = Config!Leaf("text", "")
    BY PathShapes DEF Config!Over, Config!Only, Config!EnrichmentDefaults
  <2>2. \A p \in DOMAIN E : p[1] = "enrichment"
    BY <2>1, PathShapes
  <2> QED
    BY <2>1, <2>2
<1>6. /\ DOMAIN I = {Config!ArtRetain}
      /\ I[Config!ArtRetain] = Config!Leaf("number", 4)
      /\ \A p \in DOMAIN I : p[1] = "ipc"
  <2>1. /\ DOMAIN I = {Config!ArtRetain}
        /\ I[Config!ArtRetain] = Config!Leaf("number", 4)
    BY PathShapes DEF Config!Over, Config!Only, Config!IpcDefaults
  <2>2. \A p \in DOMAIN I : p[1] = "ipc"
    BY <2>1, PathShapes
  <2> QED
    BY <2>1, <2>2
<1>7. /\ DOMAIN C = {Config!CacheSize}
      /\ C[Config!CacheSize] = Config!Leaf("size", [n |-> 2, unit |-> "GiB"])
      /\ \A p \in DOMAIN C : p[1] = "cache"
  <2>1. /\ DOMAIN C = {Config!CacheSize}
        /\ C[Config!CacheSize] = Config!Leaf("size", [n |-> 2, unit |-> "GiB"])
    BY PathShapes DEF Config!Over, Config!Only, Config!CacheDefaults
  <2>2. \A p \in DOMAIN C : p[1] = "cache"
    BY <2>1, PathShapes
  <2> QED
    BY <2>1, <2>2
<1>8. /\ DOMAIN W = {Config!WebEnabled, Config!Bind, Config!WebAuth, Config!WebHash, Config!Insecure}
      /\ W[Config!WebEnabled] = Config!Leaf("flag", TRUE)
      /\ W[Config!Bind] = Config!Leaf("text", "lan")
      /\ W[Config!WebAuth] = Config!Leaf("flag", TRUE)
      /\ W[Config!WebHash] = Config!Leaf("text", "")
      /\ W[Config!Insecure] = Config!Leaf("flag", FALSE)
      /\ \A p \in DOMAIN W : p[1] = "web"
  <2>1. /\ DOMAIN W = {Config!WebEnabled, Config!Bind, Config!WebAuth, Config!WebHash, Config!Insecure}
        /\ W[Config!WebEnabled] = Config!Leaf("flag", TRUE)
        /\ W[Config!Bind] = Config!Leaf("text", "lan")
        /\ W[Config!WebAuth] = Config!Leaf("flag", TRUE)
        /\ W[Config!WebHash] = Config!Leaf("text", "")
        /\ W[Config!Insecure] = Config!Leaf("flag", FALSE)
    BY PathShapes DEF Config!Over, Config!Only, Config!WebDefaults
  <2>2. \A p \in DOMAIN W : p[1] = "web"
    BY <2>1, PathShapes
  <2> QED
    BY <2>1, <2>2
<1> HIDE DEF T, P, D, R, E, I, C, W
<1>9. Config!Defaults = Config!Over(Config!Over(Config!Over(T, P), Config!Over(D, R)),
                                    Config!Over(Config!Over(E, I), Config!Over(C, W)))
  BY DEF Config!Defaults, T, P, D, R, E, I, C, W
<1>10. /\ DOMAIN Config!Defaults = DOMAIN T \cup DOMAIN P \cup DOMAIN D \cup DOMAIN R
                                  \cup DOMAIN E \cup DOMAIN I \cup DOMAIN C \cup DOMAIN W
       /\ \A p \in DOMAIN T : Config!Defaults[p] = T[p]
       /\ \A p \in DOMAIN P : Config!Defaults[p] = P[p]
       /\ \A p \in DOMAIN D : Config!Defaults[p] = D[p]
       /\ \A p \in DOMAIN R : Config!Defaults[p] = R[p]
       /\ \A p \in DOMAIN E : Config!Defaults[p] = E[p]
       /\ \A p \in DOMAIN I : Config!Defaults[p] = I[p]
       /\ \A p \in DOMAIN C : Config!Defaults[p] = C[p]
       /\ \A p \in DOMAIN W : Config!Defaults[p] = W[p]
  <2>1. /\ \A p \in DOMAIN T : p[1] = "timeouts"
        /\ \A p \in DOMAIN P : p[1] = "power"
        /\ \A p \in DOMAIN D : p[1] = "display"
        /\ \A p \in DOMAIN R : p[1] = "render"
        /\ \A p \in DOMAIN E : p[1] = "enrichment"
        /\ \A p \in DOMAIN I : p[1] = "ipc"
        /\ \A p \in DOMAIN C : p[1] = "cache"
        /\ \A p \in DOMAIN W : p[1] = "web"
    BY <1>1, <1>2, <1>3, <1>4, <1>5, <1>6, <1>7, <1>8
  <2> QED
    BY <1>9, <2>1 DEF Config!Over
<1>11. DOMAIN Config!Defaults = Paths
  BY <1>1, <1>2, <1>3, <1>4, <1>5, <1>6, <1>7, <1>8, <1>10 DEF Paths
<1>12. /\ Config!Defaults[Config!Stall] = Config!Secs(15)
       /\ Config!Defaults[Config!SessionAfter] = Config!Secs(60)
  BY <1>1, <1>10
<1>13. /\ Config!Defaults[Config!BlankAfter] = Config!Secs(300)
       /\ Config!Defaults[Config!AmbientAfter] = Config!Leaf("maybe", [tenths |-> 0, unit |-> "off"])
  BY <1>2, <1>10
<1>14. /\ Config!Defaults[Config!Rotation] = Config!Leaf("number", 0)
       /\ Config!Defaults[Config!Margin] = Config!Leaf("number", 0)
  BY <1>3, <1>10
<1>15. /\ Config!Defaults[Config!Dim] = Config!Leaf("number", 35)
  BY <1>4, <1>10
<1>16. /\ Config!Defaults[Config!Enriches] = Config!Leaf("flag", TRUE)
       /\ Config!Defaults[Config!Sources] = Config!Leaf("names", {"itunes"})
       /\ Config!Defaults[Config!Contact] = Config!Leaf("text", "")
  BY <1>5, <1>10
<1>17. /\ Config!Defaults[Config!ArtRetain] = Config!Leaf("number", 4)
  BY <1>6, <1>10
<1>18. /\ Config!Defaults[Config!CacheSize] = Config!Leaf("size", [n |-> 2, unit |-> "GiB"])
  BY <1>7, <1>10
<1>19. /\ Config!Defaults[Config!WebEnabled] = Config!Leaf("flag", TRUE)
       /\ Config!Defaults[Config!Bind] = Config!Leaf("text", "lan")
       /\ Config!Defaults[Config!WebAuth] = Config!Leaf("flag", TRUE)
       /\ Config!Defaults[Config!WebHash] = Config!Leaf("text", "")
       /\ Config!Defaults[Config!Insecure] = Config!Leaf("flag", FALSE)
  BY <1>8, <1>10
<1> QED
  BY <1>11, <1>12, <1>13, <1>14, <1>15, <1>16, <1>17, <1>18, <1>19

LEMMA LeafFacts ==
    /\ \A k, v : Config!Leaf(k, v)[1] = k /\ Config!Leaf(k, v)[2] = v
    /\ \A n : Config!Secs(n)[1] = "duration"
BY DEF Config!Leaf, Config!Secs

\* The kinds of what is written.
LEMMA Kinds ==
    /\ \A p \in Paths : KindOf(p) \in {"duration", "maybe", "size", "flag", "number", "names", "text"}
    /\ KindOf(Config!Enriches) = "flag" /\ KindOf(Config!WebEnabled) = "flag"
    /\ KindOf(Config!WebAuth) = "flag" /\ KindOf(Config!Insecure) = "flag"
    /\ KindOf(Config!WebHash) = "text"
<1> DEFINE kinds == {"duration", "maybe", "size", "flag", "number", "names", "text"}
<1>1. KindOf(Config!Stall) = "duration"
  <2>1. Config!Secs(15)[1] = "duration"
    BY LeafFacts
  <2>2. Config!Defaults[Config!Stall] = Config!Secs(15)
    BY Schema
  <2> QED
    BY <2>1, <2>2 DEF KindOf
<1>2. KindOf(Config!SessionAfter) = "duration"
  <2>1. Config!Secs(60)[1] = "duration"
    BY LeafFacts
  <2>2. Config!Defaults[Config!SessionAfter] = Config!Secs(60)
    BY Schema
  <2> QED
    BY <2>1, <2>2 DEF KindOf
<1>3. KindOf(Config!BlankAfter) = "duration"
  <2>1. Config!Secs(300)[1] = "duration"
    BY LeafFacts
  <2>2. Config!Defaults[Config!BlankAfter] = Config!Secs(300)
    BY Schema
  <2> QED
    BY <2>1, <2>2 DEF KindOf
<1>4. KindOf(Config!AmbientAfter) = "maybe"
  <2>1. Config!Leaf("maybe", [tenths |-> 0, unit |-> "off"])[1] = "maybe"
    BY LeafFacts
  <2>2. Config!Defaults[Config!AmbientAfter] = Config!Leaf("maybe", [tenths |-> 0, unit |-> "off"])
    BY Schema
  <2> QED
    BY <2>1, <2>2 DEF KindOf
<1>5. KindOf(Config!Rotation) = "number"
  <2>1. Config!Leaf("number", 0)[1] = "number"
    BY LeafFacts
  <2>2. Config!Defaults[Config!Rotation] = Config!Leaf("number", 0)
    BY Schema
  <2> QED
    BY <2>1, <2>2 DEF KindOf
<1>6. KindOf(Config!Margin) = "number"
  <2>1. Config!Leaf("number", 0)[1] = "number"
    BY LeafFacts
  <2>2. Config!Defaults[Config!Margin] = Config!Leaf("number", 0)
    BY Schema
  <2> QED
    BY <2>1, <2>2 DEF KindOf
<1>7. KindOf(Config!Dim) = "number"
  <2>1. Config!Leaf("number", 35)[1] = "number"
    BY LeafFacts
  <2>2. Config!Defaults[Config!Dim] = Config!Leaf("number", 35)
    BY Schema
  <2> QED
    BY <2>1, <2>2 DEF KindOf
<1>8. KindOf(Config!ArtRetain) = "number"
  <2>1. Config!Leaf("number", 4)[1] = "number"
    BY LeafFacts
  <2>2. Config!Defaults[Config!ArtRetain] = Config!Leaf("number", 4)
    BY Schema
  <2> QED
    BY <2>1, <2>2 DEF KindOf
<1>9. KindOf(Config!CacheSize) = "size"
  <2>1. Config!Leaf("size", [n |-> 2, unit |-> "GiB"])[1] = "size"
    BY LeafFacts
  <2>2. Config!Defaults[Config!CacheSize] = Config!Leaf("size", [n |-> 2, unit |-> "GiB"])
    BY Schema
  <2> QED
    BY <2>1, <2>2 DEF KindOf
<1>10. KindOf(Config!Enriches) = "flag"
  <2>1. Config!Leaf("flag", TRUE)[1] = "flag"
    BY LeafFacts
  <2>2. Config!Defaults[Config!Enriches] = Config!Leaf("flag", TRUE)
    BY Schema
  <2> QED
    BY <2>1, <2>2 DEF KindOf
<1>11. KindOf(Config!Sources) = "names"
  <2>1. Config!Leaf("names", {"itunes"})[1] = "names"
    BY LeafFacts
  <2>2. Config!Defaults[Config!Sources] = Config!Leaf("names", {"itunes"})
    BY Schema
  <2> QED
    BY <2>1, <2>2 DEF KindOf
<1>12. KindOf(Config!Contact) = "text"
  <2>1. Config!Leaf("text", "")[1] = "text"
    BY LeafFacts
  <2>2. Config!Defaults[Config!Contact] = Config!Leaf("text", "")
    BY Schema
  <2> QED
    BY <2>1, <2>2 DEF KindOf
<1>13. KindOf(Config!WebEnabled) = "flag"
  <2>1. Config!Leaf("flag", TRUE)[1] = "flag"
    BY LeafFacts
  <2>2. Config!Defaults[Config!WebEnabled] = Config!Leaf("flag", TRUE)
    BY Schema
  <2> QED
    BY <2>1, <2>2 DEF KindOf
<1>14. KindOf(Config!Bind) = "text"
  <2>1. Config!Leaf("text", "lan")[1] = "text"
    BY LeafFacts
  <2>2. Config!Defaults[Config!Bind] = Config!Leaf("text", "lan")
    BY Schema
  <2> QED
    BY <2>1, <2>2 DEF KindOf
<1>15. KindOf(Config!WebAuth) = "flag"
  <2>1. Config!Leaf("flag", TRUE)[1] = "flag"
    BY LeafFacts
  <2>2. Config!Defaults[Config!WebAuth] = Config!Leaf("flag", TRUE)
    BY Schema
  <2> QED
    BY <2>1, <2>2 DEF KindOf
<1>16. KindOf(Config!WebHash) = "text"
  <2>1. Config!Leaf("text", "")[1] = "text"
    BY LeafFacts
  <2>2. Config!Defaults[Config!WebHash] = Config!Leaf("text", "")
    BY Schema
  <2> QED
    BY <2>1, <2>2 DEF KindOf
<1>17. KindOf(Config!Insecure) = "flag"
  <2>1. Config!Leaf("flag", FALSE)[1] = "flag"
    BY LeafFacts
  <2>2. Config!Defaults[Config!Insecure] = Config!Leaf("flag", FALSE)
    BY Schema
  <2> QED
    BY <2>1, <2>2 DEF KindOf
<1>18. \A p \in Paths : KindOf(p) \in kinds
  BY <1>1, <1>2, <1>3, <1>4, <1>5, <1>6, <1>7, <1>8, <1>9,
     <1>10, <1>11, <1>12, <1>13, <1>14, <1>15, <1>16, <1>17 DEF Paths
<1> QED
  BY <1>10, <1>13, <1>15, <1>16, <1>17, <1>18

(* Reading and writing *)

LEMMA Product == \A a, b \in Nat : a * b \in Nat
OBVIOUS

\* What divides a number and is not larger than another goes into it as often.
LEMMA Quotients ==
    ASSUME NEW b \in Nat, b > 0, NEW q \in Nat, NEW m \in Nat, q * b <= m
    PROVE  q <= m \div b
<1> DEFINE d == m \div b
<1>1. d \in Nat /\ m = b * d + (m % b) /\ m % b \in 0 .. b - 1
  OBVIOUS
<1>2. CASE d + 1 <= q
  <2> HIDE DEF d
  <2>1. PICK e \in Nat : q = (d + 1) + e
    <3>1. q - (d + 1) \in Nat /\ q = (d + 1) + (q - (d + 1))
      BY <1>1, <1>2
    <3> QED
      BY <3>1
  <2>2. q * b = (d + 1) * b + e * b
    BY <1>1, <2>1
  <2>3. (d + 1) * b = b * d + b
    BY <1>1
  <2>4. e * b \in Nat /\ b * d \in Nat
    BY <1>1, <2>1, Product
  <2>5. m % b < b /\ m % b \in Nat
    BY <1>1
  <2> DEFINE x == b * d
             y == e * b
             z == m % b
  <2>6. q * b = (x + b) + y /\ m = x + z /\ x \in Nat /\ y \in Nat /\ z \in Nat /\ z < b
    BY <1>1, <2>2, <2>3, <2>4, <2>5
  <2> HIDE DEF x, y, z
  <2>7. q * b > m
    BY <2>6
  <2>8. q * b \in Nat
    BY Product
  <2> QED
    BY <2>7, <2>8
<1>3. CASE ~(d + 1 <= q)
  BY <1>1, <1>3
<1> QED
  BY <1>2, <1>3

LEMMA Divides ==
    ASSUME NEW b \in Nat, b > 0, NEW n \in Nat, n % b = 0
    PROVE  n \div b \in Nat /\ (n \div b) * b = n
<1>1. n \div b \in Nat /\ n = b * (n \div b) + (n % b)
  OBVIOUS
<1>2. (n \div b) * b = b * (n \div b)
  BY <1>1
<1> QED
  BY <1>1, <1>2

LEMMA TimeUnits ==
    /\ DOMAIN Config!Millis = {"ms", "s", "m", "h"}
    /\ Config!Millis["ms"] = 1 /\ Config!Millis["s"] = 1000
    /\ Config!Millis["m"] = 60000 /\ Config!Millis["h"] = 3600000
    /\ Config!Millis.m = 60000 /\ Config!Millis.s = 1000 /\ Config!Millis.h = 3600000
BY DEF Config!Millis

LEMMA SizeUnits ==
    /\ DOMAIN Config!Bytes = {"B", "KiB", "MiB", "GiB"}
    /\ Config!Bytes["B"] = 1
    /\ Config!Bytes["GiB"] = Kilo * Kilo * Kilo
    /\ \A u \in DOMAIN Config!Bytes : Config!Bytes[u] \in Nat /\ Config!Bytes[u] > 0
    /\ Config!Bytes["GiB"] >= Config!Bytes["MiB"] /\ Config!Bytes["MiB"] >= Config!Bytes["KiB"]
<1>1. Kilo \in Nat /\ Kilo > 0
  BY PartsAssumption
<1>2. ASSUME NEW a \in Nat, NEW b \in Nat, a > 0, b > 0
      PROVE  a * b \in Nat /\ a * b > 0 /\ a * b >= a
  <2>1. b - 1 \in Nat /\ a * b = a + a * (b - 1)
    BY <1>2
  <2>2. a * (b - 1) \in Nat
    BY <2>1, Product
  <2> QED
    BY <1>2, <2>1, <2>2
<1>3. Kilo * Kilo \in Nat /\ Kilo * Kilo > 0 /\ Kilo * Kilo >= Kilo
  BY <1>1, <1>2
<1>4. (Kilo * Kilo) * Kilo \in Nat /\ (Kilo * Kilo) * Kilo > 0 /\ (Kilo * Kilo) * Kilo >= Kilo * Kilo
  BY <1>1, <1>2, <1>3
<1>5. /\ DOMAIN Config!Bytes = {"B", "KiB", "MiB", "GiB"}
      /\ Config!Bytes["B"] = 1 /\ Config!Bytes["KiB"] = Kilo
      /\ Config!Bytes["MiB"] = Kilo * Kilo /\ Config!Bytes["GiB"] = (Kilo * Kilo) * Kilo
  BY DEF Config!Bytes
<1> QED
  BY <1>1, <1>3, <1>4, <1>5

LEMMA DurationRead ==
    ASSUME NEW text, text.tenths \in Nat, text.unit \in DOMAIN Config!Millis
    PROVE  \E n \in Nat : Config!ParsedDuration(text) = <<n>>
<1> DEFINE u == Config!Millis[text.unit]
           x == text.tenths * u
           n == (x + 5) \div 10
<1>1. u \in Nat
  BY TimeUnits
<1> HIDE DEF u
<1>2. x \in Nat
  BY <1>1, Product
<1> HIDE DEF x
<1>3. n \in Nat
  BY <1>2
<1>4. Config!ParsedDuration(text) = <<n>>
  BY DEF Config!ParsedDuration, x, u
<1> QED
  BY <1>3, <1>4

\* A duration that is written is read as it was.
LEMMA DurationBack ==
    ASSUME NEW n \in Nat
    PROVE  LET text == Config!RenderedDuration(n)
           IN text.unit \in DOMAIN Config!Millis /\ Config!ParsedDuration(text) = <<n>>
<1> DEFINE text == Config!RenderedDuration(n)
           chosen == CASE n = 0 -> "s"
                       [] n # 0 /\ n % Config!Millis.h = 0 -> "h"
                       [] n % Config!Millis.h # 0 /\ n % Config!Millis.m = 0 -> "m"
                       [] n % Config!Millis.m # 0 /\ n % Config!Millis.s = 0 -> "s"
                       [] OTHER -> "ms"
           written(unit) == [tenths |-> 10 * (n \div Config!Millis[unit]), unit |-> unit]
<1>a. text = written(chosen)
  BY DEF Config!RenderedDuration
<1> HIDE DEF written, text
<1>1. PICK unit \in DOMAIN Config!Millis : n % Config!Millis[unit] = 0 /\ text = written(unit)
  <2>1. CASE n = 0
    <3>1. chosen = "s"
      BY <2>1, TimeUnits
    <3>2. n % Config!Millis["s"] = 0
      BY <2>1, TimeUnits
    <3> HIDE DEF chosen
    <3> QED
      BY <1>a, <3>1, <3>2, TimeUnits
  <2>2. CASE n # 0 /\ n % Config!Millis.h = 0
    <3>1. n % Config!Millis.m = 0
      <4>1. n % 3600000 = 0 => n % 60000 = 0
        OBVIOUS
      <4> QED
        BY <2>2, <4>1, TimeUnits
    <3>2. chosen = "h"
      BY <2>2, <3>1
    <3> HIDE DEF chosen
    <3> QED
      BY <1>a, <2>2, <3>2, TimeUnits
  <2>3. CASE n # 0 /\ n % Config!Millis.h # 0 /\ n % Config!Millis.m = 0
    <3>1. chosen = "m"
      BY <2>3
    <3> HIDE DEF chosen
    <3> QED
      BY <1>a, <2>3, <3>1, TimeUnits
  <2>4. CASE n # 0 /\ n % Config!Millis.h # 0 /\ n % Config!Millis.m # 0 /\ n % Config!Millis.s = 0
    <3>1. chosen = "s"
      BY <2>4
    <3> HIDE DEF chosen
    <3> QED
      BY <1>a, <2>4, <3>1, TimeUnits
  <2>5. CASE n # 0 /\ n % Config!Millis.h # 0 /\ n % Config!Millis.m # 0 /\ n % Config!Millis.s # 0
    <3>1. chosen = "ms"
      BY <2>5
    <3>2. n % Config!Millis["ms"] = 0
      BY TimeUnits
    <3> HIDE DEF chosen
    <3> QED
      BY <1>a, <3>1, <3>2, TimeUnits
  <2> HIDE DEF chosen
  <2> QED
    BY <2>1, <2>2, <2>3, <2>4, <2>5
<1> HIDE DEF chosen
<1> DEFINE u == Config!Millis[unit]
           q == n \div u
<1>2. u \in Nat /\ u > 0
  BY TimeUnits
<1>3. q \in Nat /\ q * u = n
  BY <1>1, <1>2, Divides
<1>4. text.unit = unit /\ text.tenths = 10 * q
  BY <1>1 DEF written
<1>5. Config!ParsedDuration(text) = <<((10 * q) * u + 5) \div 10>>
  BY <1>1, <1>4 DEF Config!ParsedDuration
<1> HIDE DEF text, q, u
<1>6. (10 * q) * u = 10 * n
  BY <1>2, <1>3
<1>7. (10 * n + 5) \div 10 = n
  OBVIOUS
<1> QED
  BY <1>1, <1>4, <1>5, <1>6, <1>7 DEF text

\* A size that fits and is written is read as it was.
LEMMA SizeBack ==
    ASSUME NEW n \in Nat, n <= MaxBytes
    PROVE  Config!ParsedBytes(Config!RenderedBytes(n)) = <<n>>
<1> DEFINE whole == {u \in {"GiB", "MiB", "KiB"} : n >= Config!Bytes[u] /\ n % Config!Bytes[u] = 0}
           largest == CHOOSE u \in whole : \A w \in whole : Config!Bytes[w] <= Config!Bytes[u]
           unit == IF whole = {} THEN "B" ELSE largest
           b == Config!Bytes[unit]
           q == n \div b
<1>1. unit \in DOMAIN Config!Bytes /\ n % b = 0
  <2>1. CASE whole = {}
    <3>1. unit = "B"
      BY <2>1
    <3>2. n % 1 = 0
      OBVIOUS
    <3> QED
      BY <3>1, <3>2, SizeUnits
  <2>2. CASE whole # {}
    <3>1. \E u \in whole : \A w \in whole : Config!Bytes[w] <= Config!Bytes[u]
      <4>1. whole \subseteq {"GiB", "MiB", "KiB"}
        OBVIOUS
      <4>2. /\ Config!Bytes["GiB"] \in Nat /\ Config!Bytes["MiB"] \in Nat /\ Config!Bytes["KiB"] \in Nat
            /\ Config!Bytes["GiB"] >= Config!Bytes["MiB"] /\ Config!Bytes["MiB"] >= Config!Bytes["KiB"]
        BY SizeUnits
      <4> HIDE DEF whole
      <4>3. CASE "GiB" \in whole
        BY <4>1, <4>2, <4>3
      <4>4. CASE "GiB" \notin whole /\ "MiB" \in whole
        BY <4>1, <4>2, <4>4
      <4>5. CASE "GiB" \notin whole /\ "MiB" \notin whole
        <5>1. whole = {"KiB"}
          BY <2>2, <4>1, <4>5
        <5> QED
          BY <4>2, <5>1
      <4> QED
        BY <4>3, <4>4, <4>5
    <3>2. largest \in whole
      <4> HIDE DEF whole
      <4> QED
        BY <3>1
    <3> HIDE DEF largest
    <3>3. unit = largest
      BY <2>2
    <3> QED
      BY <3>2, <3>3, SizeUnits
  <2> QED
    BY <2>1, <2>2
<1>2. Config!RenderedBytes(n) = [n |-> q, unit |-> unit]
  BY DEF Config!RenderedBytes
<1> HIDE DEF unit
<1>3. b \in Nat /\ b > 0 /\ MaxBytes \in Nat
  BY <1>1, SizeUnits, PartsAssumption
<1>4. q \in Nat /\ q * b = n
  BY <1>1, <1>3, Divides
<1>5. q <= MaxBytes \div b
  BY <1>3, <1>4, Quotients
<1> QED
  BY <1>1, <1>2, <1>4, <1>5 DEF Config!ParsedBytes

\* The values of the settings, by their kinds.
OfKind(kind, v) ==
    /\ kind = "duration" => v \in Nat
    /\ kind = "maybe" => v = << >> \/ \E n \in Nat : v = <<n>>
    /\ kind = "size" => v \in Nat /\ v <= MaxBytes
    /\ kind = "flag" => v \in BOOLEAN

LEMMA ReadIsOfKind ==
    ASSUME NEW leaf, IsLeaf(leaf), NEW kind, Config!ReadAs(kind, leaf) # << >>
    PROVE  \E v : Config!ReadAs(kind, leaf) = <<v>> /\ OfKind(kind, v)
<1> DEFINE text == leaf[2]
           read == Config!ReadAs(kind, leaf)
<1>1. CASE kind = "duration"
  <2>1. leaf[1] = "duration" /\ read = Config!ParsedDuration(text)
    BY <1>1 DEF Config!ReadAs, Config!Unread
  <2>2. text.unit \in DOMAIN Config!Millis
    BY <2>1 DEF Config!ParsedDuration, Config!Unread
  <2>3. text.tenths \in Nat
    BY <2>1 DEF IsLeaf
  <2>4. PICK n \in Nat : read = <<n>>
    BY <2>1, <2>2, <2>3, DurationRead
  <2> QED
    BY <1>1, <2>4 DEF OfKind
<1>2. CASE kind = "maybe"
  <2>1. leaf[1] \in {"duration", "maybe"} /\ read = Config!ParsedMaybe(text)
    BY <1>2 DEF Config!ReadAs, Config!Unread
  <2>2. CASE text.unit \in {"off", "never"}
    <3>1. read = << << >> >>
      BY <2>1, <2>2, TimeUnits DEF Config!ParsedMaybe
    <3> QED
      BY <1>2, <3>1 DEF OfKind
  <2>3. CASE text.unit \notin {"off", "never"}
    <3>1. text.unit \in DOMAIN Config!Millis /\ read = <<Config!ParsedDuration(text)>>
      BY <2>1, <2>3 DEF Config!ParsedMaybe, Config!Unread
    <3>2. text.tenths \in Nat
      BY <2>1 DEF IsLeaf
    <3>3. PICK n \in Nat : Config!ParsedDuration(text) = <<n>>
      BY <3>1, <3>2, DurationRead
    <3> QED
      BY <1>2, <3>1, <3>3 DEF OfKind
  <2> QED
    BY <2>2, <2>3
<1>3. CASE kind = "size"
  <2>1. leaf[1] = "size" /\ read = Config!ParsedBytes(text)
    BY <1>3 DEF Config!ReadAs, Config!Unread
  <2> DEFINE b == Config!Bytes[text.unit]
             d == MaxBytes \div b
  <2>2. text.unit \in DOMAIN Config!Bytes /\ text.n <= d
    BY <2>1 DEF Config!ParsedBytes, Config!Unread
  <2>3. text.n \in Nat /\ b \in Nat /\ b > 0 /\ MaxBytes \in Nat
    BY <2>1, <2>2, SizeUnits, PartsAssumption DEF IsLeaf
  <2>4. read = <<text.n * b>>
    BY <2>1, <2>2 DEF Config!ParsedBytes
  <2> HIDE DEF b
  <2>5. d \in Nat /\ b * d <= MaxBytes
    <3>1. d \in Nat /\ MaxBytes = b * d + (MaxBytes % b) /\ MaxBytes % b \in Nat
      BY <2>3
    <3>2. b * d \in Nat
      BY <2>3, <3>1, Product
    <3> HIDE DEF d
    <3> QED
      BY <2>3, <3>1, <3>2
  <2>6. text.n * b <= b * d
    <3> HIDE DEF d
    <3>1. PICK e \in Nat : d = text.n + e
      <4>1. d - text.n \in Nat /\ d = text.n + (d - text.n)
        BY <2>2, <2>3, <2>5
      <4> QED
        BY <4>1
    <3>2. b * d = text.n * b + b * e /\ b * e \in Nat /\ text.n * b \in Nat
      BY <2>3, <3>1, Product
    <3> QED
      BY <3>2
  <2>7. text.n * b \in Nat /\ b * d \in Nat
    BY <2>3, <2>5, Product
  <2>8. text.n * b <= MaxBytes
    <3> HIDE DEF d
    <3> QED
      BY <2>3, <2>5, <2>6, <2>7
  <2> QED
    BY <1>3, <2>4, <2>7, <2>8 DEF OfKind
<1>4. CASE kind \notin {"duration", "maybe", "size"}
  <2>1. leaf[1] = kind /\ read = <<leaf[2]>>
    BY <1>4 DEF Config!ReadAs, Config!Unread
  <2> QED
    BY <1>4, <2>1 DEF OfKind, IsLeaf
<1> QED
  BY <1>1, <1>2, <1>3, <1>4

\* A value as flatten writes it.
Rendering(kind, v) ==
    CASE kind = "duration" -> Config!RenderedDuration(v)
      [] kind = "maybe" -> IF v = << >> THEN [tenths |-> 0, unit |-> "off"]
                           ELSE Config!RenderedDuration(v[1])
      [] kind = "size" -> Config!RenderedBytes(v)
      [] OTHER -> v

\* What flatten writes can be read, and is read as it was.
LEMMA ReadBack ==
    ASSUME NEW kind, NEW v, OfKind(kind, v)
    PROVE  Config!ReadAs(kind, Config!Leaf(kind, Rendering(kind, v))) = <<v>>
<1> DEFINE leaf == Config!Leaf(kind, Rendering(kind, v))
           read == Config!ReadAs(kind, leaf)
<1>0. leaf[1] = kind /\ leaf[2] = Rendering(kind, v)
  BY DEF Config!Leaf
<1> HIDE DEF leaf
<1>1. CASE kind = "duration"
  <2>1. read = Config!ParsedDuration(Config!RenderedDuration(v)) /\ v \in Nat
    BY <1>0, <1>1 DEF Config!ReadAs, Rendering, OfKind
  <2>2. Config!ParsedDuration(Config!RenderedDuration(v)) = <<v>>
    BY <2>1, DurationBack
  <2> QED
    BY <2>1, <2>2 DEF leaf
<1>2. CASE kind = "maybe" /\ v = << >>
  <2>1. read = Config!ParsedMaybe([tenths |-> 0, unit |-> "off"])
    BY <1>0, <1>2 DEF Config!ReadAs, Rendering
  <2>2. Config!ParsedMaybe([tenths |-> 0, unit |-> "off"]) = << << >> >>
    BY TimeUnits DEF Config!ParsedMaybe
  <2> QED
    BY <1>2, <2>1, <2>2 DEF leaf
<1>3. CASE kind = "maybe" /\ v # << >>
  <2>1. PICK n \in Nat : v = <<n>>
    BY <1>3 DEF OfKind
  <2> DEFINE text == Config!RenderedDuration(n)
  <2>2. v[1] = n
    BY <2>1
  <2>3. leaf[2] = text
    BY <1>0, <1>3, <2>2 DEF Rendering
  <2>4. read = Config!ParsedMaybe(text)
    BY <1>0, <1>3, <2>3 DEF Config!ReadAs
  <2>5. text.unit \in DOMAIN Config!Millis /\ Config!ParsedDuration(text) = <<n>>
    BY DurationBack
  <2> HIDE DEF text
  <2>6. Config!ParsedMaybe(text) = <<Config!ParsedDuration(text)>>
    BY <2>5, TimeUnits DEF Config!ParsedMaybe
  <2> QED
    BY <2>1, <2>4, <2>5, <2>6 DEF leaf
<1>4. CASE kind = "size"
  <2>1. read = Config!ParsedBytes(Config!RenderedBytes(v)) /\ v \in Nat /\ v <= MaxBytes
    BY <1>0, <1>4 DEF Config!ReadAs, Rendering, OfKind
  <2>2. Config!ParsedBytes(Config!RenderedBytes(v)) = <<v>>
    BY <2>1, SizeBack
  <2> QED
    BY <2>1, <2>2 DEF leaf
<1>5. CASE kind \notin {"duration", "maybe", "size"}
  <2>1. read = <<v>>
    BY <1>0, <1>5 DEF Config!ReadAs, Rendering
  <2> QED
    BY <2>1 DEF leaf
<1> QED
  BY <1>1, <1>2, <1>3, <1>4, <1>5

\* Every default can be read.
LEMMA DefaultsRead ==
    \A p \in Paths : IsLeaf(Config!Defaults[p]) /\ Config!ReadAs(KindOf(p), Config!Defaults[p]) # << >>
<1> DEFINE Fine(leaf) == IsLeaf(leaf) /\ Config!ReadAs(leaf[1], leaf) # << >>
<1>1. ASSUME NEW n \in Nat PROVE Fine(Config!Secs(n))
  <2> DEFINE text == [tenths |-> 10 * n, unit |-> "s"]
             leaf == Config!Leaf("duration", text)
  <2>1. Config!Secs(n) = leaf /\ leaf[1] = "duration" /\ leaf[2] = text
    BY DEF Config!Secs, Config!Leaf
  <2>2. text.tenths \in Nat /\ text.unit = "s"
    OBVIOUS
  <2> HIDE DEF leaf, text
  <2>3. PICK k \in Nat : Config!ParsedDuration(text) = <<k>>
    BY <2>2, TimeUnits, DurationRead
  <2>4. Config!ReadAs("duration", leaf) = <<k>>
    BY <2>1, <2>3 DEF Config!ReadAs
  <2> QED
    BY <2>1, <2>2, <2>4 DEF IsLeaf
<1>2. Fine(Config!Leaf("maybe", [tenths |-> 0, unit |-> "off"]))
  <2> DEFINE text == [tenths |-> 0, unit |-> "off"]
             leaf == Config!Leaf("maybe", text)
  <2>1. leaf[1] = "maybe" /\ leaf[2] = text /\ text.tenths \in Nat /\ text.unit = "off"
    BY DEF Config!Leaf
  <2> HIDE DEF leaf, text
  <2>2. Config!ParsedMaybe(text) = << << >> >>
    BY <2>1, TimeUnits DEF Config!ParsedMaybe
  <2>3. Config!ReadAs("maybe", leaf) = << << >> >>
    BY <2>1, <2>2 DEF Config!ReadAs
  <2>4. IsLeaf(leaf)
    BY <2>1 DEF IsLeaf
  <2>5. << << >> >> # << >>
    OBVIOUS
  <2>6. Fine(leaf)
    BY <2>1, <2>3, <2>4, <2>5
  <2> QED
    BY <2>6 DEF leaf, text
<1>3. Fine(Config!Leaf("size", [n |-> 2, unit |-> "GiB"]))
  <2> DEFINE text == [n |-> 2, unit |-> "GiB"]
             leaf == Config!Leaf("size", text)
             b == Config!Bytes["GiB"]
  <2>1. leaf[1] = "size" /\ leaf[2] = text /\ text.n = 2 /\ text.unit = "GiB"
    BY DEF Config!Leaf
  <2> HIDE DEF leaf, text
  <2>2. b \in Nat /\ b > 0 /\ b = (Kilo * Kilo) * Kilo /\ "GiB" \in DOMAIN Config!Bytes
    BY SizeUnits
  <2>3. 2 * b <= MaxBytes /\ MaxBytes \in Nat
    BY <2>2, PartsAssumption
  <2> HIDE DEF b
  <2>4. 2 <= MaxBytes \div b
    BY <2>2, <2>3, Quotients
  <2>5. Config!ParsedBytes(text) = <<2 * b>>
    BY <2>1, <2>2, <2>4 DEF Config!ParsedBytes, b
  <2>6. Config!ReadAs("size", leaf) = <<2 * b>>
    BY <2>1, <2>5 DEF Config!ReadAs
  <2>7. Fine(leaf)
    BY <2>1, <2>6 DEF IsLeaf
  <2> QED
    BY <2>7 DEF leaf, text
<1>4. ASSUME NEW kind \in {"number", "names", "text"}, NEW v PROVE Fine(Config!Leaf(kind, v))
  <2>1. Config!Leaf(kind, v)[1] = kind /\ Config!Leaf(kind, v)[2] = v
    BY LeafFacts
  <2> QED
    BY <2>1 DEF IsLeaf, Config!ReadAs
<1>5. ASSUME NEW v \in BOOLEAN PROVE Fine(Config!Leaf("flag", v))
  <2>1. Config!Leaf("flag", v)[1] = "flag" /\ Config!Leaf("flag", v)[2] = v
    BY LeafFacts
  <2> QED
    BY <2>1 DEF IsLeaf, Config!ReadAs
<1> HIDE DEF Fine
<1>6. /\ Fine(Config!Defaults[Config!Stall]) /\ Fine(Config!Defaults[Config!SessionAfter])
      /\ Fine(Config!Defaults[Config!BlankAfter])
  <2>1. Fine(Config!Secs(15)) /\ Fine(Config!Secs(60)) /\ Fine(Config!Secs(300))
    BY <1>1
  <2>2. /\ Config!Defaults[Config!Stall] = Config!Secs(15)
        /\ Config!Defaults[Config!SessionAfter] = Config!Secs(60)
        /\ Config!Defaults[Config!BlankAfter] = Config!Secs(300)
    BY Schema, Zenon
  <2> QED
    BY <2>1, <2>2
<1>7. Fine(Config!Defaults[Config!AmbientAfter]) /\ Fine(Config!Defaults[Config!CacheSize])
  BY <1>2, <1>3, Schema
<1>8. /\ Fine(Config!Defaults[Config!Rotation]) /\ Fine(Config!Defaults[Config!Margin])
      /\ Fine(Config!Defaults[Config!Dim]) /\ Fine(Config!Defaults[Config!ArtRetain])
  <2>1. /\ Fine(Config!Leaf("number", 0)) /\ Fine(Config!Leaf("number", 35))
        /\ Fine(Config!Leaf("number", 4))
    BY <1>4
  <2> QED
    BY <2>1, Schema
<1>9. /\ Fine(Config!Defaults[Config!Sources]) /\ Fine(Config!Defaults[Config!Contact])
      /\ Fine(Config!Defaults[Config!Bind]) /\ Fine(Config!Defaults[Config!WebHash])
  <2>1. /\ Fine(Config!Leaf("names", {"itunes"})) /\ Fine(Config!Leaf("text", ""))
        /\ Fine(Config!Leaf("text", "lan"))
    BY <1>4
  <2> QED
    BY <2>1, Schema
<1>10. /\ Fine(Config!Defaults[Config!Enriches]) /\ Fine(Config!Defaults[Config!WebEnabled])
       /\ Fine(Config!Defaults[Config!WebAuth]) /\ Fine(Config!Defaults[Config!Insecure])
  BY <1>5, Schema
<1>11. \A p \in Paths : Fine(Config!Defaults[p])
  BY <1>6, <1>7, <1>8, <1>9, <1>10 DEF Paths
<1> QED
  BY <1>11 DEF Fine, KindOf

(* Loading *)

\* What the two files and the defaults say of a setting.
Says(base, local, p) ==
    IF p \in DOMAIN local THEN local[p]
    ELSE IF p \in DOMAIN base THEN base[p] ELSE Config!Defaults[p]

Meaning(base, local) == [p \in Paths |-> Config!ReadAs(KindOf(p), Says(base, local, p))[1]]

Readable(base, local) ==
    /\ DOMAIN local \subseteq Paths
    /\ \A p \in DOMAIN base : p \in Paths \/ \E q \in DOMAIN local : Config!Under(p, q)
    /\ \A p \in Paths : Config!ReadAs(KindOf(p), Says(base, local, p)) # << >>

\* What load answers, setting by setting.
LEMMA Loading ==
    ASSUME NEW base, NEW local
    PROVE  Config!Load(base, local) =
             IF Readable(base, local) /\ Config!Valid(Meaning(base, local))
             THEN [ok |-> TRUE, config |-> Meaning(base, local), overridden |-> DOMAIN local]
             ELSE Config!Refused
<1> DEFINE merged == Config!Merged(base, local)
           kept == {p \in DOMAIN base : \A q \in DOMAIN local : ~Config!Under(p, q)}
           below == [p \in kept |-> base[p]]
           readable == \A p \in DOMAIN merged :
                         p \in Paths /\ Config!ReadAs(KindOf(p), merged[p]) # << >>
           config == [p \in Paths |-> Config!ReadAs(KindOf(p), Config!Over(merged, Config!Defaults)[p])[1]]
<1>0. DOMAIN Config!Defaults = Paths
  BY Schema
<1>1. Config!Load(base, local) =
        IF ~readable \/ ~Config!Valid(config) THEN Config!Refused
        ELSE [ok |-> TRUE, config |-> config, overridden |-> DOMAIN local]
  BY <1>0, SMTT(20) DEF Config!Load, Config!Unread, KindOf
<1>2. merged = Config!Over(local, below)
  BY DEF Config!Merged
<1>3. DOMAIN below = kept /\ \A p \in kept : below[p] = base[p]
  OBVIOUS
<1> HIDE DEF merged, below
<1>4. /\ DOMAIN merged = DOMAIN local \cup kept
      /\ \A p \in DOMAIN local : merged[p] = local[p]
      /\ \A p \in kept : p \notin DOMAIN local => merged[p] = base[p]
  <2> HIDE DEF kept
  <2> QED
    BY <1>2, <1>3 DEF Config!Over
<1>5. ASSUME DOMAIN local \subseteq Paths, NEW p \in Paths
      PROVE  /\ p \in DOMAIN merged <=> p \in DOMAIN local \cup DOMAIN base
             /\ p \in DOMAIN merged => merged[p] = Says(base, local, p)
             /\ Config!Over(merged, Config!Defaults)[p] = Says(base, local, p)
  <2>1. p \in kept \/ p \in DOMAIN local <=> p \in DOMAIN base \/ p \in DOMAIN local
    BY <1>5, PathsApart
  <2> HIDE DEF kept
  <2>2. p \in DOMAIN merged <=> p \in DOMAIN local \cup DOMAIN base
    BY <1>4, <2>1
  <2>3. p \in DOMAIN merged => merged[p] = Says(base, local, p)
    BY <1>4, <2>1, <2>2 DEF Says
  <2>4. p \notin DOMAIN merged => Says(base, local, p) = Config!Defaults[p]
    BY <2>2 DEF Says
  <2>5. /\ p \in DOMAIN merged => Config!Over(merged, Config!Defaults)[p] = merged[p]
        /\ p \notin DOMAIN merged => Config!Over(merged, Config!Defaults)[p] = Config!Defaults[p]
    BY Schema DEF Config!Over
  <2> QED
    BY <2>2, <2>3, <2>4, <2>5
<1>6. readable <=> Readable(base, local)
  <2>1. readable => DOMAIN local \subseteq Paths
    BY <1>4
  <2>2. ASSUME DOMAIN local \subseteq Paths PROVE readable <=> Readable(base, local)
    <3>1. (\A p \in DOMAIN merged : p \in Paths)
            <=> \A p \in DOMAIN base : p \in Paths \/ \E q \in DOMAIN local : Config!Under(p, q)
      <4>1. \A p \in kept : p \in DOMAIN base /\ \A q \in DOMAIN local : ~Config!Under(p, q)
        OBVIOUS
      <4>2. \A p \in DOMAIN base : p \in kept \/ \E q \in DOMAIN local : Config!Under(p, q)
        OBVIOUS
      <4> HIDE DEF kept
      <4> QED
        BY <1>4, <2>2, <4>1, <4>2
    <3>2. \A p \in Paths :
            \/ p \in DOMAIN merged /\ merged[p] = Says(base, local, p)
            \/ p \notin DOMAIN merged /\ Says(base, local, p) = Config!Defaults[p]
      BY <1>5, <2>2 DEF Says
    <3> HIDE DEF kept
    <3>3. (\A p \in DOMAIN merged : p \in Paths) =>
            ((\A p \in DOMAIN merged : Config!ReadAs(KindOf(p), merged[p]) # << >>)
              <=> \A p \in Paths : Config!ReadAs(KindOf(p), Says(base, local, p)) # << >>)
      BY <3>2, DefaultsRead
    <3> QED
      BY <2>2, <3>1, <3>3 DEF Readable
  <2> QED
    BY <2>1, <2>2 DEF Readable
<1>7. Readable(base, local) => config = Meaning(base, local)
  <2> SUFFICES ASSUME Readable(base, local) PROVE config = Meaning(base, local)
    OBVIOUS
  <2>1. \A p \in Paths : Config!Over(merged, Config!Defaults)[p] = Says(base, local, p)
    BY <1>5 DEF Readable
  <2> QED
    BY <2>1 DEF Meaning
<1> HIDE DEF readable, config
<1> QED
  BY <1>1, <1>6, <1>7

\* What a configuration that was read holds.
LEMMA MeaningFacts ==
    ASSUME NEW base, NEW local, Readable(base, local),
           \A p \in DOMAIN base : IsLeaf(base[p]), \A p \in DOMAIN local : IsLeaf(local[p])
    PROVE  \A p \in Paths :
             /\ Config!ReadAs(KindOf(p), Says(base, local, p)) = <<Meaning(base, local)[p]>>
             /\ OfKind(KindOf(p), Meaning(base, local)[p])
<1> TAKE p \in Paths
<1>1. IsLeaf(Says(base, local, p))
  BY DefaultsRead DEF Says
<1>2. Config!ReadAs(KindOf(p), Says(base, local, p)) # << >>
  BY DEF Readable
<1>3. PICK v : Config!ReadAs(KindOf(p), Says(base, local, p)) = <<v>> /\ OfKind(KindOf(p), v)
  BY <1>1, <1>2, ReadIsOfKind
<1>4. Meaning(base, local)[p] = v
  BY <1>3 DEF Meaning
<1> QED
  BY <1>3, <1>4

\* A configuration that is written out and read again is what it was.
LEMMA WrittenIsRead ==
    ASSUME NEW base, NEW local, Readable(base, local),
           \A p \in DOMAIN base : IsLeaf(base[p]), \A p \in DOMAIN local : IsLeaf(local[p]),
           Config!Valid(Meaning(base, local))
    PROVE  LET again == Config!Load(base, Config!Flattened(Meaning(base, local)))
           IN again.ok /\ again.config = Meaning(base, local)
<1> DEFINE c == Meaning(base, local)
           flat == Config!Flattened(c)
<1>1. flat = [p \in Paths |-> Config!Leaf(KindOf(p), Rendering(KindOf(p), c[p]))]
  BY Schema DEF Config!Flattened, Rendering, KindOf
<1>2. \A p \in Paths : OfKind(KindOf(p), c[p])
  BY MeaningFacts
<1>3. c = [p \in Paths |-> c[p]]
  BY DEF Meaning
<1>4. \A p \in DOMAIN base : p \in Paths \/ \E q \in Paths : Config!Under(p, q)
  BY DEF Readable
<1> HIDE DEF c, flat
<1>5. DOMAIN flat = Paths
  BY <1>1
<1>6. ASSUME NEW p \in Paths PROVE Config!ReadAs(KindOf(p), Says(base, flat, p)) = <<c[p]>>
  <2>1. Says(base, flat, p) = Config!Leaf(KindOf(p), Rendering(KindOf(p), c[p]))
    BY <1>1, <1>5 DEF Says
  <2> QED
    BY <1>2, <2>1, ReadBack
<1>7. Readable(base, flat)
  <2>1. \A p \in Paths : Config!ReadAs(KindOf(p), Says(base, flat, p)) # << >>
    BY <1>6
  <2> QED
    BY <1>4, <1>5, <2>1 DEF Readable
<1>8. Meaning(base, flat) = c
  <2>1. \A p \in Paths : Config!ReadAs(KindOf(p), Says(base, flat, p))[1] = c[p]
    BY <1>6
  <2> QED
    BY <1>3, <2>1 DEF Meaning
<1>9. Config!Load(base, flat) = [ok |-> TRUE, config |-> c, overridden |-> DOMAIN flat]
  BY <1>7, <1>8, Loading DEF c
<1> QED
  BY <1>9 DEF c, flat

IsConfig(c) == c = [p \in Paths |-> c[p]]
WithHash(c, hash) == [c EXCEPT ![Config!WebHash] = hash]
Stored(local, hash) == Config!Over(Config!Only(Config!WebHash, Config!Leaf("text", hash)), local)

\* Writing the hash of a password changes no other setting.
LEMMA HashIsRead ==
    ASSUME NEW base, NEW local, Readable(base, local), Config!Valid(Meaning(base, local)), NEW hash
    PROVE  LET c == Meaning(base, local)
               more == Stored(local, hash)
           IN Config!Load(base, more) =
                [ok |-> TRUE, config |-> WithHash(c, hash), overridden |-> DOMAIN more]
<1> DEFINE c == Meaning(base, local)
           d == [c EXCEPT ![Config!WebHash] = hash]
           leaf == Config!Leaf("text", hash)
           more == Config!Over(Config!Only(Config!WebHash, leaf), local)
<1>1. /\ DOMAIN more = {Config!WebHash} \cup DOMAIN local
      /\ more[Config!WebHash] = leaf
      /\ \A p \in DOMAIN local : p # Config!WebHash => more[p] = local[p]
  BY DEF Config!Over, Config!Only
<1>2. Config!WebHash \in Paths
  BY DEF Paths
<1> HIDE DEF more
<1>3. Says(base, more, Config!WebHash) = leaf
  BY <1>1 DEF Says
<1>4. \A p \in Paths : p # Config!WebHash => Says(base, more, p) = Says(base, local, p)
  BY <1>1 DEF Says
<1>5. Config!ReadAs("text", leaf) = <<hash>>
  BY LeafFacts DEF Config!ReadAs
<1>6. Config!ReadAs(KindOf(Config!WebHash), Says(base, more, Config!WebHash)) = <<hash>>
  BY <1>3, <1>5, Kinds
<1> HIDE DEF leaf
<1>7. Readable(base, more)
  <2>1. DOMAIN more \subseteq Paths
    BY <1>1, <1>2 DEF Readable
  <2>2. \A p \in DOMAIN base : p \in Paths \/ \E q \in DOMAIN more : Config!Under(p, q)
    BY <1>1 DEF Readable
  <2>3. \A p \in Paths : Config!ReadAs(KindOf(p), Says(base, more, p)) # << >>
    BY <1>4, <1>6 DEF Readable
  <2> QED
    BY <2>1, <2>2, <2>3 DEF Readable
<1>8. Meaning(base, more) = d
  <2>1. c = [p \in Paths |-> c[p]] /\ \A p \in Paths : c[p] = Config!ReadAs(KindOf(p), Says(base, local, p))[1]
    BY DEF Meaning
  <2> HIDE DEF c
  <2>2. d = [p \in Paths |-> IF p = Config!WebHash THEN hash ELSE c[p]]
    BY <2>1
  <2>3. \A p \in Paths : Config!ReadAs(KindOf(p), Says(base, more, p))[1]
                           = IF p = Config!WebHash THEN hash ELSE c[p]
    BY <1>4, <1>6, <2>1
  <2> HIDE DEF d
  <2> QED
    BY <2>2, <2>3 DEF Meaning
<1>9. Config!Valid(d)
  <2>1. \A p \in Paths : p # Config!WebHash => d[p] = c[p]
    BY DEF Meaning
  <2>2. Config!Valid(c)
    OBVIOUS
  <2> HIDE DEF c, d
  <2> DEFINE used == Paths \ {Config!WebHash, Config!CacheSize}
  <2>3. /\ {Config!Rotation, Config!Margin, Config!Dim, Config!Stall, Config!SessionAfter,
            Config!AmbientAfter, Config!BlankAfter, Config!ArtRetain} \subseteq used
        /\ {Config!Enriches, Config!Sources, Config!Contact, Config!WebEnabled, Config!Bind,
            Config!WebAuth, Config!Insecure} \subseteq used
    BY PathShapes DEF Paths
  <2>4. \A p \in used : d[p] = c[p]
    BY <2>1
  <2> HIDE DEF used
  <2>5. /\ d[Config!Rotation] = c[Config!Rotation] /\ d[Config!Margin] = c[Config!Margin]
        /\ d[Config!Dim] = c[Config!Dim] /\ d[Config!Stall] = c[Config!Stall]
        /\ d[Config!SessionAfter] = c[Config!SessionAfter]
        /\ d[Config!AmbientAfter] = c[Config!AmbientAfter]
        /\ d[Config!BlankAfter] = c[Config!BlankAfter] /\ d[Config!ArtRetain] = c[Config!ArtRetain]
        /\ d[Config!Enriches] = c[Config!Enriches] /\ d[Config!Sources] = c[Config!Sources]
        /\ d[Config!Contact] = c[Config!Contact] /\ d[Config!WebEnabled] = c[Config!WebEnabled]
        /\ d[Config!Bind] = c[Config!Bind] /\ d[Config!WebAuth] = c[Config!WebAuth]
        /\ d[Config!Insecure] = c[Config!Insecure]
    BY <2>3, <2>4
  <2>6. /\ d[Config!Rotation] \in {0, 90, 180, 270} /\ d[Config!Margin] \in 0 .. 45
        /\ d[Config!Dim] \in 0 .. 100
    BY <2>2, <2>5 DEF Config!Valid
  <2>7. /\ d[Config!Stall] < d[Config!SessionAfter] /\ d[Config!ArtRetain] >= 2
        /\ d[Config!AmbientAfter] # << >> => d[Config!AmbientAfter][1] < d[Config!BlankAfter]
    BY <2>2, <2>5 DEF Config!Valid
  <2>8. d[Config!Enriches] =>
          /\ d[Config!Sources] \subseteq {"itunes", "musicbrainz"}
          /\ "musicbrainz" \in d[Config!Sources] => d[Config!Contact] # ""
    BY <2>2, <2>5 DEF Config!Valid
  <2>9. d[Config!WebEnabled] =>
          /\ d[Config!Bind] \in {"lan", "loopback"}
          /\ d[Config!Bind] = "loopback" \/ d[Config!WebAuth] \/ d[Config!Insecure]
    BY <2>2, <2>5 DEF Config!Valid
  <2> QED
    BY <2>6, <2>7, <2>8, <2>9 DEF Config!Valid
<1>10. Config!Load(base, more) = [ok |-> TRUE, config |-> d, overridden |-> DOMAIN more]
  BY <1>7, <1>8, <1>9, Loading
<1> QED
  BY <1>10 DEF more, leaf, Stored, WithHash

\* The flags that decide what the web interface does, and the addresses it may have.
LEMMA WebFacts ==
    ASSUME NEW base, NEW local, Readable(base, local),
           \A p \in DOMAIN base : IsLeaf(base[p]), \A p \in DOMAIN local : IsLeaf(local[p]),
           Config!Valid(Meaning(base, local))
    PROVE  LET c == Meaning(base, local)
           IN /\ {c[Config!WebEnabled], c[Config!WebAuth], c[Config!Insecure]} \subseteq BOOLEAN
              /\ c[Config!WebEnabled] =>
                   /\ c[Config!Bind] \in {"lan", "loopback"}
                   /\ c[Config!Bind] = "loopback" \/ c[Config!WebAuth] \/ c[Config!Insecure]
<1> DEFINE c == Meaning(base, local)
<1>1. {Config!WebEnabled, Config!WebAuth, Config!Insecure} \subseteq Paths
  BY DEF Paths
<1>2. \A p \in {Config!WebEnabled, Config!WebAuth, Config!Insecure} : OfKind("flag", c[p])
  BY <1>1, MeaningFacts, Kinds
<1>3. {c[Config!WebEnabled], c[Config!WebAuth], c[Config!Insecure]} \subseteq BOOLEAN
  BY <1>2 DEF OfKind
<1> HIDE DEF c
<1>4. Config!Valid(c)
  BY DEF c
<1>5. c[Config!WebEnabled] =>
        /\ c[Config!Bind] \in {"lan", "loopback"}
        /\ c[Config!Bind] = "loopback" \/ c[Config!WebAuth] \/ c[Config!Insecure]
  BY <1>4 DEF Config!Valid
<1> QED
  BY <1>3, <1>5 DEF c

\* What the daemon does with a configuration that needs no new password, and with
\* one that does.
LEMMA Starting ==
    ASSUME NEW c, NEW local, NEW phrase \in {"first", "second"}, NEW outcome,
           {c[Config!WebEnabled], c[Config!WebAuth], c[Config!Insecure]} \subseteq BOOLEAN,
           c[Config!WebEnabled] =>
             /\ c[Config!Bind] \in {"lan", "loopback"}
             /\ c[Config!Bind] = "loopback" \/ c[Config!WebAuth] \/ c[Config!Insecure],
           ~c[Config!WebEnabled] \/ ~c[Config!WebAuth] \/ c[Config!WebHash] # ""
    PROVE  LET s == Config!Started(c, local, phrase, outcome)
           IN /\ s.config = c /\ s.local = local /\ s.logged = {}
              /\ s.bound = IF c[Config!WebEnabled] THEN Config!CheckedBind(c) ELSE "off"
              /\ s.bound # "refused"
              /\ s.bound = "quiet" /\ c[Config!Bind] = "lan" =>
                   c[Config!WebAuth] /\ c[Config!WebHash] # ""
<1> DEFINE s == Config!Started(c, local, phrase, outcome)
           p == Config!PreparedAuth(c, local, phrase, outcome)
           Promised(bound) ==
             /\ bound = IF c[Config!WebEnabled] THEN Config!CheckedBind(c) ELSE "off"
             /\ bound # "refused"
             /\ bound = "quiet" /\ c[Config!Bind] = "lan" =>
                  c[Config!WebAuth] /\ c[Config!WebHash] # ""
<1>1. CASE ~c[Config!WebEnabled]
  <2>1. s = [bound |-> "off", config |-> c, local |-> local, logged |-> {}]
    BY <1>1 DEF Config!Started
  <2> HIDE DEF s
  <2>2. s.config = c /\ s.local = local /\ s.logged = {} /\ s.bound = "off"
    BY <2>1
  <2>3. Promised("off")
    BY <1>1
  <2> QED
    BY <2>2, <2>3 DEF s
<1>2. CASE c[Config!WebEnabled]
  <2>1. p = [config |-> c, local |-> local, logged |-> {}]
    BY <1>2 DEF Config!PreparedAuth
  <2>2. s = [bound |-> Config!CheckedBind(p.config), config |-> p.config, local |-> p.local,
             logged |-> p.logged]
    BY <1>2 DEF Config!Started
  <2> HIDE DEF s, p
  <2>3. s.config = c /\ s.local = local /\ s.logged = {} /\ s.bound = Config!CheckedBind(c)
    BY <2>1, <2>2
  <2>4. Promised(Config!CheckedBind(c))
    <3>1. CASE c[Config!Bind] = "loopback"
      <4>1. Config!CheckedBind(c) = "quiet"
        BY <3>1 DEF Config!CheckedBind
      <4> QED
        BY <1>2, <3>1, <4>1
    <3>2. CASE c[Config!Bind] = "lan" /\ c[Config!WebAuth]
      <4>1. c[Config!WebHash] # ""
        BY <1>2, <3>2
      <4>2. Config!CheckedBind(c) = "quiet"
        BY <3>2, <4>1 DEF Config!CheckedBind
      <4> QED
        BY <1>2, <3>2, <4>1, <4>2
    <3>3. CASE c[Config!Bind] = "lan" /\ ~c[Config!WebAuth]
      <4>1. c[Config!Insecure]
        BY <1>2, <3>3
      <4>2. Config!CheckedBind(c) = "warned"
        BY <3>3, <4>1 DEF Config!CheckedBind
      <4> QED
        BY <1>2, <4>2
    <3> QED
      BY <1>2, <3>1, <3>2, <3>3
  <2> HIDE DEF Promised
  <2>5. Promised(s.bound)
    BY <2>3, <2>4
  <2> QED
    BY <2>3, <2>5 DEF s, Promised
<1> QED
  BY <1>1, <1>2

StartsAnew(c, local, phrase, outcome) ==
    LET s == Config!Started(c, local, phrase, outcome)
        hash == Config!Hashed[phrase]
        d == WithHash(c, hash)
    IN /\ s.bound = "quiet" /\ s.config = d /\ s.logged = {phrase}
       /\ outcome.stored => s.local = Stored(local, hash)
       /\ ~outcome.stored => s.local = local
       /\ d[Config!WebHash] = hash /\ hash # ""
       /\ \A p \in Paths : p # Config!WebHash => d[p] = c[p]

LEMMA StartingAnew ==
    ASSUME NEW c, NEW local, NEW phrase \in {"first", "second"}, NEW outcome,
           IsConfig(c), {c[Config!WebEnabled], c[Config!WebAuth]} \subseteq BOOLEAN,
           c[Config!WebEnabled], c[Config!WebAuth], c[Config!WebHash] = "",
           c[Config!Bind] \in {"lan", "loopback"}
    PROVE  StartsAnew(c, local, phrase, outcome)
<1> DEFINE s == Config!Started(c, local, phrase, outcome)
           hash == Config!Hashed[phrase]
           d == WithHash(c, hash)
           more == IF outcome.stored THEN Stored(local, hash) ELSE local
<1>1. hash # ""
  <2>1. Config!Hashed["first"] = "hash of first" /\ Config!Hashed["second"] = "hash of second"
    BY DEF Config!Hashed
  <2>2. "hash of first" # "" /\ "hash of second" # ""
    OBVIOUS
  <2> QED
    BY <2>1, <2>2
<1> HIDE DEF hash
<1>2. Config!WebHash \in Paths
  BY DEF Paths
<1>3. d[Config!WebHash] = hash /\ \A p \in Paths : p # Config!WebHash => d[p] = c[p]
  BY <1>2 DEF WithHash, IsConfig
<1>4. Config!PreparedAuth(c, local, phrase, outcome) = [config |-> d, local |-> more, logged |-> {phrase}]
  BY DEF Config!PreparedAuth, WithHash, Stored, hash
<1>5. Config!Bind \in Paths /\ Config!WebAuth \in Paths
      /\ Config!Bind # Config!WebHash /\ Config!WebAuth # Config!WebHash
  BY PathShapes DEF Paths
<1>6. d[Config!Bind] = c[Config!Bind] /\ d[Config!WebAuth] = TRUE
  BY <1>3, <1>5
<1> HIDE DEF d, more
<1>7. Config!CheckedBind(d) = "quiet"
  BY <1>1, <1>3, <1>6 DEF Config!CheckedBind
<1>8. s = [bound |-> "quiet", config |-> d, local |-> more, logged |-> {phrase}]
  <2> DEFINE p == Config!PreparedAuth(c, local, phrase, outcome)
  <2>1. s = [bound |-> Config!CheckedBind(p.config), config |-> p.config, local |-> p.local,
             logged |-> p.logged]
    BY DEF Config!Started
  <2>2. p = [config |-> d, local |-> more, logged |-> {phrase}]
    BY <1>4
  <2> HIDE DEF p, s
  <2>3. p.config = d /\ p.local = more /\ p.logged = {phrase}
    BY <2>2
  <2> QED
    BY <1>7, <2>1, <2>3
<1>9. /\ outcome.stored => more = Stored(local, hash)
      /\ ~outcome.stored => more = local
  BY DEF more
<1> HIDE DEF s
<1>10. s.bound = "quiet" /\ s.config = d /\ s.logged = {phrase} /\ s.local = more
  BY <1>8
<1> QED
  BY <1>1, <1>3, <1>9, <1>10 DEF d, hash, s, StartsAnew

\* Whatever two files hold, a configuration that is accepted means what was written,
\* also once it is written out again, and the daemon starts with it.
LEMMA FilesStart ==
    ASSUME NEW base, NEW local, NEW outcome,
           \A p \in DOMAIN base : IsLeaf(base[p]), \A p \in DOMAIN local : IsLeaf(local[p]),
           outcome.stored \in BOOLEAN
    PROVE  Config!AcceptedMeansStarts(base, local, outcome)
<1> DEFINE l == Config!Load(base, local)
           c == l.config
           again == Config!Load(base, Config!Flattened(c))
           one == Config!Started(c, local, "first", outcome)
           reloaded == Config!Load(base, one.local)
           two == Config!Started(reloaded.config, one.local, "second", outcome)
           Reads(p, file) == c[p] = Config!ReadAs(Config!Defaults[p][1], file[p])[1]
           Sources == \A p \in DOMAIN Config!Defaults :
                        Reads(p, IF p \in l.overridden THEN local ELSE Config!Over(base, Config!Defaults))
           Starts == /\ one.bound # "refused"
                     /\ one.bound = "quiet" /\ c[Config!Bind] = "lan" =>
                          one.config[Config!WebAuth] /\ one.config[Config!WebHash] # ""
                     /\ reloaded.ok /\ two.bound = one.bound
                     /\ two.bound = "quiet" /\ c[Config!WebAuth] /\ c[Config!WebHash] = "" =>
                          \E phrase \in one.logged \cup two.logged :
                             two.config[Config!WebHash] = Config!Hashed[phrase]
<1>1. Config!AcceptedMeansStarts(base, local, outcome)
        <=> (l.ok => Sources /\ (again.ok /\ again.config = c) /\ Starts)
  BY DEF Config!AcceptedMeansStarts
<1> SUFFICES ASSUME l.ok PROVE Sources /\ (again.ok /\ again.config = c) /\ Starts
  <2> HIDE DEF l, Sources, again, c, Starts
  <2> QED
    BY <1>1
<1>2. Readable(base, local) /\ Config!Valid(Meaning(base, local))
  <2>1. Config!Refused.ok = FALSE
    BY DEF Config!Refused
  <2> QED
    BY <2>1, Loading
<1>3. l = [ok |-> TRUE, config |-> Meaning(base, local), overridden |-> DOMAIN local]
  BY <1>2, Loading
<1>4. c = Meaning(base, local) /\ l.overridden = DOMAIN local
  BY <1>3
<1>5. Sources
  <2> HIDE DEF l
  <2> SUFFICES ASSUME NEW p \in Paths
               PROVE  Reads(p, IF p \in DOMAIN local THEN local ELSE Config!Over(base, Config!Defaults))
    BY <1>4, Schema
  <2> DEFINE file == IF p \in DOMAIN local THEN local ELSE Config!Over(base, Config!Defaults)
  <2>1. file[p] = Says(base, local, p)
    BY Schema DEF Says, Config!Over
  <2>2. c[p] = Config!ReadAs(KindOf(p), Says(base, local, p))[1]
    BY <1>4 DEF Meaning
  <2> QED
    BY <2>1, <2>2 DEF KindOf
<1>6. again.ok /\ again.config = c
  <2> HIDE DEF l
  <2>1. again = Config!Load(base, Config!Flattened(Meaning(base, local)))
    BY <1>4
  <2> QED
    BY <1>2, <1>4, <2>1, WrittenIsRead
<1>7. /\ {c[Config!WebEnabled], c[Config!WebAuth], c[Config!Insecure]} \subseteq BOOLEAN
      /\ c[Config!WebEnabled] =>
           /\ c[Config!Bind] \in {"lan", "loopback"}
           /\ c[Config!Bind] = "loopback" \/ c[Config!WebAuth] \/ c[Config!Insecure]
  <2> HIDE DEF l
  <2> QED
    BY <1>2, <1>4, WebFacts
<1> HIDE DEF l
<1>8. IsConfig(c)
  BY <1>4 DEF Meaning, IsConfig
<1>9. l.ok /\ c = l.config
  OBVIOUS
<1> HIDE DEF c
<1>10. CASE ~c[Config!WebEnabled] \/ ~c[Config!WebAuth] \/ c[Config!WebHash] # ""
  <2>1. /\ one.config = c /\ one.local = local /\ one.logged = {}
        /\ one.bound = IF c[Config!WebEnabled] THEN Config!CheckedBind(c) ELSE "off"
        /\ one.bound # "refused"
        /\ one.bound = "quiet" /\ c[Config!Bind] = "lan" =>
             c[Config!WebAuth] /\ c[Config!WebHash] # ""
    BY <1>7, <1>10, Starting
  <2>2. reloaded = l
    <3> HIDE DEF one
    <3> QED
      BY <2>1 DEF l
  <2> HIDE DEF one, reloaded
  <2>3. two = Config!Started(c, local, "second", outcome)
    BY <1>9, <2>1, <2>2
  <2>4. two.bound = IF c[Config!WebEnabled] THEN Config!CheckedBind(c) ELSE "off"
    <3>1. LET s == Config!Started(c, local, "second", outcome)
          IN /\ s.config = c /\ s.local = local /\ s.logged = {}
             /\ s.bound = IF c[Config!WebEnabled] THEN Config!CheckedBind(c) ELSE "off"
             /\ s.bound # "refused"
             /\ s.bound = "quiet" /\ c[Config!Bind] = "lan" =>
                  c[Config!WebAuth] /\ c[Config!WebHash] # ""
      BY <1>7, <1>10, Starting
    <3> QED
      BY <2>3, <3>1
  <2> HIDE DEF two
  <2>5. two.bound = one.bound
    BY <2>1, <2>4
  <2>6. ~(two.bound = "quiet" /\ c[Config!WebAuth] /\ c[Config!WebHash] = "")
    <3>1. CASE ~c[Config!WebEnabled]
      BY <2>4, <3>1
    <3>2. CASE c[Config!WebEnabled]
      BY <1>10, <3>2
    <3> QED
      BY <3>1, <3>2
  <2>7. reloaded.ok
    BY <1>9, <2>2
  <2>8. Starts
    BY <2>1, <2>5, <2>6, <2>7
  <2> HIDE DEF Starts, Sources, again
  <2> QED
    BY <1>5, <1>6, <2>8
<1>11. CASE c[Config!WebEnabled] /\ c[Config!WebAuth] /\ c[Config!WebHash] = ""
  <2> DEFINE hash(phrase) == Config!Hashed[phrase]
             with(phrase) == WithHash(c, hash(phrase))
             more == Stored(local, hash("first"))
  <2>1. c[Config!WebEnabled] = TRUE /\ c[Config!WebAuth] = TRUE /\ c[Config!WebHash] = ""
        /\ c[Config!Bind] \in {"lan", "loopback"}
    BY <1>7, <1>11
  <2>2. /\ one.bound = "quiet" /\ one.config = with("first") /\ one.logged = {"first"}
        /\ outcome.stored => one.local = more
        /\ ~outcome.stored => one.local = local
        /\ with("first")[Config!WebHash] = hash("first") /\ hash("first") # ""
        /\ \A p \in Paths : p # Config!WebHash => with("first")[p] = c[p]
    <3>1. StartsAnew(c, local, "first", outcome)
      BY <1>7, <1>8, <1>11, <2>1, StartingAnew
    <3> QED
      BY <3>1 DEF StartsAnew
  <2>3. /\ {Config!Bind, Config!WebAuth, Config!WebEnabled, Config!Insecure} \subseteq Paths
        /\ Config!WebHash \notin {Config!Bind, Config!WebAuth, Config!WebEnabled, Config!Insecure}
    BY PathShapes DEF Paths
  <2> HIDE DEF with, hash, more, one
  <2>5. one.config[Config!WebAuth] /\ one.config[Config!WebHash] # ""
    BY <2>1, <2>2, <2>3
  <2>6. /\ reloaded.ok /\ two.bound = "quiet"
        /\ \E phrase \in one.logged \cup two.logged : two.config[Config!WebHash] = hash(phrase)
    <3>1. CASE outcome.stored
      <4> DEFINE d == with("first")
      <4>1. one.local = more
        BY <2>2, <3>1
      <4>2. Config!Load(base, more) = [ok |-> TRUE, config |-> d, overridden |-> DOMAIN more]
        BY <1>2, <1>4, HashIsRead DEF with, more
      <4>3. reloaded.ok /\ reloaded.config = d
        BY <4>1, <4>2
      <4> HIDE DEF reloaded
      <4>4. two = Config!Started(d, more, "second", outcome)
        BY <4>1, <4>3
      <4>5. /\ d[Config!WebEnabled] = TRUE /\ d[Config!WebAuth] = TRUE
            /\ d[Config!Insecure] = c[Config!Insecure] /\ d[Config!Bind] = c[Config!Bind]
            /\ d[Config!WebHash] = hash("first") /\ d[Config!WebHash] # ""
        BY <2>1, <2>2, <2>3
      <4> HIDE DEF d, two
      <4>6. /\ {d[Config!WebEnabled], d[Config!WebAuth], d[Config!Insecure]} \subseteq BOOLEAN
            /\ d[Config!Bind] \in {"lan", "loopback"}
            /\ d[Config!WebEnabled] =>
                 /\ d[Config!Bind] \in {"lan", "loopback"}
                 /\ d[Config!Bind] = "loopback" \/ d[Config!WebAuth] \/ d[Config!Insecure]
            /\ ~d[Config!WebEnabled] \/ ~d[Config!WebAuth] \/ d[Config!WebHash] # ""
        BY <1>7, <2>1, <4>5
      <4>7. two.config = d /\ two.bound = Config!CheckedBind(d)
        <5>1. LET s == Config!Started(d, more, "second", outcome)
              IN /\ s.config = d /\ s.local = more /\ s.logged = {}
                 /\ s.bound = IF d[Config!WebEnabled] THEN Config!CheckedBind(d) ELSE "off"
                 /\ s.bound # "refused"
                 /\ s.bound = "quiet" /\ d[Config!Bind] = "lan" =>
                      d[Config!WebAuth] /\ d[Config!WebHash] # ""
          BY <4>6, Starting
        <5> QED
          BY <4>4, <4>5, <5>1
      <4>8. Config!CheckedBind(d) = "quiet"
        <5>1. CASE d[Config!Bind] = "lan"
          BY <4>5, <5>1 DEF Config!CheckedBind
        <5>2. CASE d[Config!Bind] = "loopback"
          BY <5>2 DEF Config!CheckedBind
        <5> QED
          BY <4>6, <5>1, <5>2
      <4> QED
        BY <2>2, <4>3, <4>5, <4>7, <4>8
    <3>2. CASE ~outcome.stored
      <4>1. one.local = local
        BY <2>2, <3>2
      <4>2. reloaded = l
        BY <4>1 DEF l
      <4> HIDE DEF reloaded
      <4>3. two = Config!Started(c, local, "second", outcome)
        BY <1>9, <4>1, <4>2
      <4>4. /\ two.bound = "quiet" /\ two.config = with("second") /\ two.logged = {"second"}
            /\ with("second")[Config!WebHash] = hash("second")
        <5>1. StartsAnew(c, local, "second", outcome)
          BY <1>7, <1>8, <1>11, <2>1, StartingAnew
        <5> QED
          BY <4>3, <5>1 DEF StartsAnew, with, hash
      <4> HIDE DEF two
      <4>5. two.bound = "quiet" /\ two.config = with("second") /\ two.logged = {"second"}
        BY <4>4
      <4>6. "second" \in one.logged \cup two.logged
        BY <4>5
      <4> QED
        BY <1>9, <4>2, <4>4, <4>5, <4>6
    <3> QED
      BY <3>1, <3>2
  <2> HIDE DEF two, reloaded
  <2>7. Starts
    BY <2>2, <2>5, <2>6 DEF hash
  <2> HIDE DEF Starts, Sources, again
  <2> QED
    BY <1>5, <1>6, <2>7
<1> QED
  BY <1>7, <1>10, <1>11

----
(* A cover on a panel *)

Sides == Nat \ {0}
IsPicture(panel, image, cfg) ==
    /\ {panel.w, panel.h, image.w, image.h} \subseteq Sides
    /\ cfg.rotation \in {0, 90, 180, 270} /\ cfg.margin \in Nat

LEMMA FrameMax ==
    ASSUME NEW a \in Int, NEW b \in Int
    PROVE  /\ Frame!Max({a, b}) = IF a <= b THEN b ELSE a
           /\ Frame!Min({a, b}) = IF a <= b THEN a ELSE b
BY Extremes DEF Frame!Max, Limit!Max, Frame!Min, Limit!Min

\* A quarter turn swaps the sides of the frame.
LEMMA TurnFacts ==
    ASSUME NEW panel, NEW image, NEW cfg, IsPicture(panel, image, cfg)
    PROVE  LET turned == cfg.rotation \in {90, 270}
           IN /\ Frame!Logical(panel, cfg) = IF turned THEN [w |-> panel.h, h |-> panel.w]
                                             ELSE [w |-> panel.w, h |-> panel.h]
              /\ turned <=> Frame!Turn(cfg)[1] = 0
              /\ turned <=> ~(cfg.rotation % 180 = 0)
<1>1. /\ 0 % 360 = 0 /\ 90 % 360 = 90 /\ 180 % 360 = 180 /\ 270 % 360 = 270
      /\ 0 % 180 = 0 /\ 90 % 180 = 90 /\ 180 % 180 = 0 /\ 270 % 180 = 90
  OBVIOUS
<1>2. panel.w \in Nat /\ panel.w >= 1 /\ panel.h \in Nat /\ panel.h >= 1
  BY DEF IsPicture, Sides
<1>3. Frame!Max({panel.w, 1}) = panel.w /\ Frame!Max({panel.h, 1}) = panel.h
  BY <1>2, FrameMax
<1>4. cfg.rotation \in {0, 90, 180, 270}
  BY DEF IsPicture
<1>5. cfg.rotation % 360 = cfg.rotation /\ (cfg.rotation \in {90, 270} <=> ~(cfg.rotation % 180 = 0))
  BY <1>1, <1>4
<1>6. cfg.rotation \in {90, 270} <=> Frame!Turn(cfg)[1] = 0
  <2>1. CASE cfg.rotation = 0
    BY <1>5, <2>1 DEF Frame!Turn
  <2>2. CASE cfg.rotation = 90
    BY <1>5, <2>2 DEF Frame!Turn
  <2>3. CASE cfg.rotation = 180
    BY <1>5, <2>3 DEF Frame!Turn
  <2>4. CASE cfg.rotation = 270
    BY <1>5, <2>4 DEF Frame!Turn
  <2> QED
    BY <1>4, <2>1, <2>2, <2>3, <2>4
<1>7. Frame!Logical(panel, cfg) = IF cfg.rotation \in {90, 270} THEN [w |-> panel.h, h |-> panel.w]
                                  ELSE [w |-> panel.w, h |-> panel.h]
  BY <1>3, <1>5 DEF Frame!Logical
<1> QED
  BY <1>5, <1>6, <1>7

\* The area has two sides, which lie within the frame's.
LEMMA AreaFacts ==
    ASSUME NEW frame, frame.w \in Sides, frame.h \in Sides, NEW cfg, cfg.margin \in Nat
    PROVE  \E aw, ah \in Sides :
             /\ Frame!Area(frame, cfg) = [w |-> Frame!F(aw, 1), h |-> Frame!F(ah, 1)]
             /\ aw <= 100 * frame.w /\ ah <= 100 * frame.h
<1> DEFINE left == 100 - 2 * Frame!Min({Frame!Max({cfg.margin, 0}), 45})
           w == frame.w * left
           h == frame.h * left
<1>1. frame.w \in Nat /\ frame.w >= 1 /\ frame.h \in Nat /\ frame.h >= 1
  BY DEF Sides
<1>2. left \in Nat /\ left >= 1 /\ left <= 100
  <2> DEFINE margin == Frame!Max({cfg.margin, 0})
             kept == Frame!Min({margin, 45})
  <2>1. margin \in Nat
    BY FrameMax
  <2> HIDE DEF margin
  <2>2. kept = IF margin <= 45 THEN margin ELSE 45
    BY <2>1, FrameMax
  <2> HIDE DEF kept
  <2>3. left = 100 - 2 * kept
    BY DEF kept, margin
  <2> QED
    BY <2>1, <2>2, <2>3
<1> HIDE DEF left
<1>3. \A a, b \in Nat : a >= 1 /\ b >= 1 /\ b <= 100 => a * b \in Nat /\ a * b >= 1 /\ a * b <= 100 * a
  OBVIOUS
<1>4. w \in Sides /\ w <= 100 * frame.w /\ h \in Sides /\ h <= 100 * frame.h
  BY <1>1, <1>2, <1>3 DEF Sides
<1>5. Frame!Area(frame, cfg) =
        IF cfg.square
        THEN [w |-> Frame!Shorter(Frame!F(w, 1), Frame!F(h, 1)), h |-> Frame!Shorter(Frame!F(w, 1), Frame!F(h, 1))]
        ELSE [w |-> Frame!F(w, 1), h |-> Frame!F(h, 1)]
  BY DEF Frame!Area, Frame!F, left
<1> HIDE DEF w, h
<1>6. Frame!Shorter(Frame!F(w, 1), Frame!F(h, 1)) = Frame!F(IF w > h THEN h ELSE w, 1)
  <2>1. Frame!Exceeds(Frame!F(w, 1), Frame!F(h, 1)) <=> w > h
    BY <1>4 DEF Frame!Exceeds, Frame!F, Sides
  <2> QED
    BY <2>1 DEF Frame!Shorter
<1>7. CASE cfg.square /\ w > h
  <2>1. h <= 100 * frame.w
    BY <1>1, <1>4, <1>7 DEF Sides
  <2> QED
    BY <1>4, <1>5, <1>6, <1>7, <2>1
<1>8. CASE cfg.square /\ ~(w > h)
  <2>1. w <= 100 * frame.h
    BY <1>1, <1>4, <1>8 DEF Sides
  <2> QED
    BY <1>4, <1>5, <1>6, <1>8, <2>1
<1>9. CASE ~cfg.square
  BY <1>4, <1>5, <1>9
<1> QED
  BY <1>7, <1>8, <1>9


\* What the fractions of a layout come to.
LEMMA Fractions ==
    ASSUME NEW a, NEW b, NEW c, NEW d
    PROVE  /\ Frame!Times(Frame!F(a, b), Frame!F(c, d)) = Frame!F(a * c, b * d)
           /\ Frame!Over(Frame!F(a, b), Frame!F(c, d)) = Frame!F(a * d, b * c)
           /\ Frame!Exceeds(Frame!F(a, b), Frame!F(c, d)) <=> a * d > c * b
           /\ Frame!Same(Frame!F(a, b), Frame!F(c, d)) <=> a * d = c * b
           /\ Frame!F(a, b).n = a /\ Frame!F(a, b).d = b
BY DEF Frame!Times, Frame!Over, Frame!Exceeds, Frame!Same, Frame!F

LEMMA Products == \A x, y \in Sides : x * y \in Sides /\ x * 1 = x /\ 1 * x = x
BY DEF Sides

\* A quad a / b wide and c / d high, which shows e / f of the picture's width and
\* g / k of its height, fits an area and does not stretch the picture.
FitsArea(aw, ah, iw, ih, a, b, c, d, e, f, g, k) ==
    /\ {a, b, c, d, e, f, g, k} \subseteq Sides
    /\ a <= aw * b /\ c <= ah * d /\ (a = aw * b \/ c = ah * d)
    /\ e <= f /\ g <= k /\ (e = f \/ g = k)
    /\ (a * d) * (f * (g * ih)) = ((e * iw) * k) * (b * c)

LEMMA CoverFacts ==
    ASSUME NEW aw \in Sides, NEW ah \in Sides, NEW iw \in Sides, NEW ih \in Sides
    PROVE  \E e, f, g, k \in Sides :
             /\ Frame!Crop(Frame!F(iw, ih), Frame!F(aw, ah)) = <<Frame!F(e, f), Frame!F(g, k)>>
             /\ FitsArea(aw, ah, iw, ih, aw, 1, ah, 1, e, f, g, k)
<1>1. 1 \in Sides /\ aw * ih \in Sides /\ ah * iw \in Sides /\ iw * ah \in Sides /\ ih * aw \in Sides
  BY Products DEF Sides
<1>2. \A x, y \in Sides : x * y = y * x
  BY DEF Sides
<1> DEFINE aspect == Frame!F(iw, ih)
           shape == Frame!F(aw, ah)
<1>3. /\ Frame!Exceeds(aspect, shape) <=> iw * ah > aw * ih
      /\ Frame!Over(shape, aspect) = Frame!F(aw * ih, ah * iw)
      /\ Frame!Over(aspect, shape) = Frame!F(iw * ah, ih * aw)
  BY Fractions
<1>4. Frame!Crop(aspect, shape) = IF Frame!Exceeds(aspect, shape)
                                  THEN <<Frame!Over(shape, aspect), Frame!F(1, 1)>>
                                  ELSE <<Frame!F(1, 1), Frame!Over(aspect, shape)>>
  BY DEF Frame!Crop, Frame!One
<1> HIDE DEF aspect, shape
<1>5. CASE iw * ah > aw * ih
  <2>1. Frame!Crop(aspect, shape) = <<Frame!F(aw * ih, ah * iw), Frame!F(1, 1)>>
    BY <1>5, <1>3, <1>4
  <2>2. (aw * 1) * ((ah * iw) * (1 * ih)) = (((aw * ih) * iw) * 1) * (1 * ah)
    BY DEF Sides
  <2>3. aw * ih <= ah * iw /\ 1 <= 1 /\ aw <= aw * 1 /\ ah <= ah * 1 /\ aw = aw * 1
    BY <1>1, <1>2, <1>5, Products DEF Sides
  <2>4. FitsArea(aw, ah, iw, ih, aw, 1, ah, 1, aw * ih, ah * iw, 1, 1)
    BY <1>1, <2>2, <2>3 DEF FitsArea
  <2> QED
    BY <1>1, <2>1, <2>4 DEF aspect, shape
<1>6. CASE ~(iw * ah > aw * ih)
  <2>1. Frame!Crop(aspect, shape) = <<Frame!F(1, 1), Frame!F(iw * ah, ih * aw)>>
    BY <1>6, <1>3, <1>4
  <2>2. (aw * 1) * (1 * ((iw * ah) * ih)) = ((1 * iw) * (ih * aw)) * (1 * ah)
    BY DEF Sides
  <2>3. iw * ah <= ih * aw /\ 1 <= 1 /\ aw <= aw * 1 /\ ah <= ah * 1 /\ aw = aw * 1
    BY <1>1, <1>2, <1>6, Products DEF Sides
  <2>4. FitsArea(aw, ah, iw, ih, aw, 1, ah, 1, 1, 1, iw * ah, ih * aw)
    BY <1>1, <2>2, <2>3 DEF FitsArea
  <2> QED
    BY <1>1, <2>1, <2>4 DEF aspect, shape
<1> QED
  BY <1>5, <1>6

LEMMA ContainFacts ==
    ASSUME NEW aw \in Sides, NEW ah \in Sides, NEW iw \in Sides, NEW ih \in Sides
    PROVE  \E a, b, c, d \in Sides :
             /\ Frame!Shrunk([w |-> Frame!F(aw, 1), h |-> Frame!F(ah, 1)], Frame!F(iw, ih)) =
                  [w |-> Frame!F(a, b), h |-> Frame!F(c, d)]
             /\ FitsArea(aw, ah, iw, ih, a, b, c, d, 1, 1, 1, 1)
<1> DEFINE area == [w |-> Frame!F(aw, 1), h |-> Frame!F(ah, 1)]
<1>1. 1 \in Sides /\ aw * ih \in Sides /\ ah * iw \in Sides /\ iw * ah \in Sides
  BY Products DEF Sides
<1>2. \A x, y \in Sides : x * y = y * x
  BY DEF Sides
<1>3. Frame!Over(area.w, area.h) = Frame!F(aw, ah)
  BY Fractions, Products
<1>4. CASE iw * ah > aw * ih
  <2>1. Frame!Shrunk(area, Frame!F(iw, ih)) = [w |-> Frame!F(aw, 1), h |-> Frame!F(aw * ih, iw)]
    BY <1>3, <1>4, Fractions, Products DEF Frame!Shrunk
  <2>2. (aw * iw) * (1 * (1 * ih)) = ((1 * iw) * 1) * (1 * (aw * ih))
    BY DEF Sides
  <2>3. aw * ih <= ah * iw /\ 1 <= 1 /\ aw <= aw * 1 /\ aw = aw * 1
    BY <1>1, <1>2, <1>4, Products DEF Sides
  <2>4. FitsArea(aw, ah, iw, ih, aw, 1, aw * ih, iw, 1, 1, 1, 1)
    BY <1>1, <2>2, <2>3 DEF FitsArea
  <2> QED
    BY <1>1, <2>1, <2>4
<1>5. CASE ~(iw * ah > aw * ih)
  <2>1. Frame!Shrunk(area, Frame!F(iw, ih)) = [w |-> Frame!F(ah * iw, ih), h |-> Frame!F(ah, 1)]
    BY <1>3, <1>5, Fractions, Products DEF Frame!Shrunk
  <2>2. ((ah * iw) * 1) * (1 * (1 * ih)) = ((1 * iw) * 1) * (ih * ah)
    BY DEF Sides
  <2>3. ah * iw <= aw * ih /\ 1 <= 1 /\ ah <= ah * 1 /\ ah = ah * 1
    BY <1>1, <1>2, <1>5, Products DEF Sides
  <2>4. FitsArea(aw, ah, iw, ih, ah * iw, ih, ah, 1, 1, 1, 1, 1)
    BY <1>1, <2>2, <2>3 DEF FitsArea
  <2> QED
    BY <1>1, <2>1, <2>4
<1> QED
  BY <1>4, <1>5

\* What is placed: a quad in the area, and the part of the picture on it.
IsPlaced(p, frame, area, image) ==
    \E aw, ah, a, b, c, d, e, f, g, k \in Sides :
      /\ frame.w \in Sides /\ frame.h \in Sides
      /\ aw <= 100 * frame.w /\ ah <= 100 * frame.h
      /\ area = [w |-> Frame!F(aw, 1), h |-> Frame!F(ah, 1)]
      /\ p.quad = [w |-> Frame!F(a, b), h |-> Frame!F(c, d)]
      /\ p.uv = <<Frame!F(e, f), Frame!F(g, k)>>
      /\ p.half = [w |-> Frame!F(a, b * (100 * frame.w)), h |-> Frame!F(c, d * (100 * frame.h))]
      /\ \A i \in {1, 2} : p.offset[i] = Frame!F(p.uv[i].d - p.uv[i].n, 2 * p.uv[i].d)
      /\ p.background <=> Frame!Exceeds(Frame!F(1, 1), p.half.w)
                          \/ Frame!Exceeds(Frame!F(1, 1), p.half.h)
      /\ FitsArea(aw, ah, image.w, image.h, a, b, c, d, e, f, g, k)

LEMMA PlacedFacts ==
    ASSUME NEW panel, NEW image, NEW cfg, IsPicture(panel, image, cfg)
    PROVE  IsPlaced(Frame!Placed(panel, image, cfg), Frame!Logical(panel, cfg),
                    Frame!Area(Frame!Logical(panel, cfg), cfg), image)
<1> DEFINE p == Frame!Placed(panel, image, cfg)
           frame == Frame!Logical(panel, cfg)
           area == Frame!Area(frame, cfg)
           aspect == Frame!F(Frame!Max({image.w, 1}), Frame!Max({image.h, 1}))
           quad == IF cfg.cover THEN area ELSE Frame!Shrunk(area, aspect)
           uv == IF cfg.cover THEN Frame!Crop(aspect, Frame!Over(area.w, area.h))
                 ELSE <<Frame!F(1, 1), Frame!F(1, 1)>>
           half == [w |-> Frame!Over(quad.w, Frame!F(100 * frame.w, 1)),
                    h |-> Frame!Over(quad.h, Frame!F(100 * frame.h, 1))]
<1>1. frame.w \in Sides /\ frame.h \in Sides
  BY TurnFacts DEF IsPicture
<1>2. cfg.margin \in Nat /\ image.w \in Sides /\ image.h \in Sides
  BY DEF IsPicture
<1>3. Frame!Max({image.w, 1}) = image.w /\ Frame!Max({image.h, 1}) = image.h
  BY <1>2, FrameMax DEF Sides
<1>4. aspect = Frame!F(image.w, image.h)
  BY <1>3
<1>5. p = [quad |-> quad, half |-> half, uv |-> uv,
           offset |-> [i \in {1, 2} |-> Frame!F(uv[i].d - uv[i].n, 2 * uv[i].d)],
           background |-> Frame!Exceeds(Frame!F(1, 1), half.w) \/ Frame!Exceeds(Frame!F(1, 1), half.h)]
  BY DEF Frame!Placed, Frame!One, Frame!Pixels
<1>6. PICK aw, ah \in Sides : /\ area = [w |-> Frame!F(aw, 1), h |-> Frame!F(ah, 1)]
                              /\ aw <= 100 * frame.w /\ ah <= 100 * frame.h
  BY <1>1, <1>2, AreaFacts
<1>7. Frame!Over(area.w, area.h) = Frame!F(aw, ah)
  BY <1>6, Fractions, Products
<1> HIDE DEF p, frame, area, aspect
<1>8. \E a, b, c, d, e, f, g, k \in Sides :
        /\ quad = [w |-> Frame!F(a, b), h |-> Frame!F(c, d)]
        /\ uv = <<Frame!F(e, f), Frame!F(g, k)>>
        /\ FitsArea(aw, ah, image.w, image.h, a, b, c, d, e, f, g, k)
  <2>0. 1 \in Sides
    BY DEF Sides
  <2>1. CASE cfg.cover
    <3>1. PICK e, f, g, k \in Sides :
            /\ Frame!Crop(aspect, Frame!F(aw, ah)) = <<Frame!F(e, f), Frame!F(g, k)>>
            /\ FitsArea(aw, ah, image.w, image.h, aw, 1, ah, 1, e, f, g, k)
      BY <1>2, <1>4, <1>6, CoverFacts
    <3>2. quad = [w |-> Frame!F(aw, 1), h |-> Frame!F(ah, 1)] /\ uv = <<Frame!F(e, f), Frame!F(g, k)>>
      BY <1>6, <1>7, <2>1, <3>1
    <3> HIDE DEF quad, uv
    <3> QED
      BY <2>0, <3>1, <3>2
  <2>2. CASE ~cfg.cover
    <3>1. PICK a, b, c, d \in Sides :
            /\ Frame!Shrunk(area, aspect) = [w |-> Frame!F(a, b), h |-> Frame!F(c, d)]
            /\ FitsArea(aw, ah, image.w, image.h, a, b, c, d, 1, 1, 1, 1)
      BY <1>2, <1>4, <1>6, ContainFacts
    <3>2. quad = [w |-> Frame!F(a, b), h |-> Frame!F(c, d)] /\ uv = <<Frame!F(1, 1), Frame!F(1, 1)>>
      BY <2>2, <3>1
    <3> HIDE DEF quad, uv
    <3> QED
      BY <2>0, <3>1, <3>2
  <2> QED
    BY <2>1, <2>2
<1> HIDE DEF quad, uv
<1>9. PICK a, b, c, d, e, f, g, k \in Sides :
        /\ quad = [w |-> Frame!F(a, b), h |-> Frame!F(c, d)]
        /\ uv = <<Frame!F(e, f), Frame!F(g, k)>>
        /\ FitsArea(aw, ah, image.w, image.h, a, b, c, d, e, f, g, k)
  BY <1>8
<1>10. half = [w |-> Frame!F(a, b * (100 * frame.w)), h |-> Frame!F(c, d * (100 * frame.h))]
  <2>1. a * 1 = a /\ c * 1 = c
    BY <1>9, Products
  <2>2. quad.w = Frame!F(a, b) /\ quad.h = Frame!F(c, d)
    BY <1>9
  <2>3. /\ Frame!Over(Frame!F(a, b), Frame!F(100 * frame.w, 1)) = Frame!F(a * 1, b * (100 * frame.w))
        /\ Frame!Over(Frame!F(c, d), Frame!F(100 * frame.h, 1)) = Frame!F(c * 1, d * (100 * frame.h))
    BY DEF Frame!Times, Frame!Over, Frame!Exceeds, Frame!Same, Frame!F
  <2> QED
    BY <2>1, <2>2, <2>3
<1> HIDE DEF half
<1>11. /\ p.quad = quad /\ p.uv = uv /\ p.half = half
       /\ \A i \in {1, 2} : p.offset[i] = Frame!F(p.uv[i].d - p.uv[i].n, 2 * p.uv[i].d)
       /\ p.background <=> Frame!Exceeds(Frame!F(1, 1), p.half.w)
                           \/ Frame!Exceeds(Frame!F(1, 1), p.half.h)
  BY <1>5
<1>12. IsPlaced(p, frame, area, image)
  BY <1>1, <1>6, <1>9, <1>10, <1>11 DEF IsPlaced
<1> QED
  BY <1>12 DEF p, frame, area

\* Times and comparisons of fractions of the panel.
LEMMA GlassFacts ==
    ASSUME NEW a \in Sides, NEW b \in Sides, NEW w \in Sides, NEW aw \in Sides, a <= aw * b, aw <= 100 * w
    PROVE  /\ Frame!Same(Frame!Times(Frame!F(a, b * (100 * w)), Frame!Pixels(w)), Frame!F(a, b))
           /\ ~Frame!Exceeds(Frame!F(a, b), Frame!F(aw, 1))
           /\ Frame!Same(Frame!F(a, b), Frame!F(aw, 1)) <=> a = aw * b
           /\ Frame!Exceeds(Frame!F(1, 1), Frame!F(a, b * (100 * w)))
                <=> ~Frame!Same(Frame!F(a, b), Frame!Pixels(w))
<1> DEFINE whole == 100 * w
<1>1. whole \in Sides /\ aw <= whole
  BY DEF Sides
<1>2. Frame!Pixels(w) = Frame!F(whole, 1)
  BY DEF Frame!Pixels
<1> HIDE DEF whole
<1>3. (a * whole) * b = a * ((b * whole) * 1)
  BY <1>1 DEF Sides
<1>4. a * 1 = a /\ 1 * (b * whole) = b * whole /\ b * whole = whole * b
  BY <1>1 DEF Sides
<1>5. aw * b <= whole * b
  BY <1>1 DEF Sides
<1>6. b * whole \in Sides /\ aw * b \in Sides /\ whole * b \in Sides
  BY <1>1, Products
<1>7. a <= whole * b
  BY <1>5, <1>6 DEF Sides
<1>8. Frame!Times(Frame!F(a, b * whole), Frame!F(whole, 1)) = Frame!F(a * whole, (b * whole) * 1)
  BY Fractions
<1>9. /\ Frame!Same(Frame!F(a * whole, (b * whole) * 1), Frame!F(a, b))
         <=> (a * whole) * b = a * ((b * whole) * 1)
      /\ Frame!Exceeds(Frame!F(a, b), Frame!F(aw, 1)) <=> a * 1 > aw * b
      /\ Frame!Same(Frame!F(a, b), Frame!F(aw, 1)) <=> a * 1 = aw * b
      /\ Frame!Exceeds(Frame!F(1, 1), Frame!F(a, b * whole)) <=> 1 * (b * whole) > a * 1
      /\ Frame!Same(Frame!F(a, b), Frame!F(whole, 1)) <=> a * 1 = whole * b
  BY Fractions
<1>10. ~(a > aw * b) /\ (b * whole > a <=> a # whole * b)
  BY <1>4, <1>6, <1>7 DEF Sides
<1> QED
  BY <1>2, <1>3, <1>4, <1>8, <1>9, <1>10 DEF whole

LEMMA PictureFits ==
    ASSUME NEW panel, NEW image, NEW cfg, IsPicture(panel, image, cfg)
    PROVE  Frame!NeverStretched(panel, image, cfg)
<1> DEFINE p == Frame!Placed(panel, image, cfg)
           frame == Frame!Logical(panel, cfg)
           area == Frame!Area(frame, cfg)
           glass == Frame!OnGlass(panel, p.half, cfg)
           upright == cfg.rotation % 180 = 0
           shown == [w |-> Frame!Times(p.uv[1], Frame!F(image.w, 1)),
                     h |-> Frame!Times(p.uv[2], Frame!F(image.h, 1))]
<1>0. IsPlaced(p, frame, area, image)
  BY PlacedFacts
<1>2. image.w \in Sides /\ image.h \in Sides
  BY DEF IsPicture
<1>3. /\ cfg.rotation \in {90, 270} <=> ~upright
      /\ cfg.rotation \in {90, 270} <=> Frame!Turn(cfg)[1] = 0
      /\ cfg.rotation \in {90, 270} => frame.w = panel.h /\ frame.h = panel.w
      /\ ~(cfg.rotation \in {90, 270}) => frame.w = panel.w /\ frame.h = panel.h
  BY TurnFacts
<1>4. glass = [w |-> Frame!Times(IF Frame!Turn(cfg)[1] = 0 THEN p.half.h ELSE p.half.w, Frame!Pixels(panel.w)),
               h |-> Frame!Times(IF Frame!Turn(cfg)[1] = 0 THEN p.half.w ELSE p.half.h, Frame!Pixels(panel.h))]
  BY DEF Frame!OnGlass
<1>5. Frame!NeverStretched(panel, image, cfg) <=>
        /\ ~Frame!Exceeds(p.quad.w, area.w) /\ ~Frame!Exceeds(p.quad.h, area.h)
        /\ Frame!Same(p.quad.w, area.w) \/ Frame!Same(p.quad.h, area.h)
        /\ Frame!Same(Frame!Over(p.quad.w, p.quad.h), Frame!Over(shown.w, shown.h))
        /\ Frame!Same(glass.w, IF upright THEN p.quad.w ELSE p.quad.h)
        /\ Frame!Same(glass.h, IF upright THEN p.quad.h ELSE p.quad.w)
        /\ \A i \in {1, 2} : ~Frame!Exceeds(p.uv[i], Frame!F(1, 1)) /\ p.offset[i].n >= 0
        /\ Frame!Same(p.uv[1], Frame!F(1, 1)) \/ Frame!Same(p.uv[2], Frame!F(1, 1))
        /\ p.background <=> ~(Frame!Same(p.quad.w, Frame!Pixels(frame.w))
                              /\ Frame!Same(p.quad.h, Frame!Pixels(frame.h)))
  BY DEF Frame!NeverStretched, Frame!One
<1> HIDE DEF p, frame, area, glass, upright
<1>1. PICK aw, ah, a, b, c, d, e, f, g, k \in Sides :
        /\ frame.w \in Sides /\ frame.h \in Sides
        /\ aw <= 100 * frame.w /\ ah <= 100 * frame.h
        /\ area = [w |-> Frame!F(aw, 1), h |-> Frame!F(ah, 1)]
        /\ p.quad = [w |-> Frame!F(a, b), h |-> Frame!F(c, d)]
        /\ p.uv = <<Frame!F(e, f), Frame!F(g, k)>>
        /\ p.half = [w |-> Frame!F(a, b * (100 * frame.w)), h |-> Frame!F(c, d * (100 * frame.h))]
        /\ \A i \in {1, 2} : p.offset[i] = Frame!F(p.uv[i].d - p.uv[i].n, 2 * p.uv[i].d)
        /\ p.background <=> Frame!Exceeds(Frame!F(1, 1), p.half.w)
                            \/ Frame!Exceeds(Frame!F(1, 1), p.half.h)
        /\ FitsArea(aw, ah, image.w, image.h, a, b, c, d, e, f, g, k)
  BY <1>0 DEF IsPlaced
<1>6. /\ a <= aw * b /\ c <= ah * d /\ (a = aw * b \/ c = ah * d)
      /\ e <= f /\ g <= k /\ (e = f \/ g = k)
      /\ (a * d) * (f * (g * image.h)) = ((e * image.w) * k) * (b * c)
  BY <1>1 DEF FitsArea
<1>7. /\ Frame!Same(Frame!Times(p.half.w, Frame!Pixels(frame.w)), p.quad.w)
      /\ ~Frame!Exceeds(p.quad.w, area.w)
      /\ Frame!Same(p.quad.w, area.w) <=> a = aw * b
      /\ Frame!Exceeds(Frame!F(1, 1), p.half.w) <=> ~Frame!Same(p.quad.w, Frame!Pixels(frame.w))
  <2>1. frame.w \in Sides /\ aw \in Sides /\ a \in Sides /\ b \in Sides /\ a <= aw * b /\ aw <= 100 * frame.w
    BY <1>1, <1>6
  <2>2. p.half.w = Frame!F(a, b * (100 * frame.w)) /\ p.quad.w = Frame!F(a, b) /\ area.w = Frame!F(aw, 1)
    BY <1>1
  <2> QED
    BY <2>1, <2>2, GlassFacts
<1>8. /\ Frame!Same(Frame!Times(p.half.h, Frame!Pixels(frame.h)), p.quad.h)
      /\ ~Frame!Exceeds(p.quad.h, area.h)
      /\ Frame!Same(p.quad.h, area.h) <=> c = ah * d
      /\ Frame!Exceeds(Frame!F(1, 1), p.half.h) <=> ~Frame!Same(p.quad.h, Frame!Pixels(frame.h))
  <2>1. frame.h \in Sides /\ ah \in Sides /\ c \in Sides /\ d \in Sides /\ c <= ah * d /\ ah <= 100 * frame.h
    BY <1>1, <1>6
  <2>2. p.half.h = Frame!F(c, d * (100 * frame.h)) /\ p.quad.h = Frame!F(c, d) /\ area.h = Frame!F(ah, 1)
    BY <1>1
  <2> QED
    BY <2>1, <2>2, GlassFacts
<1>9. Frame!Same(p.quad.w, area.w) \/ Frame!Same(p.quad.h, area.h)
  BY <1>6, <1>7, <1>8
<1>10. Frame!Same(Frame!Over(p.quad.w, p.quad.h), Frame!Over(shown.w, shown.h))
  <2>1. p.uv[1] = Frame!F(e, f) /\ p.uv[2] = Frame!F(g, k)
        /\ p.quad.w = Frame!F(a, b) /\ p.quad.h = Frame!F(c, d)
    BY <1>1
  <2>2. f * 1 = f /\ k * 1 = k
    BY Products
  <2>3. shown.w = Frame!F(e * image.w, f) /\ shown.h = Frame!F(g * image.h, k)
    <3>1. /\ Frame!Times(Frame!F(e, f), Frame!F(image.w, 1)) = Frame!F(e * image.w, f * 1)
          /\ Frame!Times(Frame!F(g, k), Frame!F(image.h, 1)) = Frame!F(g * image.h, k * 1)
      BY DEF Frame!Times, Frame!Over, Frame!Exceeds, Frame!Same, Frame!F
    <3> QED
      BY <2>1, <2>2, <3>1
  <2> HIDE DEF shown
  <2>4. /\ Frame!Over(Frame!F(a, b), Frame!F(c, d)) = Frame!F(a * d, b * c)
        /\ Frame!Over(Frame!F(e * image.w, f), Frame!F(g * image.h, k)) =
             Frame!F((e * image.w) * k, f * (g * image.h))
    BY DEF Frame!Times, Frame!Over, Frame!Exceeds, Frame!Same, Frame!F
  <2>5. Frame!Same(Frame!F(a * d, b * c), Frame!F((e * image.w) * k, f * (g * image.h)))
          <=> (a * d) * (f * (g * image.h)) = ((e * image.w) * k) * (b * c)
    BY Fractions
  <2> QED
    BY <1>6, <2>1, <2>3, <2>4, <2>5
<1>11. /\ Frame!Same(glass.w, IF upright THEN p.quad.w ELSE p.quad.h)
       /\ Frame!Same(glass.h, IF upright THEN p.quad.h ELSE p.quad.w)
  <2>1. CASE upright
    BY <1>3, <1>4, <1>7, <1>8, <2>1
  <2>2. CASE ~upright
    BY <1>3, <1>4, <1>7, <1>8, <2>2
  <2> QED
    BY <2>1, <2>2
<1>12. /\ \A i \in {1, 2} : ~Frame!Exceeds(p.uv[i], Frame!F(1, 1)) /\ p.offset[i].n >= 0
       /\ Frame!Same(p.uv[1], Frame!F(1, 1)) \/ Frame!Same(p.uv[2], Frame!F(1, 1))
  <2>1. p.uv[1] = Frame!F(e, f) /\ p.uv[2] = Frame!F(g, k)
    BY <1>1
  <2>2. /\ Frame!Exceeds(Frame!F(e, f), Frame!F(1, 1)) <=> e * 1 > 1 * f
        /\ Frame!Exceeds(Frame!F(g, k), Frame!F(1, 1)) <=> g * 1 > 1 * k
        /\ Frame!Same(Frame!F(e, f), Frame!F(1, 1)) <=> e * 1 = 1 * f
        /\ Frame!Same(Frame!F(g, k), Frame!F(1, 1)) <=> g * 1 = 1 * k
        /\ Frame!F(e, f).n = e /\ Frame!F(e, f).d = f /\ Frame!F(g, k).n = g /\ Frame!F(g, k).d = k
        /\ Frame!F(f - e, 2 * f).n = f - e /\ Frame!F(k - g, 2 * k).n = k - g
    BY DEF Frame!Times, Frame!Over, Frame!Exceeds, Frame!Same, Frame!F
  <2>3. p.offset[1] = Frame!F(f - e, 2 * f) /\ p.offset[2] = Frame!F(k - g, 2 * k)
    BY <1>1, <2>1, <2>2
  <2>4. ~(e * 1 > 1 * f) /\ ~(g * 1 > 1 * k) /\ (e * 1 = 1 * f \/ g * 1 = 1 * k) /\ f - e >= 0 /\ k - g >= 0
    BY <1>6 DEF Sides
  <2> QED
    BY <2>1, <2>2, <2>3, <2>4
<1>13. p.background <=> ~(Frame!Same(p.quad.w, Frame!Pixels(frame.w))
                          /\ Frame!Same(p.quad.h, Frame!Pixels(frame.h)))
  BY <1>1, <1>7, <1>8
<1> QED
  BY <1>5, <1>7, <1>8, <1>9, <1>10, <1>11, <1>12, <1>13

----
(* What is picked to open a display *)

Members(s) == {s[i] : i \in DOMAIN s}
Wanted == {"auto", "highest", "explicit", "malformed"}    \* a mode

LEMMA ListFacts ==
    ASSUME NEW s, IsList(s)
    PROVE  /\ Len(s) \in Nat /\ DOMAIN s = 1 .. Len(s) /\ DOMAIN s \subseteq Nat
           /\ Display!ToSet(s) = Members(s)
           /\ s = << >> <=> DOMAIN s = {}
           /\ s # << >> => Len(s) >= 1 /\ Head(s) = s[1] /\ 1 \in DOMAIN s
<1>1. s \in Seq(Members(s))
  BY DEF IsList, Members
<1>2. Len(s) \in Nat /\ DOMAIN s = 1 .. Len(s)
  BY <1>1
<1>3. s = << >> <=> DOMAIN s = {}
  BY <1>1
<1>4. s # << >> => Len(s) >= 1 /\ Head(s) = s[1] /\ 1 \in DOMAIN s
  BY <1>1, <1>2, <1>3
<1> QED
  BY <1>2, <1>3, <1>4 DEF Display!ToSet, Members

\* What FirstOf finds, when the hits are known.
HitOf(s, hits) == IF hits = {} THEN Display!Nowhere ELSE Display!Found(s[Display!Min(hits)])

LEMMA FirstHit ==
    ASSUME NEW s, NEW hits, hits \subseteq Nat
    PROVE  \/ hits = {} /\ HitOf(s, hits) = << >>
           \/ \E i \in hits : HitOf(s, hits) = <<s[i]>>
<1>1. CASE hits = {}
  BY <1>1 DEF HitOf, Display!Nowhere
<1>2. CASE hits # {}
  <2>1. \E x \in hits : \A y \in hits : x =< y
    BY <1>2, LeastNumber
  <2>2. Display!Min(hits) \in hits
    BY <2>1 DEF Display!Min
  <2> QED
    BY <1>2, <2>2 DEF HitOf, Display!Found
<1> QED
  BY <1>1, <1>2

\* What is meant by a display that is asked for.
Meant(c, want) == c.connected /\ want.connector \in {Display!Auto, c.name}

LEMMA ConnectorFacts ==
    ASSUME NEW card, NEW want, IsCard(card)
    PROVE  LET got == Display!Connector(card, want.connector)
               all == card.connectors
           IN \/ got = << >> /\ \A i \in DOMAIN all : Meant(all[i], want) => all[i].modes = << >>
              \/ \E i \in DOMAIN all :
                   /\ got = <<all[i]>> /\ Meant(all[i], want)
                   /\ all[i].modes = << >> => want.connector = all[i].name
<1> DEFINE all == card.connectors
           lit == {i \in DOMAIN all : all[i].connected /\ all[i].modes # << >>}
           named == {i \in DOMAIN all : all[i].name = want.connector}
           first == HitOf(all, lit)
           that == HitOf(all, named)
<1>1. DOMAIN all \subseteq Nat
  BY ListFacts DEF IsCard
<1>2. Display!Connector(card, want.connector) =
        IF want.connector = Display!Auto THEN first
        ELSE IF that # Display!Nowhere /\ that[1].connected THEN that ELSE Display!Nowhere
  BY DEF Display!Connector, Display!FirstOf, HitOf
<1>3. lit \subseteq Nat /\ named \subseteq Nat
  BY <1>1
<1>4. \A i, j \in DOMAIN all : all[i].name = all[j].name => i = j
  BY DEF IsCard
<1>5. (lit = {} /\ first = << >>) \/ \E i \in lit : first = <<all[i]>>
  <2> HIDE DEF lit
  <2> QED
    BY <1>3, FirstHit
<1>6. (named = {} /\ that = << >>) \/ \E i \in named : that = <<all[i]>>
  <2> HIDE DEF named
  <2> QED
    BY <1>3, FirstHit
<1> HIDE DEF first, that
<1>7. CASE want.connector = Display!Auto
  <2>1. CASE lit = {} /\ first = << >>
    BY <1>2, <1>7, <2>1 DEF Meant
  <2>2. CASE \E i \in lit : first = <<all[i]>>
    BY <1>2, <1>7, <2>2 DEF Meant
  <2> QED
    BY <1>5, <2>1, <2>2
<1>8. CASE want.connector # Display!Auto
  <2>1. CASE named = {} /\ that = << >>
    BY <1>2, <1>8, <2>1 DEF Meant, Display!Nowhere
  <2>2. ASSUME NEW i \in named, that = <<all[i]>>
        PROVE  \/ Display!Connector(card, want.connector) = << >>
                  /\ \A j \in DOMAIN all : Meant(all[j], want) => all[j].modes = << >>
               \/ \E j \in DOMAIN all :
                    /\ Display!Connector(card, want.connector) = <<all[j]>> /\ Meant(all[j], want)
                    /\ all[j].modes = << >> => want.connector = all[j].name
    <3>1. that # Display!Nowhere /\ that[1] = all[i] /\ all[i].name = want.connector /\ i \in DOMAIN all
      BY <2>2 DEF Display!Nowhere
    <3>2. \A j \in DOMAIN all : all[j].name = want.connector => j = i
      BY <1>4, <3>1
    <3>3. CASE all[i].connected
      BY <1>2, <1>8, <2>2, <3>1, <3>3 DEF Meant
    <3>4. CASE ~all[i].connected
      BY <1>2, <1>8, <2>2, <3>1, <3>2, <3>4 DEF Meant, Display!Nowhere
    <3> QED
      BY <3>3, <3>4
  <2> QED
    BY <1>6, <2>1, <2>2
<1> QED
  BY <1>7, <1>8

\* A card that is not named is found unless no panel is on it.
LEMMA CardFacts ==
    ASSUME NEW card, NEW want, IsCard(card)
    PROVE  Display!Openable(card, want) <=>
             (want.card = Display!Auto =>
                \E c \in Members(card.connectors) : Display!HasPanel(c))
<1> DEFINE all == card.connectors
           lit == {i \in DOMAIN all : all[i].connected /\ all[i].modes # << >>}
<1>1. lit \subseteq Nat
  BY ListFacts DEF IsCard
<1>2. Display!Connector(card, Display!Auto) = HitOf(all, lit)
  BY DEF Display!Connector, Display!FirstOf, HitOf
<1>3. lit # {} <=> \E c \in Members(all) : Display!HasPanel(c)
  BY DEF Members, Display!HasPanel
<1> HIDE DEF lit
<1>4. HitOf(all, lit) # << >> <=> lit # {}
  <2>1. lit = {} => HitOf(all, lit) = << >>
    BY DEF HitOf, Display!Nowhere
  <2>2. lit # {} => \E i \in lit : HitOf(all, lit) = <<all[i]>>
    BY <1>1, FirstHit
  <2> QED
    BY <2>1, <2>2
<1> QED
  BY <1>2, <1>3, <1>4 DEF Display!Openable, Display!Nowhere

\* The CRTC an encoder offers.
LEMMA OfferFacts ==
    ASSUME NEW card, NEW e, IsList(card.crtcs), e.possible \subseteq Members(card.crtcs)
    PROVE  LET got == Display!CrtcOf(card, e)
           IN \/ got = << >> /\ e.crtc = 0 /\ e.possible = {}
              \/ \E x : got = <<x>> /\ ((x = e.crtc /\ e.crtc # 0) \/ x \in e.possible)
<1> DEFINE hits == {i \in DOMAIN card.crtcs : card.crtcs[i] \in e.possible}
           found == HitOf(card.crtcs, hits)
<1>1. Display!CrtcOf(card, e) = IF e.crtc # 0 THEN <<e.crtc>> ELSE found
  BY DEF Display!CrtcOf, Display!FirstOf, Display!Found, HitOf
<1>2. hits \subseteq Nat
  BY ListFacts
<1>3. hits = {} => e.possible = {}
  BY DEF Members
<1>4. \A i \in hits : card.crtcs[i] \in e.possible
  OBVIOUS
<1>5. (hits = {} /\ found = << >>) \/ \E i \in hits : found = <<card.crtcs[i]>>
  <2> HIDE DEF hits
  <2> QED
    BY <1>2, FirstHit
<1> HIDE DEF hits, found
<1> QED
  BY <1>1, <1>3, <1>4, <1>5

LEMMA CrtcFacts ==
    ASSUME NEW card, NEW c, IsCard(card), IsConnector(c, card)
    PROVE  LET got == Display!Crtc(card, c)
               es == c.encoders
           IN \/ got = << >> /\ \A i \in DOMAIN es : es[i].crtc = 0 /\ es[i].possible = {}
              \/ \E i \in DOMAIN es : \E x : got = <<x>> /\ ((x = es[i].crtc /\ es[i].crtc # 0) \/ x \in es[i].possible)
<1> DEFINE es == c.encoders
           choices == [i \in DOMAIN es |-> Display!CrtcOf(card, es[i])]
           hits == {i \in DOMAIN choices : choices[i] # Display!Nowhere}
           found == HitOf(choices, hits)
<1>1. Display!Crtc(card, c) = IF found = Display!Nowhere THEN Display!Nowhere ELSE found[1]
  BY DEF Display!Crtc, Display!FirstOf, HitOf
<1>2. DOMAIN choices = DOMAIN es /\ hits \subseteq Nat
  BY ListFacts DEF IsConnector
<1>3. ASSUME NEW i \in DOMAIN es
      PROVE  \/ choices[i] = << >> /\ es[i].crtc = 0 /\ es[i].possible = {}
             \/ \E x : choices[i] = <<x>> /\ ((x = es[i].crtc /\ es[i].crtc # 0) \/ x \in es[i].possible)
  <2>1. IsList(card.crtcs) /\ es[i].possible \subseteq Members(card.crtcs)
    BY DEF IsCard, IsConnector, Members
  <2>2. choices[i] = Display!CrtcOf(card, es[i])
    OBVIOUS
  <2> HIDE DEF choices
  <2> QED
    BY <2>1, <2>2, OfferFacts
<1>4. (hits = {} /\ found = << >>) \/ \E i \in hits : found = <<choices[i]>>
  <2> HIDE DEF hits
  <2> QED
    BY <1>2, FirstHit
<1>5. \A i \in DOMAIN es : i \in hits <=> choices[i] # << >>
  BY DEF Display!Nowhere
<1>6. hits \subseteq DOMAIN es
  OBVIOUS
<1> HIDE DEF hits, found, choices
<1>7. CASE hits = {} /\ found = << >>
  <2>1. Display!Crtc(card, c) = << >>
    BY <1>1, <1>7 DEF Display!Nowhere
  <2>2. \A i \in DOMAIN es : es[i].crtc = 0 /\ es[i].possible = {}
    BY <1>3, <1>5, <1>7
  <2> QED
    BY <2>1, <2>2
<1>8. ASSUME NEW i \in hits, found = <<choices[i]>>
      PROVE  \E x : Display!Crtc(card, c) = <<x>>
                    /\ ((x = es[i].crtc /\ es[i].crtc # 0) \/ x \in es[i].possible)
  <2>1. Display!Crtc(card, c) = choices[i] /\ choices[i] # << >>
    BY <1>1, <1>5, <1>6, <1>8 DEF Display!Nowhere
  <2> QED
    BY <1>3, <1>6, <2>1
<1> QED
  BY <1>4, <1>6, <1>7, <1>8

LEMMA PlaneFacts ==
    ASSUME NEW card, NEW crtc, IsCard(card)
    PROVE  LET got == Display!PrimaryPlane(card, crtc)
           IN \/ got = << >> /\ ~\E p \in Members(card.planes) : p.primary /\ crtc \in p.possible
              \/ \E p \in Members(card.planes) : got = <<p>> /\ p.primary /\ crtc \in p.possible
<1> DEFINE all == card.planes
           hits == {i \in DOMAIN all : crtc \in all[i].possible /\ all[i].primary}
           found == HitOf(all, hits)
<1>1. Display!PrimaryPlane(card, crtc) = found
  BY DEF Display!PrimaryPlane, Display!FirstOf, HitOf
<1>2. hits \subseteq Nat
  BY ListFacts DEF IsCard
<1>3. \A i \in DOMAIN all : i \in hits <=> all[i].primary /\ crtc \in all[i].possible
  OBVIOUS
<1>4. hits \subseteq DOMAIN all
  OBVIOUS
<1> HIDE DEF hits
<1>5. (hits = {} /\ found = << >>) \/ \E i \in hits : found = <<all[i]>>
  BY <1>2, FirstHit
<1> HIDE DEF found
<1> QED
  BY <1>1, <1>3, <1>4, <1>5 DEF Members

LEMMA FormatFacts ==
    ASSUME NEW card, IsCard(card)
    PROVE  \/ \E f : Display!EglConfig(card) = <<f>>
           \/ Members(card.formats) \cap {"XRGB8888", "ARGB8888"} = {}
<1> DEFINE all == card.formats
           plain == {i \in DOMAIN all : all[i] = "XRGB8888"}
           alpha == {i \in DOMAIN all : all[i] = "ARGB8888"}
           first == HitOf(all, plain)
           other == HitOf(all, alpha)
<1>1. Display!EglConfig(card) = IF first # Display!Nowhere THEN first ELSE other
  BY DEF Display!EglConfig, Display!FirstOf, HitOf
<1>2. plain \subseteq Nat /\ alpha \subseteq Nat
  BY ListFacts DEF IsCard
<1>3. plain = {} /\ alpha = {} => Members(all) \cap {"XRGB8888", "ARGB8888"} = {}
  BY DEF Members
<1> HIDE DEF plain, alpha
<1>4. (plain = {} /\ first = << >>) \/ \E i \in plain : first = <<all[i]>>
  BY <1>2, FirstHit
<1>5. (alpha = {} /\ other = << >>) \/ \E i \in alpha : other = <<all[i]>>
  BY <1>2, FirstHit
<1> HIDE DEF first, other
<1> QED
  BY <1>1, <1>3, <1>4, <1>5 DEF Display!Nowhere

\* The mode with the most pixels, and of these the one with the highest rate.
Highest(best, m) == IF Display!Surpasses(m, best) THEN m ELSE best

ModeFolds(f, start, rest) ==
    f = [s \in SUBSET DOMAIN rest |->
           IF s = {} THEN start
           ELSE LET x == Display!Max(s) IN Highest(f[s \ {x}], rest[x])]

HighestOf(modes) ==
    Display!FoldLeft(LAMBDA best, m : IF Display!Surpasses(m, best) THEN m ELSE best,
                     Head(modes), Tail(modes))

AreModes(S) == \A m \in S : m.w \in Nat /\ m.h \in Nat /\ m.hz \in Nat

LEMMA SurpassFacts ==
    ASSUME NEW S, AreModes(S)
    PROVE  /\ \A m \in S : Display!Surpasses(m, m)
           /\ \A m, n \in S : Display!Surpasses(m, n) \/ Display!Surpasses(n, m)
           /\ \A m, n, o \in S : Display!Surpasses(m, n) /\ Display!Surpasses(n, o) => Display!Surpasses(m, o)
<1>1. \A m \in S : Display!Area(m) \in Nat /\ m.hz \in Nat
  BY DEF AreModes, Display!Area
<1> QED
  BY <1>1 DEF Display!Surpasses

LEMMA ModeFoldExists ==
    ASSUME NEW S, NEW start \in S, NEW n \in Nat, NEW rest \in [1 .. n -> S]
    PROVE  \E f : ModeFolds(f, start, rest)
<1> DEFINE step == [p \in S \X S |-> Highest(p[1], p[2])]
           one(s) == Limit!Max(s)
<1>1. \A b, m \in S : Highest(b, m) \in S
  BY DEF Highest
<1>2. step \in [S \X S -> S]
  BY <1>1
<1>3. \A b, m \in S : step[b, m] = Highest(b, m)
  OBVIOUS
<1> HIDE DEF step
<1>4. PICK f \in [SUBSET DOMAIN rest -> S] : FoldsBy(f, step, start, rest)
  BY <1>2, FoldExists
<1>5. ASSUME NEW s \in SUBSET DOMAIN rest, s # {}
      PROVE  step[f[s \ {one(s)}], rest[one(s)]] = Highest(f[s \ {one(s)}], rest[one(s)])
  <2>1. one(s) \in 1 .. n
    BY <1>5, LastOf
  <2>2. rest[one(s)] \in S /\ f[s \ {one(s)}] \in S
    BY <2>1
  <2> HIDE DEF one
  <2> QED
    BY <1>3, <2>2
<1>6. \A s : Display!Max(s) = one(s)
  BY DEF Display!Max, Limit!Max
<1> HIDE DEF one
<1>7. f = [s \in SUBSET DOMAIN rest |->
             IF s = {} THEN start ELSE step[f[s \ {one(s)}], rest[one(s)]]]
  BY <1>4 DEF FoldsBy, one
<1>8. f = [s \in SUBSET DOMAIN rest |->
             IF s = {} THEN start ELSE Highest(f[s \ {one(s)}], rest[one(s)])]
  BY <1>5, <1>7
<1> QED
  BY <1>6, <1>8 DEF ModeFolds

LEMMA HighestFacts ==
    ASSUME NEW modes, IsList(modes), modes # << >>, AreModes(Members(modes))
    PROVE  HighestOf(modes) \in Members(modes)
           /\ \A m \in Members(modes) : Display!Surpasses(HighestOf(modes), m)
<1> DEFINE S == Members(modes)
           n == Len(modes) - 1
           rest == Tail(modes)
           it == CHOOSE f : ModeFolds(f, modes[1], rest)
<1>1. modes \in Seq(S) /\ n \in Nat /\ Head(modes) = modes[1] /\ modes[1] \in S
      /\ DOMAIN modes = 1 .. n + 1
  BY ListFacts DEF IsList, Members
<1>2. rest \in Seq(S) /\ Len(rest) = n /\ \A i \in 1 .. n : rest[i] = modes[i + 1]
  <2> HIDE DEF S
  <2> QED
    BY <1>1
<1>3. DOMAIN rest = 1 .. n /\ rest \in [1 .. n -> S]
  <2> HIDE DEF S, rest
  <2> QED
    BY <1>2
<1>4. HighestOf(modes) = it[DOMAIN rest]
  BY <1>1 DEF HighestOf, Display!FoldLeft, Display!MapThenFoldSet, ModeFolds, Highest
<1> HIDE DEF S, n, rest
<1>5. ModeFolds(it, modes[1], rest)
  BY <1>1, <1>3, ModeFoldExists
<1> HIDE DEF it
<1> DEFINE run == [k \in 0 .. n |-> it[1 .. k]]
           known == {k \in 0 .. n : run[k] \in S
                       /\ \A i \in 1 .. k + 1 : Display!Surpasses(run[k], modes[i])}
<1>6. /\ \A m \in S : Display!Surpasses(m, m)
      /\ \A m, o \in S : Display!Surpasses(m, o) \/ Display!Surpasses(o, m)
      /\ \A m, o, x \in S : Display!Surpasses(m, o) /\ Display!Surpasses(o, x) => Display!Surpasses(m, x)
  BY SurpassFacts DEF S
<1>7. \A i \in 1 .. n + 1 : modes[i] \in S
  BY <1>1 DEF S, Members
<1>8. run[0] = modes[1]
  <2>1. 1 .. 0 = {} /\ 0 \in 0 .. n
    BY <1>1
  <2> QED
    BY <1>5, <2>1 DEF ModeFolds
<1>9. 0 \in known
  <2>1. 0 \in 0 .. n /\ 1 .. 0 + 1 = {1}
    BY <1>1
  <2> HIDE DEF run
  <2> QED
    BY <1>1, <1>6, <1>8, <2>1
<1>10. ASSUME NEW k \in 0 .. n, k \in known, k + 1 <= n PROVE k + 1 \in known
  <2>1. 1 .. k + 1 \in SUBSET DOMAIN rest /\ 1 .. k + 1 # {} /\ k + 1 \in 0 .. n /\ k + 1 \in 1 .. n /\ k \in Nat
    <3>1. 1 .. k + 1 \subseteq 1 .. n /\ k + 1 \in 1 .. k + 1 /\ k + 1 \in 0 .. n /\ k + 1 \in 1 .. n /\ k \in Nat
      BY <1>1, <1>10
    <3> QED
      BY <1>3, <3>1
  <2>2. it[1 .. k + 1] = Highest(it[(1 .. k + 1) \ {Display!Max(1 .. k + 1)}], rest[Display!Max(1 .. k + 1)])
    BY <1>5, <2>1 DEF ModeFolds
  <2>3. Display!Max(1 .. k + 1) = k + 1 /\ (1 .. k + 1) \ {k + 1} = 1 .. (k + 1) - 1 /\ (k + 1) - 1 = k
    BY <1>1, <2>1, LastOfPrefix DEF Display!Max, Limit!Max
  <2>4. rest[k + 1] = modes[k + 2] /\ k + 2 \in 1 .. n + 1
    BY <1>1, <1>2, <2>1
  <2>5. run[k + 1] = Highest(run[k], modes[k + 2])
    BY <2>1, <2>2, <2>3, <2>4
  <2>6. run[k] \in S /\ \A i \in 1 .. k + 1 : Display!Surpasses(run[k], modes[i])
    BY <1>10
  <2>7. 1 .. (k + 1) + 1 = (1 .. k + 1) \cup {k + 2} /\ 1 .. k + 1 \subseteq 1 .. n + 1
    BY <1>1, <2>1
  <2> HIDE DEF run
  <2>8. CASE Display!Surpasses(modes[k + 2], run[k])
    <3>1. run[k + 1] = modes[k + 2] /\ modes[k + 2] \in S
      BY <1>7, <2>4, <2>5, <2>8 DEF Highest
    <3>2. \A i \in 1 .. k + 1 : Display!Surpasses(modes[k + 2], modes[i])
      BY <1>6, <1>7, <2>6, <2>7, <2>8, <3>1
    <3> QED
      BY <1>6, <2>1, <2>7, <3>1, <3>2
  <2>9. CASE ~Display!Surpasses(modes[k + 2], run[k])
    <3>1. run[k + 1] = run[k] /\ Display!Surpasses(run[k], modes[k + 2])
      BY <1>6, <1>7, <2>4, <2>5, <2>6, <2>9 DEF Highest
    <3> QED
      BY <2>1, <2>6, <2>7, <3>1
  <2> QED
    BY <2>8, <2>9
<1>11. n \in known
  <2> HIDE DEF known
  <2>1. 0 .. n \subseteq known
    BY <1>1, <1>9, <1>10, Induct
  <2> QED
    BY <1>1, <2>1
<1>12. HighestOf(modes) = run[n]
  <2>1. n \in 0 .. n
    BY <1>1
  <2> QED
    BY <1>3, <1>4, <2>1
<1>13. \A m \in S : \E i \in 1 .. n + 1 : m = modes[i]
  BY <1>1 DEF S, Members
<1> HIDE DEF run
<1> QED
  BY <1>11, <1>12, <1>13 DEF S

\* A mode is the one that was asked for.
IsTheMode(m, modes, want) ==
    CASE want.mode = "explicit" -> Display!Size(m) = <<want.w, want.h>> /\ want.hz \in {0, m.hz}
      [] want.mode = "highest" -> \A x \in Members(modes) : Display!Surpasses(m, x)
      [] OTHER -> m.preferred \/ \A x \in Members(modes) : ~x.preferred

LEMMA ModeFacts ==
    ASSUME NEW c, NEW want, IsList(c.modes), AreModes(Members(c.modes)), want.mode \in Wanted
    PROVE  LET got == Display!Mode(c, want)
               modes == c.modes
           IN \/ /\ got = << >>
                 /\ \/ modes = << >> \/ want.mode = "malformed"
                    \/ want.mode = "explicit" /\ \A m \in Members(modes) : ~Display!Asked(want, m)
              \/ \E m \in Members(modes) : got = <<m>> /\ IsTheMode(m, modes, want)
<1> DEFINE modes == c.modes
           liked == {i \in DOMAIN modes : modes[i].preferred}
           asked == {i \in DOMAIN modes : Display!Asked(want, modes[i])}
           first == HitOf(modes, liked)
           that == HitOf(modes, asked)
<1>1. Display!Mode(c, want) =
        CASE modes = << >> -> << >>
          [] modes # << >> /\ want.mode = "auto" ->
               IF first # << >> THEN first ELSE <<Head(modes)>>
          [] modes # << >> /\ want.mode = "highest" -> <<HighestOf(modes)>>
          [] modes # << >> /\ want.mode = "explicit" -> that
          [] OTHER -> << >>
  BY DEF Display!Mode, Display!FirstOf, Display!Nowhere, Display!Found, HitOf, HighestOf
<1>2. liked \subseteq Nat /\ asked \subseteq Nat /\ liked \subseteq DOMAIN modes /\ asked \subseteq DOMAIN modes
  BY ListFacts
<1>3. \A i \in DOMAIN modes : /\ i \in liked <=> modes[i].preferred
                              /\ i \in asked <=> Display!Asked(want, modes[i])
  OBVIOUS
<1> HIDE DEF liked, asked
<1>4. (liked = {} /\ first = << >>) \/ \E i \in liked : first = <<modes[i]>>
  BY <1>2, FirstHit
<1>5. (asked = {} /\ that = << >>) \/ \E i \in asked : that = <<modes[i]>>
  BY <1>2, FirstHit
<1> HIDE DEF first, that
<1>6. CASE modes = << >>
  BY <1>1, <1>6
<1>7. CASE modes # << >> /\ want.mode = "auto"
  <2>1. Display!Mode(c, want) = IF first # << >> THEN first ELSE <<Head(modes)>>
    BY <1>1, <1>7
  <2>2. CASE liked = {} /\ first = << >>
    <3>1. Head(modes) \in Members(modes) /\ \A x \in Members(modes) : ~x.preferred
      BY <1>3, <1>7, <2>2, ListFacts DEF Members
    <3>2. IsTheMode(Head(modes), modes, want)
      BY <1>7, <3>1 DEF IsTheMode
    <3> QED
      BY <2>1, <2>2, <3>1, <3>2
  <2>3. ASSUME NEW i \in liked, first = <<modes[i]>>
        PROVE  \E m \in Members(modes) : Display!Mode(c, want) = <<m>> /\ IsTheMode(m, modes, want)
    <3>1. modes[i] \in Members(modes) /\ modes[i].preferred
      BY <1>2, <1>3 DEF Members
    <3>2. IsTheMode(modes[i], modes, want)
      BY <1>7, <3>1 DEF IsTheMode
    <3> QED
      BY <2>1, <2>3, <3>1, <3>2
  <2> QED
    BY <1>4, <2>2, <2>3
<1>8. CASE modes # << >> /\ want.mode = "highest"
  <2>1. Display!Mode(c, want) = <<HighestOf(modes)>>
    BY <1>1, <1>8
  <2>2. HighestOf(modes) \in Members(modes)
        /\ \A x \in Members(modes) : Display!Surpasses(HighestOf(modes), x)
    BY <1>8, HighestFacts
  <2>3. IsTheMode(HighestOf(modes), modes, want)
    BY <1>8, <2>2 DEF IsTheMode
  <2> QED
    BY <2>1, <2>2, <2>3
<1>9. CASE modes # << >> /\ want.mode = "explicit"
  <2>1. Display!Mode(c, want) = that
    BY <1>1, <1>9
  <2>2. CASE asked = {} /\ that = << >>
    BY <1>3, <1>9, <2>1, <2>2 DEF Members
  <2>3. ASSUME NEW i \in asked, that = <<modes[i]>>
        PROVE  \E m \in Members(modes) : Display!Mode(c, want) = <<m>> /\ IsTheMode(m, modes, want)
    <3>1. modes[i] \in Members(modes) /\ Display!Asked(want, modes[i])
      BY <1>2, <1>3 DEF Members
    <3>2. IsTheMode(modes[i], modes, want)
      BY <1>9, <3>1 DEF IsTheMode, Display!Asked
    <3> QED
      BY <2>1, <2>3, <3>1, <3>2
  <2> QED
    BY <1>5, <2>2, <2>3
<1>10. CASE modes # << >> /\ want.mode = "malformed"
  BY <1>1, <1>10
<1> QED
  BY <1>6, <1>7, <1>8, <1>9, <1>10 DEF Wanted

\* Somebody who is master for four and a half seconds is waited for.
LEMMA MasterFacts ==
    ASSUME NEW held \in Nat, held <= 4500
    PROVE  Display!BecomesMaster(held)
<1> DEFINE W == Display!WaitedBefore
           wait(a, before) == IF a = 0 THEN 0 ELSE before + Display!Backoff(a - 1)
           listed(a) == IF a = 0 THEN 0 ELSE IF a = 1 THEN 50 ELSE IF a = 2 THEN 150 ELSE
                        IF a = 3 THEN 350 ELSE 750 + 800 * (a - 4)
           table == [a \in 0 .. 10 |-> listed(a)]
<1>1. \A a \in 0 .. 9 : Display!Backoff(a) = IF a = 0 THEN 50 ELSE IF a = 1 THEN 100 ELSE
                                             IF a = 2 THEN 200 ELSE IF a = 3 THEN 400 ELSE 800
  <2> TAKE a \in 0 .. 9
  <2> DEFINE power == Display!Min({a, 4})
  <2>1. power = IF a <= 4 THEN a ELSE 4
    BY Extremes DEF Display!Min, Limit!Min
  <2> HIDE DEF power
  <2>2. Display!Backoff(a) = Display!Min({50 * 2 ^ power, 1000})
    BY DEF Display!Backoff, power
  <2>3. 2 ^ power = IF a = 0 THEN 1 ELSE IF a = 1 THEN 2 ELSE IF a = 2 THEN 4 ELSE IF a = 3 THEN 8 ELSE 16
    <3>1. 2 ^ 0 = 1 /\ 2 ^ 1 = 2 /\ 2 ^ 2 = 4 /\ 2 ^ 3 = 8 /\ 2 ^ 4 = 16
      OBVIOUS
    <3>2. CASE power = 0 /\ a = 0
      BY <3>1, <3>2
    <3>3. CASE power = 1 /\ a = 1
      BY <3>1, <3>3
    <3>4. CASE power = 2 /\ a = 2
      BY <3>1, <3>4
    <3>5. CASE power = 3 /\ a = 3
      BY <3>1, <3>5
    <3>6. CASE power = 4 /\ a >= 4
      BY <3>1, <3>6
    <3> QED
      BY <2>1, <3>2, <3>3, <3>4, <3>5, <3>6
  <2>4. \A x \in Nat : Display!Min({x, 1000}) = IF x <= 1000 THEN x ELSE 1000
    BY Extremes DEF Display!Min, Limit!Min
  <2> QED
    BY <2>2, <2>3, <2>4
<1>2. table = [a \in 0 .. 10 |-> wait(a, table[a - 1])]
  <2>1. ASSUME NEW a \in 0 .. 10 PROVE listed(a) = wait(a, table[a - 1])
    <3>1. CASE a = 0
      BY <3>1
    <3>2. CASE a # 0
      <4>1. a - 1 \in 0 .. 9 /\ a - 1 \in 0 .. 10 /\ table[a - 1] = listed(a - 1)
        BY <3>2
      <4>2. listed(a) = listed(a - 1) + Display!Backoff(a - 1)
        BY <1>1, <3>2, <4>1
      <4> HIDE DEF listed, table
      <4> QED
        BY <3>2, <4>1, <4>2
    <3> QED
      BY <3>1, <3>2
  <2> HIDE DEF wait
  <2> QED
    BY <2>1
<1> HIDE DEF table
<1>3. W = [a \in 0 .. 10 |-> wait(a, W[a - 1])]
  BY <1>2 DEF Display!WaitedBefore, Display!MasterAttempts
<1> HIDE DEF W
<1>4. /\ W[0] = 0 /\ W[1] = W[0] + 50 /\ W[2] = W[1] + 100 /\ W[3] = W[2] + 200 /\ W[4] = W[3] + 400
      /\ W[5] = W[4] + 800 /\ W[6] = W[5] + 800 /\ W[7] = W[6] + 800 /\ W[8] = W[7] + 800
      /\ W[9] = W[8] + 800
  BY <1>1, <1>3
<1>5. W[9] = 4750
  BY <1>4
<1> QED
  BY <1>5 DEF Display!BecomesMaster, Display!MasterAttempts, W

\* The parts of a display that is opened on a connector; and why there are none.
LEMMA AssembledFacts ==
    ASSUME NEW card, NEW want, NEW c, IsCard(card), IsConnector(c, card), want.mode \in Wanted
    PROVE  LET got == Display!Assembled(card, c, want)
               modes == c.modes
           IN \/ /\ got = << >>
                 /\ \/ card.missing # {} \/ ~Display!Usable(card, c)
                    \/ modes = << >> \/ want.mode = "malformed"
                    \/ want.mode = "explicit" /\ \A m \in Members(modes) : ~Display!Asked(want, m)
              \/ \E d : /\ got = <<d>> /\ d.connector = c
                        /\ d.mode \in Members(modes) /\ IsTheMode(d.mode, modes, want)
                        /\ \E e \in Members(c.encoders) : d.crtc = e.crtc \/ d.crtc \in e.possible
                        /\ d.plane.primary /\ d.crtc \in d.plane.possible
<1> DEFINE modes == c.modes
           es == c.encoders
           mode == Display!Mode(c, want)
           crtc == Display!Crtc(card, c)
           plane == Display!PrimaryPlane(card, crtc[1])
           config == Display!EglConfig(card)
           d == [connector |-> c, mode |-> mode[1], crtc |-> crtc[1],
                 plane |-> plane[1], format |-> config[1]]
<1>1. Display!Assembled(card, c, want) =
        IF \/ mode = << >> \/ crtc = << >> \/ plane = << >> \/ config = << >>
           \/ card.missing \cap Display!NeededProperties # {}
        THEN << >> ELSE <<d>>
  BY DEF Display!Assembled, Display!Nowhere, Display!Found
<1>2. \/ /\ mode = << >>
         /\ \/ modes = << >> \/ want.mode = "malformed"
            \/ want.mode = "explicit" /\ \A m \in Members(modes) : ~Display!Asked(want, m)
      \/ \E m \in Members(modes) : mode = <<m>> /\ IsTheMode(m, modes, want)
  <2>1. IsList(modes) /\ AreModes(Members(modes))
    BY DEF IsConnector, AreModes, Members
  <2> QED
    BY <2>1, ModeFacts
<1>3. \/ crtc = << >> /\ \A i \in DOMAIN es : es[i].crtc = 0 /\ es[i].possible = {}
      \/ \E i \in DOMAIN es : \E x : crtc = <<x>> /\ ((x = es[i].crtc /\ es[i].crtc # 0) \/ x \in es[i].possible)
  BY CrtcFacts
<1>4. \/ plane = << >> /\ ~\E p \in Members(card.planes) : p.primary /\ crtc[1] \in p.possible
      \/ \E p \in Members(card.planes) : plane = <<p>> /\ p.primary /\ crtc[1] \in p.possible
  BY PlaneFacts
<1>5. (\E f : config = <<f>>) \/ Members(card.formats) \cap {"XRGB8888", "ARGB8888"} = {}
  BY FormatFacts
<1>6. Display!Usable(card, c) =>
        /\ \E i \in DOMAIN es : es[i].crtc # 0 \/ es[i].possible # {}
        /\ \A i \in DOMAIN es : \A x \in es[i].possible \cup ({es[i].crtc} \ {0}) :
             \E p \in Members(card.planes) : p.primary /\ x \in p.possible
        /\ Members(card.formats) \cap {"XRGB8888", "ARGB8888"} # {}
  BY ListFacts DEF Display!Usable, IsCard
<1> HIDE DEF mode, crtc, plane, config
<1>7. CASE mode = << >>
  BY <1>1, <1>2, <1>7
<1>8. CASE crtc = << >>
  <2>1. ~Display!Usable(card, c)
    BY <1>3, <1>6, <1>8
  <2> QED
    BY <1>1, <1>8, <2>1
<1>9. CASE crtc # << >> /\ plane = << >>
  <2>1. PICK i \in DOMAIN es : \E x : crtc = <<x>> /\ ((x = es[i].crtc /\ es[i].crtc # 0) \/ x \in es[i].possible)
    BY <1>3, <1>9
  <2>2. crtc[1] \in es[i].possible \cup ({es[i].crtc} \ {0})
    BY <2>1
  <2>3. ~\E p \in Members(card.planes) : p.primary /\ crtc[1] \in p.possible
    BY <1>4, <1>9
  <2>4. ~Display!Usable(card, c)
    BY <1>6, <2>2, <2>3
  <2> QED
    BY <1>1, <1>9, <2>4
<1>10. CASE config = << >>
  <2>1. ~Display!Usable(card, c)
    BY <1>5, <1>6, <1>10
  <2> QED
    BY <1>1, <1>10, <2>1
<1>11. CASE card.missing \cap Display!NeededProperties # {}
  <2>1. card.missing # {}
    BY <1>11
  <2> QED
    BY <1>1, <1>11, <2>1
<1>12. CASE /\ mode # << >> /\ crtc # << >> /\ plane # << >> /\ config # << >>
            /\ card.missing \cap Display!NeededProperties = {}
  <2>1. Display!Assembled(card, c, want) = <<d>>
    BY <1>1, <1>12
  <2>2. PICK m \in Members(modes) : mode = <<m>> /\ IsTheMode(m, modes, want)
    BY <1>2, <1>12
  <2>3. PICK i \in DOMAIN es : es[i].crtc = crtc[1] \/ crtc[1] \in es[i].possible
    BY <1>3, <1>12
  <2>4. PICK p \in Members(card.planes) : plane = <<p>> /\ p.primary /\ crtc[1] \in p.possible
    BY <1>4, <1>12
  <2>5. d.connector = c /\ d.mode = m /\ d.crtc = crtc[1] /\ d.plane = p
    BY <2>2, <2>4
  <2>6. es[i] \in Members(es)
    BY DEF Members
  <2> HIDE DEF d
  <2>7. /\ d.mode \in Members(modes) /\ IsTheMode(d.mode, modes, want)
        /\ d.plane.primary /\ d.crtc \in d.plane.possible
    BY <2>2, <2>4, <2>5
  <2>8. \E e \in Members(es) : d.crtc = e.crtc \/ d.crtc \in e.possible
    BY <2>3, <2>5, <2>6
  <2> QED
    BY <2>1, <2>5, <2>7, <2>8
<1> QED
  BY <1>7, <1>8, <1>9, <1>10, <1>11, <1>12

LEMMA DisplayFits ==
    ASSUME NEW card, NEW want, IsCard(card), want.mode \in Wanted
    PROVE  Display!ThePipelineFits(card, want)
<1> DEFINE got == Display!Connector(card, want.connector)
           all == card.connectors
           display == Display!Assembled(card, got[1], want)
           o == Display!Opened(card, want)
           d == o.display
           openable == Display!Openable(card, want)
           ready == openable /\ Display!BecomesMaster(card.held)
<1>1. Display!ToSet(all) = Members(all)
  BY ListFacts DEF IsCard
<1>2. \A i \in DOMAIN all : /\ all[i] \in Members(all) /\ IsConnector(all[i], card)
                            /\ Display!ToSet(all[i].modes) = Members(all[i].modes)
                            /\ Display!ToSet(all[i].encoders) = Members(all[i].encoders)
  <2> TAKE i \in DOMAIN all
  <2>1. all[i] \in Members(all)
    BY DEF Members
  <2>2. IsConnector(all[i], card)
    BY DEF IsCard
  <2>3. IsList(all[i].modes) /\ IsList(all[i].encoders)
    BY <2>2 DEF IsConnector
  <2> QED
    BY <2>1, <2>2, <2>3, ListFacts
<1>3. o = CASE ~ready -> [is |-> "ended"]
            [] ready /\ got = << >> -> [is |-> "waiting"]
            [] OTHER -> IF display = << >> THEN [is |-> "ended"]
                        ELSE [is |-> "lit", display |-> display[1]]
  BY DEF Display!Opened, Display!Nowhere
<1>4. Display!ThePipelineFits(card, want) <=>
        /\ o.is = "lit" =>
             /\ Meant(d.connector, want) /\ d.mode \in Display!ToSet(d.connector.modes)
             /\ CASE want.mode = "explicit" ->
                       Display!Size(d.mode) = <<want.w, want.h>> /\ want.hz \in {0, d.mode.hz}
                  [] want.mode = "highest" ->
                       \A m \in Display!ToSet(d.connector.modes) : Display!Surpasses(d.mode, m)
                  [] OTHER ->
                       d.mode.preferred \/ \A m \in Display!ToSet(d.connector.modes) : ~m.preferred
             /\ \E e \in Display!ToSet(d.connector.encoders) : d.crtc = e.crtc \/ d.crtc \in e.possible
             /\ d.plane.primary /\ d.crtc \in d.plane.possible
        /\ o.is = "ended" =>
             \/ card.held > 4500 \/ card.missing # {}
             \/ want.card = Display!Auto /\ \A c \in Display!ToSet(all) : ~Display!HasPanel(c)
             \/ \E c \in Display!ToSet(all) :
                  /\ Meant(c, want)
                  /\ \/ ~Display!Usable(card, c)
                     \/ want.mode = "malformed"
                     \/ c.modes = << >> /\ want.connector = c.name
                     \/ want.mode = "explicit" /\ \A m \in Display!ToSet(c.modes) : ~Display!Asked(want, m)
        /\ o.is = "waiting" =>
             /\ \A c \in Display!ToSet(all) : Meant(c, want) => c.modes = << >>
             /\ want.card = Display!Auto => \E c \in Display!ToSet(all) : Display!HasPanel(c)
  BY DEF Display!ThePipelineFits, Display!FitsTogether, Meant
<1>5. \/ got = << >> /\ \A i \in DOMAIN all : Meant(all[i], want) => all[i].modes = << >>
      \/ \E i \in DOMAIN all :
           /\ got = <<all[i]>> /\ Meant(all[i], want)
           /\ all[i].modes = << >> => want.connector = all[i].name
  BY ConnectorFacts
<1>9. openable <=> (want.card = Display!Auto => \E c \in Members(all) : Display!HasPanel(c))
  BY CardFacts
<1> HIDE DEF o, got, openable
<1>6. CASE ~ready
  <2>1. card.held > 4500 \/ ~openable
    BY <1>6, MasterFacts DEF IsCard
  <2>2. o.is = "ended"
    BY <1>3, <1>6
  <2>3. ~openable => want.card = Display!Auto /\ \A c \in Display!ToSet(all) : ~Display!HasPanel(c)
    BY <1>1, <1>9
  <2> HIDE DEF all
  <2> QED
    BY <1>4, <2>1, <2>2, <2>3
<1>7. CASE ready /\ got = << >>
  <2>1. o.is = "waiting"
    BY <1>3, <1>7
  <2>3. want.card = Display!Auto => \E c \in Members(all) : Display!HasPanel(c)
    BY <1>7, <1>9
  <2>2. \A c \in Members(all) : Meant(c, want) => c.modes = << >>
    BY <1>5, <1>7 DEF Members
  <2> QED
    BY <1>1, <1>4, <2>1, <2>2, <2>3
<1>8. ASSUME ready, NEW i \in DOMAIN all, got = <<all[i]>>,
             Meant(all[i], want), all[i].modes = << >> => want.connector = all[i].name
      PROVE  Display!ThePipelineFits(card, want)
  <2> DEFINE c == all[i]
  <2>1. o = IF display = << >> THEN [is |-> "ended"] ELSE [is |-> "lit", display |-> display[1]]
    BY <1>3, <1>8
  <2>2. /\ c \in Members(all) /\ IsConnector(c, card) /\ Meant(c, want)
        /\ c.modes = << >> => want.connector = c.name
        /\ Display!ToSet(c.modes) = Members(c.modes) /\ Display!ToSet(c.encoders) = Members(c.encoders)
    BY <1>2, <1>8
  <2>3. display = Display!Assembled(card, c, want)
    BY <1>8
  <2> HIDE DEF c, display
  <2>4. \/ /\ display = << >>
           /\ \/ card.missing # {} \/ ~Display!Usable(card, c)
              \/ c.modes = << >> \/ want.mode = "malformed"
              \/ want.mode = "explicit" /\ \A m \in Members(c.modes) : ~Display!Asked(want, m)
        \/ \E x : /\ display = <<x>> /\ x.connector = c
                  /\ x.mode \in Members(c.modes) /\ IsTheMode(x.mode, c.modes, want)
                  /\ \E e \in Members(c.encoders) : x.crtc = e.crtc \/ x.crtc \in e.possible
                  /\ x.plane.primary /\ x.crtc \in x.plane.possible
    BY <2>2, <2>3, AssembledFacts
  <2>5. CASE display = << >>
    <3>1. o.is = "ended"
      BY <2>1, <2>5
    <3> QED
      BY <1>1, <1>4, <2>2, <2>4, <2>5, <3>1
  <2>6. ASSUME NEW x, display = <<x>>, x.connector = c,
               x.mode \in Members(c.modes), IsTheMode(x.mode, c.modes, want),
               \E e \in Members(c.encoders) : x.crtc = e.crtc \/ x.crtc \in e.possible,
               x.plane.primary, x.crtc \in x.plane.possible
        PROVE  Display!ThePipelineFits(card, want)
    <3>1. o.is = "lit" /\ d = x
      BY <2>1, <2>6
    <3> HIDE DEF d
    <3>2. (CASE want.mode = "explicit" ->
                  Display!Size(d.mode) = <<want.w, want.h>> /\ want.hz \in {0, d.mode.hz}
             [] want.mode = "highest" ->
                  \A m \in Display!ToSet(d.connector.modes) : Display!Surpasses(d.mode, m)
             [] OTHER ->
                  d.mode.preferred \/ \A m \in Display!ToSet(d.connector.modes) : ~m.preferred)
      BY <2>2, <2>6, <3>1 DEF IsTheMode
    <3>3. /\ Meant(d.connector, want) /\ d.mode \in Display!ToSet(d.connector.modes)
          /\ \E e \in Display!ToSet(d.connector.encoders) : d.crtc = e.crtc \/ d.crtc \in e.possible
          /\ d.plane.primary /\ d.crtc \in d.plane.possible
      BY <2>2, <2>6, <3>1
    <3> QED
      BY <1>4, <3>1, <3>2, <3>3
  <2> QED
    BY <2>4, <2>5, <2>6
<1> QED
  BY <1>5, <1>6, <1>7, <1>8

----
(* The parts, as Algorithms tries them *)

\* The inputs of the rate limiter are sequences of calls, those of the machine
\* sequences of items, and the others the inputs they are tried on.
Input == \E subject, on : task = [of |-> subject, on |-> on]
Histories ==
    /\ Input
    /\ task.of = "nothing" => task.on = << >>
    /\ task.of = "bucket" => task.on \in Seq(Calls)
    /\ task.of = "track" => task.on \in Seq(Items)
    /\ task.of = "lookup" => task.on \in Worlds
    /\ task.of = "display" => task.on \in Displays
    /\ task.of = "layout" => task.on \in Pictures
    /\ task.of = "boot" => task.on \in Files

LEMMA HistoriesStep == Histories /\ [Next]_task => Histories'
<1> SUFFICES ASSUME Histories, [Next]_task PROVE Histories'
  OBVIOUS
<1>1. ASSUME NEW subject, NEW on, task' = [of |-> subject, on |-> on],
             subject # "nothing", subject = "bucket" => on \in Seq(Calls),
             subject = "track" => on \in Seq(Items),
             subject = "lookup" => on \in Worlds, subject = "boot" => on \in Files,
             subject = "display" => on \in Displays, subject = "layout" => on \in Pictures
      PROVE  Histories'
  <2>1. task'.of = subject /\ task'.on = on
    BY <1>1
  <2> QED
    BY <1>1, <2>1 DEF Histories, Input
<1>2. CASE Hear
  <2>1. PICK more \in Phrases : task' = [of |-> "track", on |-> task.on \o more]
    BY <1>2 DEF Hear, Longer
  <2>2. task.of \in {"nothing", "track"}
    BY <1>2 DEF Hear, Longer
  <2>3. task.on \in Seq(Items)
    <3>1. << >> \in Seq(Items)
      OBVIOUS
    <3> QED
      BY <2>2, <3>1 DEF Histories
  <2>4. more \in Seq(Items)
    BY ItemsAssumption
  <2> DEFINE on == task.on \o more
  <2>5. on \in Seq(Items)
    BY <2>3, <2>4
  <2>6. task' = [of |-> "track", on |-> on]
    BY <2>1
  <2> HIDE DEF on
  <2> QED
    BY <1>1, <2>5, <2>6
<1>3. CASE Call
  <2>1. PICK more \in {<<call>> : call \in Calls} : task' = [of |-> "bucket", on |-> task.on \o more]
    BY <1>3 DEF Call, Longer
  <2>2. task.of \in {"nothing", "bucket"}
    BY <1>3 DEF Call, Longer
  <2>3. task.on \in Seq(Calls)
    <3>1. << >> \in Seq(Calls)
      OBVIOUS
    <3> QED
      BY <2>2, <3>1 DEF Histories
  <2>4. more \in Seq(Calls)
    BY <2>1
  <2> DEFINE on == task.on \o more
  <2>5. on \in Seq(Calls)
    BY <2>3, <2>4
  <2>6. task' = [of |-> "bucket", on |-> on]
    BY <2>1
  <2> HIDE DEF on
  <2> QED
    BY <1>1, <2>5, <2>6
<1>4. CASE Match \/ Search \/ Light \/ Place \/ Boot \/ Look
  <2>1. PICK subject \in {"match", "lookup", "display", "layout", "boot", "covers"} :
          \E on : /\ task' = [of |-> subject, on |-> on]
                  /\ subject = "lookup" => on \in Worlds
                  /\ subject = "display" => on \in Displays
                  /\ subject = "layout" => on \in Pictures
                  /\ subject = "boot" => on \in Files
    BY <1>4 DEF Match, Search, Light, Place, Boot, Look, Once
  <2> QED
    BY <1>1, <2>1
<1>5. CASE Compare
  <2>1. PICK shown : task' = [task EXCEPT !.on = Append(task.on, shown)]
    BY <1>5 DEF Compare
  <2>2. PICK s, o : task = [of |-> s, on |-> o]
    BY DEF Histories, Input
  <2>3. task' = [of |-> "covers", on |-> Append(task.on, shown)]
    BY <1>5, <2>1, <2>2 DEF Compare
  <2> QED
    BY <1>1, <2>3
<1>6. CASE UNCHANGED task
  BY <1>6 DEF Histories, Input
<1> QED
  BY <1>2, <1>3, <1>4, <1>5, <1>6 DEF Next

LEMMA HistoriesStart == Init => Histories
<1> SUFFICES ASSUME Init PROVE Histories
  OBVIOUS
<1>1. task = [of |-> "nothing", on |-> << >>]
  BY DEF Init
<1>2. task.of = "nothing" /\ task.on = << >>
  BY <1>1
<1> QED
  BY <1>1, <1>2 DEF Histories, Input

\* Requests go out exactly when they may, through any history of calls of any
\* length (limit.rs, State::take).
THEOREM RatesTheorem == Spec => []RatesAreKept
<1>1. Init => Histories
  BY HistoriesStart
<1>2. Histories /\ [Next]_task => Histories'
  BY HistoriesStep
<1>3. Histories => RatesAreKept
  <2> SUFFICES ASSUME Histories, task.of = "bucket" PROVE Limit!CatalogueIsSpared(task.on)
    BY DEF RatesAreKept
  <2>1. task.on \in Seq(CallType)
    <3>1. task.on \in Seq(Calls) /\ Calls \subseteq CallType
      BY PartsAssumption DEF Histories, CallType
    <3> QED
      BY <3>1
  <2> QED
    BY <2>1, BucketTheorem
<1> QED
  BY <1>1, <1>2, <1>3, PTL DEF Spec

\* What plays is the last whole bundle, through any history of items of any length
\* (machine.rs, commit_bundle).
THEOREM TracksTheorem == Spec => []TracksAreWhole
<1>1. Init => Histories
  BY HistoriesStart
<1>2. Histories /\ [Next]_task => Histories'
  BY HistoriesStep
<1>3. Histories => TracksAreWhole
  BY BundleTheorem DEF Histories, TracksAreWhole
<1> QED
  BY <1>1, <1>2, <1>3, PTL DEF Spec

\* Whatever the two files hold and whatever becomes of the daemon's writes, a
\* configuration that is accepted means what was written, also after it is written
\* out and read again, and the daemon starts with it (lib.rs, Config::load;
\* web/mod.rs, prepare_auth and check_bind).
THEOREM ConfigurationTheorem == Spec => []ConfigurationHolds
<1>1. Init => Histories
  BY HistoriesStart
<1>2. Histories /\ [Next]_task => Histories'
  BY HistoriesStep
<1>3. Histories => ConfigurationHolds
  <2> SUFFICES ASSUME Histories, task.of = "boot"
               PROVE  Config!AcceptedMeansStarts(task.on[1], task.on[2], task.on[3])
    BY DEF ConfigurationHolds
  <2>1. task.on \in Files
    BY DEF Histories
  <2>2. /\ \A p \in DOMAIN task.on[1] : IsLeaf(task.on[1][p])
        /\ \A p \in DOMAIN task.on[2] : IsLeaf(task.on[2][p])
        /\ task.on[3].stored \in BOOLEAN
    BY <2>1, FilesAssumption
  <2> QED
    BY <2>2, FilesStart
<1> QED
  BY <1>1, <1>2, <1>3, PTL DEF Spec

\* Whatever the catalogues answer, with any number of sources and records: nobody is
\* asked more than three times or after a final answer; an album counts as missing
\* only when every source was reached and has no cover of it, or was given up since
\* the album had gone; and what is taken is the right cover: what is sent for the
\* largest size there, whatever size it then is, and larger than the one shown
\* (mod.rs, Inner::run, try_source and judge; catalogue.rs, fetch_image).
THEOREM LookupsTheorem == Spec => []LookupsAreFair
<1>1. Init => Histories
  BY HistoriesStart
<1>2. Histories /\ [Next]_task => Histories'
  BY HistoriesStep
<1>3. Histories => LookupsAreFair
  <2> SUFFICES ASSUME Histories, task.of = "lookup"
               PROVE  Gate!LookupIsFair(task.on)
    BY DEF LookupsAreFair
  <2>1. task.on \in Worlds
    BY DEF Histories
  <2>2. IsWorld(task.on)
    BY <2>1, WorldsAssumption DEF IsWorld, IsScript, Given
  <2> QED
    BY <2>2, SearchIsFair
<1> QED
  BY <1>1, <1>2, <1>3, PTL DEF Spec

\* On every card, and whatever is asked for, what is lit belongs together and is
\* what was asked for, it is lit whenever the card offers it, and a panel that is
\* missing is waited for unless the card is to be found by the panel on it; and on
\* every panel every cover lies within its margins, is not stretched, and leaves the
\* background to be drawn just when some of the panel is left (drm.rs, Card::open,
\* Display::open, choose_mode and choose_crtc; main.rs, run_drm; geometry.rs, layout).
THEOREM PicturesTheorem == Spec => []PicturesFit
<1>1. Init => Histories
  BY HistoriesStart
<1>2. Histories /\ [Next]_task => Histories'
  BY HistoriesStep
<1>3. Histories => PicturesFit
  <2>1. ASSUME Histories, task.of = "display"
        PROVE  Display!ThePipelineFits(task.on[1], task.on[2])
    <3>1. task.on \in Displays
      BY <2>1 DEF Histories
    <3>2. IsCard(task.on[1]) /\ task.on[2].mode \in Wanted
      BY <3>1, DisplaysAssumption DEF Wanted
    <3> QED
      BY <3>2, DisplayFits
  <2>2. ASSUME Histories, task.of = "layout"
        PROVE  Frame!NeverStretched(task.on[1], task.on[2], task.on[3])
    <3>1. task.on \in Pictures
      BY <2>2 DEF Histories
    <3>2. IsPicture(task.on[1], task.on[2], task.on[3])
      BY <3>1, PicturesAssumption DEF IsPicture, Sides
    <3> QED
      BY <3>2, PictureFits
  <2> QED
    BY <2>1, <2>2 DEF PicturesFit
<1> QED
  BY <1>1, <1>2, <1>3, PTL DEF Spec

====
