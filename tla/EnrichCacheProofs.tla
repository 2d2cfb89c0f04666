---- MODULE EnrichCacheProofs ----
(***************************************************************************)
(* Theorems about the artwork cache, with their proofs.                    *)
(***************************************************************************)
EXTENDS EnrichCache, FiniteSetTheorems, WellFoundedInduction, TLAPS

----
(* Sums *)

\* A set of numbers has a least one.
LEMMA LeastNumber ==
    ASSUME NEW S, S \subseteq Nat, S # {}
    PROVE  \E x \in S : \A y \in S : x =< y
<1>1. IsWellFoundedOn(OpToRel(<, Nat), Nat)
  BY NatLessThanWellFounded
<1>2. PICK x \in S : \A y \in S : ~(<<y, x>> \in OpToRel(<, Nat))
  BY <1>1, WFMin
<1>3. \A a, b \in Nat : a < b <=> <<a, b>> \in OpToRel(<, Nat)
  BY DEF OpToRel
<1>4. \A y \in S : ~(y < x)
  BY <1>2, <1>3
<1> QED
  BY <1>4

\* The function a sum is computed with: of every set, what one of its members
\* weighs and what the others weigh.
AddsUp(f, w) ==
    f = [s \in SUBSET DOMAIN w |->
           IF s = {} THEN 0
           ELSE LET x == CHOOSE x \in s : TRUE IN w[x] + f[s \ {x}]]

Weighs(w) == IsFiniteSet(DOMAIN w) /\ \A x \in DOMAIN w : w[x] \in Nat

\* A set of n + 1 members loses one of them, whichever it is.
LEMMA OneLess ==
    ASSUME NEW s, IsFiniteSet(s), NEW x \in s
    PROVE  /\ IsFiniteSet(s \ {x}) /\ Cardinality(s) \in Nat /\ Cardinality(s \ {x}) \in Nat
           /\ Cardinality(s \ {x}) = Cardinality(s) - 1
BY FS_RemoveElement, FS_CardinalityType

\* There is such a function, by the sizes of the sets: if there were none for some
\* size, there would be none for a least one.
LEMMA AddsUpExists ==
    ASSUME NEW w, IsFiniteSet(DOMAIN w)
    PROVE  \E f : AddsUp(f, w)
<1> DEFINE D == DOMAIN w
           one(s) == CHOOSE x \in s : TRUE
           small(n) == {s \in SUBSET D : Cardinality(s) =< n}
           sum(f, s) == IF s = {} THEN 0 ELSE w[one(s)] + f[s \ {one(s)}]
           fails == {n \in Nat : ~\E f : f = [s \in small(n) |-> sum(f, s)]}
<1>1. \A s \in SUBSET D : IsFiniteSet(s) /\ Cardinality(s) \in Nat
                          /\ Cardinality(s) =< Cardinality(D)
  BY FS_Subset, FS_CardinalityType
<1>2. \A s : s # {} => one(s) \in s
  OBVIOUS
<1>3. \A s \in SUBSET D : s # {} => /\ s \ {one(s)} \in SUBSET D
                                    /\ Cardinality(s \ {one(s)}) = Cardinality(s) - 1
  BY <1>1, <1>2, OneLess
<1>4. fails = {}
  <2> SUFFICES ASSUME fails # {} PROVE FALSE
    OBVIOUS
  <2>1. fails \subseteq Nat
    OBVIOUS
  <2> HIDE DEF fails
  <2>2. PICK n \in fails : \A m \in fails : n =< m
    BY <2>1, LeastNumber
  <2>3. n \in Nat /\ ~\E f : f = [s \in small(n) |-> sum(f, s)]
    BY <2>2 DEF fails
  <2>4. CASE n = 0
    <3>1. \A s \in small(0) : s = {}
      <4>1. \A s \in small(0) : IsFiniteSet(s) /\ Cardinality(s) = 0
        BY <1>1
      <4> QED
        BY <4>1, FS_EmptySet
    <3> DEFINE f == [s \in small(0) |-> 0]
    <3>2. f = [s \in small(0) |-> sum(f, s)]
      BY <3>1
    <3> HIDE DEF f, sum
    <3> QED
      BY <2>3, <2>4, <3>2
  <2>5. CASE n # 0
    <3>1. n - 1 \in Nat /\ n - 1 \notin fails
      BY <2>2, <2>3, <2>5
    <3>2. PICK f : f = [s \in small(n - 1) |-> sum(f, s)]
      BY <3>1 DEF fails
    <3> DEFINE g == [s \in small(n) |-> sum(f, s)]
    <3>3. ASSUME NEW s \in small(n)
          PROVE  sum(f, s) = sum(g, s)
      <4>1. CASE s = {}
        BY <4>1
      <4>2. CASE s # {}
        <5>1. s \ {one(s)} \in small(n - 1) /\ s \ {one(s)} \in small(n)
          BY <1>1, <1>3, <2>3, <4>2
        <5> DEFINE less == s \ {one(s)}
        <5>2. less \in small(n - 1) /\ less \in small(n)
          BY <5>1
        <5>3. f[less] = sum(f, less)
          <6> HIDE DEF small, sum, less
          <6> QED
            BY <3>2, <5>2
        <5>4. g[less] = sum(f, less)
          <6> HIDE DEF small, sum, less
          <6> QED
            BY <5>2
        <5> QED
          BY <4>2, <5>3, <5>4
      <4> QED
        BY <4>1, <4>2
    <3>4. g = [s \in small(n) |-> sum(g, s)]
      <4>1. \A s \in small(n) : sum(f, s) = sum(g, s)
        BY <3>3
      <4> HIDE DEF sum, small
      <4> QED
        BY <4>1
    <3> HIDE DEF g, sum, small
    <3> QED
      BY <2>3, <3>4
  <2> QED
    BY <2>4, <2>5
<1>5. Cardinality(D) \in Nat /\ small(Cardinality(D)) = SUBSET D
  BY <1>1
<1>6. PICK f : f = [s \in SUBSET D |-> sum(f, s)]
  <2> HIDE DEF small, sum
  <2>1. Cardinality(D) \notin fails
    BY <1>4
  <2> QED
    BY <1>5, <2>1
<1> QED
  BY <1>6 DEF AddsUp

LEMMA SumIsAddedUp ==
    ASSUME NEW w, IsFiniteSet(DOMAIN w)
    PROVE  \E f : AddsUp(f, w) /\ SumFunction(w) = f[DOMAIN w]
<1> DEFINE it == CHOOSE f : AddsUp(f, w)
<1>1. AddsUp(it, w)
  BY AddsUpExists
<1>2. SumFunction(w) = it[DOMAIN w]
  BY DEF SumFunction, SumFunctionOnSet, FoldFunctionOnSet, MapThenFoldSet, AddsUp
<1> QED
  BY <1>1, <1>2

\* What a set adds up to, whichever member is counted first.
Additive(f, w) ==
    /\ f[{}] = 0
    /\ \A s \in SUBSET DOMAIN w : f[s] \in Nat /\ \A x \in s : f[s] = w[x] + f[s \ {x}]

\* Induction on the size of the set.
LEMMA AddsUpFacts ==
    ASSUME NEW w, NEW f, Weighs(w), AddsUp(f, w)
    PROVE  Additive(f, w)
<1> DEFINE D == DOMAIN w
           one(s) == CHOOSE x \in s : TRUE
           good(s) == f[s] \in Nat /\ \A x \in s : f[s] = w[x] + f[s \ {x}]
           bad == {n \in Nat : \E s \in SUBSET D : Cardinality(s) = n /\ ~good(s)}
<1>1. \A s \in SUBSET D : IsFiniteSet(s) /\ Cardinality(s) \in Nat
  BY FS_Subset, FS_CardinalityType DEF Weighs
<1>2. f[{}] = 0 /\ \A s \in SUBSET D : s # {} => f[s] = w[one(s)] + f[s \ {one(s)}]
  BY DEF AddsUp
<1>3. \A s : s # {} => one(s) \in s
  OBVIOUS
<1>4. \A x \in D : w[x] \in Nat
  BY DEF Weighs
<1> HIDE DEF one
<1>5. good({})
  BY <1>2
<1> HIDE DEF D
<1>6. bad = {}
  <2> SUFFICES ASSUME bad # {} PROVE FALSE
    OBVIOUS
  <2>1. bad \subseteq Nat
    OBVIOUS
  <2> HIDE DEF bad
  <2>2. PICK n \in bad : \A m \in bad : n =< m
    BY <2>1, LeastNumber
  <2>3. n \in Nat /\ \E s \in SUBSET D : Cardinality(s) = n /\ ~good(s)
    BY <2>2 DEF bad
  <2>4. PICK s \in SUBSET D : Cardinality(s) = n /\ ~good(s)
    BY <2>3
  <2>5. \A t \in SUBSET D : Cardinality(t) < n => good(t)
    <3>1. ASSUME NEW t \in SUBSET D, Cardinality(t) < n, ~good(t) PROVE FALSE
      <4>1. Cardinality(t) \in bad
        BY <1>1, <3>1 DEF bad
      <4> QED
        BY <1>1, <2>2, <2>3, <3>1, <4>1
    <3> HIDE DEF good
    <3> QED
      BY <3>1
  <2>6. s # {}
    BY <1>5, <2>4
  <2> DEFINE c == one(s)
  <2>7. c \in s /\ f[s] = w[c] + f[s \ {c}]
    BY <1>2, <1>3, <2>6
  <2> HIDE DEF c
  <2>8. \A x \in s : s \ {x} \in SUBSET D /\ good(s \ {x})
    <3> TAKE x \in s
    <3>1. s \ {x} \in SUBSET D
      OBVIOUS
    <3>2. Cardinality(s \ {x}) < n
      BY <1>1, <2>3, <2>4, OneLess
    <3> QED
      BY <2>5, <3>1, <3>2
  <2>9. f[s] \in Nat
    BY <1>4, <2>7, <2>8
  <2>10. ASSUME NEW x \in s
         PROVE  f[s] = w[x] + f[s \ {x}]
    <3>1. CASE x = c
      BY <2>7, <3>1
    <3>2. CASE x # c
      <4>1. x \in s \ {c} /\ c \in s \ {x}
        BY <2>7, <3>2
      <4> DEFINE rest == (s \ {c}) \ {x}
      <4>2. f[s \ {c}] = w[x] + f[rest]
        BY <2>7, <2>8, <4>1
      <4>3. rest = (s \ {x}) \ {c}
        OBVIOUS
      <4>4. f[s \ {x}] = w[c] + f[rest]
        BY <2>8, <4>1, <4>3
      <4>5. w[x] \in Nat /\ w[c] \in Nat
        BY <1>4, <2>7
      <4>6. f[rest] \in Nat
        <5>1. (s \ {c}) \ {x} \in SUBSET D
          OBVIOUS
        <5>2. Cardinality((s \ {c}) \ {x}) < n
          <6>1. IsFiniteSet(s \ {c}) /\ IsFiniteSet(s)
            BY <1>1
          <6>2. Cardinality(s \ {c}) = Cardinality(s) - 1
            BY <2>7, <6>1, OneLess
          <6>3. /\ Cardinality((s \ {c}) \ {x}) = Cardinality(s \ {c}) - 1
                /\ Cardinality((s \ {c}) \ {x}) \in Nat
            BY <4>1, <6>1, OneLess
          <6> QED
            BY <2>3, <2>4, <6>2, <6>3
        <5> QED
          BY <2>5, <5>1, <5>2
      <4> HIDE DEF good, rest
      <4> QED
        BY <2>7, <4>2, <4>4, <4>5, <4>6
    <3> QED
      BY <3>1, <3>2
  <2> QED
    BY <2>4, <2>9, <2>10
<1>7. \A s \in SUBSET D : good(s)
  <2>1. ASSUME NEW s \in SUBSET D, ~good(s) PROVE FALSE
    <3>1. Cardinality(s) \in bad
      BY <1>1, <2>1
    <3> HIDE DEF bad
    <3> QED
      BY <1>6, <3>1
  <2> HIDE DEF good
  <2> QED
    BY <2>1
<1> QED
  BY <1>2, <1>7 DEF D, Additive

\* Two functions that weigh the same add up to the same.
LEMMA SameSums ==
    ASSUME NEW w, NEW v, NEW f, NEW g, Weighs(w), Weighs(v), AddsUp(f, w), AddsUp(g, v),
           DOMAIN v \subseteq DOMAIN w, \A x \in DOMAIN v : v[x] = w[x]
    PROVE  \A s \in SUBSET DOMAIN v : g[s] = f[s]
<1> DEFINE D == DOMAIN v
           bad == {n \in Nat : \E s \in SUBSET D : Cardinality(s) = n /\ g[s] # f[s]}
<1>1. \A s \in SUBSET D : IsFiniteSet(s) /\ Cardinality(s) \in Nat
  BY FS_Subset, FS_CardinalityType DEF Weighs
<1>2. Additive(f, w) /\ Additive(g, v)
  BY AddsUpFacts
<1>3. f[{}] = 0 /\ g[{}] = 0
  BY <1>2 DEF Additive
<1>4. \A s \in SUBSET D : \A x \in s : /\ f[s] = w[x] + f[s \ {x}]
                                       /\ g[s] = w[x] + g[s \ {x}]
  BY <1>2 DEF Additive
<1>5. bad = {}
  <2> SUFFICES ASSUME bad # {} PROVE FALSE
    OBVIOUS
  <2>1. bad \subseteq Nat
    OBVIOUS
  <2> HIDE DEF bad
  <2>2. PICK n \in bad : \A m \in bad : n =< m
    BY <2>1, LeastNumber
  <2>3. n \in Nat /\ \E s \in SUBSET D : Cardinality(s) = n /\ g[s] # f[s]
    BY <2>2 DEF bad
  <2>4. PICK s \in SUBSET D : Cardinality(s) = n /\ g[s] # f[s]
    BY <2>3
  <2>5. PICK x \in s : TRUE
    BY <1>3, <2>4
  <2> HIDE DEF D
  <2>6. /\ s \ {x} \in SUBSET D /\ Cardinality(s \ {x}) = n - 1
        /\ Cardinality(s \ {x}) \in Nat
    BY <1>1, <2>4, <2>5, OneLess
  <2>7. g[s \ {x}] = f[s \ {x}]
    <3>1. SUFFICES ASSUME g[s \ {x}] # f[s \ {x}] PROVE FALSE
      OBVIOUS
    <3>2. n - 1 \in bad
      BY <2>6, <3>1 DEF bad
    <3> QED
      BY <2>2, <2>3, <3>2
  <2> QED
    BY <1>3, <1>4, <2>4, <2>5, <2>7
<1>6. ASSUME NEW s \in SUBSET D, g[s] # f[s] PROVE FALSE
  <2>1. Cardinality(s) \in bad
    BY <1>1, <1>6
  <2> QED
    BY <1>5, <2>1
<1> QED
  BY <1>6

\* A sum is a number, zero of nothing, and loses what a member that is left out
\* weighs.
LEMMA SumFacts ==
    ASSUME NEW w, Weighs(w)
    PROVE  SumFunction(w) \in Nat /\ (DOMAIN w = {} => SumFunction(w) = 0)
<1>1. PICK f : AddsUp(f, w) /\ SumFunction(w) = f[DOMAIN w]
  BY SumIsAddedUp DEF Weighs
<1> QED
  BY <1>1, AddsUpFacts DEF Additive

LEMMA SumWithout ==
    ASSUME NEW w, NEW v, NEW x \in DOMAIN w, Weighs(w), DOMAIN v = DOMAIN w \ {x},
           \A y \in DOMAIN v : v[y] = w[y]
    PROVE  SumFunction(w) = w[x] + SumFunction(v)
<1>1. Weighs(v)
  <2>1. IsFiniteSet(DOMAIN w \ {x})
    BY OneLess DEF Weighs
  <2> QED
    BY <2>1 DEF Weighs
<1>2. PICK f : AddsUp(f, w) /\ SumFunction(w) = f[DOMAIN w]
  BY SumIsAddedUp DEF Weighs
<1>3. PICK g : AddsUp(g, v) /\ SumFunction(v) = g[DOMAIN v]
  BY <1>1, SumIsAddedUp DEF Weighs
<1>4. f[DOMAIN w] = w[x] + f[DOMAIN w \ {x}]
  BY <1>2, AddsUpFacts DEF Additive
<1>5. g[DOMAIN v] = f[DOMAIN v]
  BY <1>1, <1>2, <1>3, SameSums
<1> QED
  BY <1>2, <1>3, <1>4, <1>5

----
(* The inductive invariant of the cache *)

\* What the index says of a key was stored under it, and no time in it is ahead
\* of the clock; a task that reads a file has not been overtaken by another
\* picture of its key; and only finitely many keys were ever stored.
RowInv ==
    /\ \A k \in Stored(rows) : rows[k].image \in past[k] /\ rows[k].used =< clock
    /\ \A k \in Keys :
          jobs[k].at = "reading" /\ rows[k] # None => jobs[k].image = rows[k].image
    /\ IsFiniteSet({k \in Keys : past[k] # {}})

\* Whatever happens to the rows under the list of victims, a row was either last
\* used when the list says or later, or after everything on the list.
VictimInv ==
    /\ sweeper.at \in {"evicting", "dropping"} =>
          /\ \A k \in Stored(sweeper.victims) : sweeper.victims[k].used =< clock
          /\ \A j \in Stored(rows) :
                \/ j \in Stored(sweeper.victims) /\ sweeper.victims[j].used =< rows[j].used
                \/ \A k \in Stored(sweeper.victims) : sweeper.victims[k].used =< rows[j].used
    /\ sweeper.at = "dropping" => sweeper.key \in FirstUsed(sweeper.victims)

\* How far a sweep has come that nobody disturbs.
CleanInv ==
    alone =>
      /\ sweeper.at \in {"listing", "evicting", "dropping"} => sweeper.total = TotalBytes
      /\ sweeper.at \in {"evicting", "dropping"} => sweeper.victims = rows
      /\ sweeper.at \in {"indexing", "tidying"} => TotalBytes =< MaxBytes
      /\ sweeper.at = "tidying" =>
            /\ sweeper.known = {rows[k].image : k \in Stored(rows)}
            /\ \A i \in Images \ sweeper.left :
                  i \notin parts /\ (files[i] # "absent" => i \in sweeper.known)

CacheInv == CacheTypeOK /\ RowInv /\ VictimInv /\ CleanInv

----
(* Records and types *)

LEMMA TaskFacts ==
    ASSUME CacheTypeOK, NEW k \in Keys
    PROVE  /\ jobs[k].at \in {"idle", "missing", "touching", "forgetting",
                              "reading", "writing", "renaming", "inserting"}
           /\ jobs[k].at \in {"reading", "writing", "renaming", "inserting"} =>
                 jobs[k].image \in Images
<1>1. jobs[k] \in Tasks
  BY DEF CacheTypeOK
<1>2. CASE jobs[k] = Idle
  BY <1>2 DEF Idle
<1>3. CASE jobs[k] \in [at : {"missing", "touching", "forgetting"}]
  BY <1>3
<1>4. CASE jobs[k] \in [at : {"reading", "writing", "renaming", "inserting"}, image : Images]
  BY <1>4
<1> QED
  BY <1>1, <1>2, <1>3, <1>4 DEF Tasks

LEMMA TasksMade ==
    /\ Idle \in Tasks
    /\ \A at \in {"missing", "touching", "forgetting"} : [at |-> at] \in Tasks
    /\ \A at \in {"reading", "writing", "renaming", "inserting"} : \A i \in Images :
          [at |-> at, image |-> i] \in Tasks
BY DEF Tasks

LEMMA SweeperFacts ==
    ASSUME CacheTypeOK
    PROVE  /\ sweeper = Resting <=> sweeper.at = "resting"
           /\ sweeper.at \in {"resting", "measuring", "indexing", "listing", "evicting",
                              "dropping", "tidying"}
           /\ sweeper.at \in {"listing", "evicting", "dropping"} => sweeper.total \in Nat
           /\ sweeper.at \in {"evicting", "dropping"} => sweeper.victims \in Victims
           /\ sweeper.at = "dropping" => sweeper.key \in Keys
           /\ sweeper.at = "tidying" =>
                 /\ sweeper.left \subseteq Images /\ sweeper.known \subseteq Images
                 /\ sweeper \in [at : {"tidying"}, left : SUBSET Images, known : SUBSET Images]
<1>1. sweeper \in Sweepers
  BY DEF CacheTypeOK
<1>2. CASE sweeper = Resting
  BY <1>2 DEF Resting
<1>3. CASE sweeper \in [at : {"measuring", "indexing"}]
  BY <1>3 DEF Resting
<1>4. CASE sweeper \in [at : {"listing"}, total : Nat]
  BY <1>4 DEF Resting
<1>5. CASE sweeper \in [at : {"evicting"}, total : Nat, victims : Victims]
  BY <1>5 DEF Resting
<1>6. CASE sweeper \in [at : {"dropping"}, total : Nat, victims : Victims, key : Keys]
  BY <1>6 DEF Resting
<1>7. CASE sweeper \in [at : {"tidying"}, left : SUBSET Images, known : SUBSET Images]
  BY <1>7 DEF Resting
<1> QED
  BY <1>1, <1>2, <1>3, <1>4, <1>5, <1>6, <1>7 DEF Sweepers

LEMMA SweepersMade ==
    /\ Resting \in Sweepers
    /\ \A at \in {"measuring", "indexing"} : [at |-> at] \in Sweepers
    /\ \A total \in Nat : [at |-> "listing", total |-> total] \in Sweepers
    /\ \A total \in Nat, victims \in Victims :
          /\ [at |-> "evicting", total |-> total, victims |-> victims] \in Sweepers
          /\ \A k \in Keys : [at |-> "dropping", total |-> total, victims |-> victims, key |-> k]
                                \in Sweepers
    /\ \A left \in SUBSET Images, known \in SUBSET Images :
          [at |-> "tidying", left |-> left, known |-> known] \in Sweepers
<1> HIDE DEF Victims
<1> QED
  BY DEF Sweepers

LEMMA RowFacts ==
    ASSUME NEW index \in Victims
    PROVE  /\ \A k \in Stored(index) : /\ k \in Keys /\ index[k] \in Row /\ index[k] # None
                                       /\ index[k].image \in Images /\ index[k].used \in Nat
           /\ Stored(index) = {k \in Keys : index[k] # None}
           /\ \A k \in Keys : [index EXCEPT ![k] = None] \in Victims
           /\ \A k \in Keys : \A row \in Row : row # None /\ [index EXCEPT ![k] = row] \in Victims
<1>1. \A k \in Keys : index[k] \in Row \cup {None}
  BY DEF Victims
<1>2. None \notin Row
  BY NoneAssumption DEF Row
<1>3. \A k \in Stored(index) : k \in Keys /\ index[k] \in Row /\ index[k] # None
  BY <1>1 DEF Stored
<1>4. \A row \in Row : row.image \in Images /\ row.used \in Nat
  BY DEF Row
<1>5. /\ \A k \in Keys : [index EXCEPT ![k] = None] \in Victims
      /\ \A k \in Keys : \A row \in Row : [index EXCEPT ![k] = row] \in Victims
  BY DEF Victims
<1> QED
  BY <1>2, <1>3, <1>4, <1>5 DEF Stored

\* The rows add up to a number, and to less by what a row weighs without it.
LEMMA TotalFacts ==
    ASSUME CacheTypeOK, RowInv
    PROVE  /\ IsFiniteSet(Stored(rows)) /\ TotalBytes \in Nat
           /\ Stored(rows) = {} => TotalBytes = 0
           /\ Weighs([k \in Stored(rows) |-> Size[rows[k].image]])
<1> DEFINE w == [k \in Stored(rows) |-> Size[rows[k].image]]
<1>1. rows \in Victims /\ past \in [Keys -> SUBSET Images]
  BY DEF CacheTypeOK
<1>2. Stored(rows) \in SUBSET {k \in Keys : past[k] # {}}
  BY <1>1, RowFacts DEF RowInv
<1>3. IsFiniteSet(Stored(rows))
  BY <1>2, FS_Subset DEF RowInv
<1>4. \A k \in Stored(rows) : Size[rows[k].image] \in Nat
  BY <1>1, RowFacts, SizeAssumption
<1>5. Weighs(w)
  BY <1>3, <1>4 DEF Weighs
<1>6. TotalBytes = SumFunction(w) /\ DOMAIN w = Stored(rows)
  BY DEF TotalBytes
<1> HIDE DEF w
<1>7. TotalBytes \in Nat /\ (Stored(rows) = {} => TotalBytes = 0)
  BY <1>5, <1>6, SumFacts
<1> QED
  BY <1>3, <1>5, <1>7 DEF w

LEMMA TotalWithout ==
    ASSUME CacheTypeOK, RowInv, NEW k \in Stored(rows), rows' = [rows EXCEPT ![k] = None]
    PROVE  /\ TotalBytes = Size[rows[k].image] + TotalBytes'
           /\ TotalBytes' \in Nat /\ Size[rows[k].image] \in Nat
<1> DEFINE w == [j \in Stored(rows) |-> Size[rows[j].image]]
           v == [j \in Stored(rows') |-> Size[rows'[j].image]]
<1>1. rows \in Victims
  BY DEF CacheTypeOK
<1>2. /\ rows'[k] = None /\ DOMAIN rows' = Keys /\ k \in Keys
      /\ \A j \in Keys : j # k => rows'[j] = rows[j]
  BY <1>1, RowFacts DEF Victims
<1>3. Stored(rows') = Stored(rows) \ {k}
  BY <1>2 DEF Stored
<1>4. Weighs(w) /\ DOMAIN w = Stored(rows)
  BY TotalFacts
<1>5. DOMAIN v = DOMAIN w \ {k} /\ \A j \in DOMAIN v : v[j] = w[j]
  BY <1>2, <1>3 DEF Stored
<1>6. w[k] = Size[rows[k].image] /\ w[k] \in Nat
  BY <1>4 DEF Weighs
<1>7. TotalBytes = SumFunction(w) /\ TotalBytes' = SumFunction(v)
  BY DEF TotalBytes, Stored
<1> HIDE DEF w, v
<1>8. Weighs(v)
  <2>1. IsFiniteSet(DOMAIN w \ {k})
    BY <1>4, FS_Subset DEF Weighs
  <2> QED
    BY <1>4, <1>5, <2>1 DEF Weighs
<1>9. SumFunction(w) = w[k] + SumFunction(v)
  BY <1>4, <1>5, SumWithout
<1>10. SumFunction(v) \in Nat
  BY <1>8, SumFacts
<1> QED
  BY <1>6, <1>7, <1>9, <1>10

----
(* The tasks *)

LEMMA Going ==
    ASSUME CacheTypeOK, NEW k \in Keys, NEW job \in Tasks, Goes(k, job)
    PROVE  /\ jobs' \in [Keys -> Tasks] /\ jobs'[k] = job
           /\ \A j \in Keys : j # k => jobs'[j] = jobs[j]
BY DEF CacheTypeOK, Goes

\* What a step of the task of k may do: it may move on, change the row of k and
\* the files, and unless it only reads it disturbs a sweep.
TaskMoves(k) ==
    /\ UNCHANGED <<clock, sweeper, cuts>>
    /\ \E job \in Tasks :
          /\ Goes(k, job)
          /\ job.at = "reading" => rows' = rows /\ rows[k] # None /\ job.image = rows[k].image
    /\ rows' \in Victims /\ files' \in [Images -> {"absent", "whole", "torn"}]
    /\ parts' \subseteq Images /\ past' \in [Keys -> SUBSET Images]
    /\ \A j \in Keys : j # k => rows'[j] = rows[j] /\ past'[j] = past[j]
    /\ rows'[k] # None =>
          /\ rows'[k].image \in past'[k]
          /\ \/ rows[k] # None /\ rows'[k].used = rows[k].used
             \/ rows'[k].used = clock
    /\ alone' \in BOOLEAN
    /\ alone' => sweeper = Resting \/ (alone /\ rows' = rows /\ files' = files /\ parts' = parts)

\* A step that only reads.
LEMMA QuietTask ==
    ASSUME CacheInv, NEW k \in Keys, NEW job \in Tasks, Goes(k, job),
           job.at = "reading" => rows[k] # None /\ job.image = rows[k].image,
           UNCHANGED <<clock, rows, storage, sweeper, cuts, past, alone>>
    PROVE  TaskMoves(k)
<1>1. /\ rows \in Victims /\ files \in [Images -> {"absent", "whole", "torn"}]
      /\ parts \subseteq Images /\ past \in [Keys -> SUBSET Images] /\ alone \in BOOLEAN
  BY DEF CacheInv, CacheTypeOK
<1>2. rows[k] # None => rows[k].image \in past[k]
  BY <1>1, RowFacts DEF CacheInv, RowInv
<1>3. UNCHANGED <<clock, rows, files, parts, sweeper, cuts, past, alone>>
  BY DEF storage
<1> QED
  BY <1>1, <1>2, <1>3 DEF TaskMoves

\* A step that disturbs and leaves the rows alone.
LEMMA FileTask ==
    ASSUME CacheInv, NEW k \in Keys, NEW job \in Tasks, Goes(k, job), job.at # "reading",
           UNCHANGED <<clock, rows, sweeper, cuts, past>>, Disturbs,
           files' \in [Images -> {"absent", "whole", "torn"}], parts' \subseteq Images
    PROVE  TaskMoves(k)
<1>1. rows \in Victims /\ past \in [Keys -> SUBSET Images]
  BY DEF CacheInv, CacheTypeOK
<1>2. rows[k] # None => rows[k].image \in past[k]
  BY <1>1, RowFacts DEF CacheInv, RowInv
<1>3. alone' \in BOOLEAN /\ (alone' => sweeper = Resting)
  BY DEF Disturbs
<1> QED
  BY <1>1, <1>2, <1>3 DEF TaskMoves

LEMMA TaskShape ==
    ASSUME CacheInv, NEW k \in Keys, Task(k)
    PROVE  TaskMoves(k)
<1>1. CacheTypeOK
  BY DEF CacheInv
<1>2. /\ rows \in Victims /\ files \in [Images -> {"absent", "whole", "torn"}]
      /\ parts \subseteq Images /\ past \in [Keys -> SUBSET Images] /\ clock \in Nat
  BY <1>1 DEF CacheTypeOK
<1>3. CASE LookUp(k)
  <2> DEFINE job == IF rows[k] = None THEN [at |-> "missing"]
                    ELSE [at |-> "reading", image |-> rows[k].image]
  <2>1. Goes(k, job) /\ UNCHANGED <<clock, rows, storage, sweeper, cuts, past, alone>>
    BY <1>3 DEF LookUp, Leaves
  <2>2. job \in Tasks
    BY <1>2, RowFacts, TasksMade
  <2>3. job.at = "reading" => rows[k] # None /\ job.image = rows[k].image
    OBVIOUS
  <2> HIDE DEF job
  <2> QED
    BY <2>1, <2>2, <2>3, QuietTask
<1>4. CASE ReadFile(k)
  <2>1. UNCHANGED <<clock, rows, storage, sweeper, cuts, past, alone>>
    BY <1>4 DEF ReadFile, Leaves
  <2>2. Goes(k, [at |-> "touching"]) \/ Goes(k, [at |-> "forgetting"])
    BY <1>4 DEF ReadFile
  <2>3. \A at \in {"touching", "forgetting"} :
           [at |-> at] \in Tasks /\ [at |-> at].at # "reading"
    BY TasksMade
  <2> QED
    BY <2>1, <2>2, <2>3, QuietTask
<1>5. CASE Touch(k)
  <2>1. /\ UNCHANGED <<clock, files, parts, sweeper, cuts, past>>
        /\ rows' = IF rows[k] = None THEN rows ELSE [rows EXCEPT ![k].used = clock]
        /\ Goes(k, Idle) /\ alone' = (sweeper = Resting)
    BY <1>5 DEF Touch, storage, Disturbs
  <2>2. CASE rows[k] = None
    <3>1. Idle \in Tasks /\ Idle.at # "reading"
      BY TasksMade DEF Idle
    <3>2. rows' = rows
      BY <2>1, <2>2
    <3> QED
      BY <1>2, <2>1, <3>1, <3>2, FileTask DEF Disturbs
  <2>3. CASE rows[k] # None
    <3> DEFINE row == [rows[k] EXCEPT !.used = clock]
    <3>1. rows' = [rows EXCEPT ![k] = row]
      BY <2>1, <2>3
    <3>2. rows[k] \in Row /\ rows[k].image \in past[k]
      BY <1>2, <2>3, RowFacts DEF CacheInv, RowInv
    <3>3. row \in Row /\ row.image = rows[k].image /\ row.used = clock
      BY <1>2, <3>2 DEF Row
    <3> HIDE DEF row
    <3>4. rows' \in Victims
      BY <1>2, <3>1, <3>3, RowFacts
    <3>5. rows'[k] = row /\ \A j \in Keys : j # k => rows'[j] = rows[j]
      BY <1>2, <3>1 DEF Victims
    <3>6. Idle \in Tasks /\ Idle.at # "reading"
      BY TasksMade DEF Idle
    <3> QED
      BY <1>2, <2>1, <3>2, <3>3, <3>4, <3>5, <3>6 DEF TaskMoves
  <2> QED
    BY <2>2, <2>3
<1>6. CASE ForgetRow(k)
  <2>1. /\ UNCHANGED <<clock, files, parts, sweeper, cuts, past>>
        /\ rows' = [rows EXCEPT ![k] = None]
        /\ Goes(k, [at |-> "missing"]) /\ alone' = (sweeper = Resting)
    BY <1>6 DEF ForgetRow, storage, Disturbs, Without
  <2>2. [at |-> "missing"] \in Tasks /\ [at |-> "missing"].at # "reading"
    BY TasksMade
  <2>3. rows' \in Victims /\ rows'[k] = None /\ \A j \in Keys : j # k => rows'[j] = rows[j]
    BY <1>2, <2>1, RowFacts DEF Victims
  <2> QED
    BY <1>2, <2>1, <2>2, <2>3 DEF TaskMoves
<1>7. CASE Ask(k)
  <2>1. UNCHANGED <<clock, rows, storage, sweeper, cuts, past, alone>>
    BY <1>7 DEF Ask, Leaves
  <2>2. Goes(k, Idle) \/ \E image \in Found[k] : Goes(k, [at |-> "writing", image |-> image])
    BY <1>7 DEF Ask
  <2>3. CASE Goes(k, Idle)
    <3>1. Idle \in Tasks /\ Idle.at # "reading"
      BY TasksMade DEF Idle
    <3> QED
      BY <2>1, <2>3, <3>1, QuietTask
  <2>4. ASSUME NEW image \in Found[k], Goes(k, [at |-> "writing", image |-> image])
        PROVE  TaskMoves(k)
    <3>1. [at |-> "writing", image |-> image] \in Tasks
      BY FoundAssumption, TasksMade
    <3> DEFINE job == [at |-> "writing", image |-> image]
    <3>2. job \in Tasks /\ job.at # "reading" /\ Goes(k, job)
      BY <2>4, <3>1
    <3> HIDE DEF job
    <3> QED
      BY <2>1, <3>2, QuietTask
  <2> QED
    BY <2>2, <2>3, <2>4
<1>8. CASE WritePart(k)
  <2> DEFINE job == [at |-> "renaming", image |-> jobs[k].image]
  <2>1. /\ UNCHANGED <<clock, rows, files, sweeper, cuts, past>> /\ Disturbs
        /\ parts' = parts \cup {jobs[k].image} /\ Goes(k, job) /\ jobs[k].at = "writing"
    BY <1>8 DEF WritePart
  <2>2. jobs[k].image \in Images
    BY <1>1, <2>1, TaskFacts
  <2>3. job \in Tasks /\ job.at # "reading"
    BY <2>2, TasksMade
  <2> HIDE DEF job
  <2> QED
    BY <1>2, <2>1, <2>2, <2>3, FileTask
<1>9. CASE RenamePart(k)
  <2> DEFINE image == jobs[k].image
             job == [at |-> "inserting", image |-> image]
  <2>1. /\ UNCHANGED <<clock, rows, sweeper, cuts, past>> /\ Disturbs
        /\ jobs[k].at = "renaming"
        /\ \/ /\ files' = [files EXCEPT ![image] = "whole"] /\ parts' = parts \ {image}
              /\ Goes(k, job)
           \/ Goes(k, Idle) /\ files' = files /\ parts' = parts
    BY <1>9 DEF RenamePart, storage
  <2>2. image \in Images
    BY <1>1, <2>1, TaskFacts
  <2>3. job \in Tasks /\ job.at # "reading" /\ Idle \in Tasks /\ Idle.at # "reading"
    BY <2>2, TasksMade DEF Idle
  <2>4. /\ files' \in [Images -> {"absent", "whole", "torn"}] /\ parts' \subseteq Images
    BY <1>2, <2>1
  <2> HIDE DEF job
  <2> QED
    BY <2>1, <2>3, <2>4, FileTask
<1>10. CASE InsertRow(k)
  <2> DEFINE image == jobs[k].image
             row == [image |-> image, used |-> clock]
  <2>1. /\ UNCHANGED <<clock, files, parts, sweeper, cuts>> /\ alone' = (sweeper = Resting)
        /\ jobs[k].at = "inserting" /\ Goes(k, Idle)
        /\ rows' = [rows EXCEPT ![k] = row]
        /\ past' = [past EXCEPT ![k] = past[k] \cup {image}]
    BY <1>10 DEF InsertRow, storage, Disturbs
  <2>2. image \in Images
    BY <1>1, <2>1, TaskFacts
  <2>3. row \in Row /\ row.image = image /\ row.used = clock
    BY <1>2, <2>2 DEF Row
  <2> HIDE DEF row, image
  <2>4. rows' \in Victims
    BY <1>2, <2>1, <2>3, RowFacts
  <2>5. /\ rows'[k] = row /\ \A j \in Keys : j # k => rows'[j] = rows[j]
    BY <1>2, <2>1 DEF Victims
  <2>6. /\ past' \in [Keys -> SUBSET Images] /\ image \in past'[k]
        /\ \A j \in Keys : j # k => past'[j] = past[j]
    BY <1>2, <2>1, <2>2
  <2>7. Idle \in Tasks /\ Idle.at # "reading"
    BY TasksMade DEF Idle
  <2> QED
    BY <1>2, <2>1, <2>3, <2>4, <2>5, <2>6, <2>7 DEF TaskMoves
<1> QED
  BY <1>3, <1>4, <1>5, <1>6, <1>7, <1>8, <1>9, <1>10 DEF Task

\* A task keeps the invariant.
LEMMA TaskStep ==
    ASSUME CacheInv, NEW k \in Keys, TaskMoves(k)
    PROVE  CacheInv'
<1>1. CacheTypeOK /\ RowInv /\ VictimInv /\ CleanInv
  BY DEF CacheInv
<1>2. /\ rows \in Victims /\ past \in [Keys -> SUBSET Images] /\ clock \in Nat
      /\ sweeper \in Sweepers
  BY <1>1 DEF CacheTypeOK
<1>3. /\ clock' = clock /\ sweeper' = sweeper
      /\ rows' \in Victims /\ files' \in [Images -> {"absent", "whole", "torn"}]
      /\ parts' \subseteq Images /\ past' \in [Keys -> SUBSET Images] /\ alone' \in BOOLEAN
      /\ \A j \in Keys : j # k => rows'[j] = rows[j] /\ past'[j] = past[j]
  BY DEF TaskMoves
<1>4. PICK job \in Tasks :
         /\ Goes(k, job)
         /\ job.at = "reading" => rows' = rows /\ rows[k] # None /\ job.image = rows[k].image
  BY DEF TaskMoves
<1>5. /\ jobs' \in [Keys -> Tasks] /\ jobs'[k] = job
      /\ \A j \in Keys : j # k => jobs'[j] = jobs[j]
  BY <1>1, <1>4, Going
<1>6. rows'[k] # None =>
         /\ rows'[k].image \in past'[k]
         /\ \/ rows[k] # None /\ rows'[k].used = rows[k].used
            \/ rows'[k].used = clock
  BY DEF TaskMoves
<1>7. CacheTypeOK'
  BY <1>2, <1>3, <1>5 DEF CacheTypeOK
<1>8. RowInv'
  <2>1. \A j \in Stored(rows') : rows'[j].image \in past'[j] /\ rows'[j].used =< clock'
    <3> TAKE j \in Stored(rows')
    <3>1. j \in Keys /\ rows'[j] # None
      BY <1>3, RowFacts
    <3>2. CASE j = k
      <4>1. rows[k] # None => rows[k].used =< clock
        BY <1>1, <1>2, RowFacts DEF RowInv
      <4> QED
        BY <1>2, <1>3, <1>6, <3>1, <3>2, <4>1
    <3>3. CASE j # k
      <4>1. rows'[j] = rows[j] /\ past'[j] = past[j]
        BY <1>3, <3>1, <3>3
      <4>2. j \in Stored(rows)
        BY <1>2, <3>1, <4>1, RowFacts
      <4> QED
        BY <1>1, <1>3, <4>1, <4>2 DEF RowInv
    <3> QED
      BY <3>2, <3>3
  <2>2. \A j \in Keys :
           jobs'[j].at = "reading" /\ rows'[j] # None => jobs'[j].image = rows'[j].image
    <3> TAKE j \in Keys
    <3>1. CASE j = k
      BY <1>4, <1>5, <3>1
    <3>2. CASE j # k
      BY <1>1, <1>3, <1>5, <3>2 DEF RowInv
    <3> QED
      BY <3>1, <3>2
  <2>3. IsFiniteSet({j \in Keys : past'[j] # {}})
    <3> DEFINE known == {j \in Keys : past[j] # {}}
    <3>1. {j \in Keys : past'[j] # {}} \in SUBSET (known \cup {k})
      BY <1>3
    <3>2. IsFiniteSet(known)
      BY <1>1 DEF RowInv
    <3> HIDE DEF known
    <3>3. IsFiniteSet(known \cup {k})
      BY <3>2, FS_AddElement
    <3> QED
      BY <3>1, <3>3, FS_Subset
  <2> QED
    BY <2>1, <2>2, <2>3 DEF RowInv, Stored
<1>9. VictimInv'
  <2>1. sweeper.at \in {"evicting", "dropping"} =>
           \A v \in Stored(sweeper.victims) : sweeper.victims[v].used =< clock
    BY <1>1 DEF VictimInv
  <2>2. ASSUME sweeper.at \in {"evicting", "dropping"}, NEW j \in Stored(rows')
        PROVE  \/ j \in Stored(sweeper.victims) /\ sweeper.victims[j].used =< rows'[j].used
               \/ \A v \in Stored(sweeper.victims) : sweeper.victims[v].used =< rows'[j].used
    <3>1. j \in Keys /\ rows'[j] # None
      BY <1>3, <2>2, RowFacts
    <3>2. rows'[j].used = clock \/ (j \in Stored(rows) /\ rows'[j].used = rows[j].used)
      BY <1>2, <1>3, <1>6, <3>1, RowFacts
    <3>3. CASE rows'[j].used = clock
      BY <2>1, <2>2, <3>3
    <3>4. CASE j \in Stored(rows) /\ rows'[j].used = rows[j].used
      BY <1>1, <2>2, <3>4 DEF VictimInv
    <3> QED
      BY <3>2, <3>3, <3>4
  <2>3. sweeper.at = "dropping" => sweeper.key \in FirstUsed(sweeper.victims)
    BY <1>1 DEF VictimInv
  <2>4. /\ sweeper'.at = sweeper.at /\ sweeper'.victims = sweeper.victims
        /\ sweeper'.key = sweeper.key
    BY <1>3
  <2> QED
    BY <1>3, <2>1, <2>2, <2>3, <2>4 DEF VictimInv, Stored, FirstUsed
<1>10. CleanInv'
  <2> SUFFICES ASSUME alone' PROVE CleanInv'
    BY DEF CleanInv
  <2>1. sweeper = Resting \/ (alone /\ rows' = rows /\ files' = files /\ parts' = parts)
    BY DEF TaskMoves
  <2>2. CASE sweeper = Resting
    <3>1. sweeper'.at = "resting"
      BY <1>3, <2>2 DEF Resting
    <3> QED
      BY <3>1 DEF CleanInv
  <2>3. CASE alone /\ rows' = rows /\ files' = files /\ parts' = parts
    BY <1>1, <1>3, <2>3 DEF CleanInv, TotalBytes, Stored
  <2> QED
    BY <2>1, <2>2, <2>3
<1> QED
  BY <1>7, <1>8, <1>9, <1>10 DEF CacheInv

----
(* The sweeper *)

\* What a step of the sweeper may do to the rows: drop some.
LEMMA SweeperKeeps ==
    ASSUME CacheInv, UNCHANGED <<clock, jobs, cuts, past>>, alone' \in BOOLEAN,
           rows' \in Victims, \A k \in Keys : rows'[k] = rows[k] \/ rows'[k] = None,
           files' \in [Images -> {"absent", "whole", "torn"}], parts' \subseteq Images,
           sweeper' \in Sweepers
    PROVE  CacheTypeOK' /\ RowInv'
<1>1. CacheTypeOK /\ RowInv
  BY DEF CacheInv
<1>2. CacheTypeOK'
  BY <1>1 DEF CacheTypeOK
<1>3. rows \in Victims
  BY <1>1 DEF CacheTypeOK
<1>4. \A k \in Stored(rows') : k \in Keys /\ k \in Stored(rows) /\ rows'[k] = rows[k]
  BY <1>3, RowFacts
<1>5. \A k \in Stored(rows') : rows'[k].image \in past'[k] /\ rows'[k].used =< clock'
  BY <1>1, <1>4 DEF RowInv
<1>6. \A k \in Keys :
         jobs'[k].at = "reading" /\ rows'[k] # None => jobs'[k].image = rows'[k].image
  BY <1>1 DEF RowInv
<1>7. IsFiniteSet({k \in Keys : past'[k] # {}})
  BY <1>1 DEF RowInv
<1>8. RowInv'
  BY <1>5, <1>6, <1>7 DEF RowInv, Stored
<1> QED
  BY <1>2, <1>8

\* Steps that only look at the index.
LEMMA LookingStep ==
    ASSUME CacheInv, BeginSweep \/ Measure \/ List \/ ReadIndex \/ EndSweep
    PROVE  CacheInv'
<1>1. CacheTypeOK /\ RowInv /\ VictimInv /\ CleanInv
  BY DEF CacheInv
<1>2. /\ rows \in Victims /\ files \in [Images -> {"absent", "whole", "torn"}]
      /\ parts \subseteq Images /\ alone \in BOOLEAN
  BY <1>1 DEF CacheTypeOK
<1>3. UNCHANGED <<clock, jobs, cuts, past, rows, files, parts>>
  BY DEF BeginSweep, Measure, List, ReadIndex, EndSweep, Sweeping
<1>4. TotalBytes' = TotalBytes /\ TotalBytes \in Nat
  BY <1>1, <1>3, TotalFacts DEF TotalBytes, Stored
<1>5. {rows[k].image : k \in Stored(rows)} \in SUBSET Images
  BY <1>2, RowFacts
<1>6. ASSUME alone' \in BOOLEAN, sweeper' \in Sweepers
      PROVE  CacheTypeOK' /\ RowInv'
  BY <1>2, <1>3, <1>6, SweeperKeeps
<1>7. CASE BeginSweep
  <2>1. sweeper' = [at |-> "measuring"] /\ alone' \in BOOLEAN
    BY <1>7 DEF BeginSweep, Sweeps
  <2>2. sweeper' \in Sweepers /\ sweeper'.at = "measuring"
    BY <2>1, SweepersMade
  <2> QED
    BY <1>6, <2>1, <2>2 DEF CacheInv, VictimInv, CleanInv
<1>8. CASE Measure
  <2>1. alone' = alone /\ sweeper' = IF TotalBytes > MaxBytes
                  THEN [at |-> "listing", total |-> TotalBytes] ELSE [at |-> "indexing"]
    BY <1>8 DEF Measure, Sweeps, Leaves
  <2>2. CASE TotalBytes > MaxBytes
    <3>1. sweeper' = [at |-> "listing", total |-> TotalBytes]
      BY <2>1, <2>2
    <3>2. sweeper' \in Sweepers /\ sweeper'.at = "listing" /\ sweeper'.total = TotalBytes
      BY <1>4, <3>1, SweepersMade
    <3> QED
      BY <1>2, <1>4, <1>6, <2>1, <3>2 DEF CacheInv, VictimInv, CleanInv
  <2>3. CASE ~(TotalBytes > MaxBytes)
    <3>1. sweeper' = [at |-> "indexing"]
      BY <2>1, <2>3
    <3>2. sweeper' \in Sweepers /\ sweeper'.at = "indexing"
      BY <3>1, SweepersMade
    <3>3. TotalBytes' =< MaxBytes
      BY <1>4, <2>3, LimitsAssumption
    <3> QED
      BY <1>2, <1>6, <2>1, <3>2, <3>3 DEF CacheInv, VictimInv, CleanInv
  <2> QED
    BY <2>2, <2>3
<1>9. CASE List
  <2>1. /\ alone' = alone /\ sweeper.at = "listing"
        /\ sweeper' = [at |-> "evicting", total |-> sweeper.total, victims |-> rows]
    BY <1>9 DEF List, Sweeps, Leaves
  <2>2. sweeper.total \in Nat
    BY <1>1, <2>1, SweeperFacts
  <2>3. /\ sweeper' \in Sweepers /\ sweeper'.at = "evicting"
        /\ sweeper'.total = sweeper.total /\ sweeper'.victims = rows
    BY <1>2, <2>1, <2>2, SweepersMade
  <2>4. VictimInv'
    <3>1. \A k \in Stored(rows) : rows[k].used =< clock
      BY <1>1 DEF RowInv
    <3>2. \A j \in Stored(rows) : rows[j].used \in Nat
      BY <1>2, RowFacts
    <3>3. \A k \in Stored(sweeper'.victims) : sweeper'.victims[k].used =< clock'
      BY <1>3, <2>3, <3>1
    <3>4. \A j \in Stored(rows') :
             j \in Stored(sweeper'.victims) /\ sweeper'.victims[j].used =< rows'[j].used
      BY <1>3, <2>3, <3>2
    <3> QED
      BY <2>3, <3>3, <3>4 DEF VictimInv, Stored
  <2>5. CleanInv'
    BY <1>1, <1>3, <1>4, <2>1, <2>3 DEF CleanInv
  <2> QED
    BY <1>2, <1>6, <2>1, <2>3, <2>4, <2>5 DEF CacheInv
<1>10. CASE ReadIndex
  <2>1. /\ alone' = alone /\ sweeper.at = "indexing"
        /\ sweeper' = [at |-> "tidying", left |-> Images,
                       known |-> {rows[k].image : k \in Stored(rows)}]
    BY <1>10 DEF ReadIndex, Sweeps, Leaves
  <2>2. /\ sweeper' \in Sweepers /\ sweeper'.at = "tidying" /\ sweeper'.left = Images
        /\ sweeper'.known = {rows[k].image : k \in Stored(rows)}
    BY <1>5, <2>1, SweepersMade
  <2>3. VictimInv'
    BY <2>2 DEF VictimInv
  <2>4. CleanInv'
    <3>1. alone => TotalBytes =< MaxBytes
      BY <1>1, <2>1 DEF CleanInv
    <3>2. {rows'[k].image : k \in Stored(rows')} = {rows[k].image : k \in Stored(rows)}
      BY <1>3
    <3> QED
      BY <1>4, <2>1, <2>2, <3>1, <3>2 DEF CleanInv, Stored
  <2> QED
    BY <1>2, <1>6, <2>1, <2>2, <2>3, <2>4 DEF CacheInv
<1>11. CASE EndSweep
  <2>1. sweeper' = Resting /\ alone' = TRUE
    BY <1>11 DEF EndSweep, Sweeps
  <2>2. sweeper' \in Sweepers /\ sweeper'.at = "resting"
    BY <2>1, SweepersMade DEF Resting
  <2> QED
    BY <1>6, <2>1, <2>2 DEF CacheInv, VictimInv, CleanInv
<1> QED
  BY <1>7, <1>8, <1>9, <1>10, <1>11

\* The first of the list goes from the disk.
LEMMA EvictFileStep ==
    ASSUME CacheInv, EvictFile
    PROVE  CacheInv'
<1>1. CacheTypeOK /\ RowInv /\ VictimInv /\ CleanInv
  BY DEF CacheInv
<1>2. /\ rows \in Victims /\ files \in [Images -> {"absent", "whole", "torn"}]
      /\ parts \subseteq Images /\ alone \in BOOLEAN
  BY <1>1 DEF CacheTypeOK
<1>3. /\ UNCHANGED <<clock, jobs, cuts, past, rows, parts, alone>>
      /\ sweeper.at = "evicting"
  BY DEF EvictFile, Sweeping, Leaves
<1>4. sweeper.total \in Nat /\ sweeper.victims \in Victims
  BY <1>1, <1>3, SweeperFacts
<1>5. TotalBytes' = TotalBytes /\ TotalBytes \in Nat
      /\ (Stored(rows) = {} => TotalBytes = 0)
  BY <1>1, <1>3, TotalFacts DEF TotalBytes, Stored
<1>6. \/ /\ sweeper.total =< MaxBytes \/ Stored(sweeper.victims) = {}
         /\ sweeper' = [at |-> "indexing"] /\ files' = files
      \/ \E k \in FirstUsed(sweeper.victims) :
            /\ files' = [files EXCEPT ![sweeper.victims[k].image] = "absent"]
            /\ sweeper' = [at |-> "dropping", total |-> sweeper.total,
                           victims |-> sweeper.victims, key |-> k]
  BY DEF EvictFile, Sweeps
<1>7. CASE /\ sweeper.total =< MaxBytes \/ Stored(sweeper.victims) = {}
           /\ sweeper' = [at |-> "indexing"] /\ files' = files
  <2>1. sweeper' \in Sweepers /\ sweeper'.at = "indexing"
    BY <1>7, SweepersMade
  <2>2. VictimInv'
    BY <2>1 DEF VictimInv
  <2>3. CleanInv'
    <3>1. alone => TotalBytes =< MaxBytes
      BY <1>1, <1>3, <1>5, <1>7, LimitsAssumption DEF CleanInv
    <3> QED
      BY <1>3, <1>5, <2>1, <3>1 DEF CleanInv
  <2>4. CacheTypeOK' /\ RowInv'
    BY <1>2, <1>3, <1>7, <2>1, SweeperKeeps
  <2> QED
    BY <2>2, <2>3, <2>4 DEF CacheInv
<1>8. ASSUME NEW k \in FirstUsed(sweeper.victims),
             files' = [files EXCEPT ![sweeper.victims[k].image] = "absent"],
             sweeper' = [at |-> "dropping", total |-> sweeper.total,
                         victims |-> sweeper.victims, key |-> k]
      PROVE  CacheInv'
  <2>1. k \in Keys
    BY <1>4, RowFacts DEF FirstUsed
  <2>2. /\ sweeper' \in Sweepers /\ sweeper'.at = "dropping" /\ sweeper'.key = k
        /\ sweeper'.total = sweeper.total /\ sweeper'.victims = sweeper.victims
    BY <1>4, <1>8, <2>1, SweepersMade
  <2>3. VictimInv'
    <3>1. /\ \A v \in Stored(sweeper.victims) : sweeper.victims[v].used =< clock
          /\ \A j \in Stored(rows) :
                \/ j \in Stored(sweeper.victims) /\ sweeper.victims[j].used =< rows[j].used
                \/ \A v \in Stored(sweeper.victims) : sweeper.victims[v].used =< rows[j].used
      BY <1>1, <1>3 DEF VictimInv
    <3> QED
      BY <1>3, <2>2, <3>1 DEF VictimInv, Stored, FirstUsed
  <2>4. CleanInv'
    BY <1>1, <1>3, <1>5, <2>2 DEF CleanInv
  <2>5. files' \in [Images -> {"absent", "whole", "torn"}]
    BY <1>2, <1>8
  <2>6. CacheTypeOK' /\ RowInv'
    BY <1>2, <1>3, <2>2, <2>5, SweeperKeeps
  <2> QED
    BY <2>3, <2>4, <2>6 DEF CacheInv
<1> QED
  BY <1>6, <1>7, <1>8

\* Then its row goes, and the list and the total are without it.
LEMMA EvictRowStep ==
    ASSUME CacheInv, EvictRow
    PROVE  CacheInv'
<1> DEFINE key == sweeper.key
           victims == sweeper.victims
           bytes == Size[victims[key].image]
           shorter == [victims EXCEPT ![key] = None]
<1>1. CacheTypeOK /\ RowInv /\ VictimInv /\ CleanInv
  BY DEF CacheInv
<1>2. /\ rows \in Victims /\ files \in [Images -> {"absent", "whole", "torn"}]
      /\ parts \subseteq Images /\ alone \in BOOLEAN
  BY <1>1 DEF CacheTypeOK
<1>3. /\ UNCHANGED <<clock, jobs, cuts, past, files, parts, alone>>
      /\ sweeper.at = "dropping" /\ rows' = [rows EXCEPT ![key] = None]
      /\ sweeper' = [at |-> "evicting", total |-> Less(sweeper.total, bytes),
                     victims |-> shorter]
  BY DEF EvictRow, Sweeping, Leaves, Sweeps, Without
<1>4. sweeper.total \in Nat /\ victims \in Victims /\ key \in Keys
  BY <1>1, <1>3, SweeperFacts
<1>5. key \in FirstUsed(victims) /\ key \in Stored(victims)
  BY <1>1, <1>3 DEF VictimInv, FirstUsed
<1>6. bytes \in Nat
  BY <1>4, <1>5, RowFacts, SizeAssumption
<1>7. Less(sweeper.total, bytes) \in Nat
  BY <1>4, <1>6 DEF Less
<1>8. shorter \in Victims
  BY <1>4, RowFacts
<1>9. /\ Stored(shorter) = Stored(victims) \ {key}
      /\ \A k \in Stored(shorter) : shorter[k] = victims[k]
  BY <1>4 DEF Stored, Victims
<1> HIDE DEF bytes, key, shorter, victims
<1>10. /\ sweeper' \in Sweepers /\ sweeper'.at = "evicting"
       /\ sweeper'.total = Less(sweeper.total, bytes) /\ sweeper'.victims = shorter
  BY <1>3, <1>7, <1>8, SweepersMade
<1>11. /\ rows' \in Victims /\ rows'[key] = None
       /\ \A k \in Keys : k # key => rows'[k] = rows[k]
  BY <1>2, <1>3, <1>4, RowFacts DEF Victims
<1>12. CacheTypeOK' /\ RowInv'
  <2>1. \A k \in Keys : rows'[k] = rows[k] \/ rows'[k] = None
    BY <1>11
  <2> QED
    BY <1>2, <1>3, <1>10, <1>11, <2>1, SweeperKeeps
<1>13. VictimInv'
  <2>1. /\ \A k \in Stored(victims) : victims[k].used =< clock
        /\ \A j \in Stored(rows) :
              \/ j \in Stored(victims) /\ victims[j].used =< rows[j].used
              \/ \A k \in Stored(victims) : victims[k].used =< rows[j].used
    BY <1>1, <1>3 DEF VictimInv, victims
  <2>2. \A j \in Stored(rows') : j # key /\ j \in Stored(rows) /\ rows'[j] = rows[j]
    BY <1>2, <1>11, RowFacts
  <2>3. \A k \in Stored(shorter) : shorter[k].used =< clock
    BY <1>9, <2>1
  <2>4. \A j \in Stored(rows') :
           \/ j \in Stored(shorter) /\ shorter[j].used =< rows'[j].used
           \/ \A k \in Stored(shorter) : shorter[k].used =< rows'[j].used
    BY <1>9, <2>1, <2>2
  <2> QED
    BY <1>3, <1>10, <2>3, <2>4 DEF VictimInv, Stored
<1>14. CleanInv'
  <2> SUFFICES ASSUME alone PROVE CleanInv'
    BY <1>3 DEF CleanInv
  <2>1. sweeper.total = TotalBytes /\ victims = rows
    BY <1>1, <1>3 DEF CleanInv, victims
  <2>2. key \in Stored(rows) /\ bytes = Size[rows[key].image]
    BY <1>5, <2>1 DEF bytes
  <2>3. TotalBytes = bytes + TotalBytes' /\ TotalBytes' \in Nat
    BY <1>1, <1>3, <2>2, TotalWithout
  <2>4. sweeper'.total = TotalBytes'
    <3>1. \A t \in Nat : Less(bytes + t, bytes) = t
      BY <1>6 DEF Less
    <3> QED
      BY <1>10, <2>1, <2>3, <3>1
  <2>5. sweeper'.victims = rows'
    BY <1>3, <1>10, <2>1 DEF shorter
  <2> QED
    BY <1>10, <2>4, <2>5 DEF CleanInv
<1> QED
  BY <1>12, <1>13, <1>14 DEF CacheInv

\* A name at a time, part files and pictures that the index does not know go.
LEMMA TidyStep ==
    ASSUME CacheInv, TidyUp
    PROVE  CacheInv'
<1>1. CacheTypeOK /\ RowInv /\ VictimInv /\ CleanInv
  BY DEF CacheInv
<1>2. /\ rows \in Victims /\ files \in [Images -> {"absent", "whole", "torn"}]
      /\ parts \subseteq Images /\ alone \in BOOLEAN
  BY <1>1 DEF CacheTypeOK
<1>3. UNCHANGED <<clock, jobs, cuts, past, rows, alone>> /\ sweeper.at = "tidying"
  BY DEF TidyUp, Sweeping, Leaves
<1>4. /\ sweeper.left \subseteq Images /\ sweeper.known \subseteq Images
      /\ sweeper \in [at : {"tidying"}, left : SUBSET Images, known : SUBSET Images]
  BY <1>1, <1>3, SweeperFacts
<1>5. PICK image \in sweeper.left :
         /\ files' = IF image \in sweeper.known THEN files
                     ELSE [files EXCEPT ![image] = "absent"]
         /\ parts' = parts \ {image}
         /\ sweeper' = [sweeper EXCEPT !.left = @ \ {image}]
  BY DEF TidyUp, Tidy, Sweeps
<1>6. /\ sweeper' = [at |-> "tidying", left |-> sweeper.left \ {image}, known |-> sweeper.known]
  BY <1>4, <1>5
<1>7. /\ sweeper' \in Sweepers /\ sweeper'.at = "tidying"
      /\ sweeper'.left = sweeper.left \ {image} /\ sweeper'.known = sweeper.known
  <2>1. sweeper.left \ {image} \in SUBSET Images
    BY <1>4
  <2> QED
    BY <1>4, <1>6, <2>1, SweepersMade
<1>8. files' \in [Images -> {"absent", "whole", "torn"}] /\ parts' \subseteq Images
  BY <1>2, <1>5
<1>9. CacheTypeOK' /\ RowInv'
  BY <1>2, <1>3, <1>7, <1>8, SweeperKeeps
<1>10. VictimInv'
  BY <1>7 DEF VictimInv
<1>11. CleanInv'
  <2> SUFFICES ASSUME alone PROVE CleanInv'
    BY <1>3 DEF CleanInv
  <2>1. /\ TotalBytes =< MaxBytes
        /\ sweeper.known = {rows[k].image : k \in Stored(rows)}
        /\ \A i \in Images \ sweeper.left :
              i \notin parts /\ (files[i] # "absent" => i \in sweeper.known)
    BY <1>1, <1>3 DEF CleanInv
  <2>2. TotalBytes' = TotalBytes
    BY <1>3 DEF TotalBytes, Stored
  <2>3. {rows'[k].image : k \in Stored(rows')} = {rows[k].image : k \in Stored(rows)}
    BY <1>3
  <2>4. \A i \in Images \ sweeper'.left :
           i \notin parts' /\ (files'[i] # "absent" => i \in sweeper'.known)
    <3> TAKE i \in Images \ sweeper'.left
    <3>1. CASE i = image
      BY <1>2, <1>5, <1>7, <3>1
    <3>2. CASE i # image
      <4>1. i \in Images \ sweeper.left /\ files'[i] = files[i]
        BY <1>2, <1>5, <1>7, <3>2
      <4> QED
        BY <1>5, <1>7, <2>1, <4>1
    <3> QED
      BY <3>1, <3>2
  <2> QED
    BY <1>7, <2>1, <2>2, <2>3, <2>4 DEF CleanInv, Stored
<1> QED
  BY <1>9, <1>10, <1>11 DEF CacheInv

\* The clock goes on.
LEMMA ClockStep ==
    ASSUME CacheInv, Tick
    PROVE  CacheInv'
<1>1. CacheTypeOK /\ RowInv /\ VictimInv /\ CleanInv
  BY DEF CacheInv
<1>2. /\ UNCHANGED <<rows, files, parts, jobs, sweeper, cuts, past, alone>>
      /\ clock' = clock + 1 /\ clock \in Nat /\ rows \in Victims
  BY <1>1 DEF Tick, storage, CacheTypeOK
<1>3. CacheTypeOK'
  BY <1>1, <1>2 DEF CacheTypeOK
<1>4. RowInv'
  <2>1. \A k \in Stored(rows) : rows[k].image \in past[k] /\ rows[k].used =< clock + 1
    BY <1>1, <1>2, RowFacts DEF RowInv
  <2> QED
    BY <1>1, <1>2, <2>1 DEF RowInv, Stored
<1>5. VictimInv'
  <2>1. sweeper.at \in {"evicting", "dropping"} =>
           \A k \in Stored(sweeper.victims) : sweeper.victims[k].used =< clock + 1
    <3>1. ASSUME sweeper.at \in {"evicting", "dropping"}, NEW k \in Stored(sweeper.victims)
          PROVE  sweeper.victims[k].used =< clock + 1
      <4>1. sweeper.victims \in Victims
        BY <1>1, <3>1, SweeperFacts
      <4>2. sweeper.victims[k].used \in Nat /\ sweeper.victims[k].used =< clock
        BY <1>1, <3>1, <4>1, RowFacts DEF VictimInv
      <4> QED
        BY <1>2, <4>2
    <3> QED
      BY <3>1
  <2> QED
    BY <1>1, <1>2, <2>1 DEF VictimInv, Stored, FirstUsed
<1>6. CleanInv'
  BY <1>1, <1>2 DEF CleanInv, TotalBytes, Stored
<1> QED
  BY <1>3, <1>4, <1>5, <1>6 DEF CacheInv

\* After a power cut the index holds what it held, or what was stored earlier, and
\* nobody is at work.
LEMMA CutStep ==
    ASSUME CacheInv, PowerCut
    PROVE  CacheInv'
<1>1. CacheTypeOK /\ RowInv
  BY DEF CacheInv
<1>2. /\ clock \in Nat /\ parts \subseteq Images /\ past \in [Keys -> SUBSET Images]
      /\ rows \in Victims /\ files \in [Images -> {"absent", "whole", "torn"}]
  BY <1>1 DEF CacheTypeOK
<1>3. /\ UNCHANGED <<clock, parts, past>> /\ sweeper' = Resting /\ alone' = TRUE
      /\ jobs' = [k \in Keys |-> Idle]
  BY DEF PowerCut
<1>4. PICK older \in [Keys -> {None} \cup [image : Images, used : {0}]] :
         /\ \A k \in Keys : older[k] # None => older[k].image \in past[k]
         /\ rows' \in {rows, older}
  BY DEF PowerCut
<1>5. PICK spoilt \in SUBSET {i \in Images : files[i] # "absent"} :
         \E become \in {"absent", "torn"} :
           files' = [i \in Images |-> IF i \in spoilt THEN become ELSE files[i]]
  BY DEF PowerCut
<1>6. files' \in [Images -> {"absent", "whole", "torn"}]
  BY <1>2, <1>5
<1>7. older \in Victims /\ \A k \in Stored(older) : older[k].used = 0
  <2>1. \A k \in Keys : older[k] # None => older[k] \in Row /\ older[k].used = 0
    BY <1>4 DEF Row
  <2> QED
    BY <1>4, <2>1 DEF Victims, Stored
<1>8. rows' \in Victims
  BY <1>2, <1>4, <1>7
<1>9. \A k \in Keys : jobs'[k] \in Tasks /\ jobs'[k].at = "idle"
  BY <1>3, TasksMade DEF Idle
<1>10. sweeper' \in Sweepers /\ sweeper'.at = "resting"
  BY <1>3, SweepersMade DEF Resting
<1>11. CacheTypeOK'
  BY <1>2, <1>3, <1>6, <1>8, <1>9, <1>10 DEF CacheTypeOK
<1>12. RowInv'
  <2>1. \A k \in Stored(rows') : rows'[k].image \in past[k] /\ rows'[k].used =< clock
    <3>1. CASE rows' = rows
      BY <1>1, <3>1 DEF RowInv
    <3>2. CASE rows' = older
      <4>1. \A k \in Stored(older) : k \in Keys /\ older[k] # None /\ older[k].used = 0
        BY <1>7, RowFacts
      <4> QED
        BY <1>2, <1>4, <3>2, <4>1
    <3> QED
      BY <1>4, <3>1, <3>2
  <2>2. IsFiniteSet({k \in Keys : past'[k] # {}})
    BY <1>1, <1>3 DEF RowInv
  <2> QED
    BY <1>3, <1>9, <2>1, <2>2 DEF RowInv, Stored
<1>13. VictimInv' /\ CleanInv'
  BY <1>10 DEF VictimInv, CleanInv
<1> QED
  BY <1>11, <1>12, <1>13 DEF CacheInv

----
(* Theorems about the cache *)

LEMMA CacheStart == CacheInit => CacheInv
<1> SUFFICES ASSUME CacheInit PROVE CacheInv
  OBVIOUS
<1>1. /\ clock = 0 /\ rows = [k \in Keys |-> None] /\ files = [i \in Images |-> "absent"]
      /\ parts = {} /\ jobs = [k \in Keys |-> Idle] /\ sweeper = Resting
      /\ past = [k \in Keys |-> {}] /\ alone = TRUE
  BY DEF CacheInit
<1>2. sweeper \in Sweepers /\ sweeper.at = "resting"
  BY <1>1, SweepersMade DEF Resting
<1>3. \A k \in Keys : jobs[k] \in Tasks /\ jobs[k].at = "idle"
  BY <1>1, TasksMade DEF Idle
<1>4. CacheTypeOK
  BY <1>1, <1>2, <1>3 DEF CacheTypeOK, Victims
<1>5. RowInv
  <2>1. {k \in Keys : past[k] # {}} = {}
    BY <1>1
  <2>2. Stored(rows) = {}
    BY <1>1 DEF Stored
  <2> QED
    BY <1>3, <2>1, <2>2, FS_EmptySet DEF RowInv
<1>6. VictimInv /\ CleanInv
  BY <1>2 DEF VictimInv, CleanInv
<1> QED
  BY <1>4, <1>5, <1>6 DEF CacheInv

LEMMA CacheStep == CacheInv /\ [CacheNext]_cacheVars => CacheInv'
<1> SUFFICES ASSUME CacheInv, [CacheNext]_cacheVars PROVE CacheInv'
  OBVIOUS
<1>1. ASSUME NEW k \in Keys, Task(k)
      PROVE  CacheInv'
  BY <1>1, TaskShape, TaskStep
<1>2. CASE Sweep
  BY <1>2, LookingStep, EvictFileStep, EvictRowStep, TidyStep DEF Sweep
<1>3. CASE Tick
  BY <1>3, ClockStep
<1>4. CASE PowerCut
  BY <1>4, CutStep
<1>5. CASE UNCHANGED cacheVars
  <2>1. UNCHANGED <<clock, rows, files, parts, jobs, sweeper, cuts, past, answer, alone>>
    BY <1>5 DEF cacheVars, storage, ghosts
  <2> QED
    BY <2>1 DEF CacheInv, CacheTypeOK, RowInv, VictimInv, CleanInv, TotalBytes, Stored, FirstUsed
<1> QED
  BY <1>1, <1>2, <1>3, <1>4, <1>5 DEF CacheNext

\* The index holds what was stored and is never ahead of the clock, the sweeper's
\* list never names a time later than the rows do, and an undisturbed sweep
\* counts exactly what is left.
THEOREM CacheInvariance == CacheSpec => []CacheInv
BY CacheStart, CacheStep, PTL DEF CacheSpec

\* Types of the index, of the files, of the tasks and of the sweeper.
THEOREM CacheTypes == CacheSpec => []CacheTypeOK
<1>1. CacheInv => CacheTypeOK
  BY DEF CacheInv
<1> QED
  BY <1>1, CacheInvariance, PTL

\* An undisturbed sweep leaves the cache within its limit, with no part file and
\* no picture the index does not know: for any pictures and sizes, any number of
\* albums and any limit.  (cache.rs, sweep, remove_unreferenced_files.)
THEOREM SweptTheorem == CacheSpec => []SweptClean
<1>1. CacheInv => SweptClean
  <2> SUFFICES ASSUME CacheInv, Swept, alone PROVE SweptClean
    BY DEF SweptClean
  <2>1. CacheTypeOK /\ CleanInv /\ sweeper.at = "tidying" /\ sweeper.left = {}
    BY DEF CacheInv, Swept
  <2>2. /\ TotalBytes =< MaxBytes
        /\ sweeper.known = {rows[k].image : k \in Stored(rows)}
        /\ \A i \in Images : i \notin parts /\ (files[i] # "absent" => i \in sweeper.known)
    BY <2>1 DEF CleanInv
  <2>3. parts \subseteq Images
    BY <2>1 DEF CacheTypeOK
  <2> QED
    BY <2>2, <2>3 DEF SweptClean
<1> QED
  BY <1>1, CacheInvariance, PTL

\* Of all that is stored when a picture is evicted, none was last used before the
\* use that picture had when the victims were listed; so it is the least recently
\* used, unless it was looked at or stored anew since: for any albums and any steps
\* of their tasks in between.  (cache.rs, sweep.)
THEOREM VictimsTheorem == CacheSpec => VictimsGoInOrder
<1> DEFINE Least == \A k \in Keys :
             sweeper.at = "dropping" /\ sweeper.key = k /\ sweeper'.at = "evicting" =>
               \A j \in Stored(rows) \ {k} :
                 /\ sweeper.victims[k].used <= rows[j].used
                 /\ UsedSince(k) \/ rows[k].used <= rows[j].used
<1>1. CacheInv => Least
  <2> SUFFICES ASSUME CacheInv, NEW k \in Keys, sweeper.at = "dropping", sweeper.key = k,
                      NEW j \in Stored(rows)
               PROVE  /\ sweeper.victims[k].used <= rows[j].used
                      /\ UsedSince(k) \/ rows[k].used <= rows[j].used
    OBVIOUS
  <2>1. CacheTypeOK /\ VictimInv
    BY DEF CacheInv
  <2>2. rows \in Victims /\ sweeper.victims \in Victims
    BY <2>1, SweeperFacts DEF CacheTypeOK
  <2>3. k \in FirstUsed(sweeper.victims)
    BY <2>1 DEF VictimInv
  <2>4. k \in Stored(sweeper.victims) /\ \A v \in Stored(sweeper.victims) :
           sweeper.victims[k].used =< sweeper.victims[v].used
    BY <2>3 DEF FirstUsed
  <2>5. \/ j \in Stored(sweeper.victims) /\ sweeper.victims[j].used =< rows[j].used
        \/ \A v \in Stored(sweeper.victims) : sweeper.victims[v].used =< rows[j].used
    BY <2>1 DEF VictimInv
  <2>6. /\ rows[j].used \in Nat
        /\ \A v \in Stored(sweeper.victims) : sweeper.victims[v].used \in Nat
    BY <2>2, RowFacts
  <2>7. sweeper.victims[k].used <= rows[j].used
    BY <2>4, <2>5, <2>6
  <2> QED
    BY <2>7 DEF UsedSince
<1>2. CacheInv /\ [CacheNext]_cacheVars => [Least]_cacheVars
  BY <1>1
<1> QED
  BY <1>2, CacheInvariance, PTL DEF CacheSpec, VictimsGoInOrder

----
(* The cache keeps its promise *)

\* What a task still holds, or the index.
LEMMA HeldFacts ==
    ASSUME CacheTypeOK, NEW k \in Keys
    PROVE  /\ jobs[k].at = "reading" => Held[k] = jobs[k].image
           /\ jobs[k].at # "reading" /\ rows[k] # None => Held[k] = rows[k].image
           /\ jobs[k].at # "reading" /\ rows[k] = None => Held[k] = None
           /\ Held[k] \in Images \cup {None}
<1>1. /\ jobs[k].at = "reading" => Held[k] = jobs[k].image
      /\ jobs[k].at # "reading" /\ rows[k] # None => Held[k] = rows[k].image
      /\ jobs[k].at # "reading" /\ rows[k] = None => Held[k] = None
  BY DEF Held
<1>2. jobs[k].at = "reading" => jobs[k].image \in Images
  BY TaskFacts
<1>3. rows[k] # None => rows[k].image \in Images
  <2>1. rows \in Victims
    BY DEF CacheTypeOK
  <2> QED
    BY <2>1, RowFacts
<1> QED
  BY <1>1, <1>2, <1>3

\* A step that answers nothing and at most forgets.
LEMMA Forgets ==
    ASSUME CacheTypeOK, past' = past, answer' = None,
           \A k \in Keys : Held'[k] = Held[k] \/ Held'[k] = None
    PROVE  Promise!Forget
<1> DEFINE lost == {k \in Keys : Held'[k] # Held[k]}
<1>1. Held' = [k \in Keys |-> Held'[k]]
  BY DEF Held
<1>2. \A k \in Keys : Held'[k] = IF k \in lost THEN None ELSE Held[k]
  OBVIOUS
<1>3. lost \in SUBSET Keys
  OBVIOUS
<1> HIDE DEF lost
<1>4. Held' = [k \in Keys |-> IF k \in lost THEN None ELSE Held[k]]
  BY <1>1, <1>2
<1> QED
  BY <1>3, <1>4 DEF Promise!Forget

LEMMA HeldNext ==
    ASSUME NEW k \in Keys
    PROVE  /\ jobs'[k].at = "reading" => Held'[k] = jobs'[k].image
           /\ jobs'[k].at # "reading" /\ rows'[k] # None => Held'[k] = rows'[k].image
           /\ jobs'[k].at # "reading" /\ rows'[k] = None => Held'[k] = None
           /\ jobs'[k] = jobs[k] /\ rows'[k] = rows[k] => Held'[k] = Held[k]
BY DEF Held

\* A step of one task.
LEMMA TaskPromise ==
    ASSUME CacheInv, NEW k \in Keys, Task(k)
    PROVE  [Promise!StoreNext]_(Promise!storeVars)
<1>1. CacheTypeOK /\ RowInv
  BY DEF CacheInv
<1>2. rows \in Victims /\ jobs \in [Keys -> Tasks] /\ past \in [Keys -> SUBSET Images]
  BY <1>1 DEF CacheTypeOK
<1>3. \A job \in Tasks :
         Goes(k, job) => jobs'[k] = job /\ \A j \in Keys : j # k => jobs'[j] = jobs[j]
  BY <1>1, Going
<1>4. /\ \A j \in Keys : j # k => rows'[j] = rows[j]
      /\ \A j \in Keys : j # k => jobs'[j] = jobs[j]
  BY <1>3, TaskShape DEF TaskMoves
<1>5. \A j \in Keys : j # k => Held'[j] = Held[j]
  BY <1>4, HeldNext
<1>6. ASSUME past' = past, answer' = None, Held'[k] = Held[k] \/ Held'[k] = None
      PROVE  [Promise!StoreNext]_(Promise!storeVars)
  <2>1. Promise!Forget
    BY <1>1, <1>5, <1>6, Forgets
  <2> QED
    BY <2>1 DEF Promise!StoreNext
<1>7. /\ jobs[k].at = "reading" => Held[k] = jobs[k].image
      /\ jobs[k].at # "reading" /\ rows[k] # None => Held[k] = rows[k].image
      /\ jobs[k].at # "reading" /\ rows[k] = None => Held[k] = None
      /\ Held[k] \in Images \cup {None}
  BY <1>1, HeldFacts
<1>8. /\ jobs'[k].at = "reading" => Held'[k] = jobs'[k].image
      /\ jobs'[k].at # "reading" /\ rows'[k] # None => Held'[k] = rows'[k].image
      /\ jobs'[k].at # "reading" /\ rows'[k] = None => Held'[k] = None
  BY HeldNext
<1>9. CASE LookUp(k)
  <2>1. /\ jobs[k] = Idle /\ past' = past /\ answer' = None /\ rows' = rows
        /\ Goes(k, IF rows[k] = None THEN [at |-> "missing"]
                   ELSE [at |-> "reading", image |-> rows[k].image])
    BY <1>9 DEF LookUp
  <2>2. jobs[k].at # "reading"
    BY <2>1 DEF Idle
  <2>3. CASE rows[k] = None
    <3>1. jobs'[k] = [at |-> "missing"]
      BY <1>3, <2>1, <2>3, TasksMade
    <3> QED
      BY <1>6, <1>8, <2>1, <2>3, <3>1
  <2>4. CASE rows[k] # None
    <3>1. [at |-> "reading", image |-> rows[k].image] \in Tasks
      BY <1>2, <2>4, RowFacts, TasksMade
    <3>2. jobs'[k] = [at |-> "reading", image |-> rows[k].image]
      BY <1>3, <2>1, <2>4, <3>1
    <3>3. Held'[k] = Held[k]
      BY <1>7, <1>8, <2>2, <2>4, <3>2
    <3> QED
      BY <1>6, <2>1, <3>3
  <2> QED
    BY <2>3, <2>4
<1>10. CASE ReadFile(k)
  <2>1. jobs[k].at = "reading" /\ past' = past /\ rows' = rows
    BY <1>10 DEF ReadFile
  <2>2. Held[k] = jobs[k].image /\ Held[k] # None
    BY <1>1, <1>7, <2>1, TaskFacts, NoneAssumption
  <2>3. \A at \in {"touching", "forgetting"} :
           Goes(k, [at |-> at]) => jobs'[k] = [at |-> at]
    BY <1>3, TasksMade
  <2>4. rows[k] # None => rows[k].image = jobs[k].image
    BY <1>1, <2>1 DEF RowInv
  <2>5. ASSUME Goes(k, [at |-> "touching"]) \/ Goes(k, [at |-> "forgetting"])
        PROVE  Held'[k] = Held[k] \/ Held'[k] = None
    <3>1. jobs'[k].at # "reading"
      BY <2>3, <2>5
    <3> QED
      BY <1>8, <2>1, <2>2, <2>4, <3>1
  <2>6. CASE Verified(jobs[k].image)
    <3>1. Goes(k, [at |-> "touching"]) /\ answer' = [key |-> k, image |-> jobs[k].image]
      BY <1>10, <2>6 DEF ReadFile, Verified
    <3>2. Held' \in {Held, [Held EXCEPT ![k] = None]}
      <4>1. Held'[k] = Held[k] \/ Held'[k] = None
        BY <2>5, <3>1
      <4>2. DOMAIN Held = Keys /\ Held = [j \in Keys |-> Held[j]]
            /\ Held' = [j \in Keys |-> Held'[j]]
        BY DEF Held
      <4>3. CASE Held'[k] = Held[k]
        <5>1. \A j \in Keys : Held'[j] = Held[j]
          BY <1>5, <4>3
        <5> QED
          BY <4>2, <5>1
      <4>4. CASE Held'[k] = None
        <5>1. \A j \in Keys : Held'[j] = [Held EXCEPT ![k] = None][j]
          BY <1>5, <4>2, <4>4
        <5> QED
          BY <4>2, <5>1
      <4> QED
        BY <4>1, <4>3, <4>4
    <3>3. Promise!Answer(k)
      BY <2>1, <2>2, <3>1, <3>2 DEF Promise!Answer
    <3> QED
      BY <3>3 DEF Promise!StoreNext
  <2>7. CASE ~Verified(jobs[k].image)
    <3>1. Goes(k, [at |-> "forgetting"]) /\ answer' = None
      BY <1>10, <2>7 DEF ReadFile
    <3> QED
      BY <1>6, <2>1, <2>5, <3>1
  <2> QED
    BY <2>6, <2>7
<1>11. CASE Touch(k)
  <2>1. /\ jobs[k].at = "touching" /\ past' = past /\ answer' = None
        /\ rows' = IF rows[k] = None THEN rows ELSE [rows EXCEPT ![k].used = clock]
        /\ Goes(k, Idle)
    BY <1>11 DEF Touch
  <2>2. jobs'[k].at # "reading"
    BY <1>3, <2>1, TasksMade DEF Idle
  <2>3. CASE rows[k] = None
    BY <1>6, <1>8, <2>1, <2>2, <2>3
  <2>4. CASE rows[k] # None
    <3>1. rows'[k] = [rows[k] EXCEPT !.used = clock] /\ rows[k] \in Row
      BY <1>2, <2>1, <2>4, RowFacts DEF Victims
    <3>2. rows'[k].image = rows[k].image
      BY <3>1 DEF Row
    <3>3. Held'[k] = Held[k] \/ Held'[k] = None
      BY <1>7, <1>8, <2>1, <2>2, <2>4, <3>2
    <3> QED
      BY <1>6, <2>1, <3>3
  <2> QED
    BY <2>3, <2>4
<1>12. CASE ForgetRow(k)
  <2>1. past' = past /\ answer' = None /\ rows' = [rows EXCEPT ![k] = None]
        /\ Goes(k, [at |-> "missing"])
    BY <1>12 DEF ForgetRow, Without
  <2>2. jobs'[k].at # "reading" /\ rows'[k] = None
    BY <1>2, <1>3, <2>1, TasksMade DEF Victims
  <2> QED
    BY <1>6, <1>8, <2>1, <2>2
<1>13. CASE Ask(k) \/ WritePart(k) \/ RenamePart(k)
  <2>1. /\ past' = past /\ answer' = None /\ rows' = rows
        /\ jobs[k].at \in {"missing", "writing", "renaming"}
    BY <1>13 DEF Ask, WritePart, RenamePart
  <2>2. PICK job \in Tasks :
           /\ Goes(k, job)
           /\ job.at = "reading" => rows[k] # None /\ job.image = rows[k].image
    BY TaskShape DEF TaskMoves
  <2>3. jobs'[k] = job
    BY <1>3, <2>2
  <2>4. jobs[k].at # "reading"
    BY <2>1
  <2>5. Held'[k] = Held[k]
    BY <1>7, <1>8, <2>1, <2>2, <2>3, <2>4
  <2> QED
    BY <1>6, <2>1, <2>5
<1>14. CASE InsertRow(k)
  <2> DEFINE image == jobs[k].image
  <2>1. /\ jobs[k].at = "inserting" /\ answer' = None /\ Goes(k, Idle)
        /\ rows' = [rows EXCEPT ![k] = [image |-> image, used |-> clock]]
        /\ past' = [past EXCEPT ![k] = past[k] \cup {image}]
    BY <1>14 DEF InsertRow
  <2>2. image \in Images
    BY <1>1, <2>1, TaskFacts
  <2>3. jobs'[k].at # "reading"
    BY <1>3, <2>1, TasksMade DEF Idle
  <2>4. rows'[k] = [image |-> image, used |-> clock] /\ rows'[k] # None
    <3>1. [image |-> image, used |-> clock] \in Row
      BY <1>1, <2>2 DEF CacheTypeOK, Row
    <3> QED
      BY <1>2, <2>1, <3>1, RowFacts DEF Victims
  <2>5. Held'[k] = image
    BY <1>8, <2>3, <2>4
  <2>6. Held' = [Held EXCEPT ![k] = image]
    <3>1. DOMAIN Held = Keys /\ Held' = [j \in Keys |-> Held'[j]] /\ Held = [j \in Keys |-> Held[j]]
      BY DEF Held
    <3>2. \A j \in Keys : Held'[j] = [Held EXCEPT ![k] = image][j]
      BY <1>5, <2>5, <3>1
    <3> QED
      BY <3>1, <3>2
  <2>7. Promise!Store(k, image)
    BY <2>1, <2>6 DEF Promise!Store
  <2> QED
    BY <2>2, <2>7 DEF Promise!StoreNext
<1> QED
  BY <1>9, <1>10, <1>11, <1>12, <1>13, <1>14 DEF Task

\* A step of the sweeper forgets, or nothing changes for those who ask.
LEMMA SweepPromise ==
    ASSUME CacheInv, Sweep
    PROVE  Promise!Forget
<1>1. CacheTypeOK /\ rows \in Victims
  BY DEF CacheInv, CacheTypeOK
<1>2. past' = past /\ answer' = None /\ jobs' = jobs
  BY DEF Sweep, BeginSweep, Measure, List, EvictFile, EvictRow, ReadIndex, TidyUp, EndSweep,
         Sweeping
<1>3. rows' = rows \/ rows' = [rows EXCEPT ![sweeper.key] = None]
  BY DEF Sweep, BeginSweep, Measure, List, EvictFile, EvictRow, ReadIndex, TidyUp, EndSweep,
         Without
<1>4. \A k \in Keys : rows'[k] = rows[k] \/ rows'[k] = None
  BY <1>1, <1>3 DEF Victims
<1>5. \A k \in Keys : Held'[k] = Held[k] \/ Held'[k] = None
  <2> TAKE k \in Keys
  <2>1. CASE rows'[k] = rows[k]
    BY <1>2, <2>1, HeldNext
  <2>2. CASE rows'[k] = None
    BY <1>1, <1>2, <2>2, HeldNext, HeldFacts
  <2> QED
    BY <1>4, <2>1, <2>2
<1> QED
  BY <1>1, <1>2, <1>5, Forgets

\* A power cut brings back what was stored under the same key, or nothing.
LEMMA CutPromise ==
    ASSUME CacheInv, CacheInv', PowerCut
    PROVE  Promise!PowerCut
<1>1. past' = past /\ answer' = None /\ jobs' = [k \in Keys |-> Idle]
  BY DEF PowerCut
<1>2. rows' \in Victims /\ past' \in [Keys -> SUBSET Images]
  BY DEF CacheInv, CacheTypeOK
<1>3. \A k \in Stored(rows') : rows'[k].image \in past'[k]
  BY DEF CacheInv, RowInv, Stored
<1>4. \A k \in Keys : jobs'[k].at # "reading"
  BY <1>1 DEF Idle
<1>5. \A k \in Keys : Held'[k] \in past[k] \cup {None} /\ Held'[k] \in Images \cup {None}
  <2> TAKE k \in Keys
  <2>1. CASE rows'[k] = None
    BY <1>4, <2>1, HeldNext
  <2>2. CASE rows'[k] # None
    <3>1. k \in Stored(rows')
      BY <2>2 DEF Stored
    <3>2. rows'[k].image \in past[k] /\ rows'[k].image \in Images
      BY <1>1, <1>2, <1>3, <3>1, RowFacts
    <3> QED
      BY <1>4, <2>2, <3>2, HeldNext
  <2> QED
    BY <2>1, <2>2
<1>6. Held' \in [Keys -> Images \cup {None}]
  <2>1. Held' = [k \in Keys |-> Held'[k]]
    BY DEF Held
  <2> QED
    BY <1>5, <2>1
<1> QED
  BY <1>1, <1>5, <1>6 DEF Promise!PowerCut

LEMMA CachePromises ==
    CacheInv /\ CacheInv' /\ [CacheNext]_cacheVars => [Promise!StoreNext]_(Promise!storeVars)
<1> SUFFICES ASSUME CacheInv, CacheInv', [CacheNext]_cacheVars
             PROVE  [Promise!StoreNext]_(Promise!storeVars)
  OBVIOUS
<1>1. ASSUME NEW k \in Keys, Task(k)
      PROVE  [Promise!StoreNext]_(Promise!storeVars)
  BY <1>1, TaskPromise
<1>2. CASE Sweep
  BY <1>2, SweepPromise DEF Promise!StoreNext
<1>3. CASE Tick
  <2>1. /\ past' = past /\ answer' = None /\ jobs' = jobs /\ rows' = rows
    BY <1>3 DEF Tick
  <2>2. \A k \in Keys : Held'[k] = Held[k]
    BY <2>1, HeldNext
  <2>3. CacheTypeOK
    BY DEF CacheInv
  <2>4. Promise!Forget
    BY <2>1, <2>2, <2>3, Forgets
  <2> QED
    BY <2>4 DEF Promise!StoreNext
<1>4. CASE PowerCut
  BY <1>4, CutPromise DEF Promise!StoreNext
<1>5. CASE UNCHANGED cacheVars
  <2>1. UNCHANGED <<rows, jobs, past, answer>>
    BY <1>5 DEF cacheVars, ghosts
  <2>2. Held' = Held
    BY <2>1 DEF Held
  <2> QED
    BY <2>1, <2>2 DEF Promise!storeVars
<1> QED
  BY <1>1, <1>2, <1>3, <1>4, <1>5 DEF CacheNext

LEMMA CacheStartsEmpty == CacheInit => Promise!StoreInit
<1> SUFFICES ASSUME CacheInit PROVE Promise!StoreInit
  OBVIOUS
<1>1. /\ rows = [k \in Keys |-> None] /\ jobs = [k \in Keys |-> Idle]
      /\ past = [k \in Keys |-> {}] /\ answer = None
  BY DEF CacheInit
<1>2. Held = [k \in Keys |-> None]
  BY <1>1 DEF Held, Idle
<1> QED
  BY <1>1, <1>2 DEF Promise!StoreInit

\* The cache implements the store that may forget: for any albums, pictures and
\* sizes, and however tasks, sweeps and power cuts interleave, a lookup answers
\* with the picture stored last under its key, whole, or with none.  (cache.rs,
\* get, put.)
THEOREM CacheIsAStore == CacheSpec => KeepsItsPromise
BY CacheStartsEmpty, CachePromises, CacheInvariance, PTL
   DEF CacheSpec, KeepsItsPromise, Promise!StoreSpec

====
