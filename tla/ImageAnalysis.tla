---- MODULE ImageAnalysis ----
(***************************************************************************)
(* What is read out of the pixels of a cover (crates/lpframe-image): a     *)
(* small copy, a hash of its shape, a histogram of its colours, which the  *)
(* gate of artd compares (enrich/gate.rs), and the two colours that the    *)
(* renderer draws a background with.                                       *)
(*                                                                         *)
(* A picture is opaque and grey, a sequence of rows of stored levels.  The *)
(* curves that the code puts a level through are tables: its linear light, *)
(* in which averages are taken, and its lightness, the L of OKLab, which   *)
(* is what is compared.  Of a grey the other two axes of OKLab are nothing,*)
(* the same share of every bin, and are left out.                          *)
(***************************************************************************)
EXTENDS Integers, Sequences, SequencesExt, FiniteSetsExt

CONSTANTS
    Levels,       \* 255
    Linear,       \* srgb_to_linear of every half level: Linear[2 * v] is that of v
    Lightness,    \* L of linear_to_oklab of the grey of a level, white at the top
    Grid,         \* GRID of the gate
    HashWidth,    \* comparisons in a row of the hash
    HashHeight,   \* rows of the hash
    HammingMax,   \* HAMMING_MAX
    SampleGrid,   \* the grid of palette
    Iterations    \* of kmeans: 12

Width(p) == Len(p[1])
Height(p) == Len(p)
SumOver(set, f(_)) == MapThenSumSet(f, set)

(* resize.rs *)

\* The source pixels under one of `out`, of n pixels in all.
Span(o, n, out) ==
    LET low == (o * n) \div out
        high == ((o + 1) * n + out - 1) \div out
    IN low .. Min({Max({high, low + 1}), n}) - 1

\* encode: the level nearest to the light of sum / n.
Encoded(sum, n) == Cardinality({v \in 0 .. Levels - 1 : Linear[2 * v + 1] * n <= sum})

\* resize_box: plain averages of the light.
Averaged(p, xs, ys) ==
    LET n == Cardinality(xs) * Cardinality(ys)
        sum == SumOver(ys, LAMBDA y : SumOver(xs, LAMBDA x : Linear[2 * p[y + 1][x + 1]]))
    IN Encoded(sum, n)

ResizeBox(p, w, h) ==
    [row \in 1 .. h |-> [col \in 1 .. w |->
       Averaged(p, Span(col - 1, Width(p), w), Span(row - 1, Height(p), h))]]

(* hash.rs *)

\* dhash: whether each pixel is lighter than the one to its right.
DHash(p) ==
    LET small == ResizeBox(p, HashWidth + 1, HashHeight)
    IN {at \in (1 .. HashHeight) \X (1 .. HashWidth) :
          Lightness[small[at[1]][at[2]]] > Lightness[small[at[1]][at[2] + 1]]}

Hamming(a, b) == Cardinality((a \ b) \cup (b \ a))

(* histogram.rs *)

Bins == 0 .. 3

White == Lightness[Levels]

\* axis and split: the share of a pixel that a bin of lightness gets, in parts of White.
Share(level, bin) ==
    LET low == (3 * Lightness[level]) \div White
        frac == (3 * Lightness[level]) % White
    IN (IF bin = low THEN White - frac ELSE 0) + (IF bin = Min({low + 1, 3}) THEN frac ELSE 0)

Histogram(p) ==
    [bin \in Bins |->
       SumOver(DOMAIN p, LAMBDA row :
          SumOver(DOMAIN p[row], LAMBDA col : Share(p[row][col], bin)))]

Dot(f, g) == SumOver(Bins, LAMBDA bin : f[bin] * g[bin])

\* histogram_similarity of at least 0.85, in squares.
Similar(f, g) == 400 * Dot(f, g) * Dot(f, g) >= 289 * Dot(f, f) * Dot(g, g)

(* gate.rs *)

Fingerprint(p) ==
    LET small == ResizeBox(p, Grid, Grid)
    IN [dhash |-> DHash(small), histogram |-> Histogram(small)]

\* compare and Visual::passes
Alike(p, q) ==
    LET f == Fingerprint(p)
        g == Fingerprint(q)
    IN Hamming(f.dhash, g.dhash) <= HammingMax /\ Similar(f.histogram, g.histogram)

(* color.rs *)

\* sample_oklab: the lightness of every step-th pixel of every step-th row.
Stepped(seq) ==
    LET step == Max({Len(seq) \div SampleGrid, 1})
    IN [i \in 1 .. (Len(seq) + step - 1) \div step |-> seq[(i - 1) * step + 1]]
Samples(p) ==
    FlattenSeq([i \in DOMAIN Stepped(p) |->
       LET row == Stepped(Stepped(p)[i]) IN [j \in DOMAIN row |-> Lightness[row[j]]]])

\* A centre is a mean, [sum, n].
Distance(s, c) == [num |-> Max({s * c.n - c.sum, c.sum - s * c.n}), den |-> c.n]
Nearer(d, e) == d.num * e.den < e.num * d.den

\* The first of the nearest centres.
Nearest(s, centres) ==
    FoldLeft(LAMBDA best, i : IF Nearer(Distance(s, centres[i]), Distance(s, centres[best]))
                              THEN i ELSE best,
             1, [i \in DOMAIN centres |-> i])

\* One iteration of kmeans, on clusters [sum, n, count]: one that is given no
\* sample keeps its centre.
Moved(samples, clusters) ==
    LET nearest == FoldLeft(LAMBDA done, s : Append(done, Nearest(s, clusters)), << >>, samples)
        mine(c) == {i \in DOMAIN samples : nearest[i] = c}
        Refill(old, given) ==
            IF given = {} THEN [old EXCEPT !.count = 0]
            ELSE [sum |-> SumOver(given, LAMBDA i : samples[i]),
                  n |-> Cardinality(given), count |-> Cardinality(given)]
    IN FoldLeft(LAMBDA done, old : Append(done, Refill(old, mine(Len(done) + 1))), << >>, clusters)

KMeans(samples, most, iterations) ==
    LET k == Max({Min({most, Len(samples)}), 1})
        Seed(c) == [sum |-> samples[((c - 1) * Len(samples)) \div k + 1], n |-> 1, count |-> 0]
    IN FoldLeft(LAMBDA clusters, i : Moved(samples, clusters),
                [c \in 1 .. k |-> Seed(c)], [i \in 1 .. iterations |-> i])

\* palette: the two largest clusters, the first of equals first.
Palette(p) ==
    LET clusters == KMeans(Samples(p), 3, Iterations)
        used == {c \in DOMAIN clusters : clusters[c].count > 0}
        Before(c, d) == \/ clusters[c].count > clusters[d].count
                        \/ clusters[c].count = clusters[d].count /\ c < d
        ranked == SetToSortSeq(used, Before)
    IN [primary |-> clusters[ranked[1]],
        secondary |-> clusters[ranked[Min({2, Len(ranked)})]]]

----
(* What is promised *)

Enlarged(p, times) ==
    [row \in 1 .. times * Height(p) |-> [col \in 1 .. times * Width(p) |->
       p[(row - 1) \div times + 1][(col - 1) \div times + 1]]]

Brighter(p, by) == [row \in DOMAIN p |-> [col \in DOMAIN p[row] |-> p[row][col] + by]]
LevelsOf(p) == UNION {ToSet(p[row]) : row \in DOMAIN p}
Flat(p) == Cardinality(LevelsOf(p)) = 1
Fits(n) == n % Grid = 0 \/ Grid % n = 0

\* Whether each area that is averaged into w by h is of one level.
Even(p, w, h) ==
    \A x \in 0 .. w - 1, y \in 0 .. h - 1 :
       Cardinality({p[row + 1][col + 1] :
                      row \in Span(y, Height(p), h), col \in Span(x, Width(p), w)}) = 1

\* Pixels whose area is under the o-th of `out`, however the sizes divide.
Under(o, n, out) == {x \in 0 .. n - 1 : x * out < (o + 1) * n /\ (x + 1) * out > o * n}

\* Of two pictures: a cover is taken for itself when it is larger, whichever of the
\* two is on display; it has the same shape when it is brighter, where no average
\* mixes its greys; one that has no shape to compare is told apart by its colour,
\* if that differs by a fifth of the lightness of white; and every pixel that
\* belongs to an average is in it, and no other.  (hash.rs, "survives rescaling ...
\* and a modest brightness difference"; "Degenerate input hashes to zero";
\* resize.rs, "an unweighted average of the source pixels covering each
\* destination pixel".)
PicturesAreToldApart(p, q) ==
    /\ Alike(p, q) = Alike(q, p)
    /\ Fits(Width(p)) /\ Fits(Height(p)) => Alike(p, Enlarged(p, 2)) /\ Alike(p, Enlarged(p, 3))
    /\ Levels \notin LevelsOf(p) /\ Even(p, Grid, Grid)
         /\ Even(ResizeBox(p, Grid, Grid), HashWidth + 1, HashHeight) =>
         Fingerprint(Brighter(p, 1)).dhash = Fingerprint(p).dhash
    /\ Flat(p) /\ Flat(q) =>
         LET tones == {Lightness[v] : v \in LevelsOf(p) \cup LevelsOf(q)}
         IN (Max(tones) - Min(tones)) * 5 >= White => ~Alike(p, q)
    /\ \A o \in 0 .. Grid - 1 : Span(o, Width(p), Grid) = Under(o, Width(p), Grid)

\* A cover of one colour gives that colour twice, and one of two colours gives the
\* commoner and then the other: no mixture of the two, wherever they lie.
\* (color.rs, "a naive average of a two-tone cover tends to produce mud"; "the
\* biggest cluster is the one a viewer would call the colour of the cover".)
ColoursAreTheCovers(p) ==
    LET samples == Samples(p)
        tones == ToSet(samples)
        count(t) == Cardinality({i \in DOMAIN samples : samples[i] = t})
        Is(centre, t) == centre.sum = t * centre.n
        palette == Palette(p)
    IN Cardinality(tones) <= 2 =>
         \E first, second \in tones :
            /\ tones = {first, second} /\ count(first) >= count(second)
            /\ Is(palette.primary, first) /\ Is(palette.secondary, second)
====
