---- MODULE MCEnrichCache ----
(* EnrichCache with two albums, two pictures and room for one.             *)
EXTENDS EnrichCache

CONSTANTS k1, k2, i1, i2

MCSize == [i \in Images |-> IF i = i1 THEN 1 ELSE 2]

MCFound == [k \in Keys |-> IF k = k1 THEN {i1} ELSE {i1, i2}]
====
