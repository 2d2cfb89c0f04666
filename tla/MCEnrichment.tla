---- MODULE MCEnrichment ----
(* Enrichment for two albums, with pictures that can and that cannot be    *)
(* improved.                                                               *)
EXTENDS Enrichment

CONSTANTS a1, a2

MCAlbums == {a1, a2}
MCSentSizes == {2, 4}
MCFoundSizes == {4}
MCPoolSizes == {1, 2}
MCSlots == {1, 2}
====
