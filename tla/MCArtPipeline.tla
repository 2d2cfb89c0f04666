---- MODULE MCArtPipeline ----
(* ArtPipeline with two images, the least window of files that artd        *)
(* accepts.  The passing run lets a stream hold the current snapshot only: *)
(* each may be told before the next is published, or be overtaken by it.   *)
EXTENDS ArtPipeline, TLC

CONSTANTS front, back

MCFollowers == {renderer}
MCImages == {front, back}
MCValues == Artwork \cup {NoArt}
====
