---- MODULE MCSnapshotFeed ----
(* SnapshotFeed with one follower of the socket, one browser, a channel of *)
(* two messages and a connection that holds two: three publications in a   *)
(* row overtake a subscriber that takes nothing.                           *)
EXTENDS SnapshotFeed, TLC

CONSTANTS renderer, browser, dark, lit

MCIpcClients == {renderer}
MCSseClients == {browser}
MCValues == {dark, lit}
====
