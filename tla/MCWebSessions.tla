---- MODULE MCWebSessions ----
(* WebSessions for three addresses, a table with room for two, and more    *)
(* logins than sessions.                                                   *)
EXTENDS WebSessions, TLC

CONSTANTS a1, a2, a3, h1, h2

MCSymmetry == Permutations({a1, a2, a3}) \cup Permutations({h1, h2})
====
