---- MODULE MCSessionPower ----
(* A small instance of SessionPower: four configurations whose delays       *)
(* differ in order and presence, so that every timer can come due first.    *)
EXTENDS SessionPower

MCConfigs ==
    { \* the shipped policy: ambient, blank, then the amplifier
      [ampEnabled |-> TRUE, ampTrigger |-> "SessionBegin", offDelay |-> 4,
       ambientAfter |-> 1, blankAfter |-> 3, stall |-> 1, session |-> 3],
      \* the amplifier first, on the per-track trigger, no ambient scene
      [ampEnabled |-> TRUE, ampTrigger |-> "PlayBegin", offDelay |-> 1,
       ambientAfter |-> None, blankAfter |-> 2, stall |-> 2, session |-> 4],
      \* a slow ambient scene, and an amplifier released at once
      [ampEnabled |-> TRUE, ampTrigger |-> "SessionBegin", offDelay |-> 0,
       ambientAfter |-> 3, blankAfter |-> 4, stall |-> 1, session |-> 2],
      \* no amplifier, and delays of zero
      [ampEnabled |-> FALSE, ampTrigger |-> "SessionBegin", offDelay |-> 2,
       ambientAfter |-> None, blankAfter |-> 0, stall |-> 0, session |-> 1] }
====
