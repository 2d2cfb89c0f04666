---- MODULE MCSettings ----
(* Settings with a display mode that needs a confirmation and a timeout    *)
(* that has a value out of range.                                          *)
EXTENDS Settings

CONSTANTS mode, stall, h1, h2

MCKeys == {mode, stall}
MCChoices == [k \in MCKeys |-> IF k = mode THEN {"m0", "m1"} ELSE {"s0", "s1", "bad"}]
MCBase == [k \in MCKeys |-> IF k = mode THEN "m0" ELSE "s0"]
MCInvalid == {c \in [MCKeys -> {"m0", "m1", "s0", "s1", "bad"}] : c[stall] = "bad"}
MCHandlers == {h1, h2}
MCBodies ==
    {[k \in {mode} |-> "m1"]} \cup {[k \in {stall} |-> v] : v \in {"s1", "bad"}}
MCResets == {{mode}}
====
