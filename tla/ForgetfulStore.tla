---- MODULE ForgetfulStore ----
(***************************************************************************)
(* What the artwork cache promises the enrichment pipeline: a picture that *)
(* is asked for is the last one stored under that key, or none at all.     *)
(* A picture may be forgotten at any time, and a power cut may bring back  *)
(* an older one; another key's picture, or half a picture, is never the    *)
(* answer.                                                                 *)
(***************************************************************************)
CONSTANTS Keys, Images, None

VARIABLES
    latest,   \* the picture of each key, or None
    past,     \* the pictures each key ever had
    answer    \* the last answer: a key and a picture, or None

storeVars == <<latest, past, answer>>

StoreInit ==
    /\ latest = [k \in Keys |-> None]
    /\ past = [k \in Keys |-> {}]
    /\ answer = None

Store(k, image) ==
    /\ latest' = [latest EXCEPT ![k] = image]
    /\ past' = [past EXCEPT ![k] = @ \cup {image}]
    /\ answer' = None

\* A fetch answers and may make the store forget what it answered.
Answer(k) ==
    /\ latest[k] # None
    /\ answer' = [key |-> k, image |-> latest[k]]
    /\ latest' \in {latest, [latest EXCEPT ![k] = None]}
    /\ UNCHANGED past

Forget ==
    /\ \E lost \in SUBSET Keys :
         latest' = [k \in Keys |-> IF k \in lost THEN None ELSE latest[k]]
    /\ answer' = None
    /\ UNCHANGED past

PowerCut ==
    /\ latest' \in [Keys -> Images \cup {None}]
    /\ \A k \in Keys : latest'[k] \in past[k] \cup {None}
    /\ answer' = None
    /\ UNCHANGED past

StoreNext ==
    \/ \E k \in Keys : Answer(k) \/ \E image \in Images : Store(k, image)
    \/ Forget
    \/ PowerCut

StoreSpec == StoreInit /\ [][StoreNext]_storeVars
====
