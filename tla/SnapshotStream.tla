---- MODULE SnapshotStream ----
(***************************************************************************)
(* What the publication of snapshots promises those who follow it over the *)
(* Unix socket, whatever the buffers in between do: SnapshotFeed is shown  *)
(* to implement this module, and ArtPipeline is built on it.               *)
(*                                                                         *)
(* Each follower has a stream of the states it has still to be told.  The  *)
(* stream may lose states, or repeat them, when the follower reconnects,   *)
(* falls behind or artd restarts.  It never holds a state that was not     *)
(* published, and the last state it holds is the current one.              *)
(***************************************************************************)
EXTENDS Integers, Sequences, SequencesExt

CONSTANTS
    Followers,  \* who follows the socket
    Values,     \* the states artd can publish
    Initial,    \* the state of a machine that has just started
    Nothing,    \* what a follower has been told before the first snapshot
    Slack       \* how many states may precede the current one in a stream

ASSUME StreamAssumption == Initial \in Values /\ Slack \in Nat

VARIABLES
    state,      \* the published state
    stream,     \* what each follower has still to be told
    told        \* what each follower was told last

streamVars == <<state, stream, told>>

StreamInit ==
    /\ state = Initial
    /\ stream = [c \in Followers |-> <<Initial>>]
    /\ told = [c \in Followers |-> Nothing]

Published(value) == {value} \cup UNION { Range(stream[c]) : c \in Followers }

Leads(old, new, value) ==
    new # << >> /\ Last(new) = value /\ Range(new) \subseteq Range(old) \cup {value}

\* A publication, a restart of artd, or what happens to the streams alone.
Change(value) ==
    /\ state' = value
    /\ stream' \in [Followers -> SeqOf(Published(value), Slack + 1)]
    /\ \A c \in Followers : \/ Leads(stream[c], stream'[c], value)
                            \/ value = state /\ stream'[c] = stream[c]
    /\ UNCHANGED told

Tell(c) ==
    /\ stream[c] # << >>
    /\ told' = [told EXCEPT ![c] = Head(stream[c])]
    /\ stream' = [stream EXCEPT ![c] = Tail(stream[c])]
    /\ UNCHANGED state

\* The follower's process is started anew.
Forget(c) ==
    /\ told' = [told EXCEPT ![c] = Nothing]
    /\ stream' = [stream EXCEPT ![c] = <<state>>]
    /\ UNCHANGED state

StreamNext == \/ \E value \in Values : Change(value)
              \/ \E c \in Followers : Tell(c) \/ Forget(c)

StreamSpec == StreamInit /\ [][StreamNext]_streamVars

StreamTypeOK ==
    /\ state \in Values
    /\ stream \in [Followers -> Seq(Values)]
    /\ told \in [Followers -> Values \cup {Nothing}]

(* A follower with nothing left to be told was told the current state.     *)
ToldMeansCurrent == \A c \in Followers : stream[c] = << >> => told[c] = state

(* What is left to be told ends with the current state.                    *)
StreamEndsInCurrent ==
    \A c \in Followers : stream[c] # << >> => Last(stream[c]) = state
====
