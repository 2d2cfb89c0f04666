---- MODULE SnapshotFeed ----
(***************************************************************************)
(* The publication of state snapshots (crates/artd/src/hub.rs) and the two *)
(* ways a client follows them: the Unix socket (crates/artd/src/ipc.rs)    *)
(* and the browser's event stream (crates/artd/src/web/mod.rs).            *)
(*                                                                         *)
(* One task publishes.  It records the snapshot under the hub's mutex and  *)
(* then, the mutex released, puts it in the broadcast channel, so a client *)
(* that is just connecting can come between the two.                       *)
(*                                                                         *)
(* The channel is tokio's: it retains the last ChanCap messages and gives  *)
(* each subscriber a place in them.  A subscriber that falls further       *)
(* behind is told so once and goes on with the oldest message retained.    *)
(* Here every subscriber has the queue of what it has still to take.       *)
(*                                                                         *)
(* A wire is the connection's bytes on their way, with the message its     *)
(* task is blocked on writing.  A client that stops reading without        *)
(* closing (writable = false in ipc.rs) is one that has left: its task     *)
(* takes no further snapshot.  Requests and replies are left out.          *)
(***************************************************************************)
EXTENDS Integers, Sequences, SequencesExt

CONSTANTS
    IpcClients,  \* followers of the Unix socket: lprender, lpctl watch
    SseClients,  \* browsers
    Values,      \* the states artd can publish
    Initial,     \* the state of a machine that has just started
    Nothing,     \* what a client has seen before the first snapshot
    ChanCap,     \* capacity of the broadcast channel (64 in hub.rs)
    WireCap,     \* messages a connection holds before its writer blocks
    MaxSeq       \* bound of the model: snapshots one run of artd publishes

Clients == IpcClients \cup SseClients

ASSUME ClientsAssumption == IpcClients \cap SseClients = {}
ASSUME InitialAssumption == Initial \in Values
ASSUME CapsAssumption ==
    ChanCap \in Nat \ {0} /\ WireCap \in Nat \ {0} /\ MaxSeq \in Nat \ {0}

VARIABLES
    seq,      \* Inner::seq
    state,    \* Inner::state
    sending,  \* messages recorded and not yet in the channel: at most one
    phase,    \* how far each connection has come
    queue,    \* the channel, as each subscriber has still to take it
    lagged,   \* the subscribers the channel has overtaken
    wire,     \* what is on its way to each client
    seen      \* the last snapshot each client received

feedVars == <<seq, state, sending, phase, queue, lagged, wire, seen>>

Message == [seq : 1 .. MaxSeq, value : Values]
ASSUME NothingAssumption == Nothing \notin Message
Current == [seq |-> seq, value |-> state]

\* away: not connected.   opening: between the two steps of being accepted.
\* serving: following.    hungup: artd is gone, the bytes it sent are not.
Phases == {"away", "opening", "serving", "hungup"}

\* Who the channel keeps messages for.  The socket's task subscribes first and
\* then greets with the current snapshot; the event stream the other way round.
Subscribed == { c \in Clients : \/ phase[c] = "serving"
                                \/ phase[c] = "opening" /\ c \in IpcClients }

\* main.rs publishes a first snapshot before any listener is bound.
FeedInit ==
    /\ seq = 1
    /\ state = Initial
    /\ sending = << >>
    /\ phase = [c \in Clients |-> "away"]
    /\ queue = [c \in Clients |-> << >>]
    /\ lagged = {}
    /\ wire = [c \in Clients |-> << >>]
    /\ seen = [c \in Clients |-> Nothing]

----
(* Hub::publish, in its two steps *)

Record(value) ==
    /\ sending = << >>
    /\ seq < MaxSeq
    /\ seq' = seq + 1
    /\ state' = value
    /\ sending' = << [seq |-> seq + 1, value |-> value] >>
    /\ UNCHANGED <<phase, queue, lagged, wire, seen>>

\* Mutant: a full channel refuses the new message.
RetainedOldest(pending, message) ==
    IF Len(pending) < ChanCap THEN Append(pending, message) ELSE pending

\* What the channel retains for a subscriber once a message is added.
Retained(pending, message) ==
    IF Len(pending) < ChanCap THEN Append(pending, message)
    ELSE Append(Tail(pending), message)

Broadcast ==
    /\ sending # << >>
    /\ queue' = [c \in Clients |-> IF c \in Subscribed
                                   THEN Retained(queue[c], Head(sending))
                                   ELSE queue[c]]
    /\ lagged' = lagged \cup { c \in Subscribed : Len(queue[c]) = ChanCap }
    /\ sending' = << >>
    /\ UNCHANGED <<seq, state, phase, wire, seen>>

----
(* A connection *)

\* ipc.rs: subscribe, and the greeting is still to come.
\* web/mod.rs: the greeting is made, and the subscription is still to come.
Accept(c) ==
    /\ phase[c] = "away"
    /\ phase' = [phase EXCEPT ![c] = "opening"]
    /\ wire' = [wire EXCEPT ![c] = IF c \in SseClients THEN <<Current>> ELSE << >>]
    /\ UNCHANGED <<seq, state, sending, queue, lagged, seen>>

Greeting(c) == IF c \in IpcClients THEN Append(wire[c], Current) ELSE wire[c]

Serve(c) ==
    /\ phase[c] = "opening"
    /\ phase' = [phase EXCEPT ![c] = "serving"]
    /\ wire' = [wire EXCEPT ![c] = Greeting(c)]
    /\ UNCHANGED <<seq, state, sending, queue, lagged, seen>>

\* A subscriber that was overtaken learns of it before it takes the next
\* message: the socket's task sends the current snapshot, the event stream
\* skips the error.
CatchUp(c) ==
    /\ phase[c] = "serving"
    /\ c \in lagged
    /\ Len(wire[c]) < WireCap
    /\ lagged' = lagged \ {c}
    /\ wire' = [wire EXCEPT ![c] = Greeting(c)]
    /\ UNCHANGED <<seq, state, sending, phase, queue, seen>>

Relay(c) ==
    /\ phase[c] = "serving"
    /\ c \notin lagged
    /\ queue[c] # << >>
    /\ Len(wire[c]) < WireCap
    /\ wire' = [wire EXCEPT ![c] = Append(wire[c], Head(queue[c]))]
    /\ queue' = [queue EXCEPT ![c] = Tail(queue[c])]
    /\ UNCHANGED <<seq, state, sending, phase, lagged, seen>>

\* lprender's reader thread, and the browser, keep the last snapshot only.
Receive(c) ==
    /\ wire[c] # << >>
    /\ seen' = [seen EXCEPT ![c] = Head(wire[c])]
    /\ wire' = [wire EXCEPT ![c] = Tail(wire[c])]
    /\ UNCHANGED <<seq, state, sending, phase, queue, lagged>>

\* The client closes the connection, or finds it closed and all of it read.
Leave(c) ==
    /\ phase' = [phase EXCEPT ![c] = "away"]
    /\ queue' = [queue EXCEPT ![c] = << >>]
    /\ lagged' = lagged \ {c}
    /\ wire' = [wire EXCEPT ![c] = << >>]
    /\ UNCHANGED <<seq, state, sending, seen>>

Disconnect(c) == phase[c] \in {"opening", "serving"} /\ Leave(c)

\* The client's process ends and is started anew.
ClientRestart(c) ==
    /\ phase' = [phase EXCEPT ![c] = "away"]
    /\ queue' = [queue EXCEPT ![c] = << >>]
    /\ lagged' = lagged \ {c}
    /\ wire' = [wire EXCEPT ![c] = << >>]
    /\ seen' = [seen EXCEPT ![c] = Nothing]
    /\ UNCHANGED <<seq, state, sending>>

\* Mutant: the reader returns when the daemon closes the connection.
EndOfStreamForGood(c) == FALSE

EndOfStream(c) == phase[c] = "hungup" /\ wire[c] = << >> /\ Leave(c)

\* artd stops or is killed, and is started again.  Nothing of the hub survives
\* but what the kernel still holds for a client to read.
FeedRestart ==
    /\ seq' = 1
    /\ state' = Initial
    /\ sending' = << >>
    /\ phase' = [c \in Clients |-> IF phase[c] = "away" THEN "away" ELSE "hungup"]
    /\ queue' = [c \in Clients |-> << >>]
    /\ lagged' = {}
    /\ UNCHANGED <<wire, seen>>

----
Publish == Broadcast \/ \E value \in Values : Record(value)

Deliver(c) == Accept(c) \/ Serve(c) \/ CatchUp(c) \/ Relay(c) \/ Receive(c) \/ EndOfStream(c)

FeedNext == \/ Publish
            \/ \E c \in Clients : Deliver(c) \/ Disconnect(c) \/ ClientRestart(c)
            \/ FeedRestart

FeedSpec == FeedInit /\ [][FeedNext]_feedVars

\* The publisher finishes what it began; a client that was accepted is served
\* and reads; a client that is away tries again.
FeedFairness == WF_feedVars(Broadcast) /\ \A c \in Clients : WF_feedVars(Deliver(c))

FairFeedSpec == FeedSpec /\ FeedFairness

----
(* Properties *)

FeedTypeOK ==
    /\ seq \in 1 .. MaxSeq
    /\ state \in Values
    /\ sending \in Seq(Message)
    /\ phase \in [Clients -> Phases]
    /\ queue \in [Clients -> Seq(Message)]
    /\ lagged \subseteq Clients
    /\ wire \in [Clients -> Seq(Message)]
    /\ seen \in [Clients -> Message \cup {Nothing}]
    /\ Len(sending) =< 1
    /\ \A c \in Clients : Len(queue[c]) =< ChanCap /\ Len(wire[c]) =< WireCap

Drained(c) == /\ phase[c] = "serving"
              /\ sending = << >> /\ queue[c] = << >> /\ wire[c] = << >>

(* A follower of the socket with nothing left to take has the snapshot of  *)
(* this moment, whenever it connected, however far it fell behind, and     *)
(* across restarts of artd.                                                *)
DrainedMeansCurrent == \A c \in IpcClients : Drained(c) => seen[c] = Current

(* The connection survives a burst: a follower that is served is never     *)
(* stuck with the channel empty, the notice of a lag standing and nothing  *)
(* retained to go on with.                                                 *)
LagLeavesTheNewest ==
    \A c \in lagged : queue[c] # << >>
                      /\ (sending = << >> => Last(queue[c]) = Current)

(* Once artd publishes nothing more and no connection is lost, every       *)
(* follower of the socket ends up with the current snapshot for good.      *)
Quiet == [][Broadcast \/ \E c \in Clients : Deliver(c)]_feedVars
FollowersCatchUp ==
    <>Quiet => <>[](\A c \in IpcClients : seen[c] = Current)

(* A follower is told a lossy stream of published states whose last one is *)
(* the current one.  What it has still to be told is on its wire, then a   *)
(* greeting that is due, then in the channel, then on its way there.       *)
Greeted(c) == phase[c] = "serving" /\ c \notin lagged
ToCome(c) == wire[c] \o (IF Greeted(c) THEN << >> ELSE <<Current>>)
             \o queue[c] \o (IF c \in Subscribed THEN sending ELSE << >>)
Content(messages) == [i \in DOMAIN messages |-> messages[i].value]

Stream == INSTANCE SnapshotStream WITH
    Followers <- IpcClients,
    Slack     <- WireCap + ChanCap + 1,
    stream    <- [c \in IpcClients |-> Content(ToCome(c))],
    told      <- [c \in IpcClients |-> IF seen[c] = Nothing THEN Nothing
                                        ELSE seen[c].value]
FeedIsAStream == Stream!StreamSpec

====
