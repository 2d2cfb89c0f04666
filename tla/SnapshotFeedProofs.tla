---- MODULE SnapshotFeedProofs ----
(***************************************************************************)
(* Proofs about SnapshotFeed, for any number of followers and browsers and *)
(* every capacity of the channel and of the connections.                   *)
(***************************************************************************)
EXTENDS SnapshotFeed, SequenceTheorems, TLAPS

(* The inductive invariant.  What has to be followed is the snapshot of    *)
(* this moment on its way from the hub to the client: it is in the last    *)
(* place there is a message in.                                            *)

EndsInCurrent(messages) == messages[Len(messages)] = Current

\* What is on its way to the channel is the current snapshot.
SendingFresh == Len(sending) > 0 => sending[1] = Current

\* Once it is there, it is the last thing every subscriber has to take.
QueueFresh(c) == Len(sending) = 0 /\ Len(queue[c]) > 0 => EndsInCurrent(queue[c])

\* Once a follower of the socket has taken it, it is the last thing on its
\* wire, or was the last thing it received.
WireFresh(c) ==
    c \in IpcClients /\ phase[c] = "serving" /\ Len(sending) = 0 /\ Len(queue[c]) = 0
      => IF Len(wire[c]) > 0 THEN EndsInCurrent(wire[c]) ELSE seen[c] = Current

\* The channel keeps nothing for those who do not subscribe, and a subscriber
\* that was overtaken has something left to go on with.
Orderly(c) ==
    /\ c \notin Subscribed => Len(queue[c]) = 0 /\ c \notin lagged
    /\ c \in lagged => Len(queue[c]) > 0
    /\ c \in IpcClients /\ phase[c] = "opening" => Len(wire[c]) = 0

FeedInv ==
    /\ FeedTypeOK
    /\ SendingFresh
    /\ \A c \in Clients : QueueFresh(c) /\ WireFresh(c) /\ Orderly(c)

----
(* Sequences of messages *)

\* What taking a message leaves behind.
LEMMA TakenFacts ==
    ASSUME NEW q \in Seq(Message), Len(q) > 0
    PROVE  /\ Head(q) = q[1] /\ Head(q) \in Message /\ Tail(q) \in Seq(Message)
           /\ Len(q) \in Nat /\ Len(Tail(q)) = Len(q) - 1
           /\ Len(q) > 1 => Tail(q)[Len(q) - 1] = q[Len(q)]
<1>1. Len(q) \in Nat /\ q # << >>
  BY LenProperties, EmptySeq
<1>2. /\ Head(q) \in Message /\ Tail(q) \in Seq(Message) /\ Len(Tail(q)) = Len(q) - 1
      /\ \A i \in 1 .. Len(Tail(q)) : Tail(q)[i] = q[i + 1]
  BY <1>1, HeadTailProperties
<1>3. Head(q) = q[1]
  BY <1>1
<1>4. ASSUME Len(q) > 1 PROVE Tail(q)[Len(q) - 1] = q[Len(q)]
  <2>1. Len(q) - 1 \in 1 .. Len(Tail(q)) /\ (Len(q) - 1) + 1 = Len(q)
    BY <1>1, <1>2, <1>4
  <2>. QED
    BY <1>2, <2>1
<1>. QED
  BY <1>1, <1>2, <1>3, <1>4

\* What adding a message makes of a queue or a wire.
LEMMA AddedFacts ==
    ASSUME NEW q \in Seq(Message), NEW e \in Message
    PROVE  /\ Append(q, e) \in Seq(Message)
           /\ Len(q) \in Nat /\ Len(Append(q, e)) = Len(q) + 1
           /\ Append(q, e)[Len(q) + 1] = e
BY AppendProperties, LenProperties

\* What the channel retains: never more than its capacity, never nothing, and
\* the newest message last.
LEMMA RetainedFacts ==
    ASSUME NEW q \in Seq(Message), NEW e \in Message, Len(q) =< ChanCap
    PROVE  /\ Retained(q, e) \in Seq(Message)
           /\ Len(Retained(q, e)) \in 1 .. ChanCap
           /\ Retained(q, e)[Len(Retained(q, e))] = e
<1>. DEFINE r == Retained(q, e)
<1>1. CASE Len(q) < ChanCap
  <2>1. r = Append(q, e)
    BY <1>1 DEF Retained
  <2>. QED
    BY <1>1, <2>1, AddedFacts, CapsAssumption
<1>2. CASE ~(Len(q) < ChanCap)
  <2>1. Len(q) > 0 /\ Len(q) = ChanCap
    BY <1>2, CapsAssumption, LenProperties
  <2>2. r = Append(Tail(q), e)
    BY <1>2 DEF Retained
  <2>3. Tail(q) \in Seq(Message) /\ Len(Tail(q)) = Len(q) - 1
    BY <2>1, TakenFacts
  <2>4. r \in Seq(Message) /\ Len(r) = Len(Tail(q)) + 1 /\ r[Len(Tail(q)) + 1] = e
    BY <2>2, <2>3, AddedFacts
  <2>. QED
    BY <2>1, <2>3, <2>4, CapsAssumption
<1>. QED
  BY <1>1, <1>2

LEMMA CurrentType == ASSUME FeedTypeOK PROVE Current \in Message
BY DEF FeedTypeOK, Current, Message

----
(* One lemma per action *)

LEMMA RecordInv == ASSUME FeedInv, NEW value \in Values, Record(value) PROVE FeedInv'
<1>1. /\ sending' = << Current' >> /\ Current' \in Message
      /\ seq' \in 1 .. MaxSeq /\ state' \in Values
  BY CapsAssumption DEF FeedInv, FeedTypeOK, Record, Current, Message
<1>2. Len(sending') = 1 /\ sending'[1] = Current' /\ sending' \in Seq(Message)
  BY <1>1
<1>3. FeedTypeOK'
  BY <1>1, <1>2 DEF FeedInv, FeedTypeOK, Record
<1>4. \A c \in Clients : QueueFresh(c)' /\ WireFresh(c)' /\ Orderly(c)'
  BY <1>2 DEF FeedInv, QueueFresh, WireFresh, Orderly, Subscribed, Record
<1>. QED
  BY <1>2, <1>3, <1>4 DEF FeedInv, SendingFresh

LEMMA BroadcastInv == ASSUME FeedInv, Broadcast PROVE FeedInv'
<1>1. /\ sending # << >> /\ sending \in Seq(Message) /\ sending' = << >>
      /\ Head(sending) = Current /\ Current \in Message /\ Current' = Current
  <2>1. sending # << >> /\ sending \in Seq(Message) /\ sending' = << >>
    BY DEF FeedInv, FeedTypeOK, Broadcast
  <2>2. Len(sending) > 0
    BY <2>1, EmptySeq
  <2>3. Head(sending) = sending[1]
    BY <2>1, <2>2, TakenFacts
  <2>. QED
    BY <2>1, <2>2, <2>3, CurrentType DEF FeedInv, SendingFresh, Broadcast, Current
<1>2. Len(sending') = 0 /\ Subscribed' = Subscribed
  BY <1>1 DEF Subscribed, Broadcast
<1>3. ASSUME NEW c \in Clients
      PROVE  IF c \in Subscribed
             THEN /\ queue'[c] \in Seq(Message) /\ Len(queue'[c]) \in 1 .. ChanCap
                  /\ queue'[c][Len(queue'[c])] = Current'
             ELSE queue'[c] = queue[c]
  <2>1. queue[c] \in Seq(Message) /\ Len(queue[c]) =< ChanCap
    BY DEF FeedInv, FeedTypeOK
  <2>2. queue'[c] = IF c \in Subscribed THEN Retained(queue[c], Current) ELSE queue[c]
    BY <1>1 DEF Broadcast
  <2>. QED
    BY <1>1, <2>1, <2>2, RetainedFacts
<1>4. FeedTypeOK'
  <2>1. queue' \in [Clients -> Seq(Message)]
    <3>1. \A c \in Clients : queue'[c] \in Seq(Message)
      BY <1>3 DEF FeedInv, FeedTypeOK
    <3>2. queue' = [c \in Clients |-> queue'[c]]
      BY DEF Broadcast
    <3>. QED
      BY <3>1, <3>2
  <2>2. \A c \in Clients : Len(queue'[c]) =< ChanCap
    BY <1>3, CapsAssumption DEF FeedInv, FeedTypeOK
  <2>3. lagged' \subseteq Clients
    BY DEF FeedInv, FeedTypeOK, Broadcast, Subscribed
  <2>. QED
    BY <1>1, <1>2, <2>1, <2>2, <2>3 DEF FeedInv, FeedTypeOK, Broadcast
<1>5. ASSUME NEW c \in Clients PROVE QueueFresh(c)' /\ WireFresh(c)' /\ Orderly(c)'
  <2>1. CASE c \in Subscribed
    BY <1>2, <1>3, <2>1 DEF FeedInv, QueueFresh, WireFresh, Orderly, EndsInCurrent, Broadcast
  <2>2. CASE c \notin Subscribed
    <3>1. queue'[c] = queue[c] /\ Len(queue[c]) = 0 /\ c \notin lagged /\ c \notin lagged'
      BY <1>3, <2>2 DEF FeedInv, Orderly, Broadcast
    <3>2. ~(c \in IpcClients /\ phase[c] = "serving") /\ phase' = phase /\ wire' = wire
      BY <2>2 DEF Subscribed, Broadcast
    <3>. QED
      BY <1>2, <2>2, <3>1, <3>2 DEF FeedInv, QueueFresh, WireFresh, Orderly
  <2>. QED
    BY <2>1, <2>2
<1>. QED
  BY <1>2, <1>4, <1>5 DEF FeedInv, SendingFresh

\* A step of one connection leaves the others as they were.
LEMMA LocalInv ==
    ASSUME FeedInv, NEW c \in Clients, UNCHANGED <<seq, state, sending>>, FeedTypeOK',
           \A d \in Clients \ {c} :
               /\ phase'[d] = phase[d] /\ queue'[d] = queue[d] /\ wire'[d] = wire[d]
               /\ seen'[d] = seen[d] /\ (d \in lagged' <=> d \in lagged),
           QueueFresh(c)', WireFresh(c)', Orderly(c)'
    PROVE  FeedInv'
<1>1. Current' = Current
  BY DEF Current
<1>2. SendingFresh'
  BY <1>1 DEF FeedInv, SendingFresh
<1>3. ASSUME NEW d \in Clients \ {c} PROVE QueueFresh(d)' /\ WireFresh(d)' /\ Orderly(d)'
  BY <1>1 DEF FeedInv, QueueFresh, WireFresh, Orderly, EndsInCurrent, Subscribed
<1>. QED
  BY <1>2, <1>3 DEF FeedInv

LEMMA AcceptInv == ASSUME FeedInv, NEW c \in Clients, Accept(c) PROVE FeedInv'
<1>1. /\ phase[c] = "away" /\ phase'[c] = "opening" /\ queue'[c] = queue[c]
      /\ Len(queue[c]) = 0 /\ c \notin lagged
      /\ wire'[c] = IF c \in SseClients THEN <<Current>> ELSE << >>
  BY DEF FeedInv, FeedTypeOK, Orderly, Subscribed, Accept
<1>2. wire'[c] \in Seq(Message) /\ Len(wire'[c]) =< WireCap
  BY <1>1, CurrentType, CapsAssumption DEF FeedInv
<1>3. FeedTypeOK'
  BY <1>1, <1>2 DEF FeedInv, FeedTypeOK, Phases, Accept
<1>4. QueueFresh(c)' /\ WireFresh(c)'
  BY <1>1 DEF QueueFresh, WireFresh, Accept
<1>5. Orderly(c)'
  BY <1>1, ClientsAssumption DEF Orderly, Accept
<1>. QED
  BY <1>3, <1>4, <1>5, LocalInv DEF FeedInv, FeedTypeOK, Accept

\* What a greeting makes of a wire: the current snapshot is last on the
\* socket's, and a browser's is as it was.
LEMMA GreetingFacts ==
    ASSUME FeedInv, NEW c \in Clients
    PROVE  /\ Greeting(c) \in Seq(Message) /\ Len(wire[c]) \in Nat
           /\ c \in IpcClients => /\ Len(Greeting(c)) = Len(wire[c]) + 1
                                  /\ Greeting(c)[Len(Greeting(c))] = Current
           /\ c \notin IpcClients => Greeting(c) = wire[c]
<1>1. wire[c] \in Seq(Message) /\ Current \in Message
  BY CurrentType DEF FeedInv, FeedTypeOK
<1>. QED
  BY <1>1, AddedFacts DEF Greeting

LEMMA ServeInv == ASSUME FeedInv, NEW c \in Clients, Serve(c) PROVE FeedInv'
<1>1. /\ phase[c] = "opening" /\ phase'[c] = "serving" /\ wire'[c] = Greeting(c)
      /\ Current' = Current
  BY DEF FeedInv, FeedTypeOK, Serve, Current
<1>2. FeedTypeOK'
  <2>1. Len(Greeting(c)) =< WireCap
    BY <1>1, GreetingFacts, CapsAssumption DEF FeedInv, FeedTypeOK, Orderly
  <2>. QED
    BY <1>1, <2>1, GreetingFacts DEF FeedInv, FeedTypeOK, Phases, Serve
<1>3. QueueFresh(c)' /\ WireFresh(c)'
  BY <1>1, GreetingFacts DEF FeedInv, QueueFresh, WireFresh, EndsInCurrent, Serve
<1>4. Orderly(c)'
  BY <1>1 DEF FeedInv, Orderly, Subscribed, Serve
<1>. QED
  BY <1>2, <1>3, <1>4, LocalInv DEF FeedInv, FeedTypeOK, Serve

LEMMA CatchUpInv == ASSUME FeedInv, NEW c \in Clients, CatchUp(c) PROVE FeedInv'
<1>1. /\ phase[c] = "serving" /\ wire'[c] = Greeting(c) /\ Len(queue[c]) > 0
      /\ Current' = Current
  BY DEF FeedInv, FeedTypeOK, Orderly, CatchUp, Current
<1>2. FeedTypeOK'
  <2>1. Len(Greeting(c)) =< WireCap
    BY GreetingFacts, CapsAssumption DEF CatchUp
  <2>. QED
    BY <1>1, <2>1, GreetingFacts DEF FeedInv, FeedTypeOK, CatchUp
<1>3. QueueFresh(c)' /\ WireFresh(c)' /\ Orderly(c)'
  BY <1>1 DEF FeedInv, QueueFresh, WireFresh, Orderly, EndsInCurrent, Subscribed, CatchUp
<1>. QED
  BY <1>2, <1>3, LocalInv DEF FeedInv, FeedTypeOK, CatchUp

\* The last message taken from the channel is the current one, and it is now
\* the last on the wire.
LEMMA RelayInv == ASSUME FeedInv, NEW c \in Clients, Relay(c) PROVE FeedInv'
<1>. DEFINE q == queue[c]
            w == wire[c]
<1>1. /\ phase[c] = "serving" /\ c \notin lagged /\ Current' = Current
      /\ q \in Seq(Message) /\ Len(q) > 0 /\ Len(q) =< ChanCap
      /\ w \in Seq(Message) /\ Len(w) < WireCap
      /\ queue'[c] = Tail(q) /\ wire'[c] = Append(w, Head(q))
  <2>1. q # << >> /\ q \in Seq(Message)
    BY DEF FeedInv, FeedTypeOK, Relay
  <2>2. Len(q) > 0
    BY <2>1, EmptySeq
  <2>. QED
    BY <2>1, <2>2 DEF FeedInv, FeedTypeOK, Relay, Current
<1>2. /\ Head(q) = q[1] /\ Head(q) \in Message /\ Tail(q) \in Seq(Message)
      /\ Len(q) \in Nat /\ Len(Tail(q)) = Len(q) - 1
      /\ Len(q) > 1 => Tail(q)[Len(q) - 1] = q[Len(q)]
  BY <1>1, TakenFacts
<1>3. /\ wire'[c] \in Seq(Message) /\ Len(w) \in Nat /\ Len(wire'[c]) = Len(w) + 1
      /\ wire'[c][Len(w) + 1] = Head(q)
  BY <1>1, <1>2, AddedFacts
<1>. HIDE DEF q, w
<1>4. FeedTypeOK'
  BY <1>1, <1>2, <1>3, CapsAssumption DEF FeedInv, FeedTypeOK, Relay
<1>5. QueueFresh(c) /\ UNCHANGED <<sending, phase, lagged, seen>>
  BY DEF FeedInv, Relay
<1>6. QueueFresh(c)'
  BY <1>1, <1>2, <1>5 DEF QueueFresh, EndsInCurrent, q
<1>7. WireFresh(c)'
  BY <1>1, <1>2, <1>3, <1>5 DEF QueueFresh, WireFresh, EndsInCurrent, q
<1>8. Orderly(c)'
  BY <1>1 DEF Orderly, Subscribed, Relay
<1>. QED
  BY <1>4, <1>6, <1>7, <1>8, LocalInv DEF FeedInv, FeedTypeOK, Relay

LEMMA ReceiveInv == ASSUME FeedInv, NEW c \in Clients, Receive(c) PROVE FeedInv'
<1>. DEFINE w == wire[c]
<1>1. /\ w \in Seq(Message) /\ Len(w) > 0 /\ Len(w) =< WireCap /\ Current' = Current
      /\ wire'[c] = Tail(w) /\ seen'[c] = Head(w)
  <2>1. w # << >> /\ w \in Seq(Message)
    BY DEF FeedInv, FeedTypeOK, Receive
  <2>2. Len(w) > 0
    BY <2>1, EmptySeq
  <2>. QED
    BY <2>1, <2>2 DEF FeedInv, FeedTypeOK, Receive, Current
<1>2. /\ Head(w) = w[1] /\ Head(w) \in Message /\ Tail(w) \in Seq(Message)
      /\ Len(w) \in Nat /\ Len(Tail(w)) = Len(w) - 1
      /\ Len(w) > 1 => Tail(w)[Len(w) - 1] = w[Len(w)]
  BY <1>1, TakenFacts
<1>. HIDE DEF w
<1>3. FeedTypeOK'
  BY <1>1, <1>2, CapsAssumption DEF FeedInv, FeedTypeOK, Receive
<1>4. WireFresh(c) /\ QueueFresh(c) /\ UNCHANGED <<sending, phase, queue, lagged>>
  BY DEF FeedInv, Receive
<1>5. QueueFresh(c)'
  BY <1>1, <1>4 DEF QueueFresh, EndsInCurrent
<1>6. WireFresh(c)'
  BY <1>1, <1>2, <1>4 DEF WireFresh, EndsInCurrent, w
<1>7. Orderly(c)'
  <2>1. c \in IpcClients /\ phase[c] = "opening" => Len(wire[c]) = 0
    BY DEF FeedInv, Orderly
  <2>2. ~(c \in IpcClients /\ phase[c] = "opening")
    BY <1>1, <2>1 DEF w
  <2>. QED
    BY <1>4, <2>2 DEF FeedInv, Orderly, Subscribed
<1>. QED
  BY <1>3, <1>5, <1>6, <1>7, LocalInv DEF FeedInv, FeedTypeOK, Receive

LEMMA EmptyFacts == << >> \in Seq(Message) /\ Len(<< >>) = 0
BY EmptySeq

LEMMA LeaveInv == ASSUME FeedInv, NEW c \in Clients, Leave(c) PROVE FeedInv'
<1>1. /\ phase'[c] = "away" /\ queue'[c] = << >> /\ wire'[c] = << >> /\ c \notin lagged'
  BY DEF FeedInv, FeedTypeOK, Leave
<1>2. FeedTypeOK'
  BY <1>1, EmptyFacts, CapsAssumption DEF FeedInv, FeedTypeOK, Phases, Leave
<1>3. QueueFresh(c)' /\ WireFresh(c)' /\ Orderly(c)'
  BY <1>1, EmptyFacts DEF QueueFresh, WireFresh, Orderly
<1>. QED
  BY <1>2, <1>3, LocalInv DEF FeedInv, FeedTypeOK, Leave

LEMMA ClientRestartInv == ASSUME FeedInv, NEW c \in Clients, ClientRestart(c) PROVE FeedInv'
<1>1. /\ phase'[c] = "away" /\ queue'[c] = << >> /\ wire'[c] = << >> /\ c \notin lagged'
  BY DEF FeedInv, FeedTypeOK, ClientRestart
<1>2. FeedTypeOK'
  BY <1>1, EmptyFacts, CapsAssumption DEF FeedInv, FeedTypeOK, Phases, ClientRestart
<1>3. QueueFresh(c)' /\ WireFresh(c)' /\ Orderly(c)'
  BY <1>1, EmptyFacts DEF QueueFresh, WireFresh, Orderly
<1>. QED
  BY <1>2, <1>3, LocalInv DEF FeedInv, FeedTypeOK, ClientRestart

\* Nobody is served after a restart, whatever is still to be read.
LEMMA FeedRestartInv == ASSUME FeedInv, FeedRestart PROVE FeedInv'
<1>1. FeedTypeOK'
  BY EmptyFacts, CapsAssumption, InitialAssumption
     DEF FeedInv, FeedTypeOK, Phases, FeedRestart
<1>2. SendingFresh'
  BY EmptyFacts DEF SendingFresh, FeedRestart
<1>3. ASSUME NEW c \in Clients
      PROVE  phase'[c] \in {"away", "hungup"} /\ queue'[c] = << >> /\ c \notin lagged'
  BY DEF FeedRestart
<1>4. ASSUME NEW c \in Clients PROVE QueueFresh(c)' /\ WireFresh(c)' /\ Orderly(c)'
  BY <1>3, EmptyFacts DEF QueueFresh, WireFresh, Orderly
<1>. QED
  BY <1>1, <1>2, <1>4 DEF FeedInv

LEMMA FeedInitInv == FeedInit => FeedInv
<1>. SUFFICES ASSUME FeedInit PROVE FeedInv
  OBVIOUS
<1>1. FeedTypeOK
  BY EmptyFacts, CapsAssumption, InitialAssumption DEF FeedInit, FeedTypeOK, Phases
<1>2. SendingFresh
  BY EmptyFacts DEF FeedInit, SendingFresh
<1>3. ASSUME NEW c \in Clients PROVE QueueFresh(c) /\ WireFresh(c) /\ Orderly(c)
  BY EmptyFacts DEF FeedInit, QueueFresh, WireFresh, Orderly
<1>. QED
  BY <1>1, <1>2, <1>3 DEF FeedInv

LEMMA FeedNextInv == FeedInv /\ [FeedNext]_feedVars => FeedInv'
<1>. SUFFICES ASSUME FeedInv, [FeedNext]_feedVars PROVE FeedInv'
  OBVIOUS
<1>1. CASE Publish
  BY <1>1, BroadcastInv, RecordInv DEF Publish
<1>2. ASSUME NEW c \in Clients, Deliver(c) PROVE FeedInv'
  BY <1>2, AcceptInv, ServeInv, CatchUpInv, RelayInv, ReceiveInv, LeaveInv
     DEF Deliver, EndOfStream
<1>3. ASSUME NEW c \in Clients, Disconnect(c) \/ ClientRestart(c) PROVE FeedInv'
  BY <1>3, LeaveInv, ClientRestartInv DEF Disconnect
<1>4. CASE FeedRestart
  BY <1>4, FeedRestartInv
<1>5. CASE UNCHANGED feedVars
  BY <1>5 DEF feedVars, FeedInv, FeedTypeOK, SendingFresh, QueueFresh, WireFresh, Orderly,
              EndsInCurrent, Current, Subscribed
<1>. QED
  BY <1>1, <1>2, <1>3, <1>4, <1>5 DEF FeedNext

----
(* The theorems *)

(* The inductive invariant holds throughout.                               *)
THEOREM FeedInvariance == FeedSpec => []FeedInv
BY FeedInitInv, FeedNextInv, PTL DEF FeedSpec

(* Every variable keeps its type; in particular the channel and the        *)
(* connections stay within their capacity.                                 *)
THEOREM FeedTypeCorrect == FeedSpec => []FeedTypeOK
<1>1. FeedInv => FeedTypeOK
  BY DEF FeedInv
<1>. QED
  BY <1>1, FeedInvariance, PTL

(* A follower of the socket with nothing left to take has the snapshot of  *)
(* this moment.                                                            *)
THEOREM DrainedTheorem == FeedSpec => []DrainedMeansCurrent
<1>1. ASSUME FeedInv, NEW c \in IpcClients, Drained(c) PROVE seen[c] = Current
  <2>1. c \in Clients /\ WireFresh(c)
    BY <1>1 DEF FeedInv, Clients
  <2>. QED
    BY <1>1, <2>1, EmptyFacts DEF Drained, WireFresh
<1>2. FeedInv => DrainedMeansCurrent
  BY <1>1 DEF DrainedMeansCurrent
<1>. QED
  BY <1>2, FeedInvariance, PTL

(* Whoever was overtaken goes on with messages that end in the snapshot of *)
(* this moment.                                                            *)
THEOREM LagTheorem == FeedSpec => []LagLeavesTheNewest
<1>1. ASSUME FeedInv, NEW c \in lagged
      PROVE  queue[c] # << >> /\ (sending = << >> => Last(queue[c]) = Current)
  <2>1. c \in Clients /\ QueueFresh(c) /\ Len(queue[c]) > 0
    BY <1>1 DEF FeedInv, FeedTypeOK, Orderly
  <2>. QED
    BY <2>1, EmptyFacts DEF QueueFresh, EndsInCurrent, Last
<1>2. FeedInv => LagLeavesTheNewest
  BY <1>1 DEF LagLeavesTheNewest
<1>. QED
  BY <1>2, FeedInvariance, PTL

----
(* The feed as a stream: what each follower has still to be told *)

\* The states a sequence of messages tells of.
Said(messages) == { messages[i].value : i \in 1 .. Len(messages) }

Greet(c) == IF Greeted(c) THEN << >> ELSE <<Current>>
Sent(c) == IF c \in Subscribed THEN sending ELSE << >>

\* Two sequences of messages, one after the other.
LEMMA JoinedFacts ==
    ASSUME NEW x \in Seq(Message), NEW y \in Seq(Message)
    PROVE  /\ x \o y \in Seq(Message)
           /\ Len(x) \in Nat /\ Len(y) \in Nat /\ Len(x \o y) = Len(x) + Len(y)
           /\ Said(x \o y) = Said(x) \cup Said(y)
           /\ Len(y) > 0 => (x \o y)[Len(x \o y)] = y[Len(y)]
           /\ Len(y) = 0 => x \o y = x
<1>1. /\ x \o y \in Seq(Message)
      /\ Len(x) \in Nat /\ Len(y) \in Nat /\ Len(x \o y) = Len(x) + Len(y)
      /\ \A i \in 1 .. Len(x) + Len(y) :
             (x \o y)[i] = IF i <= Len(x) THEN x[i] ELSE y[i - Len(x)]
  BY ConcatProperties, LenProperties
<1>2. Said(x \o y) \subseteq Said(x) \cup Said(y)
  BY <1>1 DEF Said
<1>3. Said(x) \subseteq Said(x \o y)
  BY <1>1 DEF Said
<1>4. Said(y) \subseteq Said(x \o y)
  <2> SUFFICES ASSUME NEW i \in 1 .. Len(y)
               PROVE  y[i].value \in Said(x \o y)
    BY DEF Said
  <2>1. Len(x) + i \in 1 .. Len(x \o y) /\ (x \o y)[Len(x) + i] = y[i]
    BY <1>1
  <2> QED
    BY <2>1 DEF Said
<1>5. Len(y) > 0 => (x \o y)[Len(x \o y)] = y[Len(y)]
  BY <1>1
<1>6. Len(y) = 0 => x \o y = x
  BY EmptySeq, ConcatEmptySeq
<1> QED
  BY <1>1, <1>2, <1>3, <1>4, <1>5, <1>6

\* The contents of a sequence of messages.
LEMMA ContentFacts ==
    ASSUME NEW q \in Seq(Message)
    PROVE  /\ Content(q) \in [1 .. Len(q) -> Said(q)] /\ Len(Content(q)) = Len(q)
           /\ Len(q) \in Nat
           /\ \A i \in 1 .. Len(q) : Content(q)[i] = q[i].value
           /\ Range(Content(q)) = Said(q)
           /\ Len(q) > 0 => Content(q) # << >>
<1>1. DOMAIN q = 1 .. Len(q) /\ Len(q) \in Nat
  BY LenProperties
<1>2. Content(q) = [i \in 1 .. Len(q) |-> q[i].value]
  BY <1>1 DEF Content
<1>3. Content(q) \in [1 .. Len(q) -> Said(q)] /\ \A i \in 1 .. Len(q) : Content(q)[i] = q[i].value
  BY <1>2 DEF Said
<1>4. Len(Content(q)) = Len(q)
  BY <1>1, <1>2
<1>5. Range(Content(q)) = Said(q)
  BY <1>2 DEF Range, Said
<1> QED
  BY <1>1, <1>3, <1>4, <1>5

\* What is to come, told from its four places.
Coming(c) ==
    /\ ToCome(c) \in Seq(Message)
    /\ Len(ToCome(c)) \in 0 .. WireCap + ChanCap + 2
    /\ Said(ToCome(c)) = Said(wire[c]) \cup (IF Greeted(c) THEN {} ELSE {state})
                         \cup Said(queue[c]) \cup (IF c \in Subscribed THEN Said(sending) ELSE {})
    /\ Len(ToCome(c)) > 0 => EndsInCurrent(ToCome(c))
    /\ \/ Len(ToCome(c)) > 0
       \/ Greeted(c) /\ Len(wire[c]) = 0 /\ Len(queue[c]) = 0
          /\ (c \in Subscribed => Len(sending) = 0)
    /\ ToCome(c) = wire[c] \o (Greet(c) \o queue[c] \o Sent(c))
    /\ Greet(c) \o queue[c] \o Sent(c) \in Seq(Message)

\* The invariant says of every follower what is to come.
LEMMA ComingFacts == FeedInv => \A c \in IpcClients : Coming(c)
<1> SUFFICES ASSUME FeedInv, NEW c \in IpcClients PROVE Coming(c)
  OBVIOUS
<1> DEFINE w == wire[c]
           g == Greet(c)
           q == queue[c]
           s == Sent(c)
<1>1. /\ w \in Seq(Message) /\ q \in Seq(Message) /\ sending \in Seq(Message)
      /\ Len(w) <= WireCap /\ Len(q) <= ChanCap /\ Len(sending) <= 1
  BY DEF FeedInv, FeedTypeOK, Clients
<1>2. /\ g \in Seq(Message) /\ Len(g) = (IF Greeted(c) THEN 0 ELSE 1)
      /\ Said(g) = (IF Greeted(c) THEN {} ELSE {state})
      /\ ~Greeted(c) => g[1] = Current
  <2>1. CASE Greeted(c)
    BY <2>1 DEF Greet, Said
  <2>2. CASE ~Greeted(c)
    <3>1. g = <<Current>> /\ Current \in Message /\ Current.value = state
      BY <2>2, CurrentType DEF Greet, FeedInv, Current
    <3> QED
      BY <2>2, <3>1 DEF Said
  <2> QED
    BY <2>1, <2>2
<1>3. /\ s \in Seq(Message) /\ Len(s) <= 1
      /\ Said(s) = (IF c \in Subscribed THEN Said(sending) ELSE {})
      /\ (c \in Subscribed => s = sending) /\ (c \notin Subscribed => Len(s) = 0)
  BY <1>1 DEF Sent, Said
<1>4. ToCome(c) = w \o g \o q \o s
  BY DEF ToCome, Greet, Sent
<1>5. w \in Seq(Message) /\ g \in Seq(Message) /\ q \in Seq(Message) /\ s \in Seq(Message)
  BY <1>1, <1>2, <1>3
<1> HIDE DEF w, g, q, s
<1> DEFINE wg == w \o g
           wgq == wg \o q
           all == wgq \o s
<1>6. /\ wg \in Seq(Message) /\ Len(w) \in Nat /\ Len(g) \in Nat
      /\ Len(wg) = Len(w) + Len(g)
      /\ Said(wg) = Said(w) \cup Said(g)
      /\ Len(g) > 0 => wg[Len(wg)] = g[Len(g)]
      /\ Len(g) = 0 => wg = w
  BY <1>5, JoinedFacts
<1> HIDE DEF wg
<1>7. /\ wgq \in Seq(Message) /\ Len(q) \in Nat /\ Len(wgq) = Len(wg) + Len(q)
      /\ Said(wgq) = Said(wg) \cup Said(q)
      /\ Len(q) > 0 => wgq[Len(wgq)] = q[Len(q)]
      /\ Len(q) = 0 => wgq = wg
  BY <1>5, <1>6, JoinedFacts
<1> HIDE DEF wgq
<1>8. /\ all \in Seq(Message) /\ Len(s) \in Nat /\ Len(all) = Len(wgq) + Len(s)
      /\ Said(all) = Said(wgq) \cup Said(s)
      /\ Len(s) > 0 => all[Len(all)] = s[Len(s)]
      /\ Len(s) = 0 => all = wgq
  BY <1>5, <1>7, JoinedFacts
<1> HIDE DEF all
<1>9. g \o q \o s \in Seq(Message) /\ all = w \o (g \o q \o s)
  <2> DEFINE gq == g \o q
  <2>1. gq \in Seq(Message)
    BY <1>5, ConcatProperties
  <2>2. wgq = w \o gq
    BY <1>5, ConcatAssociative DEF wg, wgq
  <2> HIDE DEF gq
  <2>3. gq \o s \in Seq(Message)
    BY <1>5, <2>1, ConcatProperties
  <2>4. (w \o gq) \o s = w \o (gq \o s)
    BY <1>5, <2>1, ConcatAssociative, SMTT(30)
  <2> QED
    BY <2>2, <2>3, <2>4 DEF all, gq
<1>10. ToCome(c) = all
  BY <1>4 DEF wg, wgq, all
<1>11. /\ Len(all) = Len(w) + Len(g) + Len(q) + Len(s)
       /\ Said(all) = Said(w) \cup Said(g) \cup Said(q) \cup Said(s)
  BY <1>6, <1>7, <1>8
<1>12. Len(all) > 0 => EndsInCurrent(all)
  <2>1. CASE Len(s) > 0
    BY <1>3, <1>8, <2>1 DEF FeedInv, SendingFresh, EndsInCurrent
  <2>2. CASE Len(s) = 0 /\ Len(q) > 0
    <3>1. Len(sending) = 0
      BY <1>3, <2>2 DEF q, FeedInv, Orderly, Clients
    <3> QED
      BY <1>7, <1>8, <2>2, <3>1 DEF q, FeedInv, QueueFresh, EndsInCurrent, Clients
  <2>3. CASE Len(s) = 0 /\ Len(q) = 0 /\ Len(g) > 0
    BY <1>2, <1>6, <1>7, <1>8, <2>3 DEF EndsInCurrent
  <2>4. CASE Len(s) = 0 /\ Len(q) = 0 /\ Len(g) = 0
    <3>1. Greeted(c)
      BY <1>2, <2>4
    <3>2. c \in Subscribed /\ phase[c] = "serving"
      BY <3>1 DEF Greeted, Subscribed, Clients
    <3>3. Len(sending) = 0
      BY <1>3, <2>4, <3>2
    <3> QED
      BY <1>6, <1>7, <1>8, <2>4, <3>2, <3>3
         DEF w, q, FeedInv, WireFresh, EndsInCurrent, Clients
  <2> QED
    BY <1>6, <1>7, <1>8, <2>1, <2>2, <2>3, <2>4
<1>13. Len(all) \in 0 .. WireCap + ChanCap + 2
  BY <1>1, <1>2, <1>3, <1>6, <1>7, <1>8, <1>11, CapsAssumption
<1>14. Said(all) = Said(w) \cup (IF Greeted(c) THEN {} ELSE {state})
                   \cup Said(q) \cup (IF c \in Subscribed THEN Said(sending) ELSE {})
  BY <1>2, <1>3, <1>11
<1>15. \/ Len(all) > 0
       \/ Greeted(c) /\ Len(w) = 0 /\ Len(q) = 0
          /\ (c \in Subscribed => Len(sending) = 0)
  BY <1>2, <1>3, <1>6, <1>7, <1>8, <1>11
<1> QED
  BY <1>8, <1>9, <1>10, <1>12, <1>13, <1>14, <1>15 DEF Coming, w, g, q, s

\* A step after which each follower has something to be told, and only
\* what it had or what is published now, or which leaves it alone.
LEMMA ChangeStep ==
    ASSUME FeedInv, FeedInv', UNCHANGED seen,
           \A c \in IpcClients : Coming(c) /\ Coming(c)',
           \A c \in IpcClients :
               \/ /\ Len(ToCome(c)') > 0
                  /\ Said(ToCome(c)') \subseteq Said(ToCome(c)) \cup {state'}
               \/ state' = state /\ ToCome(c)' = ToCome(c)
    PROVE  Stream!StreamNext
<1> DEFINE old(c) == Content(ToCome(c))
           new(c) == Content(ToCome(c)')
           Pub == {state'} \cup UNION { Range(old(c)) : c \in IpcClients }
<1>1. state' \in Values
  BY DEF FeedInv, FeedTypeOK
<1>2. ASSUME NEW c \in IpcClients
      PROVE  /\ ToCome(c) \in Seq(Message) /\ ToCome(c)' \in Seq(Message)
             /\ Len(ToCome(c)') \in 0 .. WireCap + ChanCap + 2
             /\ Len(ToCome(c)') > 0 => ToCome(c)'[Len(ToCome(c)')] = Current'
  BY DEF Coming, EndsInCurrent
<1>3. ASSUME NEW c \in IpcClients
      PROVE  /\ Range(old(c)) = Said(ToCome(c)) /\ Range(new(c)) = Said(ToCome(c)')
             /\ new(c) \in [1 .. Len(ToCome(c)') -> Said(ToCome(c)')]
             /\ Len(new(c)) = Len(ToCome(c)')
             /\ \A i \in 1 .. Len(ToCome(c)') : new(c)[i] = ToCome(c)'[i].value
             /\ Len(ToCome(c)') > 0 => new(c) # << >>
  BY <1>2, ContentFacts
<1>4. ASSUME NEW c \in IpcClients
      PROVE  new(c) \in SeqOf(Pub, WireCap + ChanCap + 1 + 1)
  <2>1. Said(ToCome(c)') \subseteq Pub
    <3>1. Said(ToCome(c)') \subseteq Said(ToCome(c)) \cup {state'}
      OBVIOUS
    <3> QED
      BY <1>3, <3>1
  <2>2. new(c) \in [1 .. Len(ToCome(c)') -> Pub]
    BY <1>3, <2>1
  <2>3. Len(ToCome(c)') \in 0 .. WireCap + ChanCap + 1 + 1
    BY <1>2, CapsAssumption
  <2> QED
    BY <2>2, <2>3 DEF SeqOf
<1>5. ASSUME NEW c \in IpcClients
      PROVE  \/ /\ new(c) # << >> /\ Last(new(c)) = state'
                /\ Range(new(c)) \subseteq Range(old(c)) \cup {state'}
             \/ state' = state /\ new(c) = old(c)
  <2>1. CASE /\ Len(ToCome(c)') > 0
             /\ Said(ToCome(c)') \subseteq Said(ToCome(c)) \cup {state'}
    <3>1. Last(new(c)) = Current'.value
      BY <1>2, <1>3, <2>1 DEF Last
    <3>2. Current'.value = state'
      BY DEF Current
    <3> QED
      BY <1>3, <2>1, <3>1, <3>2
  <2>2. CASE state' = state /\ ToCome(c)' = ToCome(c)
    BY <2>2
  <2> QED
    BY <2>1, <2>2
<1>6. Stream!Change(state')
  <2> DEFINE st == [c \in IpcClients |-> old(c)]
             nst == [c \in IpcClients |-> new(c)]
  <2>1. /\ \A c \in IpcClients : st[c] = old(c) /\ nst[c] = new(c)
        /\ nst \in [IpcClients -> SeqOf(Pub, WireCap + ChanCap + 1 + 1)]
    BY <1>4
  <2>2. Pub = {state'} \cup UNION { Range(st[c]) : c \in IpcClients }
    BY <2>1
  <2>3. \A c \in IpcClients :
            \/ /\ nst[c] # << >> /\ Last(nst[c]) = state'
               /\ Range(nst[c]) \subseteq Range(st[c]) \cup {state'}
            \/ state' = state /\ nst[c] = st[c]
    BY <1>5, <2>1
  <2>4. [c \in IpcClients |-> Content(ToCome(c))]' = nst
    OBVIOUS
  <2>5. /\ \A S, n : Stream!SeqOf(S, n) = SeqOf(S, n)
        /\ \A f : Stream!Range(f) = Range(f) /\ Stream!Last(f) = Last(f)
    BY DEF Stream!SeqOf, SeqOf, Stream!Range, Range, Stream!Last, Last
  <2> HIDE DEF nst, Pub
  <2>6. Stream!Published(state') = Pub
    BY <2>2, <2>5 DEF Stream!Published
  <2>7. nst \in [IpcClients -> Stream!SeqOf(Pub, WireCap + ChanCap + 1 + 1)]
    BY <2>1, <2>5
  <2> QED
    BY <2>3, <2>4, <2>5, <2>6, <2>7 DEF Stream!Change, Stream!Leads
<1> QED
  BY <1>1, <1>6 DEF Stream!StreamNext

\* Adding a message adds its state, and taking one adds none.
LEMMA SaidFacts ==
    ASSUME NEW q \in Seq(Message), NEW e \in Message
    PROVE  /\ Len(q) = 0 => Said(q) = {}
           /\ Said(Append(q, e)) = Said(q) \cup {e.value}
           /\ Len(q) > 0 => Said(Tail(q)) \subseteq Said(q) /\ Head(q).value \in Said(q)
<1>1. Len(q) \in Nat
  BY LenProperties
<1>2. Len(q) = 0 => Said(q) = {}
  BY DEF Said
<1>3. Said(Append(q, e)) = Said(q) \cup {e.value}
  <2>1. /\ Len(Append(q, e)) = Len(q) + 1 /\ Append(q, e)[Len(q) + 1] = e
        /\ \A i \in 1 .. Len(q) : Append(q, e)[i] = q[i]
    BY AppendProperties
  <2>2. 1 .. Len(q) + 1 = (1 .. Len(q)) \cup {Len(q) + 1}
    BY <1>1
  <2> QED
    BY <2>1, <2>2 DEF Said
<1>4. ASSUME Len(q) > 0
      PROVE  Said(Tail(q)) \subseteq Said(q) /\ Head(q).value \in Said(q)
  <2>1. q # << >>
    BY <1>4, EmptyFacts
  <2>2. /\ Len(Tail(q)) = Len(q) - 1
        /\ \A i \in 1 .. Len(Tail(q)) : Tail(q)[i] = q[i + 1]
    BY <2>1, HeadTailProperties
  <2>3. \A i \in 1 .. Len(Tail(q)) : i + 1 \in 1 .. Len(q)
    BY <1>1, <2>2
  <2>4. Head(q) = q[1] /\ 1 \in 1 .. Len(q)
    BY <1>1, <1>4, TakenFacts
  <2> QED
    BY <2>2, <2>3, <2>4 DEF Said
<1> QED
  BY <1>2, <1>3, <1>4

\* What the channel retains tells of nothing it was not given.
LEMMA SaidRetained ==
    ASSUME NEW q \in Seq(Message), NEW e \in Message
    PROVE  Said(Retained(q, e)) \subseteq Said(q) \cup {e.value}
<1>1. CASE Len(q) < ChanCap
  BY <1>1, SaidFacts DEF Retained
<1>2. CASE ~(Len(q) < ChanCap)
  <2>1. Len(q) > 0
    BY <1>2, CapsAssumption, LenProperties
  <2>2. Tail(q) \in Seq(Message)
    BY <2>1, TakenFacts
  <2>3. Said(Append(Tail(q), e)) = Said(Tail(q)) \cup {e.value}
    BY <2>2, SaidFacts
  <2>4. Said(Tail(q)) \subseteq Said(q)
    BY <2>1, SaidFacts
  <2> QED
    BY <1>2, <2>3, <2>4 DEF Retained
<1> QED
  BY <1>1, <1>2

\* What a step may do to what is to come for a follower, telling it nothing.
Flows(c) ==
    \/ /\ Len(ToCome(c)') > 0
       /\ Said(ToCome(c)') \subseteq Said(ToCome(c)) \cup {state'}
    \/ state' = state /\ ToCome(c)' = ToCome(c)

\* A connection that is left alone has the same to come.
LEMMA Untouched ==
    ASSUME NEW c \in IpcClients, UNCHANGED <<seq, state, sending>>,
           phase'[c] = phase[c], queue'[c] = queue[c], wire'[c] = wire[c],
           c \in lagged' <=> c \in lagged
    PROVE  ToCome(c)' = ToCome(c)
<1>1. /\ Current' = Current
      /\ Greeted(c)' <=> Greeted(c)
      /\ (c \in Subscribed)' <=> c \in Subscribed
  BY DEF Current, Greeted, Subscribed, Clients
<1> QED
  BY <1>1 DEF ToCome

\* A publication puts the new state last, for everybody.
LEMMA RecordFlows ==
    ASSUME FeedInv, FeedInv', NEW value \in Values, Record(value),
           NEW c \in IpcClients, Coming(c), Coming(c)'
    PROVE  Flows(c)
<1>1. sending' = << Current' >> /\ UNCHANGED <<phase, queue, lagged, wire>> /\ Current'.value = state'
  BY DEF Record, Current
<1>2. Len(sending') = 1 /\ Said(sending') = {state'}
  BY <1>1 DEF Said
<1>3. Greeted(c)' = Greeted(c) /\ Subscribed' = Subscribed /\ (Greeted(c) => c \in Subscribed)
  BY <1>1 DEF Greeted, Subscribed, Clients
<1>4. Len(ToCome(c)') > 0
  <2>1. Len(sending') # 0
    BY <1>2
  <2> QED
    BY <1>3, <2>1, Zenon DEF Coming
<1>5. Said(ToCome(c)') \subseteq Said(ToCome(c)) \cup {state'}
  BY <1>1, <1>2, <1>3 DEF Coming
<1> QED
  BY <1>4, <1>5 DEF Flows

\* Broadcasting moves it on, and may lose what the channel has no room for.
LEMMA BroadcastFlows ==
    ASSUME FeedInv, FeedInv', Broadcast,
           NEW c \in IpcClients, Coming(c), Coming(c)'
    PROVE  Flows(c)
<1>1. /\ sending # << >> /\ sending \in Seq(Message) /\ Head(sending) = Current
      /\ Current \in Message /\ Current.value = state /\ queue[c] \in Seq(Message)
      /\ Len(queue[c]) <= ChanCap
  <2>1. sending # << >> /\ sending \in Seq(Message) /\ queue[c] \in Seq(Message)
        /\ Len(queue[c]) <= ChanCap
    BY DEF FeedInv, FeedTypeOK, Broadcast, Clients
  <2>2. Len(sending) > 0
    BY <2>1, EmptySeq
  <2>3. Head(sending) = sending[1]
    BY <2>1, <2>2, TakenFacts
  <2> QED
    BY <2>1, <2>2, <2>3, CurrentType DEF FeedInv, SendingFresh, Current
<1>2. /\ sending' = << >> /\ UNCHANGED <<seq, state, phase, wire>>
      /\ queue'[c] = IF c \in Subscribed THEN Retained(queue[c], Current) ELSE queue[c]
      /\ c \notin Subscribed => (c \in lagged' <=> c \in lagged)
  BY <1>1 DEF Broadcast, Clients
<1>3. Subscribed' = Subscribed /\ Said(sending') = {}
  BY <1>2 DEF Subscribed, Said
<1>4. CASE c \in Subscribed
  <2>1. Len(queue'[c]) \in 1 .. ChanCap /\ Said(queue'[c]) \subseteq Said(queue[c]) \cup {state}
    BY <1>1, <1>2, <1>4, RetainedFacts, SaidRetained
  <2>2. Len(ToCome(c)') > 0
    <3>1. Len(queue'[c]) # 0
      BY <2>1
    <3> QED
      BY <3>1, Zenon DEF Coming
  <2>3. Said(ToCome(c)') \subseteq Said(ToCome(c)) \cup {state'}
    BY <1>2, <1>3, <2>1 DEF Coming
  <2> QED
    BY <2>2, <2>3 DEF Flows
<1>5. CASE c \notin Subscribed
  <2>1. ~Greeted(c) /\ ~Greeted(c)'
    BY <1>2, <1>5 DEF Greeted, Subscribed, Clients
  <2>2. Len(ToCome(c)') > 0
    BY <2>1 DEF Coming
  <2>3. Said(ToCome(c)') \subseteq Said(ToCome(c)) \cup {state'}
    BY <1>2, <1>3, <1>5 DEF Coming
  <2> QED
    BY <2>2, <2>3 DEF Flows
<1> QED
  BY <1>4, <1>5

\* Being accepted, being served and being caught up: the greeting takes the
\* place of the one that is due.
LEMMA AcceptFlows ==
    ASSUME FeedInv, FeedInv', NEW d \in Clients, Accept(d),
           NEW c \in IpcClients, Coming(c), Coming(c)'
    PROVE  Flows(c)
<1>1. CASE c # d
  <2>1. ToCome(c)' = ToCome(c) /\ state' = state
    BY <1>1, Untouched DEF Accept, FeedInv, FeedTypeOK, Clients
  <2> QED
    BY <2>1 DEF Flows
<1>2. CASE c = d
  <2>1. /\ UNCHANGED <<state, sending, queue>> /\ wire'[c] = << >>
        /\ phase'[c] = "opening" /\ Len(queue[c]) = 0
    BY <1>2, ClientsAssumption DEF Accept, FeedInv, FeedTypeOK, Orderly, Subscribed, Clients
  <2>2. ~Greeted(c)' /\ Said(wire'[c]) = {} /\ Said(queue'[c]) = {}
    BY <2>1 DEF Greeted, Said
  <2>3. Said(sending') \subseteq {state'}
    <3>1. sending \in Seq(Message) /\ Len(sending) <= 1 /\ Len(sending) \in Nat
      BY LenProperties DEF FeedInv, FeedTypeOK
    <3>2. Len(sending) > 0 => sending[1].value = state
      BY DEF FeedInv, SendingFresh, Current
    <3> QED
      BY <2>1, <3>1, <3>2 DEF Said
  <2>4. Len(ToCome(c)') > 0
    BY <2>2 DEF Coming
  <2>5. Said(ToCome(c)') \subseteq {state'}
    BY <2>2, <2>3 DEF Coming
  <2> QED
    BY <2>4, <2>5 DEF Flows
<1> QED
  BY <1>1, <1>2

\* The greeting adds the current snapshot to a wire.
LEMMA GreetingFlows ==
    ASSUME FeedInv, FeedInv', NEW d \in Clients,
           UNCHANGED <<seq, state, sending, queue, seen>>,
           wire' = [wire EXCEPT ![d] = Greeting(d)],
           \A c \in Clients \ {d} : phase'[c] = phase[c] /\ (c \in lagged' <=> c \in lagged),
           d \in IpcClients => (d \in Subscribed /\ (d \in Subscribed)'),
           NEW c \in IpcClients, Coming(c), Coming(c)'
    PROVE  Flows(c)
<1>1. CASE c # d
  <2>1. ToCome(c)' = ToCome(c) /\ state' = state
    BY <1>1, Untouched DEF FeedInv, FeedTypeOK, Clients
  <2> QED
    BY <2>1 DEF Flows
<1>2. CASE c = d
  <2>1. /\ wire[c] \in Seq(Message) /\ Current \in Message /\ Current.value = state
        /\ wire'[c] = Append(wire[c], Current)
    BY <1>2, CurrentType DEF FeedInv, FeedTypeOK, Greeting, Current, Clients
  <2>2. Said(wire'[c]) = Said(wire[c]) \cup {state} /\ Len(wire'[c]) > 0
    <3>1. Said(Append(wire[c], Current)) = Said(wire[c]) \cup {state}
      BY <2>1, SaidFacts
    <3>2. Len(Append(wire[c], Current)) > 0
      BY <2>1, AddedFacts
    <3> QED
      BY <2>1, <3>1, <3>2, Zenon
  <2>3. Len(ToCome(c)') > 0
    <3>1. Len(wire'[c]) # 0
      BY <2>2
    <3> QED
      BY <3>1, Zenon DEF Coming
  <2>4. Said(ToCome(c)') \subseteq Said(ToCome(c)) \cup {state'}
    BY <1>2, <2>2 DEF Coming
  <2> QED
    BY <2>3, <2>4 DEF Flows
<1> QED
  BY <1>1, <1>2

\* Relaying takes a message from the channel to the wire.
LEMMA RelayFlows ==
    ASSUME FeedInv, FeedInv', NEW d \in Clients, Relay(d),
           NEW c \in IpcClients, Coming(c), Coming(c)'
    PROVE  Flows(c)
<1>1. CASE c # d
  <2>1. ToCome(c)' = ToCome(c) /\ state' = state
    BY <1>1, Untouched DEF Relay, FeedInv, FeedTypeOK, Clients
  <2> QED
    BY <2>1 DEF Flows
<1>2. CASE c = d
  <2>1. /\ wire[c] \in Seq(Message) /\ queue[c] \in Seq(Message) /\ queue[c] # << >>
        /\ wire'[c] = Append(wire[c], Head(queue[c])) /\ queue'[c] = Tail(queue[c])
        /\ UNCHANGED <<state, sending, phase, lagged>>
    BY <1>2 DEF Relay, FeedInv, FeedTypeOK, Clients
  <2>2. Len(queue[c]) > 0
    BY <2>1, EmptySeq
  <2>3. Head(queue[c]) \in Message
    BY <2>1, <2>2, TakenFacts
  <2>4. Said(wire'[c]) = Said(wire[c]) \cup {Head(queue[c]).value} /\ Len(wire'[c]) > 0
    BY <2>1, <2>3, SaidFacts, AddedFacts
  <2>5. Said(queue'[c]) \subseteq Said(queue[c]) /\ Head(queue[c]).value \in Said(queue[c])
    BY <2>1, <2>2, <2>3, SaidFacts
  <2>6. Subscribed' = Subscribed /\ Greeted(c)' = Greeted(c)
    BY <2>1 DEF Subscribed, Greeted
  <2>7. Len(ToCome(c)') > 0
    <3>1. Len(wire'[c]) # 0
      BY <2>4
    <3> QED
      BY <3>1, Zenon DEF Coming
  <2>8. Said(ToCome(c)') \subseteq Said(ToCome(c)) \cup {state'}
    BY <2>1, <2>4, <2>5, <2>6 DEF Coming
  <2> QED
    BY <2>7, <2>8 DEF Flows
<1> QED
  BY <1>1, <1>2

\* Who has left is told the current state when it comes back.
LEMMA LeaveFlows ==
    ASSUME FeedInv, FeedInv', NEW d \in Clients, Leave(d),
           NEW c \in IpcClients, Coming(c), Coming(c)'
    PROVE  Flows(c)
<1>1. CASE c # d
  <2>1. ToCome(c)' = ToCome(c) /\ state' = state
    BY <1>1, Untouched DEF Leave, FeedInv, FeedTypeOK, Clients
  <2> QED
    BY <2>1 DEF Flows
<1>2. CASE c = d
  <2>1. /\ phase'[c] = "away" /\ queue'[c] = << >> /\ wire'[c] = << >>
    BY <1>2 DEF Leave, FeedInv, FeedTypeOK, Clients
  <2>2. ~Greeted(c)' /\ ~(c \in Subscribed)' /\ Said(wire'[c]) = {} /\ Said(queue'[c]) = {}
    BY <2>1 DEF Greeted, Subscribed, Said
  <2>3. Len(ToCome(c)') > 0
    BY <2>2 DEF Coming
  <2>4. Said(ToCome(c)') \subseteq {state'}
    BY <2>2 DEF Coming
  <2> QED
    BY <2>3, <2>4 DEF Flows
<1> QED
  BY <1>1, <1>2

\* After a restart of artd everybody is to be told its first state, after what
\* is left on the wire.
LEMMA FeedRestartFlows ==
    ASSUME FeedInv, FeedInv', FeedRestart,
           NEW c \in IpcClients, Coming(c), Coming(c)'
    PROVE  Flows(c)
<1>1. phase'[c] \in {"away", "hungup"} /\ queue'[c] = << >> /\ wire' = wire
  BY DEF FeedRestart, Clients
<1>2. ~Greeted(c)' /\ ~(c \in Subscribed)' /\ Said(queue'[c]) = {}
  BY <1>1 DEF Greeted, Subscribed, Said
<1>3. Len(ToCome(c)') > 0
  BY <1>2 DEF Coming
<1>4. Said(ToCome(c)') \subseteq Said(ToCome(c)) \cup {state'}
  BY <1>1, <1>2 DEF Coming
<1> QED
  BY <1>3, <1>4 DEF Flows

\* Taking the first message of a wire takes the first state to come.
LEMMA FirstFacts ==
    ASSUME NEW w \in Seq(Message), NEW r \in Seq(Message), Len(w) > 0
    PROVE  /\ Content(w \o r) # << >>
           /\ Head(Content(w \o r)) = Head(w).value
           /\ Tail(Content(w \o r)) = Content(Tail(w) \o r)
<1> DEFINE x == w \o r
           y == Tail(w) \o r
           S == Said(x) \cup Said(y)
<1>1. /\ Tail(w) \in Seq(Message) /\ Len(w) \in Nat /\ Len(Tail(w)) = Len(w) - 1
      /\ Head(w) = w[1] /\ w # << >>
  BY TakenFacts, EmptyFacts
<1>2. \A i \in 1 .. Len(Tail(w)) : Tail(w)[i] = w[i + 1]
  BY <1>1, HeadTailProperties
<1>3. /\ x \in Seq(Message) /\ Len(r) \in Nat /\ Len(x) = Len(w) + Len(r)
      /\ \A i \in 1 .. Len(x) : x[i] = IF i <= Len(w) THEN w[i] ELSE r[i - Len(w)]
  BY ConcatProperties, LenProperties
<1>4. /\ y \in Seq(Message) /\ Len(y) = Len(Tail(w)) + Len(r)
      /\ \A i \in 1 .. Len(y) :
             y[i] = IF i <= Len(Tail(w)) THEN Tail(w)[i] ELSE r[i - Len(Tail(w))]
  BY <1>1, ConcatProperties, LenProperties
<1> HIDE DEF x, y
<1>5. Len(y) = Len(x) - 1 /\ \A i \in 1 .. Len(y) : y[i] = x[i + 1]
  <2>1. Len(y) = Len(x) - 1
    BY <1>1, <1>3, <1>4
  <2>2. ASSUME NEW i \in 1 .. Len(y)
        PROVE  y[i] = x[i + 1]
    <3>1. CASE i <= Len(Tail(w))
      BY <1>1, <1>2, <1>3, <1>4, <2>1, <3>1
    <3>2. CASE ~(i <= Len(Tail(w)))
      <4>1. y[i] = r[i - Len(Tail(w))] /\ i - Len(Tail(w)) = (i + 1) - Len(w)
        BY <1>1, <1>3, <1>4, <3>2
      <4>2. x[i + 1] = r[(i + 1) - Len(w)]
        BY <1>1, <1>3, <1>4, <2>1, <3>2
      <4> QED
        BY <4>1, <4>2
    <3> QED
      BY <3>1, <3>2
  <2> QED
    BY <2>1, <2>2
<1>6. /\ Len(x) > 0 /\ 1 \in 1 .. Len(x)
      /\ Content(x) \in Seq(S) /\ Len(Content(x)) = Len(x)
      /\ Content(y) \in Seq(S) /\ Len(Content(y)) = Len(y)
      /\ \A i \in 1 .. Len(x) : Content(x)[i] = x[i].value
      /\ \A i \in 1 .. Len(y) : Content(y)[i] = y[i].value
  <2>1. Len(x) > 0 /\ 1 \in 1 .. Len(x) /\ Len(x) \in Nat /\ Len(y) \in Nat
    BY <1>1, <1>3, <1>4
  <2>2. /\ Content(x) \in [1 .. Len(x) -> Said(x)] /\ Len(Content(x)) = Len(x)
        /\ \A i \in 1 .. Len(x) : Content(x)[i] = x[i].value
    BY <1>3, ContentFacts
  <2>3. /\ Content(y) \in [1 .. Len(y) -> Said(y)] /\ Len(Content(y)) = Len(y)
        /\ \A i \in 1 .. Len(y) : Content(y)[i] = y[i].value
    BY <1>4, ContentFacts
  <2>4. Content(x) \in Seq(S)
    <3>1. Said(x) \subseteq S
      OBVIOUS
    <3> HIDE DEF S
    <3>2. Content(x) \in [1 .. Len(x) -> S]
      BY <2>2, <3>1
    <3> QED
      BY <2>1, <3>2, SeqDef
  <2>5. Content(y) \in Seq(S)
    <3>1. Said(y) \subseteq S
      OBVIOUS
    <3> HIDE DEF S
    <3>2. Content(y) \in [1 .. Len(y) -> S]
      BY <2>3, <3>1
    <3> QED
      BY <2>1, <3>2, SeqDef
  <2> HIDE DEF S
  <2> QED
    BY <2>1, <2>2, <2>3, <2>4, <2>5
<1> HIDE DEF S
<1>7. Content(x) # << >>
  BY <1>6, EmptySeq
<1>8. Head(Content(x)) = Head(w).value
  <2>1. Head(Content(x)) = Content(x)[1]
    BY <1>6, <1>7
  <2>2. x[1] = w[1]
    BY <1>1, <1>3, <1>6
  <2> QED
    BY <1>1, <1>6, <2>1, <2>2
<1>9. Tail(Content(x)) = Content(y)
  <2>1. /\ Tail(Content(x)) \in Seq(S) /\ Len(Tail(Content(x))) = Len(x) - 1
        /\ \A i \in 1 .. Len(x) - 1 : Tail(Content(x))[i] = Content(x)[i + 1]
    BY <1>6, <1>7, HeadTailProperties
  <2>2. \A i \in 1 .. Len(x) - 1 : i + 1 \in 1 .. Len(x)
    BY <1>1, <1>3
  <2>3. \A i \in 1 .. Len(Tail(Content(x))) : Tail(Content(x))[i] = Content(y)[i]
    BY <1>5, <1>6, <2>1, <2>2
  <2> QED
    BY <1>5, <1>6, <2>1, <2>3, SeqEqual
<1> QED
  BY <1>7, <1>8, <1>9 DEF x, y

\* Receiving is being told.
LEMMA ReceiveTells ==
    ASSUME FeedInv, FeedInv', NEW d \in IpcClients, Receive(d),
           \A c \in IpcClients : Coming(c) /\ Coming(c)'
    PROVE  Stream!StreamNext
<1> DEFINE rest == Greet(d) \o queue[d] \o Sent(d)
           st(c) == Content(ToCome(c))
           told(c) == IF seen[c] = Nothing THEN Nothing ELSE seen[c].value
<1>1. /\ wire[d] \in Seq(Message) /\ wire[d] # << >> /\ d \in Clients
      /\ wire' = [wire EXCEPT ![d] = Tail(wire[d])]
      /\ seen' = [seen EXCEPT ![d] = Head(wire[d])]
      /\ wire \in [Clients -> Seq(Message)]
      /\ seen \in [Clients -> Message \cup {Nothing}]
      /\ UNCHANGED <<seq, state, sending, phase, queue, lagged>>
  BY DEF Receive, FeedInv, FeedTypeOK, Clients
<1>2. Len(wire[d]) > 0
  BY <1>1, EmptySeq
<1>3. Greet(d)' = Greet(d) /\ Sent(d)' = Sent(d)
  BY <1>1 DEF Greet, Sent, Greeted, Subscribed, Current
<1>4. /\ ToCome(d) = wire[d] \o rest /\ rest \in Seq(Message)
      /\ ToCome(d)' = Tail(wire[d]) \o rest
  <2>1. ToCome(d)' = wire'[d] \o (Greet(d)' \o queue'[d] \o Sent(d)')
    BY DEF Coming
  <2>2. ToCome(d) = wire[d] \o rest /\ rest \in Seq(Message)
    BY DEF Coming
  <2>3. wire'[d] = Tail(wire[d]) /\ queue'[d] = queue[d]
    BY <1>1
  <2> QED
    BY <1>3, <2>1, <2>2, <2>3
<1> HIDE DEF rest
<1>5. st(d) # << >> /\ Head(st(d)) = Head(wire[d]).value /\ Tail(st(d)) = Content(ToCome(d)')
  BY <1>1, <1>2, <1>4, FirstFacts
<1>6. ASSUME NEW c \in IpcClients, c # d
      PROVE  Content(ToCome(c)') = st(c) /\ seen'[c] = seen[c]
  <2>1. c \in Clients
    BY DEF Clients
  <2>2. wire'[c] = wire[c] /\ seen'[c] = seen[c]
    BY <1>1, <1>6, <2>1
  <2>3. ToCome(c)' = ToCome(c)
    BY <1>1, <2>2, Untouched
  <2> QED
    BY <2>2, <2>3
<1>7. seen'[d] = Head(wire[d]) /\ seen'[d] # Nothing
  <2>1. Head(wire[d]) \in Message
    BY <1>1, <1>2, TakenFacts
  <2> QED
    BY <1>1, <2>1, NothingAssumption
<1>8. [c \in IpcClients |-> Content(ToCome(c)')]
        = [[c \in IpcClients |-> st(c)] EXCEPT ![d] = Tail(st(d))]
  BY <1>5, <1>6
<1>9. [c \in IpcClients |-> IF seen'[c] = Nothing THEN Nothing ELSE seen'[c].value]
        = [[c \in IpcClients |-> told(c)] EXCEPT ![d] = Head(st(d))]
  BY <1>5, <1>6, <1>7
<1> HIDE DEF st, told
<1>10. Stream!Tell(d)
  BY <1>1, <1>5, <1>8, <1>9 DEF Stream!Tell, st, told
<1> QED
  BY <1>10 DEF Stream!StreamNext

\* A client's process that is started anew has forgotten what it was told.
LEMMA RestartForgets ==
    ASSUME FeedInv, FeedInv', NEW d \in IpcClients, ClientRestart(d)
    PROVE  Stream!StreamNext
<1> DEFINE st(c) == Content(ToCome(c))
           told(c) == IF seen[c] = Nothing THEN Nothing ELSE seen[c].value
<1>1. /\ d \in Clients /\ UNCHANGED <<seq, state, sending>>
      /\ wire'[d] = << >> /\ queue'[d] = << >> /\ phase'[d] = "away"
      /\ seen'[d] = Nothing
  BY DEF ClientRestart, FeedInv, FeedTypeOK, Clients
<1>2. ToCome(d)' = << >> \o <<Current>> \o << >> \o << >>
  BY <1>1 DEF ToCome, Greeted, Subscribed, Current
<1>3. ToCome(d)' = <<Current>>
  <2>1. Current \in Message /\ <<Current>> \in Seq(Message)
    BY CurrentType DEF FeedInv
  <2> QED
    BY <1>2, <2>1, ConcatEmptySeq
<1>4. Content(ToCome(d)') = <<state>>
  BY <1>3 DEF Content, Current
<1>5. ASSUME NEW c \in IpcClients, c # d
      PROVE  Content(ToCome(c)') = st(c) /\ seen'[c] = seen[c]
  <2>1. /\ c \in Clients /\ wire'[c] = wire[c] /\ queue'[c] = queue[c] /\ phase'[c] = phase[c]
        /\ seen'[c] = seen[c] /\ (c \in lagged' <=> c \in lagged)
    BY <1>5 DEF ClientRestart, FeedInv, FeedTypeOK, Clients
  <2>2. ToCome(c)' = ToCome(c)
    BY <1>1, <2>1, Untouched
  <2> QED
    BY <2>1, <2>2
<1>6. [c \in IpcClients |-> Content(ToCome(c)')]
        = [[c \in IpcClients |-> st(c)] EXCEPT ![d] = <<state>>]
  BY <1>4, <1>5
<1>7. [c \in IpcClients |-> IF seen'[c] = Nothing THEN Nothing ELSE seen'[c].value]
        = [[c \in IpcClients |-> told(c)] EXCEPT ![d] = Nothing]
  BY <1>1, <1>5
<1> HIDE DEF st, told
<1>8. Stream!Forget(d)
  BY <1>1, <1>6, <1>7 DEF Stream!Forget, st, told
<1> QED
  BY <1>8 DEF Stream!StreamNext

\* What a browser does, no follower of the socket notices.
LEMMA BrowsersApart ==
    ASSUME FeedInv, NEW d \in Clients \ IpcClients, Receive(d) \/ ClientRestart(d)
    PROVE  UNCHANGED Stream!streamVars
<1>1. UNCHANGED <<seq, state, sending>>
  BY DEF Receive, ClientRestart
<1>2. ASSUME NEW c \in IpcClients
      PROVE  ToCome(c)' = ToCome(c) /\ seen'[c] = seen[c]
  <2>1. /\ wire'[c] = wire[c] /\ queue'[c] = queue[c] /\ phase'[c] = phase[c]
        /\ seen'[c] = seen[c] /\ (c \in lagged' <=> c \in lagged)
    BY DEF Receive, ClientRestart, FeedInv, FeedTypeOK, Clients
  <2> QED
    BY <1>1, <2>1, Untouched
<1>3. [c \in IpcClients |-> Content(ToCome(c)')] = [c \in IpcClients |-> Content(ToCome(c))]
  BY <1>2
<1>4. [c \in IpcClients |-> IF seen'[c] = Nothing THEN Nothing ELSE seen'[c].value]
        = [c \in IpcClients |-> IF seen[c] = Nothing THEN Nothing ELSE seen[c].value]
  BY <1>2
<1> QED
  BY <1>1, <1>3, <1>4 DEF Stream!streamVars

\* Every step of the feed is one of the stream, or none.
LEMMA FeedStepStreams ==
    ASSUME FeedInv, FeedInv', \A c \in IpcClients : Coming(c) /\ Coming(c)',
           [FeedNext]_feedVars
    PROVE  [Stream!StreamNext]_(Stream!streamVars)
<1>1. ASSUME UNCHANGED seen, \A c \in IpcClients : Flows(c)
      PROVE  Stream!StreamNext
  BY <1>1, ChangeStep DEF Flows
<1>2. CASE Publish
  <2>1. UNCHANGED seen
    BY <1>2 DEF Publish, Broadcast, Record
  <2>2. \A c \in IpcClients : Flows(c)
    BY <1>2, BroadcastFlows, RecordFlows DEF Publish
  <2> QED
    BY <1>1, <2>1, <2>2
<1>3. ASSUME NEW d \in Clients, Accept(d) \/ Serve(d) \/ CatchUp(d) \/ Relay(d) \/ Leave(d)
      PROVE  Stream!StreamNext
  <2>1. UNCHANGED seen
    BY <1>3 DEF Accept, Serve, CatchUp, Relay, Leave
  <2>2. ASSUME NEW c \in IpcClients PROVE Flows(c)
    <3>1. Coming(c) /\ Coming(c)'
      OBVIOUS
    <3>2. CASE Accept(d)
      BY <3>1, <3>2, AcceptFlows
    <3>3. CASE Serve(d)
      BY <3>1, <3>3, GreetingFlows DEF Serve, FeedInv, FeedTypeOK, Subscribed
    <3>4. CASE CatchUp(d)
      BY <3>1, <3>4, GreetingFlows DEF CatchUp, FeedInv, FeedTypeOK, Subscribed
    <3>5. CASE Relay(d)
      BY <3>1, <3>5, RelayFlows
    <3>6. CASE Leave(d)
      BY <3>1, <3>6, LeaveFlows
    <3> QED
      BY <1>3, <3>2, <3>3, <3>4, <3>5, <3>6
  <2> QED
    BY <1>1, <2>1, <2>2
<1>4. ASSUME NEW d \in Clients, Receive(d) \/ ClientRestart(d)
      PROVE  [Stream!StreamNext]_(Stream!streamVars)
  BY <1>4, ReceiveTells, RestartForgets, BrowsersApart
<1>5. CASE FeedRestart
  <2>1. UNCHANGED seen
    BY <1>5 DEF FeedRestart
  <2>2. \A c \in IpcClients : Flows(c)
    BY <1>5, FeedRestartFlows
  <2> QED
    BY <1>1, <2>1, <2>2
<1>6. CASE UNCHANGED feedVars
  <2>1. \A c \in IpcClients : ToCome(c)' = ToCome(c)
    BY <1>6 DEF feedVars, ToCome, Greeted, Subscribed, Current
  <2>2. [c \in IpcClients |-> Content(ToCome(c)')] = [c \in IpcClients |-> Content(ToCome(c))]
    BY <2>1
  <2> QED
    BY <1>6, <2>2 DEF feedVars, Stream!streamVars
<1>7. ASSUME NEW d \in Clients, Deliver(d) \/ Disconnect(d)
      PROVE  [Stream!StreamNext]_(Stream!streamVars)
  BY <1>3, <1>4, <1>7 DEF Deliver, Disconnect, EndOfStream
<1> QED
  BY <1>2, <1>4, <1>5, <1>6, <1>7 DEF FeedNext

\* At first everybody is to be told the initial state.
LEMMA FeedInitStreams == FeedInit => Stream!StreamInit
<1> SUFFICES ASSUME FeedInit PROVE Stream!StreamInit
  OBVIOUS
<1>1. ASSUME NEW c \in IpcClients
      PROVE  Content(ToCome(c)) = <<Initial>> /\ seen[c] = Nothing
  <2>1. ToCome(c) = << >> \o <<Current>> \o << >> \o << >>
    BY DEF FeedInit, ToCome, Greeted, Subscribed, Clients
  <2>2. FeedTypeOK
    BY FeedInitInv DEF FeedInv
  <2>3. <<Current>> \in Seq(Message)
    BY <2>2, CurrentType
  <2>4. ToCome(c) = <<Current>>
    BY <2>1, <2>3, ConcatEmptySeq
  <2> QED
    BY <2>4 DEF FeedInit, Content, Current, Clients
<1>2. [c \in IpcClients |-> Content(ToCome(c))] = [c \in IpcClients |-> <<Initial>>]
  BY <1>1
<1>3. [c \in IpcClients |-> IF seen[c] = Nothing THEN Nothing ELSE seen[c].value]
        = [c \in IpcClients |-> Nothing]
  BY <1>1
<1> QED
  BY <1>2, <1>3 DEF FeedInit, Stream!StreamInit

(* The feed implements the lossy stream: whatever the channel, the greetings,  *)
(* the connections and the restarts do, each follower of the socket is told    *)
(* only states that were published, and what it is still to be told ends with  *)
(* the current one.  Nothing is said of their order: a follower that lags is   *)
(* told the newest first and older ones after it.                              *)
THEOREM FeedImplementsStream == FeedSpec => FeedIsAStream
<1> DEFINE Comings == \A c \in IpcClients : Coming(c)
<1>1. FeedInv => Comings
  BY ComingFacts
<1>2. FeedInv /\ FeedInv' /\ Comings /\ Comings' /\ [FeedNext]_feedVars
        => [Stream!StreamNext]_(Stream!streamVars)
  BY FeedStepStreams
<1>3. FeedInit => Stream!StreamInit
  BY FeedInitStreams
<1> HIDE DEF Comings
<1>4. FeedSpec => []FeedInv
  BY FeedInvariance
<1> QED
  BY <1>1, <1>2, <1>3, <1>4, PTL DEF FeedSpec, FeedIsAStream, Stream!StreamSpec


====
