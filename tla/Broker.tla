------------------------------- MODULE Broker -------------------------------
(***************************************************************************)
(* internal/sse/sse.go and the SSE handler of internal/runs/manager.go:    *)
(* the event broker of one run, its publisher and the clients that stream  *)
(* its events. Events are numbered in the order in which the broker        *)
(* accepts them; the last of them is the terminal one.                     *)
(*                                                                         *)
(* A client's handler gets the broker from the map under m.mu, subscribes  *)
(* under b.mu, replays the history without any lock, reads its channel,    *)
(* and cancels: deletes its subscription under b.mu and closes the channel *)
(* after that. Publishing and eviction come in between anywhere.           *)
(***************************************************************************)
EXTENDS Naturals, Sequences, FiniteSets, SequencesExt

CONSTANTS
  Clients,       \* the requests to the SSE endpoint
  HistorySize,   \* what the broker keeps: 200
  Buffer,        \* what a subscriber's channel holds: 200
  LastEvent      \* the number of the run's terminal event

ASSUME SizesAssumption ==
  HistorySize \in Nat \ {0} /\ Buffer \in Nat \ {0} /\ LastEvent \in Nat

VARIABLES
  \* the broker
  published,     \* the number of events it has accepted
  history,       \* b.history
  closed,        \* b.closed; the broker leaves m.brokers with it
  subscribers,   \* the keys of b.subscribers
  \* each client's handler
  client,        \* where SSEHandler and Subscribe are
  replay,        \* what is left of its copy of the history
  joined,        \* the value of `published' when it subscribed
  \* each client's channel
  channel,       \* what is buffered
  shut,          \* the clients whose channel is closed
  received,      \* what the handler has taken out of it
  dropped        \* what did not fit into it

brokerVars == <<published, history, closed, subscribers>>
clientVars == <<client, replay, joined>>
channelVars == <<channel, shut, received, dropped>>
vars == <<brokerVars, clientVars, channelVars>>

Stages == {"outside", "found", "orphaned", "replaying", "reading", "leaving",
           "closing", "gone", "panicked"}

Init ==
  /\ published = 0
  /\ history = <<>>
  /\ closed = FALSE
  /\ subscribers = {}
  /\ client = [c \in Clients |-> "outside"]
  /\ replay = [c \in Clients |-> <<>>]
  /\ joined = [c \in Clients |-> 0]
  /\ channel = [c \in Clients |-> <<>>]
  /\ shut = {}
  /\ received = [c \in Clients |-> <<>>]
  /\ dropped = [c \in Clients |-> {}]

Goto(c, from, to) == client[c] = from /\ client' = [client EXCEPT ![c] = to]

(* A mistake in `Newest': one element too few.                             *)
NewestButOne(s, n) == SubSeq(s, IF Len(s) > n THEN Len(s) - n + 2 ELSE 1, Len(s))

(* The last n elements of s.                                               *)
Newest(s, n) == SubSeq(s, IF Len(s) > n THEN Len(s) - n + 1 ELSE 1, Len(s))

(* A non-blocking send of e to each of the channels of C.                  *)
Send(C, e) ==
  /\ channel' = [c \in Clients |->
       IF c \in C /\ Len(channel[c]) < Buffer THEN Append(channel[c], e)
                                              ELSE channel[c]]
  /\ dropped' = [c \in Clients |->
       IF c \in C /\ Len(channel[c]) >= Buffer THEN dropped[c] \cup {e}
                                               ELSE dropped[c]]
-----------------------------------------------------------------------------
(***************************************************************************)
(* Plausible mistakes, each a variant of an action below.                  *)
(***************************************************************************)

(* The history is copied in a critical section of its own.                 *)
SubscribeInTwoSections(c) ==
  /\ \/ /\ Goto(c, "found", "orphaned")
        /\ subscribers' = subscribers \cup {c}
        /\ joined' = [joined EXCEPT ![c] = published]
        /\ UNCHANGED replay
     \/ /\ Goto(c, "orphaned", "replaying")
        /\ replay' = [replay EXCEPT ![c] = history]
        /\ UNCHANGED <<subscribers, joined>>
  /\ UNCHANGED <<published, history, closed, channelVars>>

(* A new subscriber only gets what is published from then on.              *)
SubscribeWithoutHistory(c) ==
  /\ Goto(c, "found", "replaying")
  /\ joined' = [joined EXCEPT ![c] = published]
  /\ IF closed
     THEN shut' = shut \cup {c} /\ UNCHANGED subscribers
     ELSE subscribers' = subscribers \cup {c} /\ UNCHANGED shut
  /\ UNCHANGED <<published, history, closed, replay, channel, received, dropped>>

(* Cancel closes the channel of a client that is still subscribed.         *)
CancelClosesFirst(c) ==
  /\ Goto(c, "leaving", "gone")
  /\ shut' = shut \cup {c}
  /\ UNCHANGED <<brokerVars, replay, joined, channel, received, dropped>>

(* Close leaves the channels of its subscribers open.                      *)
CloseForgetsChannels ==
  /\ ~closed
  /\ closed' = TRUE
  /\ subscribers' = {}
  /\ UNCHANGED <<published, history, clientVars, channelVars>>
-----------------------------------------------------------------------------
(***************************************************************************)
(* The broker's side: the goroutine of the run publishes, eviction closes. *)
(***************************************************************************)

(* Once it is closed, the broker ignores what is published.                *)
Publish ==
  /\ published < LastEvent
  /\ ~closed
  /\ published' = published + 1
  /\ history' = Newest(Append(history, published + 1), HistorySize)
  /\ Send(subscribers, published + 1)
  /\ UNCHANGED <<closed, subscribers, clientVars, shut, received>>

Close ==
  /\ ~closed
  /\ closed' = TRUE
  /\ subscribers' = {}
  /\ shut' = shut \cup subscribers
  /\ UNCHANGED <<published, history, clientVars, channel, received, dropped>>
-----------------------------------------------------------------------------
(***************************************************************************)
(* The client's side: SSEHandler.                                          *)
(***************************************************************************)

(* getBroker: a run that was evicted gets a new broker, that nobody will   *)
(* ever publish to or close.                                               *)
GetBroker(c) ==
  /\ Goto(c, "outside", IF closed THEN "orphaned" ELSE "found")
  /\ UNCHANGED <<brokerVars, replay, joined, channelVars>>

(* The critical section of Subscribe. A broker that was closed since it    *)
(* was found gives out a closed channel.                                   *)
Subscribe(c) ==
  /\ Goto(c, "found", "replaying")
  /\ joined' = [joined EXCEPT ![c] = published]
  /\ IF closed
     THEN /\ shut' = shut \cup {c}
          /\ UNCHANGED <<subscribers, replay>>
     ELSE /\ subscribers' = subscribers \cup {c}
          /\ replay' = [replay EXCEPT ![c] = history]
          /\ UNCHANGED shut
  /\ UNCHANGED <<published, history, closed, channel, received, dropped>>

(* Send one event of the copied history; a send to a closed channel panics *)
(* (net/http recovers, the request is over).                               *)
Replay(c) ==
  /\ replay[c] # <<>>
  /\ Goto(c, "replaying", IF c \in shut THEN "panicked" ELSE "replaying")
  /\ replay' = [replay EXCEPT ![c] = Tail(@)]
  /\ IF c \in shut THEN UNCHANGED <<channel, dropped>>
                   ELSE Send({c}, Head(replay[c]))
  /\ UNCHANGED <<brokerVars, joined, shut, received>>

Subscribed(c) ==
  /\ replay[c] = <<>>
  /\ Goto(c, "replaying", "reading")
  /\ UNCHANGED <<brokerVars, replay, joined, channelVars>>

Receive(c) ==
  /\ client[c] = "reading"
  /\ channel[c] # <<>>
  /\ channel' = [channel EXCEPT ![c] = Tail(@)]
  /\ received' = [received EXCEPT ![c] = Append(@, Head(channel[c]))]
  /\ UNCHANGED <<brokerVars, clientVars, shut, dropped>>

(* The channel is closed and drained.                                      *)
EndOfStream(c) ==
  /\ channel[c] = <<>>
  /\ c \in shut
  /\ Goto(c, "reading", "leaving")
  /\ UNCHANGED <<brokerVars, replay, joined, channelVars>>

(* The client hangs up.                                                    *)
Disconnect(c) ==
  /\ \/ Goto(c, "reading", "leaving")
     \/ Goto(c, "orphaned", "gone")
  /\ UNCHANGED <<brokerVars, replay, joined, channelVars>>

(* cancel: under b.mu give up the subscription, if it is still there ...   *)
Cancel(c) ==
  /\ Goto(c, "leaving", IF c \in subscribers THEN "closing" ELSE "gone")
  /\ subscribers' = subscribers \ {c}
  /\ UNCHANGED <<published, history, closed, replay, joined, channelVars>>

(* ... and close the channel after b.mu is released.                       *)
CloseChannel(c) ==
  /\ Goto(c, "closing", "gone")
  /\ shut' = shut \cup {c}
  /\ UNCHANGED <<brokerVars, replay, joined, channel, received, dropped>>

Stream(c) == \/ Subscribe(c) \/ Replay(c) \/ Subscribed(c)
             \/ Receive(c) \/ EndOfStream(c) \/ Cancel(c) \/ CloseChannel(c)

Next == \/ Publish
        \/ Close
        \/ \E c \in Clients : GetBroker(c) \/ Stream(c) \/ Disconnect(c)

(***************************************************************************)
(* A handler that can go on does, and the run publishes to its end         *)
(* (RunManager!RunsEnd). Nothing has to be evicted, no client has to       *)
(* connect, and none has to hang up.                                       *)
(***************************************************************************)
Fairness == WF_vars(Publish) /\ \A c \in Clients : WF_vars(Stream(c))

SafetySpec == Init /\ [][Next]_vars
Spec == SafetySpec /\ Fairness
-----------------------------------------------------------------------------
(***************************************************************************)
(* Properties.                                                             *)
(***************************************************************************)
TypeOK ==
  /\ published \in 0..LastEvent
  /\ history \in Seq(1..LastEvent) /\ Len(history) <= HistorySize
  /\ closed \in BOOLEAN
  /\ subscribers \subseteq Clients
  /\ client \in [Clients -> Stages]
  /\ replay \in [Clients -> Seq(1..LastEvent)]
  /\ joined \in [Clients -> 0..LastEvent]
  /\ channel \in [Clients -> Seq(1..LastEvent)]
  /\ \A c \in Clients : Len(channel[c]) <= Buffer
  /\ shut \subseteq Clients
  /\ received \in [Clients -> Seq(1..LastEvent)]
  /\ dropped \in [Clients -> SUBSET (1..LastEvent)]

(* Whoever is subscribed has an open channel, so Publish never sends to a  *)
(* closed one, which would take the whole process down, and neither cancel *)
(* nor Close closes one twice, although cancel closes outside of b.mu      *)
(* (sse.go:52-58, 90-100, 112-115).                                        *)
SubscribersAreOpen ==
  /\ subscribers \cap shut = {}
  /\ \A c \in Clients : client[c] = "closing" => c \notin subscribers \cup shut

(* Where the handlers of the subscribed clients, and those with a closed   *)
(* channel, can be. With it SubscribersAreOpen is inductive.               *)
SubscriptionsMatchHandlers ==
  /\ \A c \in subscribers : client[c] \in {"replaying", "reading", "leaving"}
  /\ \A c \in shut : client[c] \notin {"outside", "found", "orphaned"}

(* What the client has got or will still get, in this order if nothing     *)
(* were published during the replay.                                       *)
Delivery(c) == received[c] \o channel[c] \o replay[c]

(* Events up to n come in order in d, and so do those after n.             *)
Ordered(d, n) ==
  \A i, j \in 1..Len(d) : i < j /\ (d[i] <= n <=> d[j] <= n) => d[i] < d[j]

(* The replayed events come in order and so do the live ones, although the *)
(* live ones overtake the replay (sse.go:82-88); so no event comes twice,  *)
(* because history and subscription are taken in one critical section      *)
(* (sse.go:69-80).                                                         *)
OnceAndInOrder == \A c \in Clients : Ordered(Delivery(c), joined[c])

(* What is delivered was published, what is replayed was before the client *)
(* joined. With it OnceAndInOrder is inductive.                            *)
DeliveriesArePublished ==
  /\ Ordered(history, published)
  /\ \A i \in 1..Len(history) : history[i] <= published
  /\ \A c \in Clients :
       /\ joined[c] <= published
       /\ client[c] \in {"outside", "found", "orphaned"} =>
            received[c] = <<>> /\ channel[c] = <<>> /\ replay[c] = <<>>
       /\ \A i \in 1..Len(Delivery(c)) : Delivery(c)[i] <= published
       /\ \A i \in 1..Len(replay[c]) : replay[c][i] <= joined[c]

(* The inductive invariant of sse.go:33-117.                               *)
IInv == /\ TypeOK
        /\ SubscriptionsMatchHandlers /\ SubscribersAreOpen
        /\ OnceAndInOrder /\ DeliveriesArePublished

(* The first event of the history that a client was given when it joined.  *)
FirstReplayed(c) ==
  IF joined[c] > HistorySize THEN joined[c] - HistorySize + 1 ELSE 1

(* While a client is subscribed, every event from its history on has been  *)
(* received, is on its way, or met a full channel: nothing falls between   *)
(* the history and the live events, or out of the trimmed history          *)
(* (sse.go:47-58, 77-88).                                                  *)
NothingSlipsThrough ==
  \A c \in subscribers :
    FirstReplayed(c)..published = Range(Delivery(c)) \cup dropped[c]

(* The history is the newest of what was published, without a gap, and     *)
(* nothing was dropped for a client that has not subscribed. With it and   *)
(* IInv, NothingSlipsThrough is inductive (sse.go:47-50).                  *)
HistoryIsNewest ==
  /\ Len(history) = IF published > HistorySize THEN HistorySize ELSE published
  /\ \A i \in 1..Len(history) : history[i] = published - Len(history) + i
  /\ \A c \in Clients :
       client[c] \in {"outside", "found", "orphaned"} => dropped[c] = {}

(* The handler of a client that was subscribed, or about to be, returns    *)
(* after the broker is closed: eviction leaves no handler behind           *)
(* (sse.go:71-74, 112-115, manager.go:621-625).                            *)
HandlersReturn ==
  \A c \in Clients :
    closed /\ client[c] \notin {"outside", "orphaned"}
      ~> client[c] \in {"gone", "panicked"}

(* tools.go:9 tells clients to read the stream until the terminal event. A *)
(* client that found its run and does not hang up gets it, or the end of   *)
(* the stream, unless its channel was full at the wrong moment: nobody     *)
(* loses the end by connecting early, late or while the run is publishing  *)
(* (sse.go:52-58, 82-88).                                                  *)
OnlyFullChannelsLoseTheEnd ==
  \A c \in Clients :
    client[c] = "found"
      ~> \/ \E i \in 1..Len(received[c]) : received[c][i] = LastEvent
         \/ LastEvent \in dropped[c]
         \/ client[c] \in {"gone", "panicked"}
=============================================================================
