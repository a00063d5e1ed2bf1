---------------------------- MODULE BrokerProofs ----------------------------
(***************************************************************************)
(* For every number of clients and every size of history and buffer: the   *)
(* broker never sends to or closes a closed channel, no client gets an     *)
(* event twice, or one part of its stream out of order, and none falls     *)
(* between the history and the live events.                                *)
(***************************************************************************)
EXTENDS Broker, SequenceTheorems, TLAPS

Events == 1 .. LastEvent

(* Newest keeps n elements at most, in their order (sse.go:47-50).         *)
LEMMA NewestOfSequence ==
  ASSUME NEW S, NEW s \in Seq(S), NEW n \in Nat
  PROVE  /\ Newest(s, n) \in Seq(S)
         /\ Len(Newest(s, n)) <= n
         /\ Len(Newest(s, n)) <= Len(s)
         /\ Len(Newest(s, n)) = IF Len(s) > n THEN n ELSE Len(s)
         /\ \A i \in 1 .. Len(Newest(s, n)) :
              Newest(s, n)[i] = s[i + Len(s) - Len(Newest(s, n))]
<1> DEFINE m == IF Len(s) > n THEN Len(s) - n + 1 ELSE 1
<1>1. /\ Len(s) \in Nat /\ m \in 1 .. Len(s) + 1
      /\ Len(s) - m + 1 <= n
  BY LenProperties
<1>2. \A i \in m .. Len(s) : s[i] \in S
  BY <1>1, ElementOfSeq
<1>3. /\ SubSeq(s, m, Len(s)) \in Seq(S)
      /\ Len(SubSeq(s, m, Len(s))) = IF m <= Len(s) THEN Len(s) - m + 1 ELSE 0
      /\ \A i \in 1 .. Len(s) - m + 1 : SubSeq(s, m, Len(s))[i] = s[m + i - 1]
  <2> HIDE DEF m
  <2> QED
    BY <1>1, <1>2, SubSeqProperties
<1>5. Newest(s, n) = SubSeq(s, m, Len(s))
  BY DEF Newest
<1> HIDE DEF m
<1>4. Len(Newest(s, n)) = Len(s) - m + 1
  BY <1>1, <1>3, <1>5
<1>6. \A i \in 1 .. Len(Newest(s, n)) :
        Newest(s, n)[i] = s[i + Len(s) - Len(Newest(s, n))]
  <2>1. \A i \in Nat : m + i - 1 = i + Len(s) - (Len(s) - m + 1)
    BY <1>1
  <2> QED
    BY <1>1, <1>3, <1>4, <1>5, <2>1
<1>7. Len(Newest(s, n)) = IF Len(s) > n THEN n ELSE Len(s)
  BY <1>1, <1>4 DEF m
<1> QED
  BY <1>1, <1>3, <1>4, <1>5, <1>6, <1>7

(* A send to an open channel leaves all channels within their size         *)
(* (sse.go:52-58).                                                         *)
LEMMA SendTypes ==
  ASSUME TypeOK, NEW C, NEW e \in Events, Send(C, e)
  PROVE  /\ channel' \in [Clients -> Seq(Events)]
         /\ \A c \in Clients : Len(channel'[c]) <= Buffer
         /\ dropped' \in [Clients -> SUBSET Events]
<1>1. \A c \in Clients : channel[c] \in Seq(Events) /\ Len(channel[c]) <= Buffer
  BY DEF TypeOK, Events
<1>2. \A c \in Clients : Len(channel[c]) \in Nat
  BY <1>1, LenProperties
<1>3. \A c \in Clients : /\ Append(channel[c], e) \in Seq(Events)
                         /\ Len(Append(channel[c], e)) = Len(channel[c]) + 1
  BY <1>1, AppendProperties
<1>4. dropped \in [Clients -> SUBSET Events]
  BY DEF TypeOK, Events
<1> QED
  BY <1>1, <1>2, <1>3, <1>4, SizesAssumption DEF Send

(* An event that is put between what a client has and what is left of its  *)
(* replay keeps both parts in order (sse.go:52-58).                        *)
LEMMA OrderedInsert ==
  ASSUME NEW s \in Seq(Events), NEW t \in Seq(Events), NEW e \in Events,
         NEW n \in Nat, n < e,
         Ordered(s \o t, n),
         \A i \in 1 .. Len(s \o t) : (s \o t)[i] < e,
         \A i \in 1 .. Len(t) : t[i] <= n
  PROVE  /\ Ordered(Append(s, e) \o t, n)
         /\ \A i \in 1 .. Len(Append(s, e) \o t) : (Append(s, e) \o t)[i] <= e
<1> DEFINE d == s \o t
           x == Append(s, e) \o t
<1>1. /\ Append(s, e) \in Seq(Events) /\ Len(Append(s, e)) = Len(s) + 1
      /\ Len(s) \in Nat /\ Len(t) \in Nat
  BY AppendProperties, LenProperties
<1>2. /\ Len(d) = Len(s) + Len(t) /\ Len(x) = Len(s) + 1 + Len(t)
      /\ \A i \in 1 .. Len(s) : d[i] = s[i] /\ x[i] = s[i]
      /\ x[Len(s) + 1] = e
      /\ \A i \in Len(s) + 2 .. Len(x) : x[i] = t[i - Len(s) - 1] /\ d[i - 1] = t[i - Len(s) - 1]
  <2>1. \A i \in 1 .. Len(d) : d[i] = IF i <= Len(s) THEN s[i] ELSE t[i - Len(s)]
    BY ConcatProperties
  <2>2. \A i \in 1 .. Len(x) :
          x[i] = IF i <= Len(s) + 1 THEN Append(s, e)[i] ELSE t[i - (Len(s) + 1)]
    BY <1>1, ConcatProperties
  <2>3. Len(d) = Len(s) + Len(t) /\ Len(x) = Len(s) + 1 + Len(t)
    BY <1>1, ConcatProperties
  <2>4. \A i \in 1 .. Len(s) : Append(s, e)[i] = s[i]
    BY AppendProperties
  <2>5. Append(s, e)[Len(s) + 1] = e
    BY AppendProperties
  <2> HIDE DEF d, x
  <2> QED
    BY <1>1, <2>1, <2>2, <2>3, <2>4, <2>5
<1>3. \A i \in 1 .. Len(d) : d[i] \in Nat
  <2>1. d \in Seq(Events)
    BY ConcatProperties
  <2> QED
    BY <2>1, ElementOfSeq, SizesAssumption DEF Events
<1>4. Ordered(d, n) /\ \A i \in 1 .. Len(d) : d[i] < e
  OBVIOUS
<1> HIDE DEF d, x
<1>5. ASSUME NEW i \in 1 .. Len(x), NEW j \in 1 .. Len(x), i < j,
             x[i] <= n <=> x[j] <= n
      PROVE  x[i] < x[j]
  <2>0. /\ Len(s) \in Nat /\ Len(t) \in Nat /\ i \in Nat /\ j \in Nat
        /\ Len(x) = Len(s) + 1 + Len(t) /\ Len(d) = Len(s) + Len(t)
        /\ i <= Len(x) /\ j <= Len(x) /\ 1 <= i /\ i < j
    BY <1>1, <1>2, <1>5
  <2>a. \A k \in 1 .. Len(s) : k \in 1 .. Len(d) /\ x[k] = d[k]
    BY <1>2, <2>0
  <2>b. \A k \in Len(s) + 2 .. Len(x) : k - 1 \in 1 .. Len(d) /\ x[k] = d[k - 1]
    BY <1>2, <2>0
  <2>1. CASE j <= Len(s)
    <3>1. i \in 1 .. Len(s) /\ j \in 1 .. Len(s)
      BY <2>0, <2>1
    <3> QED
      BY <1>4, <1>5, <2>a, <3>1 DEF Ordered
  <2>2. CASE j = Len(s) + 1
    <3>1. i \in 1 .. Len(s)
      BY <2>0, <2>2
    <3> QED
      BY <1>2, <1>4, <2>2, <2>a, <3>1
  <2>3. CASE j > Len(s) + 1 /\ i <= Len(s)
    <3>1. i \in 1 .. Len(s) /\ j \in Len(s) + 2 .. Len(x) /\ i < j - 1
      BY <2>0, <2>3
    <3> QED
      BY <1>4, <1>5, <2>a, <2>b, <3>1 DEF Ordered
  <2>4. CASE j > Len(s) + 1 /\ i = Len(s) + 1
    <3>1. j \in Len(s) + 2 .. Len(x) /\ j - Len(s) - 1 \in 1 .. Len(t)
      BY <2>0, <2>4
    <3>2. x[j] <= n /\ x[i] = e
      BY <1>2, <2>4, <3>1
    <3>3. ~(e <= n)
      BY DEF Events
    <3> QED
      BY <1>5, <3>2, <3>3
  <2>5. CASE j > Len(s) + 1 /\ i > Len(s) + 1
    <3>1. /\ i \in Len(s) + 2 .. Len(x) /\ j \in Len(s) + 2 .. Len(x)
          /\ i - 1 < j - 1
      BY <2>0, <2>5
    <3> QED
      BY <1>4, <1>5, <2>b, <3>1 DEF Ordered
  <2> QED
    BY <2>0, <2>1, <2>2, <2>3, <2>4, <2>5
<1>6. Ordered(x, n)
  BY <1>5 DEF Ordered
<1>7. ASSUME NEW i \in 1 .. Len(x) PROVE x[i] <= e
  <2>1. CASE i <= Len(s)
    BY <1>1, <1>2, <1>3, <1>4, <2>1 DEF Events
  <2>2. CASE i = Len(s) + 1
    BY <1>1, <1>2, <2>2 DEF Events
  <2>3. CASE i > Len(s) + 1
    <3>1. i - 1 \in 1 .. Len(d) /\ x[i] = d[i - 1]
      BY <1>1, <1>2, <2>3
    <3> QED
      BY <1>3, <1>4, <3>1 DEF Events
  <2> QED
    BY <1>1, <2>1, <2>2, <2>3
<1> QED
  BY <1>6, <1>7 DEF x

(* What is lost at a full channel leaves the rest in order (sse.go:82-88). *)
LEMMA OrderedRemove ==
  ASSUME NEW s \in Seq(Events), NEW t \in Seq(Events), t # <<>>,
         NEW n \in Nat, Ordered(s \o t, n)
  PROVE  /\ Ordered(s \o Tail(t), n)
         /\ \A i \in 1 .. Len(s \o Tail(t)) :
              \E j \in 1 .. Len(s \o t) : (s \o Tail(t))[i] = (s \o t)[j]
<1> DEFINE d == s \o t
           x == s \o Tail(t)
<1>1. /\ Tail(t) \in Seq(Events) /\ Len(Tail(t)) = Len(t) - 1
      /\ \A i \in 1 .. Len(t) - 1 : Tail(t)[i] = t[i + 1]
      /\ Len(s) \in Nat /\ Len(t) \in Nat \ {0}
  BY HeadTailProperties, LenProperties, EmptySeq
<1>2. /\ Len(d) = Len(s) + Len(t) /\ Len(x) = Len(s) + Len(t) - 1
      /\ \A i \in 1 .. Len(d) : d[i] = IF i <= Len(s) THEN s[i] ELSE t[i - Len(s)]
      /\ \A i \in 1 .. Len(x) : x[i] = IF i <= Len(s) THEN s[i] ELSE Tail(t)[i - Len(s)]
  BY <1>1, ConcatProperties
<1>3. Ordered(d, n)
  OBVIOUS
<1> HIDE DEF d, x
<1>4. \A i \in 1 .. Len(x) : IF i <= Len(s) THEN x[i] = d[i] ELSE x[i] = d[i + 1]
  <2> TAKE i \in 1 .. Len(x)
  <2>1. CASE i <= Len(s)
    <3>1. i \in 1 .. Len(d)
      BY <1>1, <1>2
    <3> QED BY <1>2, <2>1, <3>1
  <2>2. CASE ~(i <= Len(s))
    <3>1. /\ i + 1 \in 1 .. Len(d) /\ ~(i + 1 <= Len(s))
          /\ i - Len(s) \in 1 .. Len(t) - 1
          /\ (i - Len(s)) + 1 = (i + 1) - Len(s)
      BY <1>1, <1>2, <2>2
    <3>2. d[i + 1] = t[(i + 1) - Len(s)]
      BY <1>2, <3>1
    <3>3. x[i] = t[(i - Len(s)) + 1]
      BY <1>1, <1>2, <2>2, <3>1
    <3> QED BY <2>2, <3>1, <3>2, <3>3
  <2> QED BY <2>1, <2>2
<1>5. Ordered(x, n)
  BY <1>1, <1>2, <1>3, <1>4 DEF Ordered
<1>6. \A i \in 1 .. Len(x) : \E j \in 1 .. Len(d) : x[i] = d[j]
  <2> TAKE i \in 1 .. Len(x)
  <2>1. CASE i <= Len(s)
    BY <1>1, <1>2, <1>4, <2>1
  <2>2. CASE i > Len(s)
    <3>1. i + 1 \in 1 .. Len(d) /\ x[i] = d[i + 1]
      BY <1>1, <1>2, <1>4, <2>2
    <3> QED
      BY <3>1
  <2> QED
    BY <1>1, <2>1, <2>2
<1> QED
  BY <1>5, <1>6 DEF d, x

(* To append to the last part is to append to the whole.                   *)
LEMMA AppendToConcat ==
  ASSUME NEW S, NEW s \in Seq(S), NEW t \in Seq(S), NEW e \in S
  PROVE  s \o Append(t, e) = Append(s \o t, e)
<1>1. <<e>> \in Seq(S)
  OBVIOUS
<1>2. (s \o t) \o <<e>> = s \o (t \o <<e>>)
  BY <1>1, ConcatAssociative
<1>3. Append(t, e) = t \o <<e>>
  BY AppendIsConcat
<1>4. s \o t \in Seq(S)
  BY ConcatProperties
<1>5. Append(s \o t, e) = (s \o t) \o <<e>>
  BY <1>4, AppendIsConcat
<1> QED
  BY <1>2, <1>3, <1>5

(* What is taken from one part and put at the end of the part before       *)
(* leaves the whole as it is.                                              *)
LEMMA MoveHead ==
  ASSUME NEW S, NEW s \in Seq(S), NEW t \in Seq(S), t # <<>>
  PROVE  Append(s, Head(t)) \o Tail(t) = s \o t
<1>1. /\ Head(t) \in S /\ Head(t) = t[1]
      /\ Tail(t) \in Seq(S) /\ Len(Tail(t)) = Len(t) - 1
      /\ \A i \in 1 .. Len(t) - 1 : Tail(t)[i] = t[i + 1]
      /\ Len(s) \in Nat /\ Len(t) \in Nat \ {0}
  BY HeadTailProperties, LenProperties, EmptySeq
<1>2. /\ Append(s, Head(t)) \in Seq(S)
      /\ Len(Append(s, Head(t))) = Len(s) + 1
      /\ \A i \in 1 .. Len(s) : Append(s, Head(t))[i] = s[i]
      /\ Append(s, Head(t))[Len(s) + 1] = Head(t)
  BY <1>1, AppendProperties
<1> DEFINE a == Append(s, Head(t))
           x == a \o Tail(t)
           d == s \o t
<1>3. /\ x \in Seq(S) /\ Len(x) = Len(s) + Len(t)
      /\ \A i \in 1 .. Len(x) : x[i] = IF i <= Len(s) + 1 THEN a[i] ELSE Tail(t)[i - (Len(s) + 1)]
  BY <1>1, <1>2, ConcatProperties
<1>4. /\ d \in Seq(S) /\ Len(d) = Len(s) + Len(t)
      /\ \A i \in 1 .. Len(d) : d[i] = IF i <= Len(s) THEN s[i] ELSE t[i - Len(s)]
  BY <1>1, ConcatProperties
<1>5. \A i \in 1 .. Len(x) : x[i] = d[i]
  <2> HIDE DEF a, x, d
  <2> TAKE i \in 1 .. Len(x)
  <2>0. /\ \A j \in 1 .. Len(s) : a[j] = s[j]
        /\ a[Len(s) + 1] = t[1]
    BY <1>1, <1>2 DEF a
  <2>1. CASE i <= Len(s)
    <3>1. i \in 1 .. Len(s) /\ i <= Len(s) + 1 /\ i \in 1 .. Len(d)
      BY <1>1, <1>3, <1>4, <2>1
    <3>2. x[i] = a[i] /\ d[i] = s[i]
      BY <1>3, <1>4, <2>1, <3>1
    <3> QED
      BY <2>0, <3>1, <3>2
  <2>2. CASE i = Len(s) + 1
    BY <1>1, <1>3, <1>4, <2>0, <2>2
  <2>3. CASE i > Len(s) + 1
    <3>1. i - (Len(s) + 1) \in 1 .. Len(t) - 1 /\ i \in 1 .. Len(d)
      BY <1>1, <1>3, <1>4, <2>3
    <3>2. x[i] = Tail(t)[i - (Len(s) + 1)] /\ d[i] = t[i - Len(s)]
      BY <1>1, <1>3, <1>4, <2>3, <3>1
    <3>3. i - (Len(s) + 1) + 1 = i - Len(s)
      BY <1>1
    <3> QED
      BY <1>1, <3>1, <3>2, <3>3
  <2> QED
    BY <1>1, <2>1, <2>2, <2>3
<1>6. x = d
  <2> HIDE DEF a, x, d
  <2> QED
    BY <1>3, <1>4, <1>5, SeqEqual
<1> QED
  BY <1>6

(* The broker starts without subscribers and closed channels (sse.go:23).  *)
LEMMA InitEstablishes == Init => IInv
<1> SUFFICES ASSUME Init PROVE IInv
  OBVIOUS
<1>1. <<>> \in Seq(1 .. LastEvent) /\ Len(<<>>) = 0
  BY EmptySeq
<1>2. TypeOK
  <2>1. history \in Seq(1 .. LastEvent) /\ Len(history) <= HistorySize
    BY <1>1, SizesAssumption DEF Init
  <2>2. /\ channel \in [Clients -> Seq(1 .. LastEvent)]
        /\ \A c \in Clients : Len(channel[c]) <= Buffer
    BY <1>1, SizesAssumption DEF Init
  <2>3. published \in 0 .. LastEvent /\ joined \in [Clients -> 0 .. LastEvent]
    BY SizesAssumption DEF Init
  <2> QED
    BY <1>1, <2>1, <2>2, <2>3 DEF Init, TypeOK, Stages
<1>3. \A c \in Clients : Delivery(c) = <<>>
  BY <1>1, ConcatEmptySeq DEF Init, Delivery
<1>4. OnceAndInOrder /\ DeliveriesArePublished
  BY <1>1, <1>3 DEF Init, OnceAndInOrder, DeliveriesArePublished, Ordered
<1> QED
  BY <1>2, <1>4 DEF Init, IInv, SubscriptionsMatchHandlers, SubscribersAreOpen

(* Types are kept, and every channel and history its size (sse.go:33-117). *)
LEMMA TypesPreserved == TypeOK /\ [Next]_vars => TypeOK'
<1> SUFFICES ASSUME TypeOK, [Next]_vars PROVE TypeOK'
  OBVIOUS
<1> USE DEF TypeOK, Goto, Stages
<1>1. CASE Publish
  <2>1. published + 1 \in Events /\ published' \in 0 .. LastEvent
    BY <1>1, SizesAssumption DEF Publish, Events
  <2>2. Append(history, published + 1) \in Seq(Events)
    BY <2>1, AppendProperties DEF Events
  <2>3. history' \in Seq(Events) /\ Len(history') <= HistorySize
    BY <1>1, <2>2, NewestOfSequence, SizesAssumption DEF Publish
  <2>4. /\ channel' \in [Clients -> Seq(Events)]
        /\ \A c \in Clients : Len(channel'[c]) <= Buffer
        /\ dropped' \in [Clients -> SUBSET Events]
    <3>1. Send(subscribers, published + 1)
      BY <1>1 DEF Publish
    <3> QED
      BY <2>1, <3>1, SendTypes
  <2> QED
    BY <1>1, <2>1, <2>3, <2>4 DEF Publish, clientVars, Events
<1>2. CASE Close
  BY <1>2 DEF Close, clientVars
<1>3. ASSUME NEW c \in Clients, GetBroker(c) PROVE TypeOK'
  BY <1>3 DEF GetBroker, brokerVars, channelVars
<1>4. ASSUME NEW c \in Clients, Stream(c) PROVE TypeOK'
  <2>1. CASE Subscribe(c)
    BY <2>1 DEF Subscribe
  <2>2. CASE Replay(c)
    <3>1. replay[c] \in Seq(Events) /\ replay[c] # <<>>
      BY <2>2 DEF Replay, Events
    <3>2. Head(replay[c]) \in Events /\ Tail(replay[c]) \in Seq(Events)
      BY <3>1, HeadTailProperties
    <3>3. /\ channel' \in [Clients -> Seq(Events)]
          /\ \A d \in Clients : Len(channel'[d]) <= Buffer
          /\ dropped' \in [Clients -> SUBSET Events]
      <4>1. CASE c \in shut
        BY <2>2, <4>1 DEF Replay, Events
      <4>2. CASE c \notin shut
        <5>1. Send({c}, Head(replay[c]))
          BY <2>2, <4>2 DEF Replay
        <5> QED
          BY <3>2, <5>1, SendTypes
      <4> QED
        BY <4>1, <4>2
    <3>4. replay' \in [Clients -> Seq(Events)]
      BY <2>2, <3>2 DEF Replay, Events
    <3> QED
      BY <2>2, <3>3, <3>4 DEF Replay, brokerVars, Events
  <2>3. CASE Subscribed(c)
    BY <2>3 DEF Subscribed, brokerVars, channelVars
  <2>4. CASE Receive(c)
    <3>1. /\ channel[c] \in Seq(Events) /\ channel[c] # <<>>
          /\ received[c] \in Seq(Events)
      BY <2>4 DEF Receive, Events
    <3>2. /\ Head(channel[c]) \in Events
          /\ Tail(channel[c]) \in Seq(Events)
          /\ Len(Tail(channel[c])) = Len(channel[c]) - 1
      BY <3>1, HeadTailProperties
    <3>3. Append(received[c], Head(channel[c])) \in Seq(Events)
      BY <3>1, <3>2, AppendProperties
    <3>4. /\ channel' \in [Clients -> Seq(Events)]
          /\ received' \in [Clients -> Seq(Events)]
      BY <2>4, <3>2, <3>3 DEF Receive, Events
    <3>5. \A d \in Clients : Len(channel'[d]) <= Buffer
      BY <2>4, <3>1, <3>2, LenProperties, SizesAssumption DEF Receive
    <3> QED
      BY <2>4, <3>4, <3>5 DEF Receive, brokerVars, clientVars, Events
  <2>5. CASE EndOfStream(c)
    BY <2>5 DEF EndOfStream, brokerVars, channelVars
  <2>6. CASE Cancel(c)
    BY <2>6 DEF Cancel, channelVars
  <2>7. CASE CloseChannel(c)
    BY <2>7 DEF CloseChannel, brokerVars
  <2> QED
    BY <1>4, <2>1, <2>2, <2>3, <2>4, <2>5, <2>6, <2>7 DEF Stream
<1>5. ASSUME NEW c \in Clients, Disconnect(c) PROVE TypeOK'
  BY <1>5 DEF Disconnect, brokerVars, channelVars
<1>6. CASE UNCHANGED vars
  BY <1>6 DEF vars, brokerVars, clientVars, channelVars
<1> QED
  BY <1>1, <1>2, <1>3, <1>4, <1>5, <1>6 DEF Next

Ties == SubscriptionsMatchHandlers /\ SubscribersAreOpen

(* No step of a handler, the publisher or the eviction breaks the tie      *)
(* between subscriptions, handlers and channels (sse.go:33-117).           *)
LEMMA TiesPreserved == IInv /\ [Next]_vars => Ties'
<1> SUFFICES ASSUME IInv, [Next]_vars PROVE Ties'
  OBVIOUS
<1>i. /\ Ties
      /\ client \in [Clients -> Stages]
      /\ subscribers \subseteq Clients
      /\ shut \subseteq Clients
  BY DEF IInv, TypeOK, Ties
<1> USE <1>i DEF Ties, SubscriptionsMatchHandlers, SubscribersAreOpen, Stages, Goto
<1>1. CASE Publish
  BY <1>1 DEF Publish, clientVars
<1>2. CASE Close
  BY <1>2 DEF Close, clientVars
<1>3. ASSUME NEW c \in Clients, GetBroker(c) PROVE Ties'
  BY <1>3 DEF GetBroker, brokerVars, channelVars
<1>4. ASSUME NEW c \in Clients, Stream(c) PROVE Ties'
  <2>1. CASE Subscribe(c)
    BY <2>1 DEF Subscribe
  <2>2. CASE Replay(c)
    BY <2>2 DEF Replay, brokerVars
  <2>3. CASE Subscribed(c)
    BY <2>3 DEF Subscribed, brokerVars, channelVars
  <2>4. CASE Receive(c)
    BY <2>4 DEF Receive, brokerVars, clientVars
  <2>5. CASE EndOfStream(c)
    BY <2>5 DEF EndOfStream, brokerVars, channelVars
  <2>6. CASE Cancel(c)
    BY <2>6 DEF Cancel, channelVars
  <2>7. CASE CloseChannel(c)
    BY <2>7 DEF CloseChannel, brokerVars
  <2> QED
    BY <1>4, <2>1, <2>2, <2>3, <2>4, <2>5, <2>6, <2>7 DEF Stream
<1>5. ASSUME NEW c \in Clients, Disconnect(c) PROVE Ties'
  BY <1>5 DEF Disconnect, brokerVars, channelVars
<1>6. CASE UNCHANGED vars
  BY <1>6 DEF vars, brokerVars, clientVars, channelVars
<1> QED
  BY <1>1, <1>2, <1>3, <1>4, <1>5, <1>6 DEF Next

HistoryInOrder == /\ Ordered(history, published)
                  /\ \A i \in 1 .. Len(history) : history[i] <= published

Early == {"outside", "found", "orphaned"}

InOrder(c) ==
  /\ Ordered(Delivery(c), joined[c])
  /\ joined[c] <= published
  /\ client[c] \in Early =>
       received[c] = <<>> /\ channel[c] = <<>> /\ replay[c] = <<>>
  /\ \A i \in 1 .. Len(Delivery(c)) : Delivery(c)[i] <= published
  /\ \A i \in 1 .. Len(replay[c]) : replay[c][i] <= joined[c]

Deliveries == OnceAndInOrder /\ DeliveriesArePublished

(* The invariant of the deliveries, client by client (sse.go:62-88).       *)
LEMMA ClientByClient ==
  Deliveries <=> HistoryInOrder /\ \A c \in Clients : InOrder(c)
  BY DEF Deliveries, OnceAndInOrder, DeliveriesArePublished, HistoryInOrder,
         InOrder, Early

(* A step that changes nothing but where a handler is (runs/manager.go:610, *)
(* 617-634).                                                               *)
LEMMA ElsewhereInOrder ==
  ASSUME IInv, NEW c \in Clients,
         UNCHANGED <<published, joined, received, channel, replay>>,
         client'[c] \in Early => client[c] \in Early
  PROVE  InOrder(c)'
<1>1. InOrder(c)
  BY ClientByClient DEF IInv, Deliveries
<1> QED
  BY <1>1 DEF InOrder, Delivery

(* The deliveries of a step stay in order (sse.go:33-103).                 *)
LEMMA DeliveriesPreserved == IInv /\ [Next]_vars => Deliveries'
<1> SUFFICES ASSUME IInv, [Next]_vars PROVE Deliveries'
  OBVIOUS
<1>h. HistoryInOrder /\ \A c \in Clients : InOrder(c)
  BY ClientByClient DEF IInv, Deliveries
<1>p. published \in Nat /\ Events \subseteq Nat /\ HistorySize \in Nat
  BY SizesAssumption DEF IInv, TypeOK, Events
<1>t. ASSUME NEW c \in Clients
      PROVE  /\ received[c] \in Seq(Events) /\ channel[c] \in Seq(Events)
             /\ replay[c] \in Seq(Events) /\ joined[c] \in Nat
             /\ received[c] \o channel[c] \in Seq(Events)
             /\ Delivery(c) \in Seq(Events)
             /\ Delivery(c) = (received[c] \o channel[c]) \o replay[c]
  <2>1. /\ received[c] \in Seq(Events) /\ channel[c] \in Seq(Events)
        /\ replay[c] \in Seq(Events) /\ joined[c] \in Nat
    BY SizesAssumption DEF IInv, TypeOK, Events
  <2> QED
    BY <2>1, ConcatProperties DEF Delivery
<1>a. ASSUME NEW c \in Clients, NEW e \in Events
      PROVE  received[c] \o Append(channel[c], e)
               = Append(received[c] \o channel[c], e)
  <2>1. received[c] \in Seq(Events) /\ channel[c] \in Seq(Events)
    BY <1>t
  <2>2. \A s, t \in Seq(Events), x \in Events :
          s \o Append(t, x) = Append(s \o t, x)
    BY AppendToConcat
  <2> QED
    BY <2>1, <2>2, Zenon
<1> SUFFICES HistoryInOrder' /\ \A c \in Clients : InOrder(c)'
  <2>1. Deliveries' <=> (HistoryInOrder /\ \A c \in Clients : InOrder(c))'
    BY ClientByClient, PTL
  <2> QED
    BY <2>1
<1>s. client \in [Clients -> Stages]
  BY DEF IInv, TypeOK
<1>1. CASE Publish
  <2> DEFINE e == published + 1
  <2>1. e \in Events /\ published' = e /\ joined' = joined /\ received' = received
        /\ replay' = replay /\ client' = client
    BY <1>1, <1>p, SizesAssumption DEF Publish, clientVars, IInv, TypeOK, Events
  <2>2. HistoryInOrder'
    <3>1. history \in Seq(Events)
      BY DEF IInv, TypeOK, Events
    <3>2. /\ Append(history, e) \in Seq(Events)
          /\ Len(Append(history, e)) = Len(history) + 1 /\ Len(history) \in Nat
          /\ \A i \in 1 .. Len(history) : Append(history, e)[i] = history[i]
          /\ Append(history, e)[Len(history) + 1] = e
      BY <2>1, <3>1, AppendProperties, LenProperties
    <3> DEFINE h == Append(history, e)
    <3>3. \A i \in 1 .. Len(history) : history[i] \in Nat /\ history[i] <= published
      BY <1>h, <1>p, <3>1, ElementOfSeq DEF HistoryInOrder
    <3>4. /\ Ordered(h, e) /\ \A i \in 1 .. Len(h) : h[i] \in Nat /\ h[i] <= e
      <4>1. \A i, j \in 1 .. Len(history) : i < j => history[i] < history[j]
        BY <1>h, <3>3 DEF HistoryInOrder, Ordered
      <4> QED
        BY <1>p, <3>2, <3>3, <4>1 DEF Ordered
    <3>5. history' = Newest(h, HistorySize)
      BY <1>1 DEF Publish
    <3> HIDE DEF h
    <3>6. /\ Len(history') <= Len(h) /\ Len(history') \in Nat /\ Len(h) \in Nat
          /\ \A i \in 1 .. Len(history') : history'[i] = h[i + Len(h) - Len(history')]
      BY <1>p, <3>2, <3>5, NewestOfSequence, LenProperties DEF h
    <3> QED
      BY <2>1, <3>4, <3>6 DEF HistoryInOrder, Ordered
  <2>3. ASSUME NEW c \in Clients PROVE InOrder(c)'
    <3>1. InOrder(c)
      BY <1>h
    <3>2. CASE channel'[c] = channel[c]
      <4>1. Delivery(c)' = Delivery(c)
        BY <2>1, <3>2 DEF Delivery
      <4>2. \A i \in 1 .. Len(Delivery(c)) : Delivery(c)[i] \in Nat
        BY <1>t, <1>p, ElementOfSeq
      <4>3. \A i \in 1 .. Len(Delivery(c)) : Delivery(c)[i] <= e
        BY <1>p, <3>1, <4>2 DEF InOrder
      <4>4. joined[c] <= e
        <5>1. joined[c] <= published /\ joined[c] \in Nat
          BY <1>t, <3>1 DEF InOrder
        <5> QED
          BY <1>p, <5>1
      <4>5. UNCHANGED <<joined, received, replay, client>> /\ published' = e
        BY <2>1
      <4> HIDE DEF e
      <4> QED
        BY <3>1, <3>2, <4>1, <4>3, <4>4, <4>5 DEF InOrder
    <3>3. CASE c \in subscribers /\ channel'[c] = Append(channel[c], e)
      <4> DEFINE s == received[c] \o channel[c]
                 t == replay[c]
      <4>1. s \in Seq(Events) /\ t \in Seq(Events) /\ Delivery(c) = s \o t
        BY <1>t
      <4>2. Delivery(c)' = Append(s, e) \o t
        BY <1>a, <2>1, <3>3 DEF Delivery
      <4>3. /\ joined[c] < e
            /\ Ordered(s \o t, joined[c])
            /\ \A i \in 1 .. Len(s \o t) : (s \o t)[i] < e
            /\ \A i \in 1 .. Len(t) : t[i] <= joined[c]
        <5>1. \A i \in 1 .. Len(s \o t) : (s \o t)[i] \in Nat
          BY <1>p, <1>t, <4>1, ElementOfSeq
        <5>2. /\ Ordered(Delivery(c), joined[c])
              /\ \A i \in 1 .. Len(Delivery(c)) : Delivery(c)[i] <= published
              /\ joined[c] <= published
              /\ \A i \in 1 .. Len(t) : t[i] <= joined[c]
          BY <3>1 DEF InOrder
        <5>3. joined[c] \in Nat
          BY <1>t
        <5> HIDE DEF s, t
        <5> QED
          BY <1>p, <4>1, <5>1, <5>2, <5>3
      <4>4. /\ Ordered(Append(s, e) \o t, joined[c])
            /\ \A i \in 1 .. Len(Append(s, e) \o t) : (Append(s, e) \o t)[i] <= e
        <5> HIDE DEF s, t, e
        <5> QED
          BY <1>t, <2>1, <4>1, <4>3, OrderedInsert
      <4>5. client'[c] \notin Early
        BY <2>1, <3>3 DEF IInv, SubscriptionsMatchHandlers, Early
      <4>6. /\ joined'[c] = joined[c] /\ joined[c] <= e
            /\ \A i \in 1 .. Len(replay'[c]) : replay'[c][i] <= joined'[c]
        <5>1. joined[c] <= published /\ joined[c] \in Nat
          BY <1>t, <3>1 DEF InOrder
        <5>2. joined[c] <= e
          BY <1>p, <5>1
        <5> QED
          BY <2>1, <3>1, <5>2 DEF InOrder
      <4>7. published' = e
        BY <2>1
      <4> HIDE DEF s, t, e
      <4> QED
        BY <4>2, <4>4, <4>5, <4>6, <4>7 DEF InOrder
    <3>4. \/ channel'[c] = channel[c]
          \/ c \in subscribers /\ channel'[c] = Append(channel[c], e)
      BY <1>1 DEF Publish, Send
    <3> QED
      BY <3>2, <3>3, <3>4
  <2> QED
    BY <2>2, <2>3
<1>2. CASE Close
  <2>1. \A c \in Clients : InOrder(c)'
    BY <1>2, ElsewhereInOrder DEF Close, clientVars
  <2> QED
    BY <1>2, <1>h, <2>1 DEF Close, HistoryInOrder
<1>3. ASSUME NEW c \in Clients,
             \/ GetBroker(c) \/ Subscribed(c) \/ EndOfStream(c) \/ Disconnect(c)
             \/ Cancel(c) \/ CloseChannel(c)
      PROVE  HistoryInOrder' /\ \A d \in Clients : InOrder(d)'
  <2> USE DEF GetBroker, Subscribed, EndOfStream, Disconnect, Cancel,
              CloseChannel, Goto, brokerVars, channelVars
  <2>1. UNCHANGED <<published, joined, received, channel, replay, history>>
    BY <1>3
  <2>2. \A d \in Clients : client'[d] \in Early => client[d] \in Early
    BY <1>3, <1>s DEF Early
  <2>3. \A d \in Clients : InOrder(d)'
    BY <2>1, <2>2, ElsewhereInOrder
  <2> QED
    BY <1>h, <2>1, <2>3 DEF HistoryInOrder
<1>4. ASSUME NEW c \in Clients, Subscribe(c) \/ Replay(c) \/ Receive(c)
      PROVE  HistoryInOrder' /\ \A d \in Clients : InOrder(d)'
  <2> USE DEF Goto, brokerVars, clientVars
  <2>1. HistoryInOrder'
    BY <1>4, <1>h DEF Subscribe, Replay, Receive, HistoryInOrder
  <2>2. ASSUME NEW d \in Clients, d # c PROVE InOrder(d)'
    <3>1. /\ published' = published /\ joined'[d] = joined[d]
          /\ received'[d] = received[d] /\ channel'[d] = channel[d]
          /\ replay'[d] = replay[d] /\ client'[d] = client[d]
      BY <1>4, <2>2 DEF Subscribe, Replay, Receive, Send, IInv, TypeOK
    <3> QED
      BY <1>h, <3>1 DEF InOrder, Delivery
  <2>3. CASE Subscribe(c)
    <3>1. /\ received'[c] = <<>> /\ channel'[c] = <<>>
          /\ replay'[c] \in {<<>>, history} /\ joined'[c] = published
          /\ published' = published /\ client'[c] = "replaying"
      BY <1>h, <2>3 DEF Subscribe, InOrder, Early, IInv, TypeOK
    <3>2. <<>> \in Seq(Events) /\ history \in Seq(Events) /\ Len(<<>>) = 0
      BY EmptySeq DEF IInv, TypeOK, Events
    <3>3. Delivery(c)' = replay'[c]
      BY <3>1, <3>2, ConcatEmptySeq DEF Delivery
    <3>4. /\ Ordered(replay'[c], published)
          /\ \A i \in 1 .. Len(replay'[c]) : replay'[c][i] <= published
      BY <1>h, <3>1, <3>2 DEF HistoryInOrder, Ordered
    <3>5. InOrder(c)'
      BY <1>p, <3>1, <3>3, <3>4 DEF InOrder, Early
    <3> QED
      BY <2>1, <2>2, <3>5
  <2>4. CASE Replay(c)
    <3> DEFINE s == received[c] \o channel[c]
               t == replay[c]
    <3>1. /\ s \in Seq(Events) /\ t \in Seq(Events) /\ t # <<>>
          /\ Delivery(c) = s \o t
          /\ channel[c] \in Seq(Events) /\ received[c] \in Seq(Events)
          /\ joined[c] \in Nat
      BY <1>t, <2>4 DEF Replay
    <3>2. /\ Head(t) \in Events /\ Tail(t) \in Seq(Events)
          /\ Len(Tail(t)) = Len(t) - 1
          /\ \A i \in 1 .. Len(Tail(t)) : Tail(t)[i] = t[i + 1]
          /\ Len(t) \in Nat
      BY <3>1, HeadTailProperties, LenProperties
    <3>3. /\ published' = published /\ joined' = joined /\ received' = received
          /\ replay'[c] = Tail(t) /\ client'[c] \in {"replaying", "panicked"}
      BY <2>4, <1>s DEF Replay, IInv, TypeOK
    <3>4. InOrder(c)
      BY <1>h
    <3>5. \A i \in 1 .. Len(replay'[c]) : replay'[c][i] <= joined'[c]
      BY <3>2, <3>3, <3>4 DEF InOrder
    <3>6. ASSUME channel'[c] = channel[c] PROVE InOrder(c)'
      <4>1. Delivery(c)' = s \o Tail(t)
        BY <3>3, <3>6 DEF Delivery
      <4>2. /\ Ordered(s \o Tail(t), joined[c])
            /\ \A i \in 1 .. Len(s \o Tail(t)) :
                 \E j \in 1 .. Len(s \o t) : (s \o Tail(t))[i] = (s \o t)[j]
        <5>1. Ordered(s \o t, joined[c])
          BY <3>1, <3>4 DEF InOrder
        <5> HIDE DEF s, t
        <5> QED
          BY <3>1, <5>1, OrderedRemove
      <4> HIDE DEF s, t
      <4> QED
        BY <3>1, <3>3, <3>4, <3>5, <4>1, <4>2 DEF InOrder, Early
    <3>7. ASSUME channel'[c] = Append(channel[c], Head(t)) PROVE InOrder(c)'
      <4>1. Delivery(c)' = Append(s, Head(t)) \o Tail(t)
        BY <1>a, <3>2, <3>3, <3>7 DEF Delivery
      <4>2. Delivery(c)' = Delivery(c)
        <5> HIDE DEF s, t
        <5> QED
          BY <3>1, <4>1, MoveHead
      <4> QED
        BY <3>3, <3>4, <3>5, <4>2 DEF InOrder, Early
    <3>8. channel'[c] \in {channel[c], Append(channel[c], Head(t))}
      BY <2>4 DEF Replay, Send
    <3> QED
      BY <2>1, <2>2, <3>6, <3>7, <3>8
  <2>5. CASE Receive(c)
    <3>1. /\ received'[c] = Append(received[c], Head(channel[c]))
          /\ channel'[c] = Tail(channel[c]) /\ channel[c] # <<>>
          /\ UNCHANGED <<published, joined, replay, client>>
          /\ client[c] = "reading"
      BY <2>5 DEF Receive, IInv, TypeOK
    <3>2. received'[c] \o channel'[c] = received[c] \o channel[c]
      BY <1>t, <3>1, MoveHead
    <3>3. Delivery(c)' = Delivery(c)
      BY <3>1, <3>2 DEF Delivery
    <3>4. InOrder(c)'
      BY <1>h, <3>1, <3>3 DEF InOrder, Early
    <3> QED
      BY <2>1, <2>2, <3>4
  <2> QED
    BY <1>4, <2>3, <2>4, <2>5
<1>5. CASE UNCHANGED vars
  <2> USE DEF vars, brokerVars, clientVars, channelVars
  <2>1. \A c \in Clients : InOrder(c)'
    BY <1>5, ElsewhereInOrder
  <2> QED
    BY <1>5, <1>h, <2>1 DEF HistoryInOrder
<1> QED
  BY <1>1, <1>2, <1>3, <1>4, <1>5 DEF Next, Stream

(* The inductive invariant is kept (sse.go:33-117).                        *)
LEMMA StepPreserves == IInv /\ [Next]_vars => IInv'
  BY TypesPreserved, TiesPreserved, DeliveriesPreserved
     DEF IInv, Ties, Deliveries

(* Subscriptions, handlers and channels always agree (sse.go:62-117).      *)
THEOREM InvariantHolds == SafetySpec => []IInv
  BY InitEstablishes, StepPreserves, PTL DEF SafetySpec

(* Publish never sends to a closed channel, and none is closed twice       *)
(* (sse.go:52-58, 97-100, 112-115).                                        *)
THEOREM SubscribersAreOpenHolds == SafetySpec => []SubscribersAreOpen
<1>1. IInv => SubscribersAreOpen
  BY DEF IInv
<1> QED
  BY InvariantHolds, <1>1, PTL

(* No event comes to a client twice, and neither the replayed events nor   *)
(* the live ones out of order, whatever the sizes of history and channels  *)
(* and whoever publishes, subscribes and hangs up meanwhile                *)
(* (sse.go:33-103).                                                        *)
THEOREM OnceAndInOrderHolds == SafetySpec => []OnceAndInOrder
<1>1. IInv => OnceAndInOrder
  BY DEF IInv
<1> QED
  BY InvariantHolds, <1>1, PTL

-----------------------------------------------------------------------------
(***************************************************************************)
(* Nothing falls between the history and the live events.                  *)
(***************************************************************************)
LEMMA RangeOfConcat ==
  ASSUME NEW S, NEW s \in Seq(S), NEW t \in Seq(S)
  PROVE  Range(s \o t) = Range(s) \cup Range(t)
<1> DEFINE u == s \o t
<1>1. /\ Len(s) \in Nat /\ Len(t) \in Nat
      /\ DOMAIN s = 1..Len(s) /\ DOMAIN t = 1..Len(t)
      /\ DOMAIN u = 1..(Len(s) + Len(t))
      /\ \A i \in 1..Len(s) : u[i] = s[i]
      /\ \A i \in 1..Len(t) : u[Len(s) + i] = t[i]
  BY ConcatProperties, LenProperties
<1> HIDE DEF u
<1>2. Range(u) \subseteq Range(s) \cup Range(t)
  <2> SUFFICES ASSUME NEW i \in 1..(Len(s) + Len(t))
               PROVE  u[i] \in Range(s) \cup Range(t)
    BY <1>1 DEF Range
  <2>1. CASE i <= Len(s)
    BY <1>1, <2>1 DEF Range
  <2>2. CASE i > Len(s)
    <3>1. i - Len(s) \in 1..Len(t) /\ i = Len(s) + (i - Len(s))
      BY <1>1, <2>2
    <3> QED BY <1>1, <3>1 DEF Range
  <2> QED BY <1>1, <2>1, <2>2
<1>3. Range(s) \subseteq Range(u)
  BY <1>1 DEF Range
<1>4. Range(t) \subseteq Range(u)
  <2> SUFFICES ASSUME NEW i \in 1..Len(t) PROVE t[i] \in Range(u)
    BY <1>1 DEF Range
  <2>1. Len(s) + i \in 1..(Len(s) + Len(t)) /\ u[Len(s) + i] = t[i]
    BY <1>1
  <2> QED BY <1>1, <2>1 DEF Range
<1> QED BY <1>2, <1>3, <1>4 DEF u

LEMMA RangeOfAppend ==
  ASSUME NEW S, NEW s \in Seq(S), NEW e \in S
  PROVE  Range(Append(s, e)) = Range(s) \cup {e}
<1>1. <<e>> \in Seq(S) /\ Range(<<e>>) = {e}
  BY DEF Range
<1>2. Range(s \o <<e>>) = Range(s) \cup Range(<<e>>)
  BY <1>1, RangeOfConcat
<1>3. Append(s, e) = s \o <<e>>
  BY AppendIsConcat
<1> QED BY <1>1, <1>2, <1>3

LEMMA RangeOfHeadAndTail ==
  ASSUME NEW S, NEW s \in Seq(S), s # <<>>
  PROVE  Range(s) = {Head(s)} \cup Range(Tail(s))
<1>1. Head(s) \in S /\ Tail(s) \in Seq(S)
  BY HeadTailProperties
<1>2. <<Head(s)>> \in Seq(S) /\ Range(<<Head(s)>>) = {Head(s)}
  BY <1>1 DEF Range
<1>3. Range(<<Head(s)>> \o Tail(s)) = Range(<<Head(s)>>) \cup Range(Tail(s))
  <2> DEFINE h == <<Head(s)>>
             r == Tail(s)
  <2>1. h \in Seq(S) /\ r \in Seq(S)
    BY <1>1, <1>2
  <2> HIDE DEF h, r
  <2>2. Range(h \o r) = Range(h) \cup Range(r)
    BY <2>1, RangeOfConcat
  <2> QED BY <2>2 DEF h, r
<1>4. <<Head(s)>> \o Tail(s) = s
  OBVIOUS
<1> QED BY <1>2, <1>3, <1>4

(* The events that are a client's, wherever they are.                      *)
EventsOf(c) == Range(received[c]) \cup Range(channel[c]) \cup Range(replay[c])

LEMMA DeliveryRange ==
  ASSUME TypeOK, NEW c \in Clients
  PROVE  Range(Delivery(c)) = EventsOf(c)
<1>1. received[c] \in Seq(Events) /\ channel[c] \in Seq(Events) /\ replay[c] \in Seq(Events)
  BY DEF TypeOK, Events
<1> DEFINE live == received[c] \o channel[c]
<1>2. live \in Seq(Events)
  BY <1>1, ConcatProperties
<1>3. Range(live) = Range(received[c]) \cup Range(channel[c])
  BY <1>1, RangeOfConcat
<1>4. Delivery(c) = live \o replay[c]
  BY DEF Delivery
<1> HIDE DEF live
<1>5. Range(live \o replay[c]) = Range(live) \cup Range(replay[c])
  BY <1>1, <1>2, RangeOfConcat
<1> QED BY <1>3, <1>4, <1>5 DEF EventsOf

NoGap(c) == c \in subscribers =>
              FirstReplayed(c)..published = EventsOf(c) \cup dropped[c]

LEMMA NoGapIsNothingSlips ==
  TypeOK => (NothingSlipsThrough <=> \A c \in Clients : NoGap(c))
BY DeliveryRange DEF TypeOK, NothingSlipsThrough, NoGap

(* A step that publishes nothing and moves a client's events about.        *)
LEMMA EventsKept ==
  ASSUME NEW c \in Clients, NoGap(c), UNCHANGED published,
         c \in subscribers' => c \in subscribers,
         joined'[c] = joined[c],
         EventsOf(c)' \cup dropped'[c] = EventsOf(c) \cup dropped[c]
  PROVE  NoGap(c)'
<1>1. FirstReplayed(c)' = FirstReplayed(c)
  BY DEF FirstReplayed
<1> QED BY <1>1 DEF NoGap

(* Whatever else happens, these events of a client stay where they are.    *)
LEMMA EventsUntouched ==
  ASSUME NEW c \in Clients, NoGap(c), UNCHANGED published,
         c \in subscribers' => c \in subscribers,
         joined'[c] = joined[c], received'[c] = received[c],
         channel'[c] = channel[c], replay'[c] = replay[c], dropped'[c] = dropped[c]
  PROVE  NoGap(c)'
<1>1. EventsOf(c)' = EventsOf(c)
  BY DEF EventsOf
<1> QED BY <1>1, EventsKept

(* The history, and what was dropped for whom, with nobody's events.       *)
LEMMA HistoryStaysNewest ==
  IInv /\ HistoryIsNewest /\ [Next]_vars => HistoryIsNewest'
<1> SUFFICES ASSUME IInv, HistoryIsNewest, [Next]_vars PROVE HistoryIsNewest'
  OBVIOUS
<1> DEFINE Undropped == \A c \in Clients : client[c] \in Early => dropped[c] = {}
           Same == history' = history /\ published' = published
<1>h. (HistoryIsNewest <=>
        /\ Len(history) = IF published > HistorySize THEN HistorySize ELSE published
        /\ \A i \in 1..Len(history) : history[i] = published - Len(history) + i
        /\ Undropped)
  BY DEF HistoryIsNewest, Early
<1>t. /\ history \in Seq(Events) /\ published \in Nat /\ HistorySize \in Nat \ {0}
      /\ client \in [Clients -> Stages] /\ dropped \in [Clients -> SUBSET Events]
      /\ Len(history) \in Nat
  BY SizesAssumption, LenProperties DEF IInv, TypeOK, Events
<1>s. ASSUME Same, Undropped' PROVE HistoryIsNewest'
  BY <1>h, <1>s DEF HistoryIsNewest, Early
<1>1. CASE Publish
  <2> DEFINE e == published + 1
             s == Append(history, e)
  <2>1. e \in Events /\ published' = e /\ history' = Newest(s, HistorySize)
    BY <1>1, <1>t, SizesAssumption DEF Publish, Events
  <2>2. /\ s \in Seq(Events) /\ Len(s) = Len(history) + 1
        /\ \A i \in 1..Len(history) : s[i] = history[i]
        /\ s[Len(history) + 1] = e
    BY <1>t, <2>1, AppendProperties
  <2>3. \A i \in 1..Len(s) : s[i] = e - Len(s) + i
    <3> SUFFICES ASSUME NEW i \in 1..Len(s) PROVE s[i] = e - Len(s) + i
      OBVIOUS
    <3> HIDE DEF s
    <3>1. CASE i = Len(history) + 1
      BY <1>t, <2>2, <3>1
    <3>2. CASE i \in 1..Len(history)
      BY <1>h, <1>t, <2>2, <3>2
    <3> QED BY <1>t, <2>2, <3>1, <3>2
  <2>4. Undropped'
    <3>1. \A c \in subscribers : client[c] \notin Early
      BY DEF IInv, SubscriptionsMatchHandlers, Early
    <3> QED BY <1>1, <1>h, <3>1 DEF Publish, Send, clientVars
  <2> HIDE DEF s
  <2>5. /\ Len(history') = IF Len(s) > HistorySize THEN HistorySize ELSE Len(s)
        /\ \A i \in 1..Len(history') : history'[i] = s[i + Len(s) - Len(history')]
    BY <1>t, <2>1, <2>2, NewestOfSequence
  <2>6. Len(history') = IF published' > HistorySize THEN HistorySize ELSE published'
    BY <1>h, <1>t, <2>1, <2>2, <2>5
  <2>7. ASSUME NEW i \in 1..Len(history')
        PROVE  history'[i] = published' - Len(history') + i
    <3>1. i + Len(s) - Len(history') \in 1..Len(s)
      BY <1>t, <2>2, <2>5
    <3>2. s[i + Len(s) - Len(history')] = e - Len(s) + (i + Len(s) - Len(history'))
      BY <2>3, <3>1
    <3>3. e - Len(s) + (i + Len(s) - Len(history')) = e - Len(history') + i
      <4>1. Len(s) \in Nat /\ Len(history') \in Nat /\ i \in Nat /\ e \in Nat
        BY <1>t, <2>2, <2>5
      <4> QED BY <4>1
    <3>4. history'[i] = s[i + Len(s) - Len(history')]
      BY <2>5
    <3> QED BY <2>1, <3>2, <3>3, <3>4
  <2> QED BY <2>4, <2>6, <2>7 DEF HistoryIsNewest, Early
<1>2. CASE Close
  BY <1>2, <1>h, <1>s DEF Close, clientVars
<1>3. ASSUME NEW c \in Clients, Replay(c)
      PROVE  HistoryIsNewest'
  <2>1. client[c] \notin Early /\ client'[c] \notin Early
    BY <1>3, <1>t DEF Replay, Goto, Early
  <2>2. \A d \in Clients : d # c => client'[d] = client[d] /\ dropped'[d] = dropped[d]
    BY <1>3, <1>t DEF Replay, Goto, Send
  <2>3. Same
    BY <1>3 DEF Replay, brokerVars
  <2> QED BY <1>h, <1>s, <2>1, <2>2, <2>3
<1>4. ASSUME NEW c \in Clients,
             GetBroker(c) \/ Disconnect(c) \/ (Stream(c) /\ ~Replay(c))
      PROVE  HistoryIsNewest'
  <2> USE DEF GetBroker, Disconnect, Stream, Subscribe, Subscribed, Receive, EndOfStream,
              Cancel, CloseChannel, Goto, Early, brokerVars, clientVars, channelVars
  <2>1. Same /\ dropped' = dropped
    BY <1>4
  <2>2. \A d \in Clients : client'[d] \in Early => client[d] \in Early
    BY <1>4, <1>t
  <2> QED BY <1>h, <1>s, <2>1, <2>2
<1>5. CASE UNCHANGED vars
  BY <1>5, <1>h, <1>s DEF vars, brokerVars, clientVars, channelVars
<1> QED
  BY <1>1, <1>2, <1>3, <1>4, <1>5 DEF Next, Stream

(* An event that is published goes into the channel of every subscriber,   *)
(* or is dropped for it (sse.go:52-58).                                    *)
LEMMA PublishKeepsNoGap ==
  ASSUME IInv, Publish, NEW c \in Clients, NoGap(c)
  PROVE  NoGap(c)'
<1> DEFINE e == published + 1
<1> SUFFICES ASSUME c \in subscribers'
             PROVE  FirstReplayed(c)'..published' = EventsOf(c)' \cup dropped'[c]
  BY DEF NoGap
<1>1. /\ published \in Nat /\ e \in Events /\ HistorySize \in Nat \ {0}
      /\ joined[c] \in Nat /\ joined[c] <= published
      /\ channel[c] \in Seq(Events) /\ Len(channel[c]) \in Nat /\ Buffer \in Nat
  BY SizesAssumption, LenProperties
     DEF IInv, TypeOK, DeliveriesArePublished, Publish, Events
<1>2. /\ c \in subscribers /\ published' = e /\ Send(subscribers, e)
      /\ joined' = joined /\ received' = received /\ replay' = replay
  BY DEF Publish, clientVars
<1>3. FirstReplayed(c)' = FirstReplayed(c)
  BY <1>2 DEF FirstReplayed
<1>4. FirstReplayed(c) \in Nat /\ FirstReplayed(c) <= e
  BY <1>1 DEF FirstReplayed
<1>5. FirstReplayed(c)..e = (FirstReplayed(c)..published) \cup {e}
  BY <1>1, <1>4
<1>6. EventsOf(c)' \cup dropped'[c] = (EventsOf(c) \cup dropped[c]) \cup {e}
  <2>1. CASE Len(channel[c]) < Buffer
    <3>1. channel'[c] = Append(channel[c], e) /\ dropped'[c] = dropped[c]
      BY <1>1, <1>2, <2>1 DEF Send
    <3>2. Range(channel'[c]) = Range(channel[c]) \cup {e}
      BY <1>1, <3>1, RangeOfAppend
    <3> QED BY <1>2, <3>1, <3>2 DEF EventsOf
  <2>2. CASE Len(channel[c]) >= Buffer
    <3>1. channel'[c] = channel[c] /\ dropped'[c] = dropped[c] \cup {e}
      BY <1>1, <1>2, <2>2 DEF Send
    <3> QED BY <1>2, <3>1 DEF EventsOf
  <2> QED BY <1>1, <2>1, <2>2
<1> QED BY <1>2, <1>3, <1>5, <1>6 DEF NoGap

(* A new subscriber is given the whole history, and has nothing else       *)
(* (sse.go:69-80).                                                         *)
LEMMA SubscribeLeavesNoGap ==
  ASSUME IInv, HistoryIsNewest, NEW c \in Clients, Subscribe(c)
  PROVE  NoGap(c)'
<1> SUFFICES ASSUME c \in subscribers'
             PROVE  FirstReplayed(c)'..published' = EventsOf(c)' \cup dropped'[c]
  BY DEF NoGap
<1>1. client[c] = "found" /\ c \notin subscribers
  BY DEF Subscribe, Goto, IInv, SubscriptionsMatchHandlers
<1>2. /\ received' = received /\ channel' = channel /\ dropped' = dropped
      /\ published' = published /\ joined'[c] = published /\ replay'[c] = history
  BY <1>1 DEF Subscribe, IInv, TypeOK
<1>3. received[c] = <<>> /\ channel[c] = <<>> /\ dropped[c] = {}
  BY <1>1 DEF IInv, DeliveriesArePublished, HistoryIsNewest
<1>4. EventsOf(c)' \cup dropped'[c] = Range(history)
  <2>1. Range(<<>>) = {}
    BY DEF Range
  <2> QED BY <1>2, <1>3, <2>1 DEF EventsOf
<1>5. Range(history) = FirstReplayed(c)'..published
  <2> DEFINE n == Len(history)
  <2>1. /\ published \in Nat /\ HistorySize \in Nat \ {0} /\ n \in Nat
        /\ DOMAIN history = 1..n
    BY SizesAssumption, LenProperties DEF IInv, TypeOK
  <2>2. /\ n = IF published > HistorySize THEN HistorySize ELSE published
        /\ \A i \in 1..n : history[i] = published - n + i
    BY DEF HistoryIsNewest
  <2> HIDE DEF n
  <2>3. FirstReplayed(c)' = published - n + 1
    BY <1>2, <2>1, <2>2 DEF FirstReplayed
  <2>4. Range(history) \subseteq (published - n + 1)..published
    BY <2>1, <2>2 DEF Range
  <2>5. ASSUME NEW e \in (published - n + 1)..published
        PROVE  e \in Range(history)
    <3>1. e - published + n \in 1..n /\ history[e - published + n] = e
      BY <2>1, <2>2
    <3> QED BY <2>1, <3>1 DEF Range
  <2> QED BY <2>3, <2>4, <2>5
<1> QED BY <1>2, <1>4, <1>5

(* A replayed event goes into the channel or is dropped, and whoever       *)
(* panics instead is not subscribed any more (sse.go:82-88).               *)
LEMMA ReplayKeepsNoGap ==
  ASSUME IInv, NEW c \in Clients, NoGap(c), Replay(c)
  PROVE  NoGap(c)'
<1>1. /\ replay[c] \in Seq(Events) /\ replay[c] # <<>>
      /\ channel[c] \in Seq(Events) /\ Len(channel[c]) \in Nat /\ Buffer \in Nat
  BY SizesAssumption, LenProperties DEF IInv, TypeOK, Replay, Events
<1>2. CASE c \in shut
  <2>1. c \notin subscribers'
    BY <1>2 DEF IInv, SubscribersAreOpen, Replay, brokerVars
  <2> QED BY <2>1 DEF NoGap
<1>3. CASE c \notin shut
  <2> DEFINE e == Head(replay[c])
  <2>1. /\ e \in Events /\ Range(replay[c]) = {e} \cup Range(Tail(replay[c]))
    BY <1>1, HeadTailProperties, RangeOfHeadAndTail
  <2>2. /\ replay'[c] = Tail(replay[c]) /\ received' = received /\ joined' = joined
        /\ published' = published /\ subscribers' = subscribers /\ Send({c}, e)
    BY <1>3 DEF Replay, brokerVars, IInv, TypeOK
  <2> HIDE DEF e
  <2>3. EventsOf(c)' \cup dropped'[c] = EventsOf(c) \cup dropped[c]
    <3>1. CASE Len(channel[c]) < Buffer
      <4>1. channel'[c] = Append(channel[c], e) /\ dropped'[c] = dropped[c]
        BY <1>1, <2>2, <3>1 DEF Send
      <4>2. Range(channel'[c]) = Range(channel[c]) \cup {e}
        BY <1>1, <2>1, <4>1, RangeOfAppend
      <4> QED BY <2>1, <2>2, <4>1, <4>2 DEF EventsOf
    <3>2. CASE Len(channel[c]) >= Buffer
      <4>1. channel'[c] = channel[c] /\ dropped'[c] = dropped[c] \cup {e}
        BY <1>1, <2>2, <3>2 DEF Send
      <4> QED BY <2>1, <2>2, <4>1 DEF EventsOf
    <3> QED BY <1>1, <3>1, <3>2
  <2> QED BY <2>2, <2>3, EventsKept
<1> QED BY <1>2, <1>3

(* Receiving moves the head of the channel to what was received.           *)
LEMMA ReceiveKeepsNoGap ==
  ASSUME IInv, NEW c \in Clients, NoGap(c), Receive(c)
  PROVE  NoGap(c)'
<1> DEFINE e == Head(channel[c])
<1>1. /\ channel[c] \in Seq(Events) /\ channel[c] # <<>> /\ received[c] \in Seq(Events)
  BY DEF IInv, TypeOK, Receive, Events
<1>2. /\ e \in Events /\ Range(channel[c]) = {e} \cup Range(Tail(channel[c]))
  BY <1>1, HeadTailProperties, RangeOfHeadAndTail
<1>3. /\ channel'[c] = Tail(channel[c]) /\ received'[c] = Append(received[c], e)
      /\ replay' = replay /\ dropped' = dropped /\ joined' = joined
      /\ published' = published /\ subscribers' = subscribers
  BY DEF Receive, brokerVars, clientVars, IInv, TypeOK
<1> HIDE DEF e
<1>4. Range(received'[c]) = Range(received[c]) \cup {e}
  BY <1>1, <1>2, <1>3, RangeOfAppend
<1>5. EventsOf(c)' \cup dropped'[c] = EventsOf(c) \cup dropped[c]
  BY <1>2, <1>3, <1>4 DEF EventsOf
<1> QED BY <1>3, <1>5, EventsKept

LEMMA NoGapPreserved ==
  ASSUME IInv, HistoryIsNewest, \A d \in Clients : NoGap(d), [Next]_vars
  PROVE  \A d \in Clients : NoGap(d)'
<1> SUFFICES ASSUME NEW d \in Clients PROVE NoGap(d)'
  OBVIOUS
<1>1. CASE Publish
  BY <1>1, PublishKeepsNoGap
<1>2. CASE Close
  BY <1>2 DEF Close, NoGap
<1>3. ASSUME NEW c \in Clients, GetBroker(c) \/ Stream(c) \/ Disconnect(c), c # d
      PROVE  NoGap(d)'
  <2>1. /\ published' = published /\ (d \in subscribers' => d \in subscribers)
        /\ joined'[d] = joined[d] /\ received'[d] = received[d]
        /\ channel'[d] = channel[d] /\ replay'[d] = replay[d]
        /\ dropped'[d] = dropped[d]
    BY <1>3 DEF GetBroker, Disconnect, Stream, Subscribe, Replay, Subscribed, Receive,
                EndOfStream, Cancel, CloseChannel, Send, IInv, TypeOK,
                brokerVars, clientVars, channelVars
  <2> QED BY <2>1, EventsUntouched
<1>4. CASE \/ GetBroker(d) \/ Subscribed(d) \/ EndOfStream(d) \/ Disconnect(d)
           \/ Cancel(d) \/ CloseChannel(d)
  <2>1. /\ published' = published /\ (d \in subscribers' => d \in subscribers)
        /\ joined' = joined /\ received' = received /\ channel' = channel
        /\ replay' = replay /\ dropped' = dropped
    BY <1>4 DEF GetBroker, Subscribed, EndOfStream, Disconnect, Cancel, CloseChannel,
                brokerVars, channelVars
  <2> QED BY <2>1, EventsUntouched
<1>5. CASE UNCHANGED vars
  BY <1>5, EventsUntouched DEF vars, brokerVars, clientVars, channelVars
<1> QED
  BY <1>1, <1>2, <1>3, <1>4, <1>5, SubscribeLeavesNoGap, ReplayKeepsNoGap,
     ReceiveKeepsNoGap DEF Next, Stream

(* While a client is subscribed, every event from its history on has been  *)
(* received, is on its way or met a full channel, whatever the sizes of    *)
(* history and channels, and whoever publishes, subscribes and hangs up    *)
(* meanwhile (sse.go:33-103).                                              *)
THEOREM NothingSlipsThroughHolds == SafetySpec => []NothingSlipsThrough
<1> DEFINE NoGaps == \A c \in Clients : NoGap(c)
           GapInv == HistoryIsNewest /\ NoGaps
<1>1. Init => GapInv
  <2> SUFFICES ASSUME Init PROVE GapInv
    OBVIOUS
  <2>1. HistoryIsNewest
    BY SizesAssumption DEF Init, HistoryIsNewest
  <2>2. NoGaps
    BY DEF Init, NoGap
  <2> QED BY <2>1, <2>2
<1>2. IInv /\ GapInv /\ [Next]_vars => GapInv'
  BY HistoryStaysNewest, NoGapPreserved
<1>3. IInv /\ GapInv => NothingSlipsThrough
  BY NoGapIsNothingSlips DEF IInv
<1> HIDE DEF GapInv
<1> QED
  BY InvariantHolds, <1>1, <1>2, <1>3, PTL DEF SafetySpec
=============================================================================
