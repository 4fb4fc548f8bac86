------------------------------ MODULE Channels ------------------------------
(***************************************************************************)
(* Channels, signals, slots and subscriptions.  Every operator has one     *)
(* output (data and punctuations are always connected together) and input  *)
(* ports.  A network is a value: which operators are alive, the slots each *)
(* signal calls, in order, the next slot number of each signal, and the    *)
(* subscriptions that the channels of each operator have registered.       *)
(***************************************************************************)
EXTENDS Integers, Sequences, SequencesExt, FiniteSetsExt

CONSTANT SlotIDRange  \* number of values of SlotID, scaled down

ASSUME SlotIDAssumption == SlotIDRange \in Nat \ {0}

EmptyNet == [alive |-> {}, mSlots |-> <<>>, mNextSlotID |-> <<>>, mSubscriptions |-> <<>>]

\* The channels of a new operator, whose number is returned by Newest: a Source
\* creates the output channels with their signals, a Sink the input channels.
Signal(net) == [net EXCEPT !.mSlots = Append(@, <<>>), !.mNextSlotID = Append(@, 0)]
Channel(net) == [net EXCEPT !.mSubscriptions = Append(@, {})]
Source(net) == Signal(net)
Sink(net) == Channel(net)
DataSource(net) == Source(net)
DataSink(net) == Sink(net)
UnaryTransform(net) == DataSource(DataSink(net))
CreateChannels(net) == [UnaryTransform(net) EXCEPT !.alive = @ \cup {Len(net.mSlots) + 1}]
Newest(net) == Len(net.mSlots)

\* A signal that calls many slots, and the interface every signal has.
SignalConnect(net, from, to, port) ==
    [net EXCEPT !.mSlots[from] = Append(@, [id |-> net.mNextSlotID[from], to |-> to, port |-> port]),
                !.mNextSlotID[from] = (@ + 1) % SlotIDRange]
SignalDisconnect(net, from, id) ==
    [net EXCEPT !.mSlots[from] = RemoveAt(@, SelectInSeq(@, LAMBDA e : e.id = id))]
SignalTraits_connect(net, from, to, port) == SignalConnect(net, from, to, port)
SignalTraits_disconnect(net, from, id) == SignalDisconnect(net, from, id)

\* A channel's registry of subscriptions.
addSubscription(net, o, s) == [net EXCEPT !.mSubscriptions[o] = @ \cup {s}]
removeSubscription(net, o, s) == [net EXCEPT !.mSubscriptions[o] = @ \ {s}]
SubscriberTraits_addSubscription(net, to, s) == addSubscription(net, to, s)
SubscriberTraits_removeSubscription(net, to, s) == removeSubscription(net, to, s)
PublisherTraits_removeSubscription(net, from, s) == removeSubscription(net, from, s)

\* OutputChannel::subscribe: the slot of the input channel is its operator and port.
getSlot(to, port) == [to |-> to, port |-> port]
Subscription(from, to, id) == [pub |-> from, sub |-> to, id |-> id]
subscribe(net, from, to, port) ==
    LET slot == getSlot(to, port)
        s == Subscription(from, to, net.mNextSlotID[from])
        connected == SignalTraits_connect(net, from, slot.to, slot.port)
    IN SubscriberTraits_addSubscription(addSubscription(connected, from, s), to, s)

\* connectChannels, for an output channel and an input channel in any order.
PublisherTraits_subscribe(net, from, to, port) == subscribe(net, from, to, port)
connectChannels(net, from, to, port) == PublisherTraits_subscribe(net, from, to, port)

disconnect(net, from, id) == SignalTraits_disconnect(net, from, id)
PublisherTraits_disconnect(net, from, id) == disconnect(net, from, id)

\* closeSubscription.  An end that is being destroyed has no living reference
\* any more and is left alone.
closePublisher(s, net) ==
    IF s.pub \notin net.alive THEN net
    ELSE PublisherTraits_removeSubscription(PublisherTraits_disconnect(net, s.pub, s.id), s.pub, s)
closeSubscriber(s, net) ==
    IF s.sub \notin net.alive THEN net ELSE SubscriberTraits_removeSubscription(net, s.sub, s)
\* Mutant of closeSubscription: the publisher's signal keeps its slot.
closeSubscriptionOneEnd(s, net) == closeSubscriber(s, net)
closeSubscription(s, net) == closeSubscriber(s, closePublisher(s, net))

\* ~Channel of an operator's channels: every subscription is closed.
DestroyChannels(o, net) ==
    FoldSet(closeSubscription, [net EXCEPT !.alive = @ \ {o}, !.mSubscriptions[o] = {}],
            net.mSubscriptions[o])

\* Every slot of a living signal leads to a living operator and belongs to one
\* subscription, which both ends have registered.
NetConsistent(net) ==
    \A o \in net.alive :
        /\ {Subscription(o, net.mSlots[o][i].to, net.mSlots[o][i].id) : i \in DOMAIN net.mSlots[o]}
              = {s \in net.mSubscriptions[o] : s.pub = o}
        /\ \A s \in net.mSubscriptions[o] :
              {s.pub, s.sub} \subseteq net.alive /\ s \in net.mSubscriptions[s.pub] \cap net.mSubscriptions[s.sub]
        /\ Cardinality({net.mSlots[o][i].id : i \in DOMAIN net.mSlots[o]}) = Len(net.mSlots[o])
=============================================================================
