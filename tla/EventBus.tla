------------------------------- MODULE EventBus -------------------------------
(***************************************************************************)
(* Live events of a lot: write_audit commits and then publishes, approve   *)
(* and the background run publish alone; the LotEventBus of each process   *)
(* queues an event for every subscriber, and the WebSocket handler sends   *)
(* what is queued, or a ping (api/ws.py, api/routes/websocket.py,          *)
(* audit/logger.py).                                                       *)
(*                                                                         *)
(* The critical sections of the bus hold no await, so each call is one     *)
(* step.  A client that is gone is noticed when something is sent to it.   *)
(***************************************************************************)
EXTENDS Naturals, Sequences, FiniteSets

CONSTANTS
    Servers,    \* API processes, each with a bus of its own
    Clients,
    MaxEvents,  \* bound: events of the lot
    Capacity    \* maxsize of a queue

ASSUME CapacityAssumption == Capacity \in Nat \ {0} /\ MaxEvents \in Nat

VARIABLES
    state,     \* each event: new, committed, published
    bus,       \* subscribers of each process
    queue,     \* queue of each client
    client,    \* each client: away, connected, gone, closed
    home,      \* process that serves it
    seen,      \* events sent to it
    since,     \* events published there since it subscribed (history)
    full       \* those that met a full queue (history)

busVars == <<state, bus, queue, client, home, seen, since, full>>

Events == 1..MaxEvents

BusTypeOK ==
    /\ state \in [Events -> {"new", "committed", "published"}]
    /\ bus \in [Servers -> SUBSET Clients]
    /\ client \in [Clients -> {"away", "connected", "gone", "closed"}]
    /\ home \in [Clients -> Servers]
    /\ queue \in [Clients -> Seq(Events)] /\ \A c \in Clients : Len(queue[c]) <= Capacity
    /\ seen \in [Clients -> Seq(Events)]
    /\ since \in [Clients -> Seq(Events)]
    /\ full \in [Clients -> SUBSET Events]

BusInit ==
    /\ state = [e \in Events |-> "new"]
    /\ bus = [p \in Servers |-> {}]
    /\ queue = [c \in Clients |-> <<>>]
    /\ client = [c \in Clients |-> "away"]
    /\ home \in [Clients -> Servers]
    /\ seen = [c \in Clients |-> <<>>]
    /\ since = [c \in Clients |-> <<>>]
    /\ full = [c \in Clients |-> {}]

-----------------------------------------------------------------------------
\* accept and subscribe
Connect(c) ==
    /\ client[c] = "away"
    /\ client' = [client EXCEPT ![c] = "connected"]
    /\ bus' = [bus EXCEPT ![home[c]] = @ \cup {c}]
    /\ UNCHANGED <<state, queue, home, seen, since, full>>

\* write_audit: the row is committed first; events are numbered in this order.
Commit(e) ==
    /\ state[e] = "new" /\ \A d \in 1..e - 1 : state[d] # "new"
    /\ state' = [state EXCEPT ![e] = "committed"]
    /\ UNCHANGED <<bus, queue, client, home, seen, since, full>>

\* Mutant: a full queue makes room by dropping its oldest event.
QueuedLast(q, e) == Append(IF Len(q) = Capacity THEN Tail(q) ELSE q, e)

\* put_nowait: a full queue stays as it is.
Queued(q, e) == IF Len(q) = Capacity THEN q ELSE Append(q, e)

\* publish: the subscribers of this process only.
Publish(e, p) ==
    /\ state[e] = "committed"
    /\ state' = [state EXCEPT ![e] = "published"]
    /\ queue' = [c \in Clients |-> IF c \in bus[p] THEN Queued(queue[c], e) ELSE queue[c]]
    /\ since' = [c \in Clients |-> IF c \in bus[p] THEN Append(since[c], e) ELSE since[c]]
    /\ full' = [c \in Clients |->
                   IF c \in bus[p] /\ Len(queue[c]) = Capacity THEN full[c] \cup {e} ELSE full[c]]
    /\ UNCHANGED <<bus, client, home, seen>>

\* Mutant: a send that fails leaves the subscription behind.
SubscribersKept(c) == bus[home[c]]

\* unsubscribe
SubscribersLeft(c) == bus[home[c]] \ {c}

Close(c) ==
    /\ client' = [client EXCEPT ![c] = "closed"]
    /\ bus' = [bus EXCEPT ![home[c]] = SubscribersLeft(c)]
    /\ UNCHANGED <<state, home, since, full>>

\* The next event is taken and sent, here at once; to a client that is gone it
\* is lost.
SendEvent(c) ==
    /\ c \in bus[home[c]] /\ queue[c] # <<>>
    /\ queue' = [queue EXCEPT ![c] = Tail(@)]
    /\ IF client[c] = "connected"
       THEN /\ seen' = [seen EXCEPT ![c] = Append(@, Head(queue[c]))]
            /\ UNCHANGED <<state, bus, client, home, since, full>>
       ELSE Close(c) /\ UNCHANGED seen

\* Nothing for 30 seconds: a ping, which shows that the client is gone.
Ping(c) ==
    /\ c \in bus[home[c]] /\ queue[c] = <<>> /\ client[c] = "gone"
    /\ Close(c)
    /\ UNCHANGED <<queue, seen>>

Leave(c) ==
    /\ client[c] = "connected"
    /\ client' = [client EXCEPT ![c] = "gone"]
    /\ UNCHANGED <<state, bus, queue, home, seen, since, full>>

Work(c) == SendEvent(c) \/ Ping(c)

BusNext ==
    \/ \E c \in Clients : Connect(c) \/ Leave(c) \/ Work(c)
    \/ \E e \in Events : Commit(e) \/ \E p \in Servers : Publish(e, p)

BusSpec == BusInit /\ [][BusNext]_busVars

-----------------------------------------------------------------------------
\* s is t without the elements of D.
Remains(s, t, D) ==
    \E place \in [DOMAIN s -> DOMAIN t] :
        /\ \A i \in DOMAIN s : s[i] = t[place[i]]
        /\ \A i, j \in DOMAIN s : i < j => place[i] < place[j]
        /\ {place[i] : i \in DOMAIN s} = {k \in DOMAIN t : t[k] \notin D}

\* What a client was sent and what waits for it are the events its process
\* published since it came, in their order, less those that met a full queue:
\* no slow neighbour, late subscriber or overflow reorders or doubles one.
GapsAreOverflows ==
    \A c \in Clients :
        client[c] = "connected" => Remains(seen[c] \o queue[c], since[c], full[c])

\* The queue of a client that left is not filled for ever.
DeadQueuesGo == \A c \in Clients : client[c] = "gone" ~> c \notin bus[home[c]]

=============================================================================
