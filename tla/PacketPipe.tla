----------------------------- MODULE PacketPipe -----------------------------
(***************************************************************************)
(* What the endpoint handoff promises its two ends, whatever the threads   *)
(* between them do: on each endpoint packets leave in the order they       *)
(* entered, none is lost, repeated or altered, at most Capacity of them    *)
(* are in flight, and tearing endpoints down discards theirs all at once.  *)
(***************************************************************************)
EXTENDS Naturals, Sequences

CONSTANTS
    Endpoint,   \* the endpoints
    Packet,     \* the packets that can be exchanged
    Capacity    \* how many of them the path of an endpoint may hold

VARIABLE
    queue       \* for each endpoint, the packets accepted and not yet
                \* delivered, oldest first

Init == queue = [e \in Endpoint |-> <<>>]

Send(e, p) ==
    /\ Len(queue[e]) < Capacity[e]
    /\ queue' = [queue EXCEPT ![e] = Append(@, p)]

Receive(e) ==
    /\ queue[e] # <<>>
    /\ queue' = [queue EXCEPT ![e] = Tail(@)]

Reset(es) == queue' = [e \in Endpoint |-> IF e \in es THEN <<>> ELSE queue[e]]

Next ==
    \/ \E e \in Endpoint : Receive(e) \/ \E p \in Packet : Send(e, p)
    \/ \E es \in SUBSET Endpoint : Reset(es)

Spec == Init /\ [][Next]_queue
=============================================================================
