---------------------------- MODULE HttpTransport ---------------------------
(***************************************************************************)
(* The HTTP transport (http_transport.rs): the side the engine's host      *)
(* calls, and the thread "zorya-http" with one asynchronous task for each  *)
(* request.  Commands go to the thread through a bounded queue, answers    *)
(* come back through another.  A ticket named in no call any more is       *)
(* dropped: its task sees the cancellation the next time it looks.         *)
(*                                                                         *)
(* Tickets are allocated in order and none twice.  A response is "ok" or   *)
(* "failed": a body over the limit, a header the engine cannot hold and a  *)
(* client that was never built all fail the request.                       *)
(***************************************************************************)
EXTENDS Naturals, FiniteSets

CONSTANTS
    MaxInFlight,    \* MAX_IN_FLIGHT, the capacity of both queues
    MaxTickets      \* bound: tickets a transport allocates

ASSUME TransportConstants ==
    /\ MaxInFlight \in Nat \ {0}
    /\ MaxTickets \in Nat

VARIABLE network    \* the engine's Option<HttpTransport>, and its thread

Ticket == 1..MaxTickets

\* Where a request is: in the command queue, running, finished with a result
\* to send, or sent and not yet drained.
Idle == <<"idle">>
Queued == <<"queued">>
Running == <<"running">>
Result == {"ok", "failed"}
Place == {Idle, Queued, Running} \cup ({"finished", "sent"} \X Result)

NoTransport == [built |-> FALSE, active |-> {}, ready |-> {},
                wire |-> [t \in Ticket |-> Idle]]
NewTransport == [NoTransport EXCEPT !.built = TRUE]

At(n, place) == {t \in Ticket : n.wire[t] = place}
Sent(n) == {t \in Ticket : n.wire[t] \in {"sent"} \X Result}

TransportTypeOK ==
    network \in [built : BOOLEAN, active : SUBSET Ticket,
                 ready : SUBSET (Ticket \X Result), wire : [Ticket -> Place]]

-----------------------------------------------------------------------------
(* Calls of the host.                                                      *)

\* drain_completions: answers to requests still active are kept.
Drained(n) ==
    [n EXCEPT !.ready = @ \cup {<<t, n.wire[t][2]>> : t \in Sent(n) \cap n.active},
              !.wire = [t \in Ticket |-> IF t \in Sent(n) THEN Idle ELSE @[t]]]

Accepts(n) ==
    /\ Cardinality(n.active) < MaxInFlight
    /\ Cardinality(At(n, Queued)) < MaxInFlight

Started(n, t) == [n EXCEPT !.active = @ \cup {t}, !.wire[t] = Queued]

ReadyResults(n, t) == {r \in Result : <<t, r>> \in n.ready}

Forgotten(n, t) ==
    [n EXCEPT !.active = @ \ {t}, !.ready = @ \ ({t} \X Result)]

-----------------------------------------------------------------------------
(* The thread.  A request is cancelled once it is not active.              *)

\* The thread takes commands in the order they were sent.
TakeCommand ==
    /\ \E t \in At(network, Queued) :
          /\ \A u \in At(network, Queued) : t <= u
          /\ network' = [network EXCEPT !.wire[t] =
                            IF t \in network.active THEN Running ELSE Idle]

Respond ==
    \E t \in At(network, Running) \cap network.active, r \in Result :
        network' = [network EXCEPT !.wire[t] = <<"finished", r>>]

SeeCancellation ==
    \E t \in At(network, Running) \ network.active :
        network' = [network EXCEPT !.wire[t] = Idle]

SendCompletion ==
    /\ Cardinality(Sent(network)) < MaxInFlight
    /\ \E t \in Ticket, r \in Result :
          /\ network.wire[t] = <<"finished", r>>
          /\ network' = [network EXCEPT !.wire[t] = <<"sent", r>>]

TransportNext == TakeCommand \/ Respond \/ SeeCancellation \/ SendCompletion
=============================================================================
