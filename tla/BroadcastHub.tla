---------------------------- MODULE BroadcastHub ----------------------------
(***************************************************************************)
(* What the broadcast hub promises (spec 4.4 and 4.5), as a safety        *)
(* specification with every operation on one queue one atomic step:       *)
(*   - Subscribe registers a new bounded queue (it was never registered    *)
(*     before);                                                            *)
(*   - Unsubscribe of a registered queue deregisters and closes it, once;  *)
(*     a second Unsubscribe is a no-op (a stutter);                        *)
(*   - a broadcast message is offered to registered queues only, and a     *)
(*     full queue drops it (the producer never blocks);                    *)
(*   - the subscriber takes buffered messages, also after the close.       *)
(* Queues are their fill levels; payloads and the order of a broadcast's   *)
(* offers are not part of this specification.                              *)
(***************************************************************************)
EXTENDS Naturals

CONSTANTS
    Queues,      \* the subscriber queues that may ever exist
    Cap          \* their fixed capacity

VARIABLES
    registered,  \* the queues Broadcast delivers to
    closed,      \* the queues that have been closed
    fill         \* fill[q]: messages buffered in queue q

hvars == <<registered, closed, fill>>

Init ==
    /\ registered = {}
    /\ closed = {}
    /\ fill = [q \in Queues |-> 0]

(* A fresh queue is registered.                                            *)
Subscribe(q) ==
    /\ q \notin registered \cup closed
    /\ registered' = registered \cup {q}
    /\ UNCHANGED <<closed, fill>>

(* Deregister and close, in one step.                                      *)
Unsubscribe(q) ==
    /\ q \in registered
    /\ registered' = registered \ {q}
    /\ closed' = closed \cup {q}
    /\ UNCHANGED fill

(* Non-blocking delivery of one message to a registered queue.             *)
Deliver(q) ==
    /\ q \in registered
    /\ fill' = [fill EXCEPT ![q] = IF @ < Cap THEN @ + 1 ELSE @]
    /\ UNCHANGED <<registered, closed>>

(* The subscriber receives a buffered message.                             *)
Receive(q) ==
    /\ fill[q] > 0
    /\ fill' = [fill EXCEPT ![q] = @ - 1]
    /\ UNCHANGED <<registered, closed>>

Next == \E q \in Queues :
          Subscribe(q) \/ Unsubscribe(q) \/ Deliver(q) \/ Receive(q)

Spec == Init /\ [][Next]_hvars
=============================================================================
