----------------------------- MODULE ServiceCalls -----------------------------
(***************************************************************************)
(* Service-call correlation in the rosbridge Client (src/unnamed/part_000): *)
(* CallService, the pending table c.svcPending, and the readLoop's routing *)
(* of service_response frames (handleMessage / handleServiceResponse).      *)
(*                                                                         *)
(* Every call k is one CallService invocation, from the Handshake and the   *)
(* service wrappers, run by its own goroutine.  Its correlation id is the   *)
(* pair <<service, UnixMilli()>>, read from a clock that advances by whole  *)
(* milliseconds, so two calls of one service in one millisecond share an id.*)
(* Its response channel has capacity 1 and is named by k.  A response frame *)
(* carries the id of its request; the model also records which call sent   *)
(* that request (from), to check where the response ends up.               *)
(***************************************************************************)
EXTENDS Naturals, FiniteSets

CONSTANTS
    Calls,      \* CallService invocations
    Services,   \* service names ("/which_name", "/which_maps", ...)
    MaxMs,      \* the clock runs from 0 to MaxMs milliseconds
    None        \* an empty channel slot / no response / no entry

ASSUME CallsAssumption ==
    /\ MaxMs \in Nat
    /\ Services # {}
    /\ None \notin Calls

Ids == Services \X (0..MaxMs)
CallStates == {"idle", "send", "wait", "ret", "done"}
  \* send: entry registered, c.send next; wait: in the select;
  \* ret: returning (response, timeout or send error), the deferred delete next.

VARIABLES
    now,        \* time.Now().UnixMilli()
    pc,         \* pc[k]: where call k is
    cid,        \* cid[k]: the id call k built
    pending,    \* c.svcPending as a function from ids to calls (None: no entry)
    inFlight,   \* service_response frames on their way: [id, from]
    buf,        \* buf[k]: the message in call k's channel, or None
    result,     \* result[k]: the call whose response k returned, or None
    rl          \* the readLoop: idle, or routing message from to channel ch

vars == <<now, pc, cid, pending, inFlight, buf, result, rl>>

Responses == [id : Ids, from : Calls]
RLStates == [st : {"idle"}, ch : {None}, from : {None}]
              \cup [st : {"route"}, ch : Calls, from : Calls]

-----------------------------------------------------------------------------
Init ==
    /\ now = 0
    /\ pc = [k \in Calls |-> "idle"]
    /\ cid = [k \in Calls |-> CHOOSE i \in Ids : TRUE]
    /\ pending = [i \in Ids |-> None]
    /\ inFlight = {}
    /\ buf = [k \in Calls |-> None]
    /\ result = [k \in Calls |-> None]
    /\ rl = [st |-> "idle", ch |-> None, from |-> None]

(* Wall-clock time passes.                                                 *)
Tick ==
    /\ now < MaxMs
    /\ now' = now + 1
    /\ UNCHANGED <<pc, cid, pending, inFlight, buf, result, rl>>

(* CallService(s, ...) up to its defer: build the id, make the channel,    *)
(* register it under svcMu (overwriting an entry with the same id).        *)
RegisterCall(k, s) ==
    /\ pc[k] = "idle"
    /\ LET i == <<s, now>> IN
          /\ cid' = [cid EXCEPT ![k] = i]
          /\ pending' = [pending EXCEPT ![i] = k]
    /\ pc' = [pc EXCEPT ![k] = "send"]
    /\ UNCHANGED <<now, inFlight, buf, result, rl>>

(* A wrapper (Handshake, RequestNavigationMode, SaveMap, GoAllWaypoints,   *)
(* RequestTask ...) calls CallService with its own service name; they     *)
(* differ only in the arguments and the decoding of the result.            *)
Register(k) == \E s \in Services : RegisterCall(k, s)

(* c.send of the call_service frame; it fails when the link is down, and   *)
(* the call returns the error (the deferred delete still runs).            *)
(* Mutant: the send error returns before the deferred delete is set up.    *)
SendCallNoDefer(k) ==
    /\ pc[k] = "send"
    /\ \/ /\ inFlight' = inFlight \cup {[id |-> cid[k], from |-> k]}
          /\ pc' = [pc EXCEPT ![k] = "wait"]
       \/ /\ pc' = [pc EXCEPT ![k] = "done"]
          /\ UNCHANGED inFlight
    /\ UNCHANGED <<now, cid, pending, buf, result, rl>>

SendCall(k) ==
    /\ pc[k] = "send"
    /\ \/ /\ inFlight' = inFlight \cup {[id |-> cid[k], from |-> k]}
          /\ pc' = [pc EXCEPT ![k] = "wait"]
       \/ /\ pc' = [pc EXCEPT ![k] = "ret"]
          /\ UNCHANGED inFlight
    /\ UNCHANGED <<now, cid, pending, buf, result, rl>>

(* select: a message in the channel.                                       *)
Receive(k) ==
    /\ pc[k] = "wait"
    /\ buf[k] # None
    /\ result' = [result EXCEPT ![k] = buf[k]]
    /\ buf' = [buf EXCEPT ![k] = None]
    /\ pc' = [pc EXCEPT ![k] = "ret"]
    /\ UNCHANGED <<now, cid, pending, inFlight, rl>>

(* select: time.After(timeout) fires.                                      *)
Timeout(k) ==
    /\ pc[k] = "wait"
    /\ pc' = [pc EXCEPT ![k] = "ret"]
    /\ UNCHANGED <<now, cid, pending, inFlight, buf, result, rl>>

(* The deferred delete(c.svcPending, id), under svcMu: whatever entry has  *)
(* the id, this call's or a later one's.                                   *)
DeleteEntry(k) ==
    /\ pc[k] = "ret"
    /\ pending' = [pending EXCEPT ![cid[k]] = None]
    /\ pc' = [pc EXCEPT ![k] = "done"]
    /\ UNCHANGED <<now, cid, inFlight, buf, result, rl>>

-----------------------------------------------------------------------------
(* Mutant: the lookup result is used without checking ok (a send on the  *)
(* nil channel of an unknown id).                                          *)
LookupResponseNoOk ==
    /\ rl.st = "idle"
    /\ \E r \in inFlight :
          /\ inFlight' = inFlight \ {r}
          /\ rl' = [st |-> "route", ch |-> pending[r.id], from |-> r.from]
    /\ UNCHANGED <<now, pc, cid, pending, buf, result>>

(* readLoop receives a service_response and handleServiceResponse looks   *)
(* the id up under svcMu; an unknown id is dropped.                        *)
LookupResponse ==
    /\ rl.st = "idle"
    /\ \E r \in inFlight :
          /\ inFlight' = inFlight \ {r}
          /\ IF pending[r.id] = None
                THEN UNCHANGED rl
                ELSE rl' = [st |-> "route", ch |-> pending[r.id], from |-> r.from]
    /\ UNCHANGED <<now, pc, cid, pending, buf, result>>

(* ch <- raw, after svcMu is released: blocks while the slot is full.     *)
DeliverResponse ==
    /\ rl.st = "route"
    /\ buf[rl.ch] = None
    /\ buf' = [buf EXCEPT ![rl.ch] = rl.from]
    /\ rl' = [st |-> "idle", ch |-> None, from |-> None]
    /\ UNCHANGED <<now, pc, cid, pending, inFlight, result>>

-----------------------------------------------------------------------------
Next ==
    \/ Tick
    \/ \E k \in Calls : Register(k) \/ SendCall(k) \/ Receive(k) \/ Timeout(k) \/ DeleteEntry(k)
    \/ LookupResponse
    \/ DeliverResponse

Spec == Init /\ [][Next]_vars

-----------------------------------------------------------------------------
(* Types of the calls, the pending table, the channels and the readLoop.   *)
TypeOK ==
    /\ now \in 0..MaxMs
    /\ pc \in [Calls -> CallStates]
    /\ cid \in [Calls -> Ids]
    /\ pending \in [Ids -> Calls \cup {None}]
    /\ inFlight \subseteq Responses
    /\ buf \in [Calls -> Calls \cup {None}]
    /\ result \in [Calls -> Calls \cup {None}]
    /\ rl \in RLStates

(* Spec 3 (PendingServiceCalls): no entry outlives its call; every entry  *)
(* of c.svcPending belongs to a call that has not returned (the deferred  *)
(* delete runs on every exit path of CallService).                         *)
NoEntryOutlivesCall ==
    \A i \in Ids : pending[i] # None => pc[pending[i]] \in {"send", "wait", "ret"}

(* Spec 4.1: a call returns the response to its own request, never another *)
(* call's (the correlation id identifies the call).                        *)
ResponseRouted ==
    \A k \in Calls : result[k] \in {k, None}

(* Spec 5: the read task only routes and returns; it never blocks on the   *)
(* channel of a call that has already returned.                            *)
ReadLoopNeverStuck ==
    ~(/\ rl.st = "route"
      /\ buf[rl.ch] # None
      /\ pc[rl.ch] \in {"ret", "done"})


(* A call's phase as the table sees it: not started, between registering  *)
(* and its deferred delete, or returned.                                   *)
Phase(k) == IF pc[k] = "idle" THEN "idle"
            ELSE IF pc[k] = "done" THEN "returned"
            ELSE "active"

(* The table of spec 3 read off c.svcPending: the calls named by an entry. *)
Table == INSTANCE PendingCalls WITH
    status <- [k \in Calls |-> Phase(k)],
    owners <- {pending[i] : i \in Ids} \ {None}

(* Spec 3 and 4.1: registering under svcMu and the deferred delete on every *)
(* exit path of CallService refine the per-call table: an entry exists     *)
(* only from a call's registration to its return, and only a take-over of  *)
(* a colliding id changes another call's entry.                            *)
TableRefined == Table!Spec
=============================================================================
