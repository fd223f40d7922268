---------------------------- MODULE PendingCalls ----------------------------
(***************************************************************************)
(* The pending-call table of spec 3 and 4.1, per call: a call registers a  *)
(* response slot, and on every exit path (response, timeout, send error)   *)
(* returns and removes its entry, so no entry outlives its call.           *)
(*                                                                         *)
(* Ids are built from the service name and the millisecond, so a second   *)
(* call of one service in one millisecond takes over the first call's     *)
(* entry.  The table is therefore specified as the set of calls that own   *)
(* an entry, with this take-over allowed and nothing more:                 *)
(*   - Register gives the call an entry and displaces at most one other;   *)
(*   - Return removes the call's entry, or, when it was taken over, at     *)
(*     most the entry of the call that took it over.                       *)
(***************************************************************************)
CONSTANT Calls

VARIABLES
    status,      \* status[k]: "idle", "active" or "returned"
    owners       \* the calls that own an entry of the table

pvars == <<status, owners>>

Init ==
    /\ status = [k \in Calls |-> "idle"]
    /\ owners = {}

Register(k) ==
    /\ status[k] = "idle"
    /\ status' = [status EXCEPT ![k] = "active"]
    /\ \E d \in owners \cup {k} : owners' = (owners \ {d}) \cup {k}

Return(k) ==
    /\ status[k] = "active"
    /\ status' = [status EXCEPT ![k] = "returned"]
    /\ \/ k \in owners /\ owners' = owners \ {k}
       \/ k \notin owners /\ \E d \in owners \cup {k} : owners' = owners \ {d}

Next == \E k \in Calls : Register(k) \/ Return(k)

Spec == Init /\ [][Next]_pvars
=============================================================================
