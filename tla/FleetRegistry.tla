---------------------------- MODULE FleetRegistry ----------------------------
(***************************************************************************)
(* What the fleet registry promises (spec 4.3 and 8), with every operation *)
(* one atomic step and nothing of locks, broadcasts or links:              *)
(*   - AddRobot refuses an ip:port that is already registered, and gives   *)
(*     the new robot an id never used before and larger than every id     *)
(*     used so far; the first robot becomes the current selection;         *)
(*   - RemoveRobot of a registered id deletes it and, if it was current,   *)
(*     selects some remaining robot, or nothing when none remains;         *)
(*   - SwitchRobot selects a registered id;                                *)
(*   - ClearAll empties the registry and the selection.                    *)
(* Errors (duplicate, unknown id) change nothing and are stutters.        *)
(***************************************************************************)
EXTENDS Naturals

CONSTANTS
    MaxRobots,   \* ids are 1..MaxRobots
    Endpoints,   \* ip:port pairs
    NoID         \* "no robot selected"

VARIABLES
    reg,         \* reg[id]: the ip:port of registered robot id
    current,     \* the current selection
    used         \* every id allocated so far

rvars == <<reg, current, used>>

Ids == 1..MaxRobots

(* The ip:port pairs in use.                                               *)
Registered == {reg[i] : i \in DOMAIN reg}

Init ==
    /\ reg = [i \in {} |-> NoID]
    /\ current = NoID
    /\ used = {}

Add(e) ==
    /\ e \notin Registered
    /\ \E id \in Ids \ used :
         /\ \A u \in used : u < id
         /\ reg' = [i \in DOMAIN reg \cup {id} |-> IF i = id THEN e ELSE reg[i]]
         /\ used' = used \cup {id}
         /\ current' = IF current = NoID THEN id ELSE current

Remove(id) ==
    /\ id \in DOMAIN reg
    /\ reg' = [i \in DOMAIN reg \ {id} |-> reg[i]]
    /\ \/ current # id /\ current' = current
       \/ current = id /\ DOMAIN reg' = {} /\ current' = NoID
       \/ current = id /\ current' \in DOMAIN reg'
    /\ UNCHANGED used

Switch(id) ==
    /\ id \in DOMAIN reg
    /\ current' = id
    /\ UNCHANGED <<reg, used>>

Clear ==
    /\ reg' = [i \in {} |-> NoID]
    /\ current' = NoID
    /\ UNCHANGED used

Next ==
    \/ \E e \in Endpoints : Add(e)
    \/ \E id \in Ids : Remove(id) \/ Switch(id)
    \/ Clear

Spec == Init /\ [][Next]_rvars
=============================================================================
