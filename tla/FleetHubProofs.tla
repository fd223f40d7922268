---------------------------- MODULE FleetHubProofs ----------------------------
(***************************************************************************)
(* Proofs about the registry and hub model, for every value of the         *)
(* constants: types, NoSendOnClosedChannel, CurrentSelectionValid, and    *)
(* the refinements of FleetRegistry and BroadcastHub.                      *)
(*                                                                         *)
(* NoSendOnClosedChannel is not inductive alone.  It holds because a       *)
(* broadcaster only holds channels from the snapshot it took while holding *)
(* the read lock, the subscriber map changes only under the write lock     *)
(* (so never while a broadcast runs), and a channel is closed only after   *)
(* its delete (HubInv).  The registry refinement needs that every         *)
(* registered id is below nextID, so a new id is never registered (IdInv). *)
(***************************************************************************)
EXTENDS FleetHub, TLAPS

(* A broadcaster holds channels only while active, and only subscribed     *)
(* ones; membership in the map and closing follow the bridge life cycle.   *)
HubInv ==
    /\ \A s \in Sources : bc[s].left \subseteq subs
    /\ \A s \in Sources : ~bc[s].active => bc[s].left = {}
    /\ \A c \in Bridges : c \in subs <=> ws[c] \in {"live", "done"}
    /\ \A c \in Bridges : c \in chClosed <=> ws[c] = "closed"

(* Registered ids were all allocated before nextID.                        *)
IdInv == \A r \in robots : r < nextID

IInv == TypeOK /\ HubInv /\ IdInv /\ CurrentSelectionValid

-----------------------------------------------------------------------------
LEMMA InitFleetIInv == Init => IInv
  <1> SUFFICES ASSUME Init PROVE IInv
    OBVIOUS
  <1> USE FleetAssumption DEF Init, Ids, NoID, Sources
  <1>1. TypeOK
    BY DEF TypeOK, BridgeStates, WriterStates
  <1>2. HubInv
    BY DEF HubInv
  <1>3. IdInv
    BY DEF IdInv
  <1>4. CurrentSelectionValid
    BY DEF CurrentSelectionValid
  <1>6. QED
    BY <1>1, <1>2, <1>3, <1>4 DEF IInv

(* One lemma per action of Next, one step per conjunct of IInv.        *)
(* IInv is preserved by AddRobot. *)
LEMMA AddRobotIInv ==
  ASSUME IInv, NEW e \in Endpoints, AddRobot(e)
  PROVE  IInv'
  <1> USE FleetAssumption DEF IInv, Ids, NoID, Sources
  <1>1. TypeOK'
    BY DEF AddRobot, StartBroadcast, RegistryLocked, WriterWaiting, bridgeVars, TypeOK, BridgeStates, WriterStates
  <1>2. HubInv'
    BY DEF AddRobot, StartBroadcast, RegistryLocked, WriterWaiting, bridgeVars, HubInv, TypeOK
  <1>3. IdInv'
    BY DEF AddRobot, StartBroadcast, RegistryLocked, WriterWaiting, bridgeVars, IdInv, TypeOK
  <1>4. CurrentSelectionValid'
    BY DEF AddRobot, StartBroadcast, RegistryLocked, WriterWaiting, bridgeVars, CurrentSelectionValid, TypeOK, IdInv
  <1>6. QED
    BY <1>1, <1>2, <1>3, <1>4

(* IInv is preserved by RemoveRobot. *)
LEMMA RemoveRobotIInv ==
  ASSUME IInv, NEW id \in Ids, RemoveRobot(id)
  PROVE  IInv'
  <1> USE FleetAssumption DEF IInv, Ids, NoID, Sources
  <1>1. TypeOK'
    BY DEF RemoveRobot, ReassignCurrent, StartBroadcast, RegistryLocked, WriterWaiting, bridgeVars, TypeOK, BridgeStates, WriterStates
  <1>2. HubInv'
    BY DEF RemoveRobot, ReassignCurrent, StartBroadcast, RegistryLocked, WriterWaiting, bridgeVars, HubInv, TypeOK
  <1>3. IdInv'
    BY DEF RemoveRobot, ReassignCurrent, StartBroadcast, RegistryLocked, WriterWaiting, bridgeVars, IdInv, TypeOK
  <1>4. CurrentSelectionValid'
    BY DEF RemoveRobot, ReassignCurrent, StartBroadcast, RegistryLocked, WriterWaiting, bridgeVars, CurrentSelectionValid, TypeOK, IdInv
  <1>6. QED
    BY <1>1, <1>2, <1>3, <1>4

(* IInv is preserved by SwitchRobot. *)
LEMMA SwitchRobotIInv ==
  ASSUME IInv, NEW id \in Ids, SwitchRobot(id)
  PROVE  IInv'
  <1> USE FleetAssumption DEF IInv, Ids, NoID, Sources
  <1>1. TypeOK'
    BY DEF SwitchRobot, StartBroadcast, RegistryLocked, WriterWaiting, bridgeVars, TypeOK, BridgeStates, WriterStates
  <1>2. HubInv'
    BY DEF SwitchRobot, StartBroadcast, RegistryLocked, WriterWaiting, bridgeVars, HubInv, TypeOK
  <1>3. IdInv'
    BY DEF SwitchRobot, StartBroadcast, RegistryLocked, WriterWaiting, bridgeVars, IdInv, TypeOK
  <1>4. CurrentSelectionValid'
    BY DEF SwitchRobot, StartBroadcast, RegistryLocked, WriterWaiting, bridgeVars, CurrentSelectionValid, TypeOK, IdInv
  <1>6. QED
    BY <1>1, <1>2, <1>3, <1>4

(* IInv is preserved by ClearAll. *)
LEMMA ClearAllIInv ==
  ASSUME IInv, ClearAll
  PROVE  IInv'
  <1> USE FleetAssumption DEF IInv, Ids, NoID, Sources
  <1>1. TypeOK'
    BY DEF ClearAll, RegistryLocked, hubVars, bridgeVars, TypeOK, BridgeStates, WriterStates
  <1>2. HubInv'
    BY DEF ClearAll, RegistryLocked, hubVars, bridgeVars, HubInv, TypeOK
  <1>3. IdInv'
    BY DEF ClearAll, RegistryLocked, hubVars, bridgeVars, IdInv, TypeOK
  <1>4. CurrentSelectionValid'
    BY DEF ClearAll, RegistryLocked, hubVars, bridgeVars, CurrentSelectionValid, TypeOK, IdInv
  <1>6. QED
    BY <1>1, <1>2, <1>3, <1>4

(* IInv is preserved by a telemetry broadcast. *)
LEMMA TelemetryIInv ==
  ASSUME IInv, TelemetryBroadcast
  PROVE  IInv'
  <1> USE FleetAssumption DEF IInv, Ids, NoID, Sources
  <1>1. TypeOK'
    BY DEF TelemetryBroadcast, StartBroadcast, WriterWaiting, regVars, bridgeVars, TypeOK, BridgeStates, WriterStates
  <1>2. HubInv'
    BY DEF TelemetryBroadcast, StartBroadcast, WriterWaiting, regVars, bridgeVars, HubInv, TypeOK
  <1>3. IdInv'
    BY DEF TelemetryBroadcast, StartBroadcast, WriterWaiting, regVars, bridgeVars, IdInv, TypeOK
  <1>4. CurrentSelectionValid'
    BY DEF TelemetryBroadcast, StartBroadcast, WriterWaiting, regVars, bridgeVars, CurrentSelectionValid, TypeOK, IdInv
  <1>6. QED
    BY <1>1, <1>2, <1>3, <1>4

(* IInv is preserved by one offer of a broadcast. *)
LEMMA OfferIInv ==
  ASSUME IInv, NEW s \in Sources, NEW c \in Bridges, Offer(s, c)
  PROVE  IInv'
  <1> USE FleetAssumption DEF IInv, Ids, NoID, Sources
  <1>1. TypeOK'
    <2>1. fill' \in [Bridges -> 0..BufCap]
      BY DEF Offer, TypeOK
    <2>2. bc' \in [Sources -> [active : BOOLEAN, left : SUBSET Bridges]]
      BY DEF Offer, TypeOK
    <2>3. QED
      BY <2>1, <2>2 DEF Offer, TypeOK, regVars, bridgeVars
  <1>2. HubInv'
    BY DEF Offer, regVars, bridgeVars, HubInv, TypeOK
  <1>3. IdInv'
    BY DEF Offer, regVars, bridgeVars, IdInv, TypeOK
  <1>4. CurrentSelectionValid'
    BY DEF Offer, regVars, bridgeVars, CurrentSelectionValid, TypeOK, IdInv
  <1>6. QED
    BY <1>1, <1>2, <1>3, <1>4

(* IInv is preserved by the end of a broadcast. *)
LEMMA EndBroadcastIInv ==
  ASSUME IInv, NEW s \in Sources, EndBroadcast(s)
  PROVE  IInv'
  <1> USE FleetAssumption DEF IInv, Ids, NoID, Sources
  <1>1. TypeOK'
    BY DEF EndBroadcast, regVars, bridgeVars, TypeOK, BridgeStates, WriterStates
  <1>2. HubInv'
    BY DEF EndBroadcast, regVars, bridgeVars, HubInv, TypeOK
  <1>3. IdInv'
    BY DEF EndBroadcast, regVars, bridgeVars, IdInv, TypeOK
  <1>4. CurrentSelectionValid'
    BY DEF EndBroadcast, regVars, bridgeVars, CurrentSelectionValid, TypeOK, IdInv
  <1>6. QED
    BY <1>1, <1>2, <1>3, <1>4

(* IInv is preserved by a WebSocket upgrade. *)
LEMMA UpgradeIInv ==
  ASSUME IInv, NEW c \in Bridges, Upgrade(c)
  PROVE  IInv'
  <1> USE FleetAssumption DEF IInv, Ids, NoID, Sources
  <1>1. TypeOK'
    BY DEF Upgrade, regVars, hubVars, TypeOK, BridgeStates, WriterStates
  <1>2. HubInv'
    BY DEF Upgrade, regVars, hubVars, HubInv, TypeOK
  <1>3. IdInv'
    BY DEF Upgrade, regVars, hubVars, IdInv, TypeOK
  <1>4. CurrentSelectionValid'
    BY DEF Upgrade, regVars, hubVars, CurrentSelectionValid, TypeOK, IdInv
  <1>6. QED
    BY <1>1, <1>2, <1>3, <1>4

(* IInv is preserved by Subscribe. *)
LEMMA SubscribeIInv ==
  ASSUME IInv, NEW c \in Bridges, Subscribe(c)
  PROVE  IInv'
  <1> USE FleetAssumption DEF IInv, Ids, NoID, Sources
  <1>1. TypeOK'
    BY DEF Subscribe, regVars, TypeOK, BridgeStates, WriterStates
  <1>2. HubInv'
    BY DEF Subscribe, regVars, HubInv, TypeOK
  <1>3. IdInv'
    BY DEF Subscribe, regVars, IdInv, TypeOK
  <1>4. CurrentSelectionValid'
    BY DEF Subscribe, regVars, CurrentSelectionValid, TypeOK, IdInv
  <1>6. QED
    BY <1>1, <1>2, <1>3, <1>4

(* IInv is preserved by the writer forwarding a message. *)
LEMMA WriterForwardIInv ==
  ASSUME IInv, NEW c \in Bridges, WriterForward(c)
  PROVE  IInv'
  <1> USE FleetAssumption DEF IInv, Ids, NoID, Sources
  <1>1. TypeOK'
    BY DEF WriterForward, regVars, bridgeVars, TypeOK, BridgeStates, WriterStates
  <1>2. HubInv'
    BY DEF WriterForward, regVars, bridgeVars, HubInv, TypeOK
  <1>3. IdInv'
    BY DEF WriterForward, regVars, bridgeVars, IdInv, TypeOK
  <1>4. CurrentSelectionValid'
    BY DEF WriterForward, regVars, bridgeVars, CurrentSelectionValid, TypeOK, IdInv
  <1>6. QED
    BY <1>1, <1>2, <1>3, <1>4

(* IInv is preserved by the writer returning. *)
LEMMA WriterReturnIInv ==
  ASSUME IInv, NEW c \in Bridges, WriterReturn(c)
  PROVE  IInv'
  <1> USE FleetAssumption DEF IInv, Ids, NoID, Sources
  <1>1. TypeOK'
    BY DEF WriterReturn, regVars, hubVars, TypeOK, BridgeStates, WriterStates
  <1>2. HubInv'
    BY DEF WriterReturn, regVars, hubVars, HubInv, TypeOK
  <1>3. IdInv'
    BY DEF WriterReturn, regVars, hubVars, IdInv, TypeOK
  <1>4. CurrentSelectionValid'
    BY DEF WriterReturn, regVars, hubVars, CurrentSelectionValid, TypeOK, IdInv
  <1>6. QED
    BY <1>1, <1>2, <1>3, <1>4

(* IInv is preserved by a failed write. *)
LEMMA WriterFailsIInv ==
  ASSUME IInv, NEW c \in Bridges, WriterFails(c)
  PROVE  IInv'
  <1> USE FleetAssumption DEF IInv, Ids, NoID, Sources
  <1>1. TypeOK'
    BY DEF WriterFails, CloseDone, regVars, TypeOK, BridgeStates, WriterStates
  <1>2. HubInv'
    BY DEF WriterFails, CloseDone, regVars, HubInv, TypeOK
  <1>3. IdInv'
    BY DEF WriterFails, CloseDone, regVars, IdInv, TypeOK
  <1>4. CurrentSelectionValid'
    BY DEF WriterFails, CloseDone, regVars, CurrentSelectionValid, TypeOK, IdInv
  <1>6. QED
    BY <1>1, <1>2, <1>3, <1>4

(* IInv is preserved by a failed read. *)
LEMMA ReaderFailsIInv ==
  ASSUME IInv, NEW c \in Bridges, ReaderFails(c)
  PROVE  IInv'
  <1> USE FleetAssumption DEF IInv, Ids, NoID, Sources
  <1>1. TypeOK'
    BY DEF ReaderFails, CloseDone, regVars, hubVars, TypeOK, BridgeStates, WriterStates
  <1>2. HubInv'
    BY DEF ReaderFails, CloseDone, regVars, hubVars, HubInv, TypeOK
  <1>3. IdInv'
    BY DEF ReaderFails, CloseDone, regVars, hubVars, IdInv, TypeOK
  <1>4. CurrentSelectionValid'
    BY DEF ReaderFails, CloseDone, regVars, hubVars, CurrentSelectionValid, TypeOK, IdInv
  <1>6. QED
    BY <1>1, <1>2, <1>3, <1>4

(* IInv is preserved by Unsubscribe's delete. *)
LEMMA UnsubDeleteIInv ==
  ASSUME IInv, NEW c \in Bridges, UnsubDelete(c)
  PROVE  IInv'
  <1> USE FleetAssumption DEF IInv, Ids, NoID, Sources
  <1>1. TypeOK'
    BY DEF UnsubDelete, regVars, TypeOK, BridgeStates, WriterStates
  <1>2. HubInv'
    BY DEF UnsubDelete, regVars, HubInv, TypeOK
  <1>3. IdInv'
    BY DEF UnsubDelete, regVars, IdInv, TypeOK
  <1>4. CurrentSelectionValid'
    BY DEF UnsubDelete, regVars, CurrentSelectionValid, TypeOK, IdInv
  <1>6. QED
    BY <1>1, <1>2, <1>3, <1>4

(* IInv is preserved by Unsubscribe's close. *)
LEMMA UnsubCloseIInv ==
  ASSUME IInv, NEW c \in Bridges, UnsubClose(c)
  PROVE  IInv'
  <1> USE FleetAssumption DEF IInv, Ids, NoID, Sources
  <1>1. TypeOK'
    BY DEF UnsubClose, regVars, TypeOK, BridgeStates, WriterStates
  <1>2. HubInv'
    BY DEF UnsubClose, regVars, HubInv, TypeOK
  <1>3. IdInv'
    BY DEF UnsubClose, regVars, IdInv, TypeOK
  <1>4. CurrentSelectionValid'
    BY DEF UnsubClose, regVars, CurrentSelectionValid, TypeOK, IdInv
  <1>6. QED
    BY <1>1, <1>2, <1>3, <1>4

(* IInv is preserved by a stuttering step. *)
LEMMA StutterFleetIInv ==
  ASSUME IInv, UNCHANGED vars
  PROVE  IInv'
  <1> USE FleetAssumption DEF IInv, Ids, NoID, Sources
  <1>1. TypeOK'
    BY DEF vars, regVars, hubVars, bridgeVars, TypeOK, BridgeStates, WriterStates
  <1>2. HubInv'
    BY DEF vars, regVars, hubVars, bridgeVars, HubInv, TypeOK
  <1>3. IdInv'
    BY DEF vars, regVars, hubVars, bridgeVars, IdInv, TypeOK
  <1>4. CurrentSelectionValid'
    BY DEF vars, regVars, hubVars, bridgeVars, CurrentSelectionValid, TypeOK, IdInv
  <1>6. QED
    BY <1>1, <1>2, <1>3, <1>4

LEMMA NextFleetIInv == IInv /\ [Next]_vars => IInv'
  <1> SUFFICES ASSUME IInv, [Next]_vars PROVE IInv'
    OBVIOUS
  <1> QED
    BY AddRobotIInv, RemoveRobotIInv, SwitchRobotIInv, ClearAllIInv, TelemetryIInv,
       OfferIInv, EndBroadcastIInv, UpgradeIInv, SubscribeIInv, WriterForwardIInv,
       WriterReturnIInv, WriterFailsIInv, ReaderFailsIInv, UnsubDeleteIInv,
       UnsubCloseIInv, StutterFleetIInv
       DEF Next, AddRobotRequest, RemoveRobotRequest, SwitchRobotRequest

LEMMA SpecFleetIInv == Spec => []IInv
  BY InitFleetIInv, NextFleetIInv, PTL DEF Spec

-----------------------------------------------------------------------------
(* Broadcast never sends on a closed channel, for any number of bridges    *)
(* and any channel capacity: Unsubscribe's delete under the write lock     *)
(* comes before its close (Manager.Unsubscribe, Manager.Broadcast).        *)
THEOREM NoSendOnClosed == Spec => []NoSendOnClosedChannel
  <1>1. IInv => NoSendOnClosedChannel
    BY DEF IInv, HubInv, NoSendOnClosedChannel, TypeOK
  <1>2. QED
    BY SpecFleetIInv, <1>1, PTL

(* The current selection is empty exactly when the registry is and else    *)
(* names a registered robot (AddRobot, RemoveRobot, SwitchRobot, ClearAll).*)
THEOREM SelectionValid == Spec => []CurrentSelectionValid
  BY SpecFleetIInv, PTL DEF IInv

(* Every variable of the registry, hub and bridges keeps its type in every *)
(* reachable state, for any MaxRobots, channel capacity and set of bridges. *)
THEOREM FleetTypeCorrect == Spec => []TypeOK
  BY SpecFleetIInv, PTL DEF IInv

-----------------------------------------------------------------------------
(* The refinement mapping: the registry of spec 4.3 read off Manager's     *)
(* state.  absVars is the tuple of the abstract variables under it.        *)
absVars == <<[i \in robots |-> ep[i]], currentID, 1..(nextID - 1)>>

(* An accepted AddRobot is the abstract Add of the same ip:port, with the  *)
(* id nextID: fresh because every registered id is below it (IdInv).       *)
LEMMA AddRobotRefines ==
  ASSUME IInv, NEW e \in Endpoints, AddRobot(e)
  PROVE  Registry!Add(e)
  <1> USE FleetAssumption DEF IInv, Ids, NoID
  <1>1. e \notin Registry!Registered
    BY DEF AddRobot, Registry!Registered
  <1>2. nextID \in Registry!Ids \ (1..(nextID - 1))
    BY DEF AddRobot, Registry!Ids, TypeOK
  <1>3. \A u \in 1..(nextID - 1) : u < nextID
    BY DEF TypeOK
  <1>4. [i \in robots' |-> ep'[i]]
          = [i \in robots \cup {nextID} |->
               IF i = nextID THEN e ELSE [j \in robots |-> ep[j]][i]]
    BY DEF AddRobot, TypeOK, IdInv
  <1>5. 1..(nextID' - 1) = (1..(nextID - 1)) \cup {nextID}
    BY DEF AddRobot, TypeOK
  <1>6. currentID' = IF currentID = NoID THEN nextID ELSE currentID
    BY DEF AddRobot
  <1>7. QED
    BY <1>1, <1>2, <1>3, <1>4, <1>5, <1>6 DEF Registry!Add

(* An accepted RemoveRobot is the abstract Remove: ReassignCurrent keeps  *)
(* another robot's selection, clears it with the last robot, or picks a    *)
(* remaining one.                                                          *)
LEMMA RemoveRobotRefines ==
  ASSUME IInv, NEW id \in Ids, RemoveRobot(id)
  PROVE  Registry!Remove(id)
  <1> USE FleetAssumption DEF IInv, Ids, NoID
  <1>1. [i \in robots' |-> ep'[i]] = [i \in robots \ {id} |-> [j \in robots |-> ep[j]][i]]
    BY DEF RemoveRobot
  <1>2. \/ currentID # id /\ currentID' = currentID
        \/ currentID = id /\ robots' = {} /\ currentID' = NoID
        \/ currentID = id /\ currentID' \in robots'
    BY DEF RemoveRobot, ReassignCurrent
  <1>3. nextID' = nextID
    BY DEF RemoveRobot
  <1>4. QED
    BY <1>1, <1>2, <1>3 DEF RemoveRobot, Registry!Remove

(* An accepted SwitchRobot is the abstract Switch.                          *)
LEMMA SwitchRobotRefines ==
  ASSUME IInv, NEW id \in Ids, SwitchRobot(id)
  PROVE  Registry!Switch(id)
  BY DEF SwitchRobot, Registry!Switch

(* ClearAll is the abstract Clear: both registries end empty.              *)
LEMMA ClearAllRefines ==
  ASSUME IInv, ClearAll
  PROVE  Registry!Clear
  <1>1. [i \in robots' |-> ep'[i]] = [i \in {} |-> NoID]
    BY DEF ClearAll
  <1>2. QED
    BY <1>1 DEF ClearAll, Registry!Clear

(* Every step of Next is a registry step or leaves absVars unchanged.      *)
LEMMA NextRefines == IInv /\ [Next]_vars => [Registry!Next]_absVars
  <1> SUFFICES ASSUME IInv, [Next]_vars PROVE [Registry!Next]_absVars
    OBVIOUS
  <1>1. CASE AddRobotRequest
    BY <1>1, AddRobotRefines DEF AddRobotRequest, Registry!Next
  <1>2. CASE RemoveRobotRequest
    BY <1>2, RemoveRobotRefines DEF RemoveRobotRequest, Registry!Next, Ids, Registry!Ids
  <1>3. CASE SwitchRobotRequest
    BY <1>3, SwitchRobotRefines DEF SwitchRobotRequest, Registry!Next, Ids, Registry!Ids
  <1>4. CASE ClearAll
    BY <1>4, ClearAllRefines DEF Registry!Next
  <1>5. CASE ~AddRobotRequest /\ ~RemoveRobotRequest /\ ~SwitchRobotRequest /\ ~ClearAll
    <2>1. UNCHANGED regVars
      BY <1>5 DEF Next, vars, TelemetryBroadcast, EndBroadcast, Offer, Upgrade, Subscribe,
                  WriterForward, WriterReturn, WriterFails, ReaderFails, UnsubDelete, UnsubClose
    <2>2. QED
      BY <2>1 DEF regVars, absVars
  <1>6. QED
    BY <1>1, <1>2, <1>3, <1>4, <1>5

(* Manager implements the registry of spec 4.3: AddRobot's duplicate check *)
(* and nextID allocation, RemoveRobot's reassignment, SwitchRobot and      *)
(* ClearAll, each split between m.mu and the broadcast, refine the atomic  *)
(* operations, for every MaxRobots, set of endpoints and of bridges.       *)
THEOREM RegistryImplemented == Spec => RegistryRefined
  <1>1. Init => Registry!Init
    BY DEF Init, Registry!Init, NoID
  <1>2. QED
    BY <1>1, NextRefines, SpecFleetIInv, PTL DEF Spec, RegistryRefined, Registry!Spec, Registry!rvars, absVars

-----------------------------------------------------------------------------
(* The second refinement mapping: the hub of spec 4.4 read off the         *)
(* subscriber map, the closed channels and the bridges' life cycle.        *)
HubClosed == chClosed \cup {c \in Bridges : ws[c] = "unsub"}

hubAbs == <<subs, HubClosed, fill>>

(* One Broadcast offer is the abstract Deliver: the channel it offers to   *)
(* is still subscribed, because the map only changes under the write lock. *)
LEMMA OfferRefines ==
  ASSUME IInv, NEW s \in Sources, NEW c \in Bridges, Offer(s, c)
  PROVE  Hub!Deliver(c)
  <1>1. c \in subs
    BY DEF Offer, IInv, HubInv
  <1>2. HubClosed' = HubClosed
    BY DEF Offer, bridgeVars, HubClosed
  <1>3. QED
    BY <1>1, <1>2 DEF Offer, Hub!Deliver, HubClosed

(* The writer forwarding a message is the abstract Receive.                *)
LEMMA WriterForwardRefines ==
  ASSUME IInv, NEW c \in Bridges, WriterForward(c)
  PROVE  Hub!Receive(c)
  BY DEF WriterForward, bridgeVars, Hub!Receive, HubClosed

(* A failing write also takes one message; its close(done) turns live     *)
(* into done and leaves every unsub bridge as it is.                       *)
LEMMA WriterFailsRefines ==
  ASSUME IInv, NEW c \in Bridges, WriterFails(c)
  PROVE  Hub!Receive(c)
  <1>1. \A d \in Bridges : ws'[d] = "unsub" <=> ws[d] = "unsub"
    BY DEF WriterFails, CloseDone, IInv, TypeOK
  <1>2. HubClosed' = HubClosed
    BY <1>1 DEF WriterFails, HubClosed
  <1>3. QED
    BY <1>2 DEF WriterFails, Hub!Receive, HubClosed

(* Subscribe registers a channel that was neither subscribed nor closed:   *)
(* an upgraded bridge has not reached cleanup.                             *)
LEMMA SubscribeRefines ==
  ASSUME IInv, NEW c \in Bridges, Subscribe(c)
  PROVE  Hub!Subscribe(c)
  <1>1. c \notin subs \cup HubClosed
    BY DEF Subscribe, IInv, HubInv, HubClosed
  <1>2. \A d \in Bridges : ws'[d] = "unsub" <=> ws[d] = "unsub"
    BY DEF Subscribe, IInv, TypeOK
  <1>3. HubClosed' = HubClosed
    BY <1>2 DEF Subscribe, HubClosed
  <1>4. QED
    BY <1>1, <1>3 DEF Subscribe, Hub!Subscribe, HubClosed

(* Unsubscribe's delete is the abstract Unsubscribe: the channel was       *)
(* subscribed (its bridge is done), and it leaves the map and counts as    *)
(* closed in the same step.                                                *)
LEMMA UnsubDeleteRefines ==
  ASSUME IInv, NEW c \in Bridges, UnsubDelete(c)
  PROVE  Hub!Unsubscribe(c)
  <1>1. c \in subs
    BY DEF UnsubDelete, IInv, HubInv
  <1>2. HubClosed' = HubClosed \cup {c}
    BY DEF UnsubDelete, IInv, TypeOK, HubClosed
  <1>3. QED
    BY <1>1, <1>2 DEF UnsubDelete, Hub!Unsubscribe, HubClosed

(* The close after the unlock moves the channel from unsub to closed: the  *)
(* abstract hub does not change.                                           *)
LEMMA UnsubCloseStutters ==
  ASSUME IInv, NEW c \in Bridges, UnsubClose(c)
  PROVE  UNCHANGED hubAbs
  <1>1. HubClosed' = HubClosed
    BY DEF UnsubClose, IInv, TypeOK, HubClosed
  <1>2. QED
    BY <1>1 DEF UnsubClose, hubAbs

(* Every other step leaves the subscriber map, the channels, their fill    *)
(* and the unsub/closed bridges alone.                                     *)
LEMMA OtherStepsStutter ==
  ASSUME IInv, [Next]_vars,
         ~\E s \in Sources, c \in Bridges : Offer(s, c),
         ~\E c \in Bridges : \/ WriterForward(c) \/ WriterFails(c) \/ Subscribe(c)
                             \/ UnsubDelete(c) \/ UnsubClose(c)
  PROVE  UNCHANGED hubAbs
  <1>1. CASE UNCHANGED vars
    BY <1>1 DEF vars, hubVars, bridgeVars, hubAbs, HubClosed
  <1>2. CASE AddRobotRequest \/ RemoveRobotRequest \/ SwitchRobotRequest \/ ClearAll
          \/ TelemetryBroadcast \/ \E s \in Sources : EndBroadcast(s)
    <2>1. UNCHANGED <<subs, fill, chClosed, ws>>
      BY <1>2 DEF AddRobotRequest, RemoveRobotRequest, SwitchRobotRequest, AddRobot,
                  RemoveRobot, SwitchRobot, ClearAll, TelemetryBroadcast, EndBroadcast,
                  hubVars, bridgeVars
    <2>2. QED
      BY <2>1 DEF hubAbs, HubClosed
  <1>3. ASSUME NEW c \in Bridges, Upgrade(c) \/ WriterReturn(c) \/ ReaderFails(c)
        PROVE  UNCHANGED hubAbs
    <2>1. UNCHANGED <<subs, fill, chClosed>>
      BY <1>3 DEF Upgrade, WriterReturn, ReaderFails, hubVars
    <2>2. \A d \in Bridges : ws'[d] = "unsub" <=> ws[d] = "unsub"
      BY <1>3 DEF Upgrade, WriterReturn, ReaderFails, CloseDone, IInv, TypeOK
    <2>3. QED
      BY <2>1, <2>2 DEF hubAbs, HubClosed
  <1>4. QED
    BY <1>1, <1>2, <1>3 DEF Next

(* Every step of Next is a hub step or leaves hubAbs unchanged.            *)
LEMMA NextHubRefines == IInv /\ [Next]_vars => [Hub!Next]_hubAbs
  <1> SUFFICES ASSUME IInv, [Next]_vars PROVE [Hub!Next]_hubAbs
    OBVIOUS
  <1>1. ASSUME NEW s \in Sources, NEW c \in Bridges, Offer(s, c) PROVE Hub!Next
    BY <1>1, OfferRefines DEF Hub!Next
  <1>2. ASSUME NEW c \in Bridges, WriterForward(c) PROVE Hub!Next
    BY <1>2, WriterForwardRefines DEF Hub!Next
  <1>3. ASSUME NEW c \in Bridges, WriterFails(c) PROVE Hub!Next
    BY <1>3, WriterFailsRefines DEF Hub!Next
  <1>4. ASSUME NEW c \in Bridges, Subscribe(c) PROVE Hub!Next
    BY <1>4, SubscribeRefines DEF Hub!Next
  <1>5. ASSUME NEW c \in Bridges, UnsubDelete(c) PROVE Hub!Next
    BY <1>5, UnsubDeleteRefines DEF Hub!Next
  <1>6. ASSUME NEW c \in Bridges, UnsubClose(c) PROVE UNCHANGED hubAbs
    BY <1>6, UnsubCloseStutters
  <1>7. QED
    BY <1>1, <1>2, <1>3, <1>4, <1>5, <1>6, OtherStepsStutter

(* The hub and the bridges implement the broadcast hub of spec 4.4 and     *)
(* 4.5: Broadcast delivers only to subscribed channels and drops on full,  *)
(* Subscribe registers a channel never registered or closed, and the two   *)
(* cleanups (closeOnce, delete under broadcastMu, close after it)          *)
(* deregister and close a channel exactly once, for every set of bridges   *)
(* and every capacity.                                                     *)
THEOREM HubImplemented == Spec => HubRefined
  <1>1. Init => Hub!Init
    BY DEF Init, Hub!Init, HubClosed
  <1>2. QED
    BY <1>1, NextHubRefines, SpecFleetIInv, PTL
       DEF Spec, HubRefined, Hub!Spec, Hub!hvars, hubAbs, HubClosed
=============================================================================
