------------------------------ MODULE FleetHub ------------------------------
(***************************************************************************)
(* The robot registry (robot.Manager, src/unnamed/part_002), its broadcast  *)
(* hub, and the subscription life cycle of the browser bridges that drain  *)
(* it (handlers.WSHandler, src/handlers/ws_handler.go).                    *)
(*                                                                         *)
(*   - Registry operations (AddRobot, RemoveRobot, SwitchRobot, ClearAll)  *)
(*     hold m.mu; the first three broadcast while still holding it.        *)
(*   - Broadcast holds broadcastMu.RLock and offers the message to one     *)
(*     subscriber channel at a time (non-blocking: a full channel drops    *)
(*     it).  Broadcasters run concurrently: the registry operation holding *)
(*     m.mu, and the robots' readLoops and connection callbacks, which     *)
(*     broadcast telemetry without m.mu ("tel").                           *)
(*   - Subscribe and the delete of Unsubscribe take broadcastMu.Lock, so   *)
(*     they wait until no broadcaster holds the read lock.                 *)
(*   - Each bridge c has a reader (the handler goroutine) and a writer     *)
(*     goroutine; either runs cleanup (once): close(done), Unsubscribe     *)
(*     (delete under the lock, then close the channel), conn.Close.        *)
(* Message payloads are abstracted away: a channel is its fill level.      *)
(***************************************************************************)
EXTENDS Naturals, FiniteSets

CONSTANTS
    MaxRobots,   \* bound on AddRobot calls (robot ids 1..MaxRobots, from m.nextID)
    Endpoints,   \* ip:port pairs the HTTP layer may submit
    Bridges,     \* browser WebSocket connections (one subscriber channel each)
    BufCap,      \* capacity of a subscriber channel (make(chan BroadcastMsg, 100))
    NoEp         \* the endpoint of an id never allocated

ASSUME FleetAssumption ==
    /\ MaxRobots \in Nat \ {0}
    /\ BufCap \in Nat \ {0}
    /\ Bridges # {}
    /\ NoEp \notin Endpoints

Ids == 1..MaxRobots
NoID == 0                      \* m.currentID == ""
Sources == {"reg", "tel"}     \* broadcasters: the m.mu holder, and telemetry/callbacks

BridgeStates == {"idle", "upg", "live", "done", "unsub", "closed"}
  \* idle: not upgraded yet; upg: upgraded, Subscribe waiting for the lock;
  \* live: subscribed; done: cleanup closed `done`;
  \* unsub: deleted from the subscriber map; closed: channel and socket closed.
WriterStates == {"none", "run", "exit"}

VARIABLES
    robots,      \* DOMAIN m.robots
    ep,          \* ep[id]: ip:port of robot id
    currentID,   \* m.currentID
    nextID,      \* m.nextID
    bc,          \* bc[s]: broadcaster s; active = holds the RLock, left = channels still to offer to
    subs,        \* DOMAIN m.subscribers
    fill,        \* fill[c]: messages buffered in bridge c's channel
    chClosed,    \* channels on which close() was called
    ws,          \* ws[c]: life cycle of bridge c
    wr           \* wr[c]: writer goroutine of bridge c

regVars == <<robots, ep, currentID, nextID>>
hubVars == <<bc, subs, fill, chClosed>>
bridgeVars == <<ws, wr>>
vars == <<regVars, hubVars, bridgeVars>>

-----------------------------------------------------------------------------
(* NewManager: empty registry, nextID = 1, no subscribers.                 *)
Init ==
    /\ robots = {}
    /\ ep = [i \in Ids |-> NoEp]
    /\ currentID = NoID
    /\ nextID = 1
    /\ bc = [s \in Sources |-> [active |-> FALSE, left |-> {}]]
    /\ subs = {}
    /\ fill = [c \in Bridges |-> 0]
    /\ chClosed = {}
    /\ ws = [c \in Bridges |-> "idle"]
    /\ wr = [c \in Bridges |-> "none"]

(* m.mu is held by a registry operation until its broadcast has finished.  *)
RegistryLocked == bc["reg"].active

(* A Subscribe or an Unsubscribe is blocked in broadcastMu.Lock; while one *)
(* is, sync.RWMutex makes new RLock calls wait.                            *)
WriterWaiting == \E c \in Bridges : ws[c] \in {"upg", "done"}

(* Broadcast entered: RLock taken; it will offer to every current channel. *)
StartBroadcast(s) ==
    /\ ~WriterWaiting
    /\ bc' = [bc EXCEPT ![s] = [active |-> TRUE, left |-> subs]]

-----------------------------------------------------------------------------
(* Mutant: m.nextID++ is missing, so the next AddRobot reuses the id.     *)
AddRobotNoIncrement(e) ==
    /\ ~RegistryLocked
    /\ nextID <= MaxRobots
    /\ \A r \in robots : ep[r] # e
    /\ robots' = robots \cup {nextID}
    /\ ep' = [ep EXCEPT ![nextID] = e]
    /\ nextID' = nextID
    /\ currentID' = IF currentID = NoID THEN nextID ELSE currentID
    /\ StartBroadcast("reg")
    /\ UNCHANGED <<subs, fill, chClosed, bridgeVars>>

(* AddRobot past its duplicate ip:port check (a duplicate returns an error *)
(* and changes nothing): allocate nextID, register, select it if nothing   *)
(* is selected, broadcast robot_added under m.mu.                          *)
AddRobot(e) ==
    /\ ~RegistryLocked
    /\ nextID <= MaxRobots
    /\ \A r \in robots : ep[r] # e
    /\ robots' = robots \cup {nextID}
    /\ ep' = [ep EXCEPT ![nextID] = e]
    /\ nextID' = nextID + 1
    /\ currentID' = IF currentID = NoID THEN nextID ELSE currentID
    /\ StartBroadcast("reg")
    /\ UNCHANGED <<subs, fill, chClosed, bridgeVars>>

(* RemoveRobot of a registered id: StopConnection, delete, and if it was   *)
(* current pick any remaining robot (map iteration order) or none;         *)
(* broadcast robot_removed under m.mu.                                     *)
(* Mutant: the current id is cleared but never reassigned.              *)
ReassignCurrentClearOnly(id) ==
    IF currentID = id THEN currentID' = NoID ELSE UNCHANGED currentID

ReassignCurrent(id) ==
    IF currentID = id
       THEN IF robots \ {id} = {} THEN currentID' = NoID
                                  ELSE \E k \in robots \ {id} : currentID' = k
       ELSE UNCHANGED currentID

RemoveRobot(id) ==
    /\ ~RegistryLocked
    /\ id \in robots
    /\ robots' = robots \ {id}
    /\ ReassignCurrent(id)
    /\ StartBroadcast("reg")
    /\ UNCHANGED <<ep, nextID, subs, fill, chClosed, bridgeVars>>

(* SwitchRobot of a registered id.                                         *)
SwitchRobot(id) ==
    /\ ~RegistryLocked
    /\ id \in robots
    /\ currentID' = id
    /\ StartBroadcast("reg")
    /\ UNCHANGED <<robots, ep, nextID, subs, fill, chClosed, bridgeVars>>

(* ClearAll (on SIGINT): stop every robot, empty the map and the selection; *)
(* no broadcast.                                                           *)
ClearAll ==
    /\ ~RegistryLocked
    /\ robots' = {}
    /\ currentID' = NoID
    /\ UNCHANGED <<ep, nextID, hubVars, bridgeVars>>

(* A robot's readLoop or connection callback calls Broadcast.              *)
TelemetryBroadcast ==
    /\ ~bc["tel"].active
    /\ StartBroadcast("tel")
    /\ UNCHANGED <<regVars, subs, fill, chClosed, bridgeVars>>

(* Mutant: the subscriber queue has no bound (messages pile up).        *)
OfferUnbounded(s, c) ==
    /\ c \in bc[s].left
    /\ fill' = [fill EXCEPT ![c] = @ + 1]
    /\ bc' = [bc EXCEPT ![s].left = @ \ {c}]
    /\ UNCHANGED <<regVars, subs, chClosed, bridgeVars>>

(* One iteration of Broadcast's loop: select { case ch <- msg: default: }. *)
Offer(s, c) ==
    /\ c \in bc[s].left
    /\ fill' = [fill EXCEPT ![c] = IF @ < BufCap THEN @ + 1 ELSE @]
    /\ bc' = [bc EXCEPT ![s].left = @ \ {c}]
    /\ UNCHANGED <<regVars, subs, chClosed, bridgeVars>>

(* The loop is over: RUnlock (and, for a registry operation, m.mu unlock). *)
EndBroadcast(s) ==
    /\ bc[s].active
    /\ bc[s].left = {}
    /\ bc' = [bc EXCEPT ![s].active = FALSE]
    /\ UNCHANGED <<regVars, subs, fill, chClosed, bridgeVars>>

-----------------------------------------------------------------------------
(* A browser opens the WebSocket; the upgrade succeeds.                   *)
Upgrade(c) ==
    /\ ws[c] = "idle"
    /\ ws' = [ws EXCEPT ![c] = "upg"]
    /\ UNCHANGED <<regVars, hubVars, wr>>

(* WSHandler after the upgrade: Subscribe (under broadcastMu.Lock), start  *)
(* the writer goroutine.                                                   *)
Subscribe(c) ==
    /\ ws[c] = "upg"
    /\ \A s \in Sources : ~bc[s].active
    /\ subs' = subs \cup {c}
    /\ ws' = [ws EXCEPT ![c] = "live"]
    /\ wr' = [wr EXCEPT ![c] = "run"]
    /\ UNCHANGED <<regVars, bc, fill, chClosed>>

(* Writer: receive a buffered message and write it to the browser.         *)
WriterForward(c) ==
    /\ wr[c] = "run"
    /\ fill[c] > 0
    /\ fill' = [fill EXCEPT ![c] = @ - 1]
    /\ UNCHANGED <<regVars, bc, subs, chClosed, bridgeVars>>

(* Writer: done is closed, or the channel is closed and drained: return.   *)
WriterReturn(c) ==
    /\ wr[c] = "run"
    /\ \/ ws[c] \in {"done", "unsub", "closed"}
       \/ c \in chClosed /\ fill[c] = 0
    /\ wr' = [wr EXCEPT ![c] = "exit"]
    /\ UNCHANGED <<regVars, hubVars, ws>>

(* cleanup's first step, close(done), run by the first of the two          *)
(* goroutines to call it (closeOnce).                                      *)
CloseDone(c) == ws' = [ws EXCEPT ![c] = IF @ = "live" THEN "done" ELSE @]

(* Writer: WriteJSON fails; it returns and its deferred cleanup runs.      *)
(* Mutant: the writer returns without calling cleanup.                     *)
WriterFailsNoCleanup(c) ==
    /\ wr[c] = "run"
    /\ fill[c] > 0
    /\ fill' = [fill EXCEPT ![c] = @ - 1]
    /\ wr' = [wr EXCEPT ![c] = "exit"]
    /\ UNCHANGED <<regVars, bc, subs, chClosed, ws>>

WriterFails(c) ==
    /\ wr[c] = "run"
    /\ fill[c] > 0
    /\ fill' = [fill EXCEPT ![c] = @ - 1]
    /\ wr' = [wr EXCEPT ![c] = "exit"]
    /\ CloseDone(c)
    /\ UNCHANGED <<regVars, bc, subs, chClosed>>

(* Reader: ReadMessage fails (the browser went away, or cleanup closed the *)
(* socket); the handler returns and its deferred cleanup runs.             *)
ReaderFails(c) ==
    /\ ws[c] = "live"
    /\ CloseDone(c)
    /\ UNCHANGED <<regVars, hubVars, wr>>

(* Unsubscribe, first half: delete the channel under broadcastMu.Lock.     *)
(* Mutant: the delete does not take broadcastMu.Lock.                     *)
UnsubDeleteUnlocked(c) ==
    /\ ws[c] = "done"
    /\ subs' = subs \ {c}
    /\ ws' = [ws EXCEPT ![c] = "unsub"]
    /\ UNCHANGED <<regVars, bc, fill, chClosed, wr>>

UnsubDelete(c) ==
    /\ ws[c] = "done"
    /\ \A s \in Sources : ~bc[s].active
    /\ subs' = subs \ {c}
    /\ ws' = [ws EXCEPT ![c] = "unsub"]
    /\ UNCHANGED <<regVars, bc, fill, chClosed, wr>>

(* Unsubscribe, second half, then conn.Close: close(ch) after unlocking.   *)
UnsubClose(c) ==
    /\ ws[c] = "unsub"
    /\ chClosed' = chClosed \cup {c}
    /\ ws' = [ws EXCEPT ![c] = "closed"]
    /\ UNCHANGED <<regVars, bc, subs, fill, wr>>

-----------------------------------------------------------------------------
(* The HTTP handlers of /api/robots (rosbridge.Server).  A request with a  *)
(* wrong method, a missing namespace, name or ip, an unparsable port, a    *)
(* duplicate ip:port (409) or an unknown id (404) answers an error and     *)
(* changes nothing, so only the accepted requests are steps; the           *)
(* robot-list partial or JSON reply that follows only reads the registry.  *)
(* AddRobot's `go Connect(); Handshake()` is RosbridgeClient's UserConnect. *)
AddRobotRequest == \E e \in Endpoints : AddRobot(e)

RemoveRobotRequest == \E id \in Ids : RemoveRobot(id)

SwitchRobotRequest == \E id \in Ids : SwitchRobot(id)

Next ==
    \/ AddRobotRequest
    \/ RemoveRobotRequest
    \/ SwitchRobotRequest
    \/ ClearAll
    \/ TelemetryBroadcast
    \/ \E s \in Sources : EndBroadcast(s) \/ \E c \in Bridges : Offer(s, c)
    \/ \E c \in Bridges :
          \/ Upgrade(c) \/ Subscribe(c) \/ WriterForward(c) \/ WriterReturn(c) \/ WriterFails(c)
          \/ ReaderFails(c) \/ UnsubDelete(c) \/ UnsubClose(c)

(* Goroutines that are runnable are scheduled: broadcasters finish their   *)
(* loop, writers drain and return, cleanup completes.  Browsers, robots    *)
(* and the HTTP layer are not obliged to act.                              *)
Fairness ==
    /\ \A s \in Sources : WF_vars(EndBroadcast(s)) /\ \A c \in Bridges : WF_vars(Offer(s, c))
    /\ \A c \in Bridges : /\ WF_vars(WriterForward(c)) /\ WF_vars(WriterReturn(c))
                          /\ WF_vars(Subscribe(c))
                          /\ WF_vars(UnsubDelete(c)) /\ WF_vars(UnsubClose(c))

Spec == Init /\ [][Next]_vars /\ Fairness

-----------------------------------------------------------------------------
(* Types of the registry, hub and bridge variables.                        *)
TypeOK ==
    /\ robots \subseteq Ids
    /\ ep \in [Ids -> Endpoints \cup {NoEp}]
    /\ currentID \in Ids \cup {NoID}
    /\ nextID \in 1..(MaxRobots + 1)
    /\ bc \in [Sources -> [active : BOOLEAN, left : SUBSET Bridges]]
    /\ subs \subseteq Bridges
    /\ fill \in [Bridges -> 0..BufCap]
    /\ chClosed \subseteq Bridges
    /\ ws \in [Bridges -> BridgeStates]
    /\ wr \in [Bridges -> WriterStates]

(* Broadcast never sends on a closed channel (which would panic and take   *)
(* the whole process down): Unsubscribe deletes the channel under the      *)
(* write lock before closing it, so no broadcaster still holds it.         *)
NoSendOnClosedChannel ==
    /\ subs \cap chClosed = {}
    /\ \A s \in Sources : bc[s].left \cap chClosed = {}

(* Spec 8: the current selection is empty exactly when the registry is,   *)
(* and otherwise names a registered robot (AddRobot, RemoveRobot,          *)
(* SwitchRobot and ClearAll keep currentID in step with m.robots).         *)
CurrentSelectionValid ==
    /\ (currentID = NoID) = (robots = {})
    /\ currentID # NoID => currentID \in robots

(* The registry as spec 4.3 describes it: the registered robots with their *)
(* ip:port, the selection, and the ids allocated so far (1..nextID-1).     *)
Registry == INSTANCE FleetRegistry WITH
    reg <- [i \in robots |-> ep[i]],
    current <- currentID,
    used <- 1..(nextID - 1)

(* Spec 4.3 and 8: every step of Manager (duplicate check, id allocation   *)
(* from nextID, first robot selected, reassignment on remove, ClearAll),   *)
(* split as it is between m.mu and the broadcast, is a step of the atomic  *)
(* registry or leaves it unchanged.                                        *)
RegistryRefined == Registry!Spec

(* The hub as spec 4.4 describes it: the registered queues are the         *)
(* subscriber map; a channel counts as closed from Unsubscribe's delete on *)
(* (the close that follows, after the unlock, is internal to Unsubscribe). *)
Hub == INSTANCE BroadcastHub WITH
    Queues <- Bridges,
    Cap <- BufCap,
    registered <- subs,
    closed <- chClosed \cup {c \in Bridges : ws[c] = "unsub"},
    fill <- fill

(* Spec 4.4 and 4.5: every step of the hub and the bridges is a hub step   *)
(* or leaves the hub unchanged: Broadcast's offers reach only subscribed   *)
(* channels and drop on full, the writer only takes buffered messages, and *)
(* a bridge's two cleanups deregister and close its channel exactly once,  *)
(* never re-registering it.                                                *)
HubRefined == Hub!Spec

(* A bridge whose writer goroutine has returned is eventually removed from *)
(* the hub and its channel closed, whatever its browser does: the writer's *)
(* deferred cleanup closes the socket, which also ends the reader.         *)
WriterGone(c) == wr[c] = "exit"
Released(c) == c \notin subs /\ c \in chClosed
BridgeReleased == \A c \in Bridges : WriterGone(c) ~> Released(c)

=============================================================================
