----------------------------- MODULE TopicRouting -----------------------------
(***************************************************************************)
(* Topic subscriptions and the routing of inbound publish frames of one    *)
(* link (src/unnamed/part_000, Client.Subscribe*, SubscribeAllTopics,      *)
(* UnsubscribeAll, handlePublish and the parsers), and the sensor          *)
(* callbacks with their rate counters (src/robot/robot.go, NewRobot's      *)
(* OnMap, OnTF, OnOdom, OnLaser ... and measureHz).                        *)
(*                                                                         *)
(* Connect starts an OnConnected goroutine, which calls                    *)
(* SubscribeAllTopics: for each kind, in SubOrder, it writes c.topicX      *)
(* (with no lock: the readLoop reads the same field) and then sends the    *)
(* subscribe frame with c.send, which fails when the link is down.  The    *)
(* server publishes only the topics it holds a subscription for on the    *)
(* current socket.  A kind's topic is c.ns + its suffix, all different, so *)
(* handlePublish dispatches a frame to the parser of its kind exactly when *)
(* it reads that kind's field as set; the order of the switch's cases      *)
(* cannot change the outcome and is left out.  The frame contents, the     *)
(* caches they fill and the broadcasts are modelled in RobotState and      *)
(* FleetHub; the socket's life cycle in RosbridgeClient.                   *)
(***************************************************************************)
EXTENDS Integers, Sequences

CONSTANTS
    SubOrder,    \* the kinds, in the order SubscribeAllTopics subscribes them
    HzKinds,     \* the kinds whose callback calls measureHz
    Second,      \* time.Second, in clock ticks
    MaxTime,     \* bound on the clock
    MaxConns,    \* bound on the connections made
    MaxFrames    \* bound on the publish frames the server sends

Kinds == {SubOrder[i] : i \in DOMAIN SubOrder}
NK == Len(SubOrder)

ASSUME RoutingAssumption ==
    /\ SubOrder \in Seq(Kinds) /\ SubOrder # <<>>
    /\ \A i, j \in DOMAIN SubOrder : i # j => SubOrder[i] # SubOrder[j]
    /\ HzKinds \subseteq Kinds
    /\ Second \in Nat \ {0}
    /\ MaxTime \in Nat
    /\ MaxConns \in Nat
    /\ MaxFrames \in Nat

Gs == 1..MaxConns      \* OnConnected goroutines, named by their connection
NoTime == -1           \* the zero time.Time of r.lastXTime
Done == NK + 1         \* pc of a goroutine past SubscribeAllTopics

VARIABLES
    connected,  \* c.connected
    conns,      \* connections made so far; the current one is the last
    stopping,   \* StopConnection has unsubscribed and not yet disconnected
    topic,      \* topic[k]: c.topicX holds the kind's name (FALSE: "")
    writers,    \* writers[k]: goroutines in the middle of writing c.topicX
    pc,         \* pc[g]: the kind goroutine g is at (SubOrder index), Done
    ph,         \* ph[g]: "write" the field, or "send" the subscribe frame
    subs,       \* the kinds the server publishes on the current socket
    now,        \* time.Now()
    last,       \* last[k]: r.lastXTime (NoTime: zero)
    hz,         \* hz[k]: r.XHz
    arr,        \* arr[k]: arrival times of the frames the callback took (ghost)
    frames      \* publish frames sent by the server

vars == <<connected, conns, stopping, topic, writers, pc, ph, subs, now, last, hz, arr, frames>>
linkVars == <<connected, conns, stopping, subs>>
subVars == <<topic, writers, pc, ph>>
rateVars == <<now, last, hz, arr, frames>>

-----------------------------------------------------------------------------
Init ==
    /\ connected = FALSE
    /\ conns = 0
    /\ stopping = FALSE
    /\ topic = [k \in Kinds |-> FALSE]
    /\ writers = [k \in Kinds |-> {}]
    /\ pc = [g \in Gs |-> 0]
    /\ ph = [g \in Gs |-> "write"]
    /\ subs = {}
    /\ now = 0
    /\ last = [k \in HzKinds |-> NoTime]
    /\ hz = [k \in HzKinds |-> 0]
    /\ arr = [k \in HzKinds |-> <<>>]
    /\ frames = 0

(* Mutant: Connect does not start the OnConnected goroutine (a callback   *)
(* run only on the first connection).                                      *)
ConnectNoOnConnected ==
    /\ ~connected
    /\ conns < MaxConns
    /\ connected' = TRUE
    /\ conns' = conns + 1
    /\ subs' = {}
    /\ pc' = IF conns = 0 THEN [pc EXCEPT ![1] = 1] ELSE pc
    /\ UNCHANGED <<stopping, topic, writers, ph, rateVars>>

(* Client.Connect succeeds on a link that is not connected: a new socket,  *)
(* on which the server holds no subscription, and go c.OnConnected().      *)
Connect ==
    /\ ~connected
    /\ conns < MaxConns
    /\ connected' = TRUE
    /\ conns' = conns + 1
    /\ subs' = {}
    /\ pc' = [pc EXCEPT ![conns + 1] = 1]
    /\ UNCHANGED <<stopping, topic, writers, ph, rateVars>>

(* The readLoop's ReadMessage fails: connected = false (a reconnect is     *)
(* scheduled, which is Connect).                                           *)
Drop ==
    /\ connected
    /\ connected' = FALSE
    /\ UNCHANGED <<conns, stopping, subs, subVars, rateVars>>

(* Subscribe<Kind>: c.topicX = c.ns + topic, a plain write that the        *)
(* readLoop may read while it is in progress.                              *)
SubWrite(g) ==
    /\ pc[g] \in 1..NK
    /\ ph[g] = "write"
    /\ writers' = [writers EXCEPT ![SubOrder[pc[g]]] = @ \cup {g}]
    /\ ph' = [ph EXCEPT ![g] = "send"]
    /\ UNCHANGED <<linkVars, topic, pc, rateVars>>

(* The write completes, then c.send(SubscribeMsg(...)) under c.mu: on the  *)
(* current socket if connected, an ignored error otherwise.  A goroutine   *)
(* of an earlier connection sends on the current socket too.  After the    *)
(* last kind it goes on to SetCmdVelEnabled (RosbridgeClient).             *)
SubSend(g) ==
    /\ pc[g] \in 1..NK
    /\ ph[g] = "send"
    /\ LET k == SubOrder[pc[g]]
       IN  /\ topic' = [topic EXCEPT ![k] = TRUE]
           /\ writers' = [writers EXCEPT ![k] = @ \ {g}]
           /\ subs' = IF connected THEN subs \cup {k} ELSE subs
    /\ pc' = [pc EXCEPT ![g] = @ + 1]
    /\ ph' = [ph EXCEPT ![g] = "write"]
    /\ UNCHANGED <<connected, conns, stopping, rateVars>>

(* Robot.StopConnection, first half: UnsubscribeAll reads every field and *)
(* sends an unsubscribe frame for each one that is set.                    *)
UnsubscribeAll ==
    /\ ~stopping
    /\ stopping' = TRUE
    /\ subs' = IF connected THEN subs \ {k \in Kinds : topic[k]} ELSE subs
    /\ UNCHANGED <<connected, conns, subVars, rateVars>>

(* Second half: Client.Disconnect.                                         *)
StopDisconnect ==
    /\ stopping
    /\ stopping' = FALSE
    /\ connected' = FALSE
    /\ UNCHANGED <<conns, subs, subVars, rateVars>>

Tick ==
    /\ now < MaxTime
    /\ now' = now + 1
    /\ UNCHANGED <<linkVars, subVars, last, hz, arr, frames>>

(* The timestamp field each callback passes to measureHz: OnMap            *)
(* &r.lastMapTime, OnTF &r.lastTFTime, OnOdom &r.lastOdomTime, OnLaser     *)
(* &r.lastLaserTime.                                                       *)
HzFieldCopyPaste(k) == IF k = "odom" THEN "map" ELSE k
HzField(k) == k

(* measureHz's rate for an elapsed time d > 0: int(time.Second / elapsed). *)
Rate(d) == Second \div d

(* A sensor callback, under r.mu: store the data (RobotState), and for a   *)
(* kind with a counter, measureHz: on the first sample (zero time) store   *)
(* now and report 0; otherwise report the rate of now - last, 0 when no    *)
(* time elapsed, and store now.                                            *)
OnSensor(k) ==
    IF k \in HzKinds
       THEN LET f == HzField(k)
                d == now - last[f]
            IN  /\ last' = [last EXCEPT ![f] = now]
                /\ hz' = [hz EXCEPT ![k] = IF last[f] = NoTime \/ d <= 0
                                              THEN 0 ELSE Rate(d)]
                /\ arr' = [arr EXCEPT ![k] = Append(@, now)]
       ELSE UNCHANGED <<last, hz, arr>>

(* parseMap, parseTwist, parseTF, parseOdom, parseLaser, parseMapBfp: the  *)
(* callback runs unless json.Unmarshal of the message fails.               *)
ParseFrame(k, decoded) ==
    IF decoded THEN OnSensor(k) ELSE UNCHANGED <<last, hz, arr>>

(* The server publishes a frame on a topic it holds for the socket; the   *)
(* readLoop's handleMessage -> handlePublish reads c.topicX (old or new    *)
(* value while a write is in progress) and hands the message to the       *)
(* kind's parser.  A frame whose topic matches no field is dropped.        *)
Publish ==
    /\ connected
    /\ frames < MaxFrames
    /\ frames' = frames + 1
    /\ \E k \in subs :
          \E seen \in IF writers[k] = {} THEN {topic[k]} ELSE {topic[k], TRUE},
            decoded \in BOOLEAN :
              IF seen THEN ParseFrame(k, decoded) ELSE UNCHANGED <<last, hz, arr>>
    /\ UNCHANGED <<linkVars, subVars, now>>

Next ==
    \/ Connect \/ Drop \/ UnsubscribeAll \/ StopDisconnect \/ Tick \/ Publish
    \/ \E g \in Gs : SubWrite(g) \/ SubSend(g)

(* The Go scheduler runs every runnable goroutine: the OnConnected         *)
(* goroutines and a StopConnection in progress make progress.  Frames,    *)
(* failures and connects come from outside and are not required.           *)
Fairness ==
    /\ \A g \in Gs : WF_vars(SubWrite(g)) /\ WF_vars(SubSend(g))
    /\ WF_vars(StopDisconnect)

Spec == Init /\ [][Next]_vars /\ Fairness

-----------------------------------------------------------------------------
TypeOK ==
    /\ connected \in BOOLEAN /\ stopping \in BOOLEAN
    /\ conns \in 0..MaxConns
    /\ topic \in [Kinds -> BOOLEAN]
    /\ writers \in [Kinds -> SUBSET Gs]
    /\ pc \in [Gs -> 0..Done]
    /\ ph \in [Gs -> {"write", "send"}]
    /\ subs \subseteq Kinds
    /\ now \in 0..MaxTime
    /\ last \in [HzKinds -> {NoTime} \cup 0..MaxTime]
    /\ hz \in [HzKinds -> Nat]
    /\ arr \in [HzKinds -> Seq(0..MaxTime)]
    /\ frames \in 0..MaxFrames

(* Spec 3 and 8 (FrequencyCounters): each kind's counter reports the       *)
(* instantaneous rate 1/dt between the last two frames of that kind that  *)
(* reached its callback (0 before the second one, or if no time elapsed), *)
(* whatever the frames of the other kinds in between.                      *)
RefHz(s) ==
    IF Len(s) < 2 THEN 0
    ELSE LET d == s[Len(s)] - s[Len(s) - 1] IN IF d = 0 THEN 0 ELSE Rate(d)
HzFromLastGap == \A k \in HzKinds : hz[k] = RefHz(arr[k])

(* Spec 4.1 (Connect, then subscriptions): while the link stays up, the   *)
(* server eventually holds a subscription for every kind.                  *)
SubscribedWhileConnected == connected ~> (~connected \/ stopping \/ subs = Kinds)
=============================================================================
