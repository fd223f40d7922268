--------------------------- MODULE RosbridgeClient ---------------------------
(***************************************************************************)
(* The connection life cycle of one rosbridge Client (rosbridge/client.go, *)
(* src/unnamed/part_000) together with the cmd_vel publisher and the       *)
(* connection callbacks the robot layer installs on it (robot.go and      *)
(* Manager.AddRobot).                                                      *)
(*                                                                         *)
(* Goroutines of the code and how they appear here:                        *)
(*   - every successful Connect (dial number g) starts readLoop g and      *)
(*     publisher goroutine g; rd[g] is the socket readLoop g is blocked    *)
(*     on and pub[g] the program counter of publisher g;                   *)
(*   - scheduleReconnect goroutines are counted in rcSleep (sleeping the   *)
(*     3 s delay) and rcReady (past the "connected?" check, about to call  *)
(*     Connect);                                                           *)
(*   - the OnConnected / OnDisconnected callbacks are started with "go",   *)
(*     and are counted in onConn / onDisc until they run.                  *)
(* Every lock region of c.mu is one atomic step.  Socket payloads, topic   *)
(* names and sensor data are abstracted away: a velocity command is a      *)
(* member of the small set Twists.                                         *)
(***************************************************************************)
EXTENDS Naturals, FiniteSets

CONSTANTS
    MaxConns,         \* bound on successful dials (names the sockets 1..MaxConns)
    MaxDialFailures,  \* bound on failed dials
    Twists,           \* velocity commands the joystick can request
    Zero              \* the zero TwistData{} value

ASSUME ConstAssumption ==
    /\ MaxConns \in Nat \ {0}
    /\ MaxDialFailures \in Nat
    /\ Zero \in Twists

Gens == 1..MaxConns        \* dial numbers; socket g is opened by the g-th successful dial
NoConn == 0                \* c.conn == nil / a goroutine that is not running

SockStates == {"none", "open", "broken", "closed"}
  \* none: not dialled yet; broken: the peer or the network ended it (the
  \* next ReadMessage fails); closed: the client called conn.Close().
PubStates == {"none", "top", "wait", "tick", "send", "store", "exit"}
  \* top: about to evaluate the select (reads c.cmdVelTicker);
  \* wait: blocked in the select on stopCh and the ticker ptk[p];
  \* tick/send/store: the three lock regions of publishCmdVelTick.

VARIABLES
    connected,       \* c.connected
    conn,            \* c.conn (a dial number, or NoConn)
    sock,            \* state of every socket ever dialled
    dialled,         \* number of successful dials so far
    dialFails,       \* number of failed dials so far
    rd,              \* rd[g]: socket readLoop g is blocked on, NoConn once it returned
    ticker,          \* c.cmdVelTicker (the dial that created it)
    stopped,         \* tickers on which Stop() was called
    pub,             \* pub[g]: program counter of publisher goroutine g
    ptk,             \* ptk[g]: ticker publisher g selects on
    pdes,            \* pdes[g]: the desired twist publisher g copied under the lock
    desired,         \* c.desiredTwist
    last,            \* c.lastTwist
    enabled,         \* c.cmdVelEnabled
    topicSet,        \* c.topicCmdVel # ""
    wire,            \* the last cmd_vel frame the robot received
    rcSleep,         \* scheduleReconnect goroutines in time.Sleep
    rcReady,         \* scheduleReconnect goroutines about to call Connect
    onConn,          \* OnConnected goroutines started and not yet run
    onDisc,          \* OnDisconnected goroutines started and not yet run
    robotConnected,  \* Robot.Connected, written only by the callbacks
    stopReq          \* StopConnection was called and no Connect by a user since

linkVars == <<connected, conn, sock, dialled, dialFails, rd>>
pubVars  == <<ticker, stopped, pub, ptk, pdes>>
cmdVars  == <<desired, last, enabled, topicSet, wire>>
taskVars == <<rcSleep, rcReady, onConn, onDisc, robotConnected, stopReq>>
vars == <<linkVars, pubVars, cmdVars, taskVars>>

-----------------------------------------------------------------------------
(* NewClient / NewRobot: nothing dialled, zero twists, nothing running.    *)
Init ==
    /\ connected = FALSE
    /\ conn = NoConn
    /\ sock = [g \in Gens |-> "none"]
    /\ dialled = 0
    /\ dialFails = 0
    /\ rd = [g \in Gens |-> NoConn]
    /\ ticker = NoConn
    /\ stopped = {}
    /\ pub = [g \in Gens |-> "none"]
    /\ ptk = [g \in Gens |-> NoConn]
    /\ pdes = [g \in Gens |-> Zero]
    /\ desired = Zero
    /\ last = Zero
    /\ enabled = FALSE
    /\ topicSet = FALSE
    /\ wire = Zero
    /\ rcSleep = 0
    /\ rcReady = 0
    /\ onConn = 0
    /\ onDisc = 0
    /\ robotConnected = FALSE
    /\ stopReq = FALSE

-----------------------------------------------------------------------------
(* Connect past its "if c.connected { return nil }" guard, all under c.mu. *)
(* A successful dial stores the socket, sets connected, starts readLoop g, *)
(* replaces the ticker and starts publisher g (startCmdVelPublisher), and  *)
(* starts the OnConnected callback.  A failed dial starts a                *)
(* scheduleReconnect goroutine.                                            *)
(* Mutant: Connect forgets to start the readLoop (go c.readLoop()).       *)
DialOKNoReader ==
    LET g == dialled + 1 IN
    /\ dialled < MaxConns
    /\ dialled' = g
    /\ conn' = g
    /\ sock' = [sock EXCEPT ![g] = "open"]
    /\ connected' = TRUE
    /\ UNCHANGED rd
    /\ ticker' = g
    /\ pub' = [pub EXCEPT ![g] = "top"]
    /\ onConn' = onConn + 1
    /\ UNCHANGED <<dialFails, stopped, ptk, pdes, cmdVars, rcSleep, onDisc, robotConnected>>

DialOK ==
    LET g == dialled + 1 IN
    /\ dialled < MaxConns
    /\ dialled' = g
    /\ conn' = g
    /\ sock' = [sock EXCEPT ![g] = "open"]
    /\ connected' = TRUE
    /\ rd' = [rd EXCEPT ![g] = g]
    /\ ticker' = g
    /\ pub' = [pub EXCEPT ![g] = "top"]
    /\ onConn' = onConn + 1
    /\ UNCHANGED <<dialFails, stopped, ptk, pdes, cmdVars, rcSleep, onDisc, robotConnected>>

DialFail ==
    /\ dialFails < MaxDialFailures
    /\ dialFails' = dialFails + 1
    /\ rcSleep' = rcSleep + 1
    /\ UNCHANGED <<connected, conn, sock, dialled, rd, pubVars, cmdVars,
                   onConn, onDisc, robotConnected>>

(* Mutant: Connect without its "if c.connected { return nil }" guard.    *)
DialNoConnectedCheck == DialOK \/ DialFail

Dial == ~connected /\ (DialOK \/ DialFail)

(* A user's Connect: AddRobot's background goroutine or the browser's      *)
(* "connect" command (which checks IsConnected first).                     *)
UserConnect ==
    /\ Dial
    /\ stopReq' = FALSE
    /\ UNCHANGED rcReady

(* Robot.StopConnection from RemoveRobot, ClearAll or the browser's         *)
(* "disconnect" command: UnsubscribeAll (frames only) then Disconnect.     *)
(* disconnect() returns at once unless connected; otherwise it clears      *)
(* connected, stops the ticker, offers one value on the unbuffered stopCh  *)
(* (taken only by a publisher blocked in its select, else dropped), closes *)
(* the socket and starts OnDisconnected.                                   *)
StopConnection ==
    /\ stopReq' = TRUE
    /\ \/ /\ ~connected
          /\ UNCHANGED <<linkVars, pubVars, cmdVars, rcSleep, rcReady, onConn, onDisc, robotConnected>>
       \/ /\ connected
          /\ connected' = FALSE
          /\ stopped' = stopped \cup {ticker}
          /\ IF \E p \in Gens : pub[p] = "wait"
                THEN \E p \in {q \in Gens : pub[q] = "wait"} :
                        pub' = [pub EXCEPT ![p] = "exit"]
                ELSE UNCHANGED pub
          /\ sock' = [sock EXCEPT ![conn] = "closed"]
          /\ onDisc' = onDisc + 1
          /\ UNCHANGED <<conn, dialled, dialFails, rd, ticker, ptk, pdes, cmdVars,
                         rcSleep, rcReady, onConn, robotConnected>>

(* SetDesiredCmdVel, reached from Robot.SetVelocity (joystick, stop).      *)
SetDesiredCmdVel(v) ==
    /\ desired' = v
    /\ UNCHANGED <<linkVars, pubVars, last, enabled, topicSet, wire, taskVars>>

(* The peer or the network ends an open socket.                            *)
SocketBreaks(k) ==
    /\ sock[k] = "open"
    /\ sock' = [sock EXCEPT ![k] = "broken"]
    /\ UNCHANGED <<connected, conn, dialled, dialFails, rd, pubVars, cmdVars, taskVars>>

-----------------------------------------------------------------------------
(* readLoop g.  Each iteration evaluates c.conn afresh, so after handling  *)
(* a frame the goroutine blocks on whatever socket is current then.        *)
ReadFrame(g) ==
    /\ rd[g] # NoConn
    /\ sock[rd[g]] = "open"
    /\ rd' = [rd EXCEPT ![g] = conn]
    /\ UNCHANGED <<connected, conn, sock, dialled, dialFails, pubVars, cmdVars, taskVars>>

(* ReadMessage failed: under c.mu read and clear connected; if it was set, *)
(* start OnDisconnected and a scheduleReconnect goroutine; return.  The    *)
(* ticker, the publisher and the socket are left as they are.              *)
(* Mutant: the error path forgets "go c.scheduleReconnect()".              *)
ReadFailNoReconnect(g) ==
    /\ rd[g] # NoConn
    /\ sock[rd[g]] \in {"broken", "closed"}
    /\ rd' = [rd EXCEPT ![g] = NoConn]
    /\ connected' = FALSE
    /\ IF connected THEN onDisc' = onDisc + 1 ELSE UNCHANGED onDisc
    /\ UNCHANGED <<conn, sock, dialled, dialFails, pubVars, cmdVars,
                   rcSleep, rcReady, onConn, robotConnected, stopReq>>

(* Mutant: the error path drops its "if wasConnected" guard.               *)
ReadFailUnguarded(g) ==
    /\ rd[g] # NoConn
    /\ sock[rd[g]] \in {"broken", "closed"}
    /\ rd' = [rd EXCEPT ![g] = NoConn]
    /\ connected' = FALSE
    /\ onDisc' = onDisc + 1
    /\ rcSleep' = rcSleep + 1
    /\ UNCHANGED <<conn, sock, dialled, dialFails, pubVars, cmdVars,
                   rcReady, onConn, robotConnected, stopReq>>

ReadFail(g) ==
    /\ rd[g] # NoConn
    /\ sock[rd[g]] \in {"broken", "closed"}
    /\ rd' = [rd EXCEPT ![g] = NoConn]
    /\ connected' = FALSE
    /\ IF connected
          THEN onDisc' = onDisc + 1 /\ rcSleep' = rcSleep + 1
          ELSE UNCHANGED <<onDisc, rcSleep>>
    /\ UNCHANGED <<conn, sock, dialled, dialFails, pubVars, cmdVars,
                   rcReady, onConn, robotConnected, stopReq>>

-----------------------------------------------------------------------------
(* scheduleReconnect: after the sleep, return if connected, else Connect.  *)
ReconnectWake ==
    /\ rcSleep > 0
    /\ rcSleep' = rcSleep - 1
    /\ rcReady' = IF connected THEN rcReady ELSE rcReady + 1
    /\ UNCHANGED <<linkVars, pubVars, cmdVars, onConn, onDisc, robotConnected, stopReq>>

ReconnectConnect ==
    /\ rcReady > 0
    /\ rcReady' = rcReady - 1
    /\ \/ /\ connected
          /\ UNCHANGED <<linkVars, pubVars, cmdVars, rcSleep, onConn, onDisc, robotConnected>>
       \/ Dial
    /\ UNCHANGED stopReq

-----------------------------------------------------------------------------
(* Publisher goroutine p (startCmdVelPublisher / publishCmdVelTick).       *)
PubSelect(p) ==
    /\ pub[p] = "top"
    /\ pub' = [pub EXCEPT ![p] = "wait"]
    /\ ptk' = [ptk EXCEPT ![p] = ticker]
    /\ UNCHANGED <<linkVars, ticker, stopped, pdes, cmdVars, taskVars>>

PubTick(p) ==
    /\ pub[p] = "wait"
    /\ ptk[p] \notin stopped
    /\ pub' = [pub EXCEPT ![p] = "tick"]
    /\ UNCHANGED <<linkVars, ticker, stopped, ptk, pdes, cmdVars, taskVars>>

(* First lock region: give up unless connected and enabled; copy desired   *)
(* and last; after unlocking give up if the topic is empty or nothing      *)
(* changed.                                                                *)
PubCheck(p) ==
    /\ pub[p] = "tick"
    /\ IF connected /\ enabled /\ topicSet /\ desired # last
          THEN /\ pub' = [pub EXCEPT ![p] = "send"]
               /\ pdes' = [pdes EXCEPT ![p] = desired]
          ELSE /\ pub' = [pub EXCEPT ![p] = "top"]
               /\ UNCHANGED pdes
    /\ UNCHANGED <<linkVars, ticker, stopped, ptk, cmdVars, taskVars>>

(* c.send: under c.mu, fails when not connected; a write on a broken       *)
(* socket fails too.  The error is ignored.                                *)
PubSend(p) ==
    /\ pub[p] = "send"
    /\ pub' = [pub EXCEPT ![p] = "store"]
    /\ wire' = IF connected /\ sock[conn] = "open" THEN pdes[p] ELSE wire
    /\ UNCHANGED <<linkVars, ticker, stopped, ptk, pdes, desired, last, enabled, topicSet, taskVars>>

(* Third lock region: c.lastTwist = desired, whatever send returned.       *)
PubStore(p) ==
    /\ pub[p] = "store"
    /\ pub' = [pub EXCEPT ![p] = "top"]
    /\ last' = pdes[p]
    /\ UNCHANGED <<linkVars, ticker, stopped, ptk, pdes, desired, enabled, topicSet, wire, taskVars>>

-----------------------------------------------------------------------------
(* The OnConnected callback installed by Manager.AddRobot: Robot.Connected *)
(* = true, SubscribeAllTopics (sets the topic names), SetCmdVelEnabled.     *)
RunOnConnected ==
    /\ onConn > 0
    /\ onConn' = onConn - 1
    /\ robotConnected' = TRUE
    /\ topicSet' = TRUE
    /\ enabled' = TRUE
    /\ UNCHANGED <<linkVars, pubVars, desired, last, wire, rcSleep, rcReady, onDisc, stopReq>>

(* The OnDisconnected callback: Robot.Connected = false.                   *)
RunOnDisconnected ==
    /\ onDisc > 0
    /\ onDisc' = onDisc - 1
    /\ robotConnected' = FALSE
    /\ UNCHANGED <<linkVars, pubVars, cmdVars, rcSleep, rcReady, onConn, stopReq>>

-----------------------------------------------------------------------------
Next ==
    \/ UserConnect
    \/ StopConnection
    \/ \E v \in Twists : SetDesiredCmdVel(v)
    \/ \E k \in Gens : SocketBreaks(k)
    \/ \E g \in Gens : ReadFrame(g) \/ ReadFail(g)
    \/ ReconnectWake
    \/ ReconnectConnect
    \/ \E p \in Gens : PubSelect(p) \/ PubTick(p) \/ PubCheck(p) \/ PubSend(p) \/ PubStore(p)
    \/ RunOnConnected
    \/ RunOnDisconnected

(* Go schedules every runnable goroutine eventually.  Recovery needs only  *)
(* that of the readLoop's error path and of scheduleReconnect, so only     *)
(* their steps are assumed weakly fair (the publishers and the callbacks   *)
(* take no lock across steps and cannot hold the link up).  Users, the     *)
(* network and the peer get no fairness.                                   *)
Fairness ==
    /\ \A g \in Gens : WF_vars(ReadFail(g))
    /\ WF_vars(ReconnectWake)
    /\ WF_vars(ReconnectConnect)

Spec == Init /\ [][Next]_vars /\ Fairness

(* Types of the flags, link, publisher, command and goroutine variables.  *)
FlagTypeOK ==
    /\ connected \in BOOLEAN
    /\ enabled \in BOOLEAN
    /\ topicSet \in BOOLEAN
    /\ robotConnected \in BOOLEAN
    /\ stopReq \in BOOLEAN

LinkTypeOK ==
    /\ conn \in Gens \cup {NoConn}
    /\ sock \in [Gens -> SockStates]
    /\ dialled \in 0..MaxConns
    /\ dialFails \in 0..MaxDialFailures
    /\ rd \in [Gens -> Gens \cup {NoConn}]

PubTypeOK ==
    /\ ticker \in Gens \cup {NoConn}
    /\ stopped \subseteq Gens \cup {NoConn}
    /\ pub \in [Gens -> PubStates]
    /\ ptk \in [Gens -> Gens \cup {NoConn}]
    /\ pdes \in [Gens -> Twists]

CmdTypeOK ==
    /\ desired \in Twists
    /\ last \in Twists
    /\ wire \in Twists

TaskTypeOK ==
    /\ rcSleep + rcReady \in 0..(MaxConns + MaxDialFailures)
    /\ onConn \in 0..MaxConns
    /\ onDisc \in 0..MaxConns

(* Every variable holds a value of its kind.  The counters of started      *)
(* goroutines are bounded by the events that start them: one reconnect per *)
(* lost connection or failed dial, one callback per connection change.     *)
TypeOK == FlagTypeOK /\ LinkTypeOK /\ PubTypeOK /\ CmdTypeOK /\ TaskTypeOK

(* Failure detection: while the current socket is open some readLoop is    *)
(* blocked on it, so a break of the current socket is always noticed and   *)
(* leads to the reconnect in readLoop's error path.                        *)
CurrentSocketHasReader ==
    (conn # NoConn /\ sock[conn] = "open") => \E g \in Gens : rd[g] = conn

(* The reconnect logic (readLoop's error path and scheduleReconnect)       *)
(* restores a connection whose socket broke, unless a user stopped the     *)
(* link or the dial bound of the model is used up.                         *)
LinkBroken == connected /\ sock[conn] = "broken"
LinkRestored == (connected /\ sock[conn] = "open") \/ stopReq \/ dialled = MaxConns
LinkRecovers == LinkBroken ~> LinkRestored

(* Spec 8: a concurrent Connect during the reconnect window never leaves   *)
(* two sockets open at once.                                               *)
AtMostOneOpenSocket ==
    Cardinality({k \in Gens : sock[k] = "open"}) <= 1

(* Spec 4.1: Connect starts exactly one periodic cmd_vel publish task, so  *)
(* at most one publisher goroutine is alive at any time.                   *)
SinglePublisher ==
    Cardinality({p \in Gens : pub[p] \notin {"none", "exit"}}) <= 1

(* Spec 4.1: Stop is terminal until a user connects again; no reconnect   *)
(* scheduled earlier brings a stopped link back.                           *)
StopIsTerminal ==
    stopReq => ~connected

(* Spec 3 (DesiredCommand): lastTwist is the last published velocity, so  *)
(* whenever no publish is in flight it equals what the robot last got.     *)
LastTwistWasPublished ==
    (\A p \in Gens : pub[p] \notin {"send", "store"}) => last = wire

(* Robot.Connected, written by the asynchronous callbacks, agrees with the *)
(* client once every started callback has run.                             *)
RobotFlagAgrees ==
    (onConn = 0 /\ onDisc = 0) => robotConnected = connected


(* The link as spec 4.1 describes it: the connection flag, the current     *)
(* socket (a dial number), the sockets dialled so far, and the robot's     *)
(* last received command.                                                  *)
Link == INSTANCE ProtocolLink WITH
    Sockets <- Gens,
    NoSocket <- NoConn,
    Commands <- Twists,
    Idle <- Zero,
    up <- connected,
    sock <- conn,
    opened <- 1..dialled,
    wire <- wire

(* Spec 4.1: Connect is a no-op while connected and otherwise opens a      *)
(* fresh socket, the readLoop's error path and Disconnect only take the    *)
(* link down, and the publisher's c.send reaches the robot only while the  *)
(* link is connected: every step of the client is a link step or a stutter.*)
LinkRefined == Link!Spec

=============================================================================
