---------------------------- MODULE BrowserSocket ----------------------------
(***************************************************************************)
(* The browser's WebSocket client, src/static/js/websocket.js, started once *)
(* by app.js.  The page keeps one variable `ws` for its socket and one      *)
(* `reconnectTimer` (a setInterval of 3 s); every handler runs as one task  *)
(* of the browser's event loop, so each is one atomic step here.            *)
(*                                                                         *)
(* Sockets are numbered in creation order.  A socket's readyState is       *)
(* connecting, open, closing or closed; "closing" also stands for a socket *)
(* whose close event is queued (after an error or a drop by the server).   *)
(* The frames sent (request_map, request_status, joystick, stop) are left  *)
(* out: send() writes on `ws` only when it is open, so whether the page    *)
(* can send is whether st[ws] is open.                                      *)
(***************************************************************************)
EXTENDS Naturals

CONSTANT MaxSockets   \* bound on the `new WebSocket` calls of one page

ASSUME MaxSocketsAssumption == MaxSockets \in Nat \ {0}

Sockets == 1..MaxSockets
NoSocket == 0
ReadyStates == {"unused", "connecting", "open", "closing", "closed"}

VARIABLES
    st,      \* st[s]: readyState of socket s ("unused": not created yet)
    made,    \* sockets created so far
    ws,      \* the socket `ws` refers to (NoSocket: null)
    timer    \* reconnectTimer is set

vars == <<st, made, ws, timer>>

Live == {"connecting", "open"}

-----------------------------------------------------------------------------
Init ==
    /\ st = [s \in Sockets |-> "unused"]
    /\ made = 0
    /\ ws = NoSocket
    /\ timer = FALSE

(* connect(): ws = new WebSocket(url), handlers attached.                  *)
NewSocket ==
    /\ made < MaxSockets
    /\ made' = made + 1
    /\ st' = [st EXCEPT ![made + 1] = "connecting"]
    /\ ws' = made + 1

(* app.js: WS.connect() at page load.                                      *)
PageLoad ==
    /\ made = 0
    /\ NewSocket
    /\ UNCHANGED timer

(* The interval fires: connect() again, whatever state `ws` is in.         *)
TimerFires ==
    /\ timer
    /\ NewSocket
    /\ UNCHANGED timer

(* onopen of socket s: clearInterval(reconnectTimer); the initial requests *)
(* go through send(), on `ws`.                                             *)
Opened(s) ==
    /\ st[s] = "connecting"
    /\ st' = [st EXCEPT ![s] = "open"]
    /\ timer' = FALSE
    /\ UNCHANGED <<made, ws>>

(* The socket fails (connection refused, network error): readyState moves  *)
(* to closing and onerror runs ws.close(), on the socket `ws` refers to.   *)
Errored(s) ==
    /\ st[s] \in Live
    /\ st' = [t \in Sockets |->
                 IF t = s \/ (t = ws /\ st[t] \in Live) THEN "closing" ELSE st[t]]
    /\ UNCHANGED <<made, ws, timer>>

(* The server or the network closes an open socket cleanly.               *)
Dropped(s) ==
    /\ st[s] = "open"
    /\ st' = [st EXCEPT ![s] = "closing"]
    /\ UNCHANGED <<made, ws, timer>>

(* Mutant: onclose does not call scheduleReconnect.                        *)
ClosedNoReconnect(s) ==
    /\ st[s] = "closing"
    /\ st' = [st EXCEPT ![s] = "closed"]
    /\ UNCHANGED <<made, ws, timer>>

(* onclose of socket s: scheduleReconnect() sets the interval unless one   *)
(* is already set.                                                         *)
Closed(s) ==
    /\ st[s] = "closing"
    /\ st' = [st EXCEPT ![s] = "closed"]
    /\ timer' = TRUE
    /\ UNCHANGED <<made, ws>>

-----------------------------------------------------------------------------
Next ==
    \/ PageLoad
    \/ TimerFires
    \/ \E s \in Sockets : Opened(s) \/ Errored(s) \/ Dropped(s) \/ Closed(s)

(* The browser runs its timers and delivers queued close events; whether   *)
(* the network opens, fails or drops a socket is not under its control.    *)
Fairness ==
    /\ WF_vars(TimerFires)
    /\ \A s \in Sockets : WF_vars(Closed(s))

Spec == Init /\ [][Next]_vars /\ Fairness

-----------------------------------------------------------------------------
(* Types of the socket table, the counter, `ws` and the timer.             *)
SocketTypeOK ==
    /\ st \in [Sockets -> ReadyStates]
    /\ made \in 0..MaxSockets
    /\ ws \in {NoSocket} \cup Sockets
TimerTypeOK == timer \in BOOLEAN
TypeOK == SocketTypeOK /\ TimerTypeOK

(* Once the page has loaded, it is never left with every socket dead and  *)
(* no reconnect scheduled: the last close event always sets the interval, *)
(* and only an open socket clears it (onclose / onopen of websocket.js).   *)
ReconnectPending ==
    (made > 0 /\ \A s \in 1..made : st[s] = "closed") => timer

(* The page never holds two open sockets: each tab has one connection to  *)
(* the server (websocket.js keeps a single `ws`).                          *)
AtMostOneOpen ==
    \A s, t \in Sockets : st[s] = "open" /\ st[t] = "open" => s = t

(* A page whose `ws` is closed gets a new socket (or exhausts the bound): *)
(* commands sent through send() are not dropped forever while the server  *)
(* is reachable.                                                           *)
CurrentSocketReplaced ==
    \A s \in Sockets :
        (ws = s /\ st[s] = "closed") ~> (ws # s \/ made = MaxSockets)

=============================================================================
