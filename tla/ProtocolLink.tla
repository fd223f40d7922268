---------------------------- MODULE ProtocolLink ----------------------------
(***************************************************************************)
(* What a protocol link promises (spec 4.1), as a safety specification of  *)
(* its connection flag, its socket and the commands the robot receives:    *)
(*   - Connect is a no-op while connected; a successful Connect opens a    *)
(*     socket never opened before and makes the link connected;            *)
(*   - a read failure or Disconnect/Stop makes it disconnected;            *)
(*   - a send on a disconnected link fails and is never queued, so the     *)
(*     robot receives a command only while the link is connected.          *)
(* Failed dials, timers and callbacks change none of this and are          *)
(* stutters.  What happens after Stop is left open here: the code lets a   *)
(* reconnect scheduled before the Stop connect again.                      *)
(***************************************************************************)
CONSTANTS
    Sockets,     \* socket identities
    NoSocket,    \* no socket opened yet
    Commands,    \* velocity commands
    Idle         \* the command the robot holds before any is sent

VARIABLES
    up,          \* the link reports itself connected
    sock,        \* the current socket
    opened,      \* every socket opened so far
    wire         \* the last command the robot received

lvars == <<up, sock, opened, wire>>

Init ==
    /\ up = FALSE
    /\ sock = NoSocket
    /\ opened = {}
    /\ wire = Idle

(* Connect succeeds on a fresh socket.                                     *)
Up ==
    /\ ~up
    /\ up' = TRUE
    /\ sock' \in Sockets \ opened
    /\ opened' = opened \cup {sock'}
    /\ UNCHANGED wire

(* The link goes down: read failure, Disconnect or Stop.                   *)
Down ==
    /\ up
    /\ up' = FALSE
    /\ UNCHANGED <<sock, opened, wire>>

(* A command frame reaches the robot.                                      *)
Send(v) ==
    /\ up
    /\ wire' = v
    /\ UNCHANGED <<up, sock, opened>>

Next == Up \/ Down \/ \E v \in Commands : Send(v)

Spec == Init /\ [][Next]_lvars
=============================================================================
