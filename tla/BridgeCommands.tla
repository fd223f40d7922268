---------------------------- MODULE BridgeCommands ----------------------------
(***************************************************************************)
(* The two pumps of one browser connection (handlers.WSHandler and         *)
(* handleWSCommand, src/handlers/ws_handler.go), seen from the socket:     *)
(*   - the writer goroutine takes hub messages from its subscriber channel *)
(*     in order, drops a map arriving within 500 ms of the last map it     *)
(*     sent (lastMapSend), and writes the others with conn.WriteJSON;      *)
(*   - the reader (the handler goroutine) reads commands and dispatches    *)
(*     them; request_map and request_status are answered with a            *)
(*     conn.WriteJSON made by the reader itself.                           *)
(* A WriteJSON is a begin step and an end step, because the frame is      *)
(* written while the other goroutine runs.  The subscription life cycle   *)
(* and the cleanup are modelled in FleetHub; the effects of the other      *)
(* commands (SetVelocity, SwitchRobot, Connect ...) in their own modules.  *)
(***************************************************************************)
EXTENDS Integers, Sequences

CONSTANTS
    Gap,       \* 500 ms, in clock ticks
    MaxTime,   \* bound on the clock
    BufCap,    \* capacity of the subscriber channel
    MaxCmds    \* bound on the commands the browser sends

(* The constants are meant to be Gap, BufCap \in Nat \ {0} and MaxTime,    *)
(* MaxCmds \in Nat; the module has no theorem that relies on it.           *)

Kinds == {"map", "status"}        \* broadcast kinds (the others pass like status)
Cmds == {"joystick", "request_map", "request_status", "bogus"}
Replies == {"request_map", "request_status"}
NeverSent == -Gap                  \* lastMapSend's zero time.Time: long ago

VARIABLES
    now,         \* time.Now()
    chan,        \* the subscriber channel bcast, oldest first
    lastMapSend, \* time the writer last passed a map
    wpc,         \* writer goroutine: "select" or "writing"
    rpc,         \* reader goroutine: "read" or "writing"
    cmds         \* commands read so far

vars == <<now, chan, lastMapSend, wpc, rpc, cmds>>

-----------------------------------------------------------------------------
Init ==
    /\ now = 0
    /\ chan = <<>>
    /\ lastMapSend = NeverSent
    /\ wpc = "select"
    /\ rpc = "read"
    /\ cmds = 0

Tick ==
    /\ now < MaxTime
    /\ now' = now + 1
    /\ UNCHANGED <<chan, lastMapSend, wpc, rpc, cmds>>

(* Manager.Broadcast: a non-blocking send; a full channel drops it.        *)
Broadcast ==
    /\ \E k \in Kinds :
          chan' = IF Len(chan) < BufCap THEN Append(chan, k) ELSE chan
    /\ UNCHANGED <<now, lastMapSend, wpc, rpc, cmds>>

(* The writer's select takes the next message: a map within Gap of the     *)
(* last one is skipped (continue); otherwise, for a map, lastMapSend = now, *)
(* and SetWriteDeadline + WriteJSON begin.                                  *)
WriterTake ==
    /\ wpc = "select"
    /\ chan # <<>>
    /\ chan' = Tail(chan)
    /\ IF Head(chan) = "map" /\ now - lastMapSend < Gap
          THEN UNCHANGED <<lastMapSend, wpc>>
          ELSE /\ lastMapSend' = IF Head(chan) = "map" THEN now ELSE lastMapSend
               /\ wpc' = "writing"
    /\ UNCHANGED <<now, rpc, cmds>>

WriterDone ==
    /\ wpc = "writing"
    /\ wpc' = "select"
    /\ UNCHANGED <<now, chan, lastMapSend, rpc, cmds>>

(* conn.ReadMessage, then handleWSCommand: a reply request starts a        *)
(* WriteJSON from this goroutine; any other command (or a frame that does  *)
(* not decode) is dispatched elsewhere and the loop reads again.           *)
ReaderRead ==
    /\ rpc = "read"
    /\ cmds < MaxCmds
    /\ cmds' = cmds + 1
    /\ \E c \in Cmds : rpc' = IF c \in Replies THEN "writing" ELSE "read"
    /\ UNCHANGED <<now, chan, lastMapSend, wpc>>

ReaderDone ==
    /\ rpc = "writing"
    /\ rpc' = "read"
    /\ UNCHANGED <<now, chan, lastMapSend, wpc, cmds>>

Next == Tick \/ Broadcast \/ WriterTake \/ WriterDone \/ ReaderRead \/ ReaderDone

Spec == Init /\ [][Next]_vars

-----------------------------------------------------------------------------
TypeOK ==
    /\ now \in 0..MaxTime
    /\ chan \in Seq(Kinds) /\ Len(chan) <= BufCap
    /\ lastMapSend \in {NeverSent} \cup 0..MaxTime
    /\ wpc \in {"select", "writing"}
    /\ rpc \in {"read", "writing"}
    /\ cmds \in 0..MaxCmds

(* gorilla/websocket supports one concurrent writer and panics on a second *)
(* (spec 7: no failure may crash the process): the writer goroutine and   *)
(* a request_map/request_status reply never write at the same time.        *)
SingleWriter == ~(wpc = "writing" /\ rpc = "writing")
=============================================================================
