------------------------- MODULE BrowserSocketProofs -------------------------
(***************************************************************************)
(* Proofs about BrowserSocket for every bound on the sockets of a page.    *)
(*                                                                         *)
(* ReconnectPending is inductive once we know which sockets exist: a step  *)
(* that leaves every created socket closed is a close event, and onclose   *)
(* sets the interval; onopen, the only step that clears it, opens a socket *)
(* that already exists.  Created says the sockets created so far are       *)
(* exactly 1..made.                                                        *)
(***************************************************************************)
EXTENDS BrowserSocket, TLAPS

(* A socket has been created exactly when its number is at most made.      *)
Created == \A s \in Sockets : st[s] = "unused" <=> s > made

IInv == TypeOK /\ Created /\ ReconnectPending

LEMMA InitIInv == Init => IInv
<1> SUFFICES ASSUME Init PROVE IInv
    OBVIOUS
<1>1. TypeOK
    <2>1. SocketTypeOK
        BY MaxSocketsAssumption DEF Init, SocketTypeOK, ReadyStates, Sockets, NoSocket
    <2>2. TimerTypeOK
        BY DEF Init, TimerTypeOK
    <2>3. QED
        BY <2>1, <2>2 DEF TypeOK
<1>2. Created
    BY DEF Init, Created, Sockets
<1>3. ReconnectPending
    BY DEF Init, ReconnectPending
<1>4. QED
    BY <1>1, <1>2, <1>3 DEF IInv

(* connect(): the new socket is connecting, so not every created socket is *)
(* closed, and the sockets created are 1..made + 1.                        *)
LEMMA NewSocketIInv ==
    ASSUME IInv, NewSocket, timer' = timer PROVE IInv'
<1> USE MaxSocketsAssumption DEF IInv, NewSocket
<1>1. TypeOK'
    <2>1. SocketTypeOK'
        BY DEF TypeOK, SocketTypeOK, Sockets, ReadyStates, NoSocket
    <2>2. TimerTypeOK'
        BY DEF TypeOK, TimerTypeOK
    <2>3. QED
        BY <2>1, <2>2 DEF TypeOK
<1>2. Created'
    BY DEF TypeOK, SocketTypeOK, Created, Sockets
<1>3. ReconnectPending'
    <2>1. st'[made + 1] = "connecting" /\ made + 1 \in 1..made'
        BY DEF TypeOK, SocketTypeOK, Sockets
    <2>2. QED
        BY <2>1 DEF ReconnectPending
<1>4. QED
    BY <1>1, <1>2, <1>3

LEMMA PageLoadIInv == ASSUME IInv, PageLoad PROVE IInv'
BY NewSocketIInv DEF PageLoad

LEMMA TimerFiresIInv == ASSUME IInv, TimerFires PROVE IInv'
BY NewSocketIInv DEF TimerFires

(* onopen opens a socket that exists, so it may clear the interval.        *)
LEMMA OpenedIInv ==
    ASSUME IInv, NEW s \in Sockets, Opened(s) PROVE IInv'
<1> USE DEF IInv, Opened
<1>1. TypeOK'
    <2>1. SocketTypeOK'
        BY DEF TypeOK, SocketTypeOK, ReadyStates
    <2>2. TimerTypeOK'
        BY DEF TypeOK, TimerTypeOK
    <2>3. QED
        BY <2>1, <2>2 DEF TypeOK
<1>2. s \in 1..made
    BY DEF TypeOK, SocketTypeOK, Created, Sockets
<1>3. Created'
    BY DEF TypeOK, SocketTypeOK, Created
<1>4. ReconnectPending'
    BY <1>2 DEF TypeOK, SocketTypeOK, ReconnectPending
<1>5. QED
    BY <1>1, <1>3, <1>4

(* An error or a drop leaves the failed socket closing, not closed.         *)
LEMMA ErroredIInv ==
    ASSUME IInv, NEW s \in Sockets, Errored(s) PROVE IInv'
<1> USE DEF IInv, Errored
<1>1. TypeOK'
    <2>1. SocketTypeOK'
        BY DEF TypeOK, SocketTypeOK, ReadyStates
    <2>2. TimerTypeOK'
        BY DEF TypeOK, TimerTypeOK
    <2>3. QED
        BY <2>1, <2>2 DEF TypeOK
<1>2. s \in 1..made
    BY DEF TypeOK, SocketTypeOK, Created, Sockets, Live
<1>3. Created'
    BY DEF TypeOK, SocketTypeOK, Created, Live
<1>4. ReconnectPending'
    BY <1>2 DEF TypeOK, SocketTypeOK, ReconnectPending
<1>5. QED
    BY <1>1, <1>3, <1>4

LEMMA DroppedIInv ==
    ASSUME IInv, NEW s \in Sockets, Dropped(s) PROVE IInv'
<1> USE DEF IInv, Dropped
<1>1. TypeOK'
    <2>1. SocketTypeOK'
        BY DEF TypeOK, SocketTypeOK, ReadyStates
    <2>2. TimerTypeOK'
        BY DEF TypeOK, TimerTypeOK
    <2>3. QED
        BY <2>1, <2>2 DEF TypeOK
<1>2. s \in 1..made
    BY DEF TypeOK, SocketTypeOK, Created, Sockets
<1>3. Created'
    BY DEF TypeOK, SocketTypeOK, Created
<1>4. ReconnectPending'
    BY <1>2 DEF TypeOK, SocketTypeOK, ReconnectPending
<1>5. QED
    BY <1>1, <1>3, <1>4

(* onclose sets the interval.                                               *)
LEMMA ClosedIInv ==
    ASSUME IInv, NEW s \in Sockets, Closed(s) PROVE IInv'
<1> USE DEF IInv, Closed
<1>1. TypeOK'
    <2>1. SocketTypeOK'
        BY DEF TypeOK, SocketTypeOK, ReadyStates
    <2>2. TimerTypeOK'
        BY DEF TypeOK, TimerTypeOK
    <2>3. QED
        BY <2>1, <2>2 DEF TypeOK
<1>2. Created'
    BY DEF TypeOK, SocketTypeOK, Created
<1>3. ReconnectPending'
    BY DEF ReconnectPending
<1>4. QED
    BY <1>1, <1>2, <1>3

LEMMA NextIInv == IInv /\ [Next]_vars => IInv'
<1> SUFFICES ASSUME IInv, [Next]_vars PROVE IInv'
    OBVIOUS
<1>1. CASE PageLoad
    BY <1>1, PageLoadIInv
<1>2. CASE TimerFires
    BY <1>2, TimerFiresIInv
<1>3. CASE \E s \in Sockets : Opened(s) \/ Errored(s) \/ Dropped(s) \/ Closed(s)
    BY <1>3, OpenedIInv, ErroredIInv, DroppedIInv, ClosedIInv
<1>4. CASE UNCHANGED vars
    BY <1>4 DEF vars, IInv, TypeOK, SocketTypeOK, TimerTypeOK, Created, ReconnectPending
<1>5. QED
    BY <1>1, <1>2, <1>3, <1>4 DEF Next

LEMMA SpecIInv == Spec => []IInv
BY InitIInv, NextIInv, PTL DEF Spec

(* Type correctness of the browser's socket handling.                       *)
THEOREM BrowserTypeCorrect == Spec => []TypeOK
BY SpecIInv, PTL DEF IInv

(* websocket.js: for any number of reconnect attempts, a loaded page is    *)
(* never left with every socket closed and no reconnect interval set.      *)
THEOREM ReconnectAlwaysPending == Spec => []ReconnectPending
BY SpecIInv, PTL DEF IInv
=============================================================================
