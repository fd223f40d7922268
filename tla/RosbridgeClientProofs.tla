------------------------ MODULE RosbridgeClientProofs ------------------------
(***************************************************************************)
(* Proofs about the rosbridge Client model, for every value of the         *)
(* constants: the type invariant (with its bounds on started goroutines),  *)
(* CurrentSocketHasReader and the refinement of ProtocolLink.              *)
(*                                                                         *)
(* Neither is inductive alone.  The counters of started goroutines are     *)
(* bounded only through what started them: every scheduleReconnect comes   *)
(* from a failed dial or from a lost connection, and every lost connection *)
(* from an earlier successful dial (CounterInv).  CurrentSocketHasReader   *)
(* holds because the readLoop started with a socket stays on it while the  *)
(* socket is current and open: a readLoop re-reads c.conn only after a     *)
(* frame, and then lands on the current socket (ReaderInv).                *)
(***************************************************************************)
EXTENDS RosbridgeClient, TLAPS

(* connected implies that c.conn holds a dialled socket.                   *)
ConnInv == connected => conn \in Gens

(* Goroutine accounting: reconnects pending plus the live connection never *)
(* outnumber dials made, and callbacks pending never outnumber the         *)
(* connection changes that started them.                                   *)
CounterInv ==
    /\ rcSleep \in Nat /\ rcReady \in Nat
    /\ rcSleep + rcReady + (IF connected THEN 1 ELSE 0) <= dialled + dialFails
    /\ onDisc + (IF connected THEN 1 ELSE 0) <= dialled
    /\ onConn <= dialled

(* The readLoop started by dial g is the one blocked on socket g while     *)
(* socket g is current and open.                                           *)
ReaderInv == (conn # NoConn /\ sock[conn] = "open") => rd[conn] = conn

IInv == TypeOK /\ ConnInv /\ CounterInv /\ ReaderInv

-----------------------------------------------------------------------------
LEMMA InitIInv == Init => IInv
  <1> SUFFICES ASSUME Init PROVE IInv
    OBVIOUS
  <1> USE ConstAssumption DEF Init, Gens, NoConn
  <1>1. FlagTypeOK
    BY DEF FlagTypeOK
  <1>2. LinkTypeOK
    BY DEF LinkTypeOK, SockStates
  <1>3. PubTypeOK
    BY DEF PubTypeOK, PubStates
  <1>4. CmdTypeOK
    BY DEF CmdTypeOK
  <1>5. TaskTypeOK
    BY DEF TaskTypeOK
  <1>6. ConnInv
    BY DEF ConnInv
  <1>7. CounterInv
    BY DEF CounterInv
  <1>8. ReaderInv
    BY DEF ReaderInv
  <1>9. QED
    BY <1>1, <1>2, <1>3, <1>4, <1>5, <1>6, <1>7, <1>8 DEF IInv, TypeOK

(* One lemma per action of Next (per case where the action branches):  *)
(* each conjunct of IInv is re-established in a step of its own.          *)
(* IInv is preserved by a user's Connect that dials successfully. *)
LEMMA UserDialOKIInv ==
  ASSUME IInv, UserConnect, DialOK
  PROVE  IInv'
  <1> USE ConstAssumption DEF IInv, TypeOK, Gens, NoConn
  <1>1. FlagTypeOK'
    BY DEF UserConnect, Dial, DialOK, linkVars, pubVars, cmdVars, taskVars, FlagTypeOK, LinkTypeOK
  <1>2. LinkTypeOK'
    BY DEF UserConnect, Dial, DialOK, linkVars, pubVars, cmdVars, taskVars, LinkTypeOK, SockStates, LinkTypeOK
  <1>3. PubTypeOK'
    BY DEF UserConnect, Dial, DialOK, linkVars, pubVars, cmdVars, taskVars, PubTypeOK, PubStates, LinkTypeOK, CmdTypeOK
  <1>4. CmdTypeOK'
    BY DEF UserConnect, Dial, DialOK, linkVars, pubVars, cmdVars, taskVars, CmdTypeOK, LinkTypeOK, PubTypeOK
  <1>5. TaskTypeOK'
    BY DEF UserConnect, Dial, DialOK, linkVars, pubVars, cmdVars, taskVars, TaskTypeOK, LinkTypeOK, CounterInv, FlagTypeOK
  <1>6. ConnInv'
    BY DEF UserConnect, Dial, DialOK, linkVars, pubVars, cmdVars, taskVars, ConnInv, LinkTypeOK, FlagTypeOK
  <1>7. CounterInv'
    BY DEF UserConnect, Dial, DialOK, linkVars, pubVars, cmdVars, taskVars, CounterInv, LinkTypeOK, FlagTypeOK, TaskTypeOK
  <1>8. ReaderInv'
    BY DEF UserConnect, Dial, DialOK, linkVars, pubVars, cmdVars, taskVars, ReaderInv, LinkTypeOK, ConnInv, FlagTypeOK
  <1>9. QED
    BY <1>1, <1>2, <1>3, <1>4, <1>5, <1>6, <1>7, <1>8

(* IInv is preserved by a user's Connect whose dial fails. *)
LEMMA UserDialFailIInv ==
  ASSUME IInv, UserConnect, DialFail
  PROVE  IInv'
  <1> USE ConstAssumption DEF IInv, TypeOK, Gens, NoConn
  <1>1. FlagTypeOK'
    BY DEF UserConnect, Dial, DialFail, linkVars, pubVars, cmdVars, taskVars, FlagTypeOK, LinkTypeOK
  <1>2. LinkTypeOK'
    BY DEF UserConnect, Dial, DialFail, linkVars, pubVars, cmdVars, taskVars, LinkTypeOK, SockStates, LinkTypeOK
  <1>3. PubTypeOK'
    BY DEF UserConnect, Dial, DialFail, linkVars, pubVars, cmdVars, taskVars, PubTypeOK, PubStates, LinkTypeOK, CmdTypeOK
  <1>4. CmdTypeOK'
    BY DEF UserConnect, Dial, DialFail, linkVars, pubVars, cmdVars, taskVars, CmdTypeOK, LinkTypeOK, PubTypeOK
  <1>5. TaskTypeOK'
    BY DEF UserConnect, Dial, DialFail, linkVars, pubVars, cmdVars, taskVars, TaskTypeOK, LinkTypeOK, CounterInv, FlagTypeOK
  <1>6. ConnInv'
    BY DEF UserConnect, Dial, DialFail, linkVars, pubVars, cmdVars, taskVars, ConnInv, LinkTypeOK, FlagTypeOK
  <1>7. CounterInv'
    BY DEF UserConnect, Dial, DialFail, linkVars, pubVars, cmdVars, taskVars, CounterInv, LinkTypeOK, FlagTypeOK, TaskTypeOK
  <1>8. ReaderInv'
    BY DEF UserConnect, Dial, DialFail, linkVars, pubVars, cmdVars, taskVars, ReaderInv, LinkTypeOK, ConnInv, FlagTypeOK
  <1>9. QED
    BY <1>1, <1>2, <1>3, <1>4, <1>5, <1>6, <1>7, <1>8

(* IInv is preserved by StopConnection on a link that is not connected. *)
LEMMA StopIdleIInv ==
  ASSUME IInv, StopConnection, ~connected
  PROVE  IInv'
  <1> USE ConstAssumption DEF IInv, TypeOK, Gens, NoConn
  <1>1. FlagTypeOK'
    BY DEF StopConnection, linkVars, pubVars, cmdVars, taskVars, FlagTypeOK, LinkTypeOK
  <1>2. LinkTypeOK'
    BY DEF StopConnection, linkVars, pubVars, cmdVars, taskVars, LinkTypeOK, SockStates, LinkTypeOK
  <1>3. PubTypeOK'
    BY DEF StopConnection, linkVars, pubVars, cmdVars, taskVars, PubTypeOK, PubStates, LinkTypeOK, CmdTypeOK
  <1>4. CmdTypeOK'
    BY DEF StopConnection, linkVars, pubVars, cmdVars, taskVars, CmdTypeOK, LinkTypeOK, PubTypeOK
  <1>5. TaskTypeOK'
    BY DEF StopConnection, linkVars, pubVars, cmdVars, taskVars, TaskTypeOK, LinkTypeOK, CounterInv, FlagTypeOK
  <1>6. ConnInv'
    BY DEF StopConnection, linkVars, pubVars, cmdVars, taskVars, ConnInv, LinkTypeOK, FlagTypeOK
  <1>7. CounterInv'
    BY DEF StopConnection, linkVars, pubVars, cmdVars, taskVars, CounterInv, LinkTypeOK, FlagTypeOK, TaskTypeOK
  <1>8. ReaderInv'
    BY DEF StopConnection, linkVars, pubVars, cmdVars, taskVars, ReaderInv, LinkTypeOK, ConnInv, FlagTypeOK
  <1>9. QED
    BY <1>1, <1>2, <1>3, <1>4, <1>5, <1>6, <1>7, <1>8

(* IInv is preserved by StopConnection on a connected link. *)
LEMMA StopIInv ==
  ASSUME IInv, StopConnection, connected
  PROVE  IInv'
  <1> USE ConstAssumption DEF IInv, TypeOK, Gens, NoConn
  <1>1. FlagTypeOK'
    BY DEF StopConnection, cmdVars, linkVars, pubVars, taskVars, FlagTypeOK, LinkTypeOK
  <1>2. LinkTypeOK'
    BY DEF StopConnection, cmdVars, linkVars, pubVars, taskVars, LinkTypeOK, SockStates, LinkTypeOK
  <1>3. PubTypeOK'
    BY DEF StopConnection, cmdVars, linkVars, pubVars, taskVars, PubTypeOK, PubStates, LinkTypeOK, CmdTypeOK
  <1>4. CmdTypeOK'
    BY DEF StopConnection, cmdVars, linkVars, pubVars, taskVars, CmdTypeOK, LinkTypeOK, PubTypeOK
  <1>5. TaskTypeOK'
    BY DEF StopConnection, cmdVars, linkVars, pubVars, taskVars, TaskTypeOK, LinkTypeOK, CounterInv, FlagTypeOK
  <1>6. ConnInv'
    BY DEF StopConnection, cmdVars, linkVars, pubVars, taskVars, ConnInv, LinkTypeOK, FlagTypeOK
  <1>7. CounterInv'
    BY DEF StopConnection, cmdVars, linkVars, pubVars, taskVars, CounterInv, LinkTypeOK, FlagTypeOK, TaskTypeOK
  <1>8. ReaderInv'
    BY DEF StopConnection, cmdVars, linkVars, pubVars, taskVars, ReaderInv, LinkTypeOK, ConnInv, FlagTypeOK
  <1>9. QED
    BY <1>1, <1>2, <1>3, <1>4, <1>5, <1>6, <1>7, <1>8

(* IInv is preserved by SetDesiredCmdVel. *)
LEMMA SetDesiredIInv ==
  ASSUME IInv, NEW v \in Twists, SetDesiredCmdVel(v)
  PROVE  IInv'
  <1> USE ConstAssumption DEF IInv, TypeOK, Gens, NoConn
  <1>1. FlagTypeOK'
    BY DEF SetDesiredCmdVel, linkVars, pubVars, taskVars, cmdVars, FlagTypeOK, LinkTypeOK
  <1>2. LinkTypeOK'
    BY DEF SetDesiredCmdVel, linkVars, pubVars, taskVars, cmdVars, LinkTypeOK, SockStates, LinkTypeOK
  <1>3. PubTypeOK'
    BY DEF SetDesiredCmdVel, linkVars, pubVars, taskVars, cmdVars, PubTypeOK, PubStates, LinkTypeOK, CmdTypeOK
  <1>4. CmdTypeOK'
    BY DEF SetDesiredCmdVel, linkVars, pubVars, taskVars, cmdVars, CmdTypeOK, LinkTypeOK, PubTypeOK
  <1>5. TaskTypeOK'
    BY DEF SetDesiredCmdVel, linkVars, pubVars, taskVars, cmdVars, TaskTypeOK, LinkTypeOK, CounterInv, FlagTypeOK
  <1>6. ConnInv'
    BY DEF SetDesiredCmdVel, linkVars, pubVars, taskVars, cmdVars, ConnInv, LinkTypeOK, FlagTypeOK
  <1>7. CounterInv'
    BY DEF SetDesiredCmdVel, linkVars, pubVars, taskVars, cmdVars, CounterInv, LinkTypeOK, FlagTypeOK, TaskTypeOK
  <1>8. ReaderInv'
    BY DEF SetDesiredCmdVel, linkVars, pubVars, taskVars, cmdVars, ReaderInv, LinkTypeOK, ConnInv, FlagTypeOK
  <1>9. QED
    BY <1>1, <1>2, <1>3, <1>4, <1>5, <1>6, <1>7, <1>8

(* IInv is preserved by a socket break. *)
LEMMA BreakIInv ==
  ASSUME IInv, NEW k \in Gens, SocketBreaks(k)
  PROVE  IInv'
  <1> USE ConstAssumption DEF IInv, TypeOK, Gens, NoConn
  <1>1. FlagTypeOK'
    BY DEF SocketBreaks, pubVars, cmdVars, taskVars, linkVars, FlagTypeOK, LinkTypeOK
  <1>2. LinkTypeOK'
    BY DEF SocketBreaks, pubVars, cmdVars, taskVars, linkVars, LinkTypeOK, SockStates, LinkTypeOK
  <1>3. PubTypeOK'
    BY DEF SocketBreaks, pubVars, cmdVars, taskVars, linkVars, PubTypeOK, PubStates, LinkTypeOK, CmdTypeOK
  <1>4. CmdTypeOK'
    BY DEF SocketBreaks, pubVars, cmdVars, taskVars, linkVars, CmdTypeOK, LinkTypeOK, PubTypeOK
  <1>5. TaskTypeOK'
    BY DEF SocketBreaks, pubVars, cmdVars, taskVars, linkVars, TaskTypeOK, LinkTypeOK, CounterInv, FlagTypeOK
  <1>6. ConnInv'
    BY DEF SocketBreaks, pubVars, cmdVars, taskVars, linkVars, ConnInv, LinkTypeOK, FlagTypeOK
  <1>7. CounterInv'
    BY DEF SocketBreaks, pubVars, cmdVars, taskVars, linkVars, CounterInv, LinkTypeOK, FlagTypeOK, TaskTypeOK
  <1>8. ReaderInv'
    BY DEF SocketBreaks, pubVars, cmdVars, taskVars, linkVars, ReaderInv, LinkTypeOK, ConnInv, FlagTypeOK
  <1>9. QED
    BY <1>1, <1>2, <1>3, <1>4, <1>5, <1>6, <1>7, <1>8

(* IInv is preserved by a readLoop handling a frame. *)
LEMMA ReadFrameIInv ==
  ASSUME IInv, NEW g \in Gens, ReadFrame(g)
  PROVE  IInv'
  <1> USE ConstAssumption DEF IInv, TypeOK, Gens, NoConn
  <1>1. FlagTypeOK'
    BY DEF ReadFrame, pubVars, cmdVars, taskVars, linkVars, FlagTypeOK, LinkTypeOK
  <1>2. LinkTypeOK'
    BY DEF ReadFrame, pubVars, cmdVars, taskVars, linkVars, LinkTypeOK, SockStates, LinkTypeOK
  <1>3. PubTypeOK'
    BY DEF ReadFrame, pubVars, cmdVars, taskVars, linkVars, PubTypeOK, PubStates, LinkTypeOK, CmdTypeOK
  <1>4. CmdTypeOK'
    BY DEF ReadFrame, pubVars, cmdVars, taskVars, linkVars, CmdTypeOK, LinkTypeOK, PubTypeOK
  <1>5. TaskTypeOK'
    BY DEF ReadFrame, pubVars, cmdVars, taskVars, linkVars, TaskTypeOK, LinkTypeOK, CounterInv, FlagTypeOK
  <1>6. ConnInv'
    BY DEF ReadFrame, pubVars, cmdVars, taskVars, linkVars, ConnInv, LinkTypeOK, FlagTypeOK
  <1>7. CounterInv'
    BY DEF ReadFrame, pubVars, cmdVars, taskVars, linkVars, CounterInv, LinkTypeOK, FlagTypeOK, TaskTypeOK
  <1>8. ReaderInv'
    BY DEF ReadFrame, pubVars, cmdVars, taskVars, linkVars, ReaderInv, LinkTypeOK, ConnInv, FlagTypeOK
  <1>9. QED
    BY <1>1, <1>2, <1>3, <1>4, <1>5, <1>6, <1>7, <1>8

(* IInv is preserved by readLoop's error path. *)
LEMMA ReadFailIInv ==
  ASSUME IInv, NEW g \in Gens, ReadFail(g)
  PROVE  IInv'
  <1> USE ConstAssumption DEF IInv, TypeOK, Gens, NoConn
  <1>1. FlagTypeOK'
    BY DEF ReadFail, pubVars, cmdVars, linkVars, taskVars, FlagTypeOK, LinkTypeOK
  <1>2. LinkTypeOK'
    BY DEF ReadFail, pubVars, cmdVars, linkVars, taskVars, LinkTypeOK, SockStates, LinkTypeOK
  <1>3. PubTypeOK'
    BY DEF ReadFail, pubVars, cmdVars, linkVars, taskVars, PubTypeOK, PubStates, LinkTypeOK, CmdTypeOK
  <1>4. CmdTypeOK'
    BY DEF ReadFail, pubVars, cmdVars, linkVars, taskVars, CmdTypeOK, LinkTypeOK, PubTypeOK
  <1>5. TaskTypeOK'
    BY DEF ReadFail, pubVars, cmdVars, linkVars, taskVars, TaskTypeOK, LinkTypeOK, CounterInv, FlagTypeOK
  <1>6. ConnInv'
    BY DEF ReadFail, pubVars, cmdVars, linkVars, taskVars, ConnInv, LinkTypeOK, FlagTypeOK
  <1>7. CounterInv'
    BY DEF ReadFail, pubVars, cmdVars, linkVars, taskVars, CounterInv, LinkTypeOK, FlagTypeOK, TaskTypeOK
  <1>8. ReaderInv'
    BY DEF ReadFail, pubVars, cmdVars, linkVars, taskVars, ReaderInv, LinkTypeOK, ConnInv, FlagTypeOK
  <1>9. QED
    BY <1>1, <1>2, <1>3, <1>4, <1>5, <1>6, <1>7, <1>8

(* IInv is preserved by scheduleReconnect waking up. *)
LEMMA WakeIInv ==
  ASSUME IInv, ReconnectWake
  PROVE  IInv'
  <1> USE ConstAssumption DEF IInv, TypeOK, Gens, NoConn
  <1>1. FlagTypeOK'
    BY DEF ReconnectWake, linkVars, pubVars, cmdVars, taskVars, FlagTypeOK, LinkTypeOK
  <1>2. LinkTypeOK'
    BY DEF ReconnectWake, linkVars, pubVars, cmdVars, taskVars, LinkTypeOK, SockStates, LinkTypeOK
  <1>3. PubTypeOK'
    BY DEF ReconnectWake, linkVars, pubVars, cmdVars, taskVars, PubTypeOK, PubStates, LinkTypeOK, CmdTypeOK
  <1>4. CmdTypeOK'
    BY DEF ReconnectWake, linkVars, pubVars, cmdVars, taskVars, CmdTypeOK, LinkTypeOK, PubTypeOK
  <1>5. TaskTypeOK'
    BY DEF ReconnectWake, linkVars, pubVars, cmdVars, taskVars, TaskTypeOK, LinkTypeOK, CounterInv, FlagTypeOK
  <1>6. ConnInv'
    BY DEF ReconnectWake, linkVars, pubVars, cmdVars, taskVars, ConnInv, LinkTypeOK, FlagTypeOK
  <1>7. CounterInv'
    BY DEF ReconnectWake, linkVars, pubVars, cmdVars, taskVars, CounterInv, LinkTypeOK, FlagTypeOK, TaskTypeOK
  <1>8. ReaderInv'
    BY DEF ReconnectWake, linkVars, pubVars, cmdVars, taskVars, ReaderInv, LinkTypeOK, ConnInv, FlagTypeOK
  <1>9. QED
    BY <1>1, <1>2, <1>3, <1>4, <1>5, <1>6, <1>7, <1>8

(* IInv is preserved by a reconnect's Connect on a connected link. *)
LEMMA ReconnectIdleIInv ==
  ASSUME IInv, ReconnectConnect, connected
  PROVE  IInv'
  <1> USE ConstAssumption DEF IInv, TypeOK, Gens, NoConn
  <1>1. FlagTypeOK'
    BY DEF ReconnectConnect, Dial, linkVars, pubVars, cmdVars, taskVars, FlagTypeOK, LinkTypeOK
  <1>2. LinkTypeOK'
    BY DEF ReconnectConnect, Dial, linkVars, pubVars, cmdVars, taskVars, LinkTypeOK, SockStates, LinkTypeOK
  <1>3. PubTypeOK'
    BY DEF ReconnectConnect, Dial, linkVars, pubVars, cmdVars, taskVars, PubTypeOK, PubStates, LinkTypeOK, CmdTypeOK
  <1>4. CmdTypeOK'
    BY DEF ReconnectConnect, Dial, linkVars, pubVars, cmdVars, taskVars, CmdTypeOK, LinkTypeOK, PubTypeOK
  <1>5. TaskTypeOK'
    BY DEF ReconnectConnect, Dial, linkVars, pubVars, cmdVars, taskVars, TaskTypeOK, LinkTypeOK, CounterInv, FlagTypeOK
  <1>6. ConnInv'
    BY DEF ReconnectConnect, Dial, linkVars, pubVars, cmdVars, taskVars, ConnInv, LinkTypeOK, FlagTypeOK
  <1>7. CounterInv'
    BY DEF ReconnectConnect, Dial, linkVars, pubVars, cmdVars, taskVars, CounterInv, LinkTypeOK, FlagTypeOK, TaskTypeOK
  <1>8. ReaderInv'
    BY DEF ReconnectConnect, Dial, linkVars, pubVars, cmdVars, taskVars, ReaderInv, LinkTypeOK, ConnInv, FlagTypeOK
  <1>9. QED
    BY <1>1, <1>2, <1>3, <1>4, <1>5, <1>6, <1>7, <1>8

(* IInv is preserved by a reconnect's successful dial. *)
LEMMA ReconnectDialOKIInv ==
  ASSUME IInv, ReconnectConnect, ~connected, DialOK
  PROVE  IInv'
  <1> USE ConstAssumption DEF IInv, TypeOK, Gens, NoConn
  <1>1. FlagTypeOK'
    BY DEF ReconnectConnect, DialOK, linkVars, pubVars, cmdVars, taskVars, FlagTypeOK, LinkTypeOK
  <1>2. LinkTypeOK'
    BY DEF ReconnectConnect, DialOK, linkVars, pubVars, cmdVars, taskVars, LinkTypeOK, SockStates, LinkTypeOK
  <1>3. PubTypeOK'
    BY DEF ReconnectConnect, DialOK, linkVars, pubVars, cmdVars, taskVars, PubTypeOK, PubStates, LinkTypeOK, CmdTypeOK
  <1>4. CmdTypeOK'
    BY DEF ReconnectConnect, DialOK, linkVars, pubVars, cmdVars, taskVars, CmdTypeOK, LinkTypeOK, PubTypeOK
  <1>5. TaskTypeOK'
    BY DEF ReconnectConnect, DialOK, linkVars, pubVars, cmdVars, taskVars, TaskTypeOK, LinkTypeOK, CounterInv, FlagTypeOK
  <1>6. ConnInv'
    BY DEF ReconnectConnect, DialOK, linkVars, pubVars, cmdVars, taskVars, ConnInv, LinkTypeOK, FlagTypeOK
  <1>7. CounterInv'
    BY DEF ReconnectConnect, DialOK, linkVars, pubVars, cmdVars, taskVars, CounterInv, LinkTypeOK, FlagTypeOK, TaskTypeOK
  <1>8. ReaderInv'
    BY DEF ReconnectConnect, DialOK, linkVars, pubVars, cmdVars, taskVars, ReaderInv, LinkTypeOK, ConnInv, FlagTypeOK
  <1>9. QED
    BY <1>1, <1>2, <1>3, <1>4, <1>5, <1>6, <1>7, <1>8

(* IInv is preserved by a reconnect's failed dial. *)
LEMMA ReconnectDialFailIInv ==
  ASSUME IInv, ReconnectConnect, ~connected, DialFail
  PROVE  IInv'
  <1> USE ConstAssumption DEF IInv, TypeOK, Gens, NoConn
  <1>1. FlagTypeOK'
    BY DEF ReconnectConnect, DialFail, linkVars, pubVars, cmdVars, taskVars, FlagTypeOK, LinkTypeOK
  <1>2. LinkTypeOK'
    BY DEF ReconnectConnect, DialFail, linkVars, pubVars, cmdVars, taskVars, LinkTypeOK, SockStates, LinkTypeOK
  <1>3. PubTypeOK'
    BY DEF ReconnectConnect, DialFail, linkVars, pubVars, cmdVars, taskVars, PubTypeOK, PubStates, LinkTypeOK, CmdTypeOK
  <1>4. CmdTypeOK'
    BY DEF ReconnectConnect, DialFail, linkVars, pubVars, cmdVars, taskVars, CmdTypeOK, LinkTypeOK, PubTypeOK
  <1>5. TaskTypeOK'
    BY DEF ReconnectConnect, DialFail, linkVars, pubVars, cmdVars, taskVars, TaskTypeOK, LinkTypeOK, CounterInv, FlagTypeOK
  <1>6. ConnInv'
    BY DEF ReconnectConnect, DialFail, linkVars, pubVars, cmdVars, taskVars, ConnInv, LinkTypeOK, FlagTypeOK
  <1>7. CounterInv'
    BY DEF ReconnectConnect, DialFail, linkVars, pubVars, cmdVars, taskVars, CounterInv, LinkTypeOK, FlagTypeOK, TaskTypeOK
  <1>8. ReaderInv'
    BY DEF ReconnectConnect, DialFail, linkVars, pubVars, cmdVars, taskVars, ReaderInv, LinkTypeOK, ConnInv, FlagTypeOK
  <1>9. QED
    BY <1>1, <1>2, <1>3, <1>4, <1>5, <1>6, <1>7, <1>8

(* IInv is preserved by a publisher entering its select. *)
LEMMA PubSelectIInv ==
  ASSUME IInv, NEW p \in Gens, PubSelect(p)
  PROVE  IInv'
  <1> USE ConstAssumption DEF IInv, TypeOK, Gens, NoConn
  <1>1. FlagTypeOK'
    BY DEF PubSelect, linkVars, cmdVars, taskVars, pubVars, FlagTypeOK, LinkTypeOK
  <1>2. LinkTypeOK'
    BY DEF PubSelect, linkVars, cmdVars, taskVars, pubVars, LinkTypeOK, SockStates, LinkTypeOK
  <1>3. PubTypeOK'
    BY DEF PubSelect, linkVars, cmdVars, taskVars, pubVars, PubTypeOK, PubStates, LinkTypeOK, CmdTypeOK
  <1>4. CmdTypeOK'
    BY DEF PubSelect, linkVars, cmdVars, taskVars, pubVars, CmdTypeOK, LinkTypeOK, PubTypeOK
  <1>5. TaskTypeOK'
    BY DEF PubSelect, linkVars, cmdVars, taskVars, pubVars, TaskTypeOK, LinkTypeOK, CounterInv, FlagTypeOK
  <1>6. ConnInv'
    BY DEF PubSelect, linkVars, cmdVars, taskVars, pubVars, ConnInv, LinkTypeOK, FlagTypeOK
  <1>7. CounterInv'
    BY DEF PubSelect, linkVars, cmdVars, taskVars, pubVars, CounterInv, LinkTypeOK, FlagTypeOK, TaskTypeOK
  <1>8. ReaderInv'
    BY DEF PubSelect, linkVars, cmdVars, taskVars, pubVars, ReaderInv, LinkTypeOK, ConnInv, FlagTypeOK
  <1>9. QED
    BY <1>1, <1>2, <1>3, <1>4, <1>5, <1>6, <1>7, <1>8

(* IInv is preserved by a publisher taking a tick. *)
LEMMA PubTickIInv ==
  ASSUME IInv, NEW p \in Gens, PubTick(p)
  PROVE  IInv'
  <1> USE ConstAssumption DEF IInv, TypeOK, Gens, NoConn
  <1>1. FlagTypeOK'
    BY DEF PubTick, linkVars, cmdVars, taskVars, pubVars, FlagTypeOK, LinkTypeOK
  <1>2. LinkTypeOK'
    BY DEF PubTick, linkVars, cmdVars, taskVars, pubVars, LinkTypeOK, SockStates, LinkTypeOK
  <1>3. PubTypeOK'
    BY DEF PubTick, linkVars, cmdVars, taskVars, pubVars, PubTypeOK, PubStates, LinkTypeOK, CmdTypeOK
  <1>4. CmdTypeOK'
    BY DEF PubTick, linkVars, cmdVars, taskVars, pubVars, CmdTypeOK, LinkTypeOK, PubTypeOK
  <1>5. TaskTypeOK'
    BY DEF PubTick, linkVars, cmdVars, taskVars, pubVars, TaskTypeOK, LinkTypeOK, CounterInv, FlagTypeOK
  <1>6. ConnInv'
    BY DEF PubTick, linkVars, cmdVars, taskVars, pubVars, ConnInv, LinkTypeOK, FlagTypeOK
  <1>7. CounterInv'
    BY DEF PubTick, linkVars, cmdVars, taskVars, pubVars, CounterInv, LinkTypeOK, FlagTypeOK, TaskTypeOK
  <1>8. ReaderInv'
    BY DEF PubTick, linkVars, cmdVars, taskVars, pubVars, ReaderInv, LinkTypeOK, ConnInv, FlagTypeOK
  <1>9. QED
    BY <1>1, <1>2, <1>3, <1>4, <1>5, <1>6, <1>7, <1>8

(* IInv is preserved by a publisher's first lock region. *)
LEMMA PubCheckIInv ==
  ASSUME IInv, NEW p \in Gens, PubCheck(p)
  PROVE  IInv'
  <1> USE ConstAssumption DEF IInv, TypeOK, Gens, NoConn
  <1>1. FlagTypeOK'
    BY DEF PubCheck, linkVars, cmdVars, taskVars, pubVars, FlagTypeOK, LinkTypeOK
  <1>2. LinkTypeOK'
    BY DEF PubCheck, linkVars, cmdVars, taskVars, pubVars, LinkTypeOK, SockStates, LinkTypeOK
  <1>3. PubTypeOK'
    BY DEF PubCheck, linkVars, cmdVars, taskVars, pubVars, PubTypeOK, PubStates, LinkTypeOK, CmdTypeOK
  <1>4. CmdTypeOK'
    BY DEF PubCheck, linkVars, cmdVars, taskVars, pubVars, CmdTypeOK, LinkTypeOK, PubTypeOK
  <1>5. TaskTypeOK'
    BY DEF PubCheck, linkVars, cmdVars, taskVars, pubVars, TaskTypeOK, LinkTypeOK, CounterInv, FlagTypeOK
  <1>6. ConnInv'
    BY DEF PubCheck, linkVars, cmdVars, taskVars, pubVars, ConnInv, LinkTypeOK, FlagTypeOK
  <1>7. CounterInv'
    BY DEF PubCheck, linkVars, cmdVars, taskVars, pubVars, CounterInv, LinkTypeOK, FlagTypeOK, TaskTypeOK
  <1>8. ReaderInv'
    BY DEF PubCheck, linkVars, cmdVars, taskVars, pubVars, ReaderInv, LinkTypeOK, ConnInv, FlagTypeOK
  <1>9. QED
    BY <1>1, <1>2, <1>3, <1>4, <1>5, <1>6, <1>7, <1>8

(* IInv is preserved by a publisher's send. *)
LEMMA PubSendIInv ==
  ASSUME IInv, NEW p \in Gens, PubSend(p)
  PROVE  IInv'
  <1> USE ConstAssumption DEF IInv, TypeOK, Gens, NoConn
  <1>1. FlagTypeOK'
    BY DEF PubSend, linkVars, taskVars, pubVars, cmdVars, FlagTypeOK, LinkTypeOK
  <1>2. LinkTypeOK'
    BY DEF PubSend, linkVars, taskVars, pubVars, cmdVars, LinkTypeOK, SockStates, LinkTypeOK
  <1>3. PubTypeOK'
    BY DEF PubSend, linkVars, taskVars, pubVars, cmdVars, PubTypeOK, PubStates, LinkTypeOK, CmdTypeOK
  <1>4. CmdTypeOK'
    BY DEF PubSend, linkVars, taskVars, pubVars, cmdVars, CmdTypeOK, LinkTypeOK, PubTypeOK
  <1>5. TaskTypeOK'
    BY DEF PubSend, linkVars, taskVars, pubVars, cmdVars, TaskTypeOK, LinkTypeOK, CounterInv, FlagTypeOK
  <1>6. ConnInv'
    BY DEF PubSend, linkVars, taskVars, pubVars, cmdVars, ConnInv, LinkTypeOK, FlagTypeOK
  <1>7. CounterInv'
    BY DEF PubSend, linkVars, taskVars, pubVars, cmdVars, CounterInv, LinkTypeOK, FlagTypeOK, TaskTypeOK
  <1>8. ReaderInv'
    BY DEF PubSend, linkVars, taskVars, pubVars, cmdVars, ReaderInv, LinkTypeOK, ConnInv, FlagTypeOK
  <1>9. QED
    BY <1>1, <1>2, <1>3, <1>4, <1>5, <1>6, <1>7, <1>8

(* IInv is preserved by a publisher storing lastTwist. *)
LEMMA PubStoreIInv ==
  ASSUME IInv, NEW p \in Gens, PubStore(p)
  PROVE  IInv'
  <1> USE ConstAssumption DEF IInv, TypeOK, Gens, NoConn
  <1>1. FlagTypeOK'
    BY DEF PubStore, linkVars, taskVars, pubVars, cmdVars, FlagTypeOK, LinkTypeOK
  <1>2. LinkTypeOK'
    BY DEF PubStore, linkVars, taskVars, pubVars, cmdVars, LinkTypeOK, SockStates, LinkTypeOK
  <1>3. PubTypeOK'
    BY DEF PubStore, linkVars, taskVars, pubVars, cmdVars, PubTypeOK, PubStates, LinkTypeOK, CmdTypeOK
  <1>4. CmdTypeOK'
    BY DEF PubStore, linkVars, taskVars, pubVars, cmdVars, CmdTypeOK, LinkTypeOK, PubTypeOK
  <1>5. TaskTypeOK'
    BY DEF PubStore, linkVars, taskVars, pubVars, cmdVars, TaskTypeOK, LinkTypeOK, CounterInv, FlagTypeOK
  <1>6. ConnInv'
    BY DEF PubStore, linkVars, taskVars, pubVars, cmdVars, ConnInv, LinkTypeOK, FlagTypeOK
  <1>7. CounterInv'
    BY DEF PubStore, linkVars, taskVars, pubVars, cmdVars, CounterInv, LinkTypeOK, FlagTypeOK, TaskTypeOK
  <1>8. ReaderInv'
    BY DEF PubStore, linkVars, taskVars, pubVars, cmdVars, ReaderInv, LinkTypeOK, ConnInv, FlagTypeOK
  <1>9. QED
    BY <1>1, <1>2, <1>3, <1>4, <1>5, <1>6, <1>7, <1>8

(* IInv is preserved by the OnConnected callback. *)
LEMMA OnConnectedIInv ==
  ASSUME IInv, RunOnConnected
  PROVE  IInv'
  <1> USE ConstAssumption DEF IInv, TypeOK, Gens, NoConn
  <1>1. FlagTypeOK'
    BY DEF RunOnConnected, linkVars, pubVars, cmdVars, taskVars, FlagTypeOK, LinkTypeOK
  <1>2. LinkTypeOK'
    BY DEF RunOnConnected, linkVars, pubVars, cmdVars, taskVars, LinkTypeOK, SockStates, LinkTypeOK
  <1>3. PubTypeOK'
    BY DEF RunOnConnected, linkVars, pubVars, cmdVars, taskVars, PubTypeOK, PubStates, LinkTypeOK, CmdTypeOK
  <1>4. CmdTypeOK'
    BY DEF RunOnConnected, linkVars, pubVars, cmdVars, taskVars, CmdTypeOK, LinkTypeOK, PubTypeOK
  <1>5. TaskTypeOK'
    BY DEF RunOnConnected, linkVars, pubVars, cmdVars, taskVars, TaskTypeOK, LinkTypeOK, CounterInv, FlagTypeOK
  <1>6. ConnInv'
    BY DEF RunOnConnected, linkVars, pubVars, cmdVars, taskVars, ConnInv, LinkTypeOK, FlagTypeOK
  <1>7. CounterInv'
    BY DEF RunOnConnected, linkVars, pubVars, cmdVars, taskVars, CounterInv, LinkTypeOK, FlagTypeOK, TaskTypeOK
  <1>8. ReaderInv'
    BY DEF RunOnConnected, linkVars, pubVars, cmdVars, taskVars, ReaderInv, LinkTypeOK, ConnInv, FlagTypeOK
  <1>9. QED
    BY <1>1, <1>2, <1>3, <1>4, <1>5, <1>6, <1>7, <1>8

(* IInv is preserved by the OnDisconnected callback. *)
LEMMA OnDisconnectedIInv ==
  ASSUME IInv, RunOnDisconnected
  PROVE  IInv'
  <1> USE ConstAssumption DEF IInv, TypeOK, Gens, NoConn
  <1>1. FlagTypeOK'
    BY DEF RunOnDisconnected, linkVars, pubVars, cmdVars, taskVars, FlagTypeOK, LinkTypeOK
  <1>2. LinkTypeOK'
    BY DEF RunOnDisconnected, linkVars, pubVars, cmdVars, taskVars, LinkTypeOK, SockStates, LinkTypeOK
  <1>3. PubTypeOK'
    BY DEF RunOnDisconnected, linkVars, pubVars, cmdVars, taskVars, PubTypeOK, PubStates, LinkTypeOK, CmdTypeOK
  <1>4. CmdTypeOK'
    BY DEF RunOnDisconnected, linkVars, pubVars, cmdVars, taskVars, CmdTypeOK, LinkTypeOK, PubTypeOK
  <1>5. TaskTypeOK'
    BY DEF RunOnDisconnected, linkVars, pubVars, cmdVars, taskVars, TaskTypeOK, LinkTypeOK, CounterInv, FlagTypeOK
  <1>6. ConnInv'
    BY DEF RunOnDisconnected, linkVars, pubVars, cmdVars, taskVars, ConnInv, LinkTypeOK, FlagTypeOK
  <1>7. CounterInv'
    BY DEF RunOnDisconnected, linkVars, pubVars, cmdVars, taskVars, CounterInv, LinkTypeOK, FlagTypeOK, TaskTypeOK
  <1>8. ReaderInv'
    BY DEF RunOnDisconnected, linkVars, pubVars, cmdVars, taskVars, ReaderInv, LinkTypeOK, ConnInv, FlagTypeOK
  <1>9. QED
    BY <1>1, <1>2, <1>3, <1>4, <1>5, <1>6, <1>7, <1>8

(* IInv is preserved by a stuttering step. *)
LEMMA StutterIInv ==
  ASSUME IInv, UNCHANGED vars
  PROVE  IInv'
  <1> USE ConstAssumption DEF IInv, TypeOK, Gens, NoConn
  <1>1. FlagTypeOK'
    BY DEF vars, linkVars, pubVars, cmdVars, taskVars, FlagTypeOK, LinkTypeOK
  <1>2. LinkTypeOK'
    BY DEF vars, linkVars, pubVars, cmdVars, taskVars, LinkTypeOK, SockStates, LinkTypeOK
  <1>3. PubTypeOK'
    BY DEF vars, linkVars, pubVars, cmdVars, taskVars, PubTypeOK, PubStates, LinkTypeOK, CmdTypeOK
  <1>4. CmdTypeOK'
    BY DEF vars, linkVars, pubVars, cmdVars, taskVars, CmdTypeOK, LinkTypeOK, PubTypeOK
  <1>5. TaskTypeOK'
    BY DEF vars, linkVars, pubVars, cmdVars, taskVars, TaskTypeOK, LinkTypeOK, CounterInv, FlagTypeOK
  <1>6. ConnInv'
    BY DEF vars, linkVars, pubVars, cmdVars, taskVars, ConnInv, LinkTypeOK, FlagTypeOK
  <1>7. CounterInv'
    BY DEF vars, linkVars, pubVars, cmdVars, taskVars, CounterInv, LinkTypeOK, FlagTypeOK, TaskTypeOK
  <1>8. ReaderInv'
    BY DEF vars, linkVars, pubVars, cmdVars, taskVars, ReaderInv, LinkTypeOK, ConnInv, FlagTypeOK
  <1>9. QED
    BY <1>1, <1>2, <1>3, <1>4, <1>5, <1>6, <1>7, <1>8

LEMMA NextIInv == IInv /\ [Next]_vars => IInv'
  <1> SUFFICES ASSUME IInv, [Next]_vars PROVE IInv'
    OBVIOUS
  <1>1. CASE UserConnect
    BY <1>1, UserDialOKIInv, UserDialFailIInv DEF UserConnect, Dial
  <1>2. CASE StopConnection
    BY <1>2, StopIdleIInv, StopIInv
  <1>3. CASE ReconnectConnect
    BY <1>3, ReconnectIdleIInv, ReconnectDialOKIInv, ReconnectDialFailIInv
       DEF ReconnectConnect, Dial
  <1>4. QED
    BY <1>1, <1>2, <1>3, SetDesiredIInv, BreakIInv, ReadFrameIInv, ReadFailIInv,
       WakeIInv, PubSelectIInv, PubTickIInv, PubCheckIInv, PubSendIInv,
       PubStoreIInv, OnConnectedIInv, OnDisconnectedIInv, StutterIInv
       DEF Next

LEMMA SpecIInv == Spec => []IInv
  BY InitIInv, NextIInv, PTL DEF Spec

-----------------------------------------------------------------------------
(* Type correctness of the client model, including the bounds on the       *)
(* reconnect goroutines and callbacks that Connect, readLoop and           *)
(* disconnect start.                                                       *)
THEOREM TypeCorrect == Spec => []TypeOK
  BY SpecIInv, PTL DEF IInv

(* While the current socket is open a readLoop is blocked on it, so its    *)
(* failure is noticed by readLoop's error path (client.go readLoop).       *)
THEOREM ReaderWatchesCurrentSocket == Spec => []CurrentSocketHasReader
  <1>1. IInv => CurrentSocketHasReader
    BY DEF IInv, ReaderInv, CurrentSocketHasReader, NoConn, LinkTypeOK, TypeOK, Gens
  <1>2. QED
    BY SpecIInv, <1>1, PTL

-----------------------------------------------------------------------------
(* The refinement mapping onto the link of spec 4.1: the abstract          *)
(* variables under it.                                                     *)
linkAbs == <<connected, conn, 1..dialled, wire>>

(* A successful dial past the connected check is the abstract Up: socket   *)
(* dialled + 1 is one no earlier dial opened.                              *)
LEMMA DialOKRefines ==
    ASSUME IInv, ~connected, DialOK
    PROVE  Link!Up
<1> USE ConstAssumption DEF IInv, TypeOK, LinkTypeOK, Gens
<1>1. conn' \in Gens \ (1..dialled)
    BY DEF DialOK
<1>2. 1..dialled' = (1..dialled) \cup {conn'}
    BY DEF DialOK
<1>3. QED
    BY <1>1, <1>2 DEF DialOK, cmdVars, Link!Up

(* Connect, from a user or from scheduleReconnect, is Up or a stutter:     *)
(* a failed dial changes no abstract variable.                             *)
LEMMA DialRefines ==
    ASSUME IInv, Dial
    PROVE  [Link!Next]_linkAbs
<1>1. CASE DialOK
    BY <1>1, DialOKRefines DEF Dial, Link!Next
<1>2. CASE DialFail
    BY <1>2 DEF DialFail, cmdVars, linkAbs
<1>3. QED
    BY <1>1, <1>2 DEF Dial

(* Disconnect and the readLoop's error path clear connected and touch      *)
(* neither the socket nor the wire: Down if the link was up, else nothing. *)
LEMMA GoDownRefines ==
    ASSUME IInv, connected' = FALSE, UNCHANGED <<conn, dialled, wire>>
    PROVE  [Link!Next]_linkAbs
<1>1. CASE connected
    BY <1>1 DEF Link!Down, Link!Next
<1>2. CASE ~connected
    BY <1>2 DEF linkAbs, IInv, TypeOK, FlagTypeOK
<1>3. QED
    BY <1>1, <1>2

(* The publisher's c.send is the abstract Send of the copied twist when    *)
(* it gets through, and a stutter when it fails.                            *)
LEMMA PubSendRefines ==
    ASSUME IInv, NEW p \in Gens, PubSend(p)
    PROVE  [Link!Next]_linkAbs
<1>1. CASE connected /\ sock[conn] = "open"
    <2>1. pdes[p] \in Twists
        BY DEF IInv, TypeOK, PubTypeOK
    <2>2. Link!Send(pdes[p])
        BY <1>1 DEF PubSend, linkVars, Link!Send
    <2>3. QED
        BY <2>1, <2>2 DEF Link!Next
<1>2. CASE ~(connected /\ sock[conn] = "open")
    BY <1>2 DEF PubSend, linkVars, linkAbs
<1>3. QED
    BY <1>1, <1>2

(* Every step of the client is a link step or leaves linkAbs unchanged.    *)
LEMMA NextLinkRefines == IInv /\ [Next]_vars => [Link!Next]_linkAbs
<1> SUFFICES ASSUME IInv, [Next]_vars PROVE [Link!Next]_linkAbs
    OBVIOUS
<1>1. CASE UserConnect
    BY <1>1, DialRefines DEF UserConnect
<1>2. CASE StopConnection
    <2>1. CASE ~connected
        BY <1>2, <2>1 DEF StopConnection, linkVars, cmdVars, linkAbs
    <2>2. CASE connected
        BY <1>2, <2>2, GoDownRefines DEF StopConnection, cmdVars
    <2>3. QED
        BY <2>1, <2>2
<1>3. CASE ReconnectConnect
    BY <1>3, DialRefines DEF ReconnectConnect, linkVars, cmdVars, linkAbs
<1>4. ASSUME NEW g \in Gens, ReadFail(g) PROVE [Link!Next]_linkAbs
    BY <1>4, GoDownRefines DEF ReadFail, cmdVars
<1>5. ASSUME NEW p \in Gens, PubSend(p) PROVE [Link!Next]_linkAbs
    BY <1>5, PubSendRefines
<1>6. CASE \/ \E v \in Twists : SetDesiredCmdVel(v)
           \/ \E k \in Gens : SocketBreaks(k) \/ ReadFrame(k)
           \/ ReconnectWake \/ RunOnConnected \/ RunOnDisconnected
           \/ \E q \in Gens : PubSelect(q) \/ PubTick(q) \/ PubCheck(q) \/ PubStore(q)
           \/ UNCHANGED vars
    BY <1>6 DEF SetDesiredCmdVel, SocketBreaks, ReadFrame, ReconnectWake, RunOnConnected,
                RunOnDisconnected, PubSelect, PubTick, PubCheck, PubStore,
                vars, linkVars, cmdVars, linkAbs
<1>7. QED
    BY <1>1, <1>2, <1>3, <1>4, <1>5, <1>6 DEF Next

(* The client implements the link of spec 4.1, for every bound on dials    *)
(* and every set of twists: Connect's "if c.connected" guard, a fresh      *)
(* socket per successful dial, disconnect and readLoop's error path, and   *)
(* c.send's connected check refine the abstract Up, Down and Send.         *)
THEOREM LinkImplemented == Spec => LinkRefined
<1>1. Init => Link!Init
    BY DEF Init, Link!Init
<1>2. QED
    BY <1>1, NextLinkRefines, SpecIInv, PTL
       DEF Spec, LinkRefined, Link!Spec, Link!lvars, linkAbs
=============================================================================
