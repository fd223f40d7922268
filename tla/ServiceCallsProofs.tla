--------------------------- MODULE ServiceCallsProofs ---------------------------
(***************************************************************************)
(* Proofs about ServiceCalls for all values of the constants: types,      *)
(* NoEntryOutlivesCall and the refinement of PendingCalls.                *)
(*                                                                         *)
(* NoEntryOutlivesCall is not inductive by itself: when call k runs its    *)
(* deferred delete it removes only the entry under cid[k], so we need that *)
(* no other entry of c.svcPending names k's channel.  EntryAtOwnId says an *)
(* entry naming k's channel sits under the id k built.                    *)
(***************************************************************************)
EXTENDS ServiceCalls, TLAPS

Live == {"send", "wait", "ret"}

(* Every entry names the channel of a live call, under that call's own id. *)
EntryAtOwnId ==
    \A i \in Ids : pending[i] # None =>
        /\ pc[pending[i]] \in Live
        /\ cid[pending[i]] = i

IInv == TypeOK /\ EntryAtOwnId

(* Init establishes the inductive invariant.                               *)
LEMMA InitIInv == Init => IInv
<1> SUFFICES ASSUME Init PROVE IInv
    OBVIOUS
<1>1. Ids # {}
    <2>1. PICK s \in Services : TRUE
        BY CallsAssumption
    <2>2. 0 \in 0..MaxMs
        BY CallsAssumption
    <2>3. <<s, 0>> \in Ids
        BY <2>1, <2>2 DEF Ids
    <2>4. QED
        BY <2>3
<1>2. (CHOOSE i \in Ids : TRUE) \in Ids
    BY <1>1
<1>3. TypeOK
    BY <1>2, CallsAssumption DEF Init, TypeOK, CallStates, RLStates
<1>4. EntryAtOwnId
    BY DEF Init, EntryAtOwnId
<1>5. QED
    BY <1>3, <1>4 DEF IInv

(* A caller registering its channel keeps the invariant: the new entry is *)
(* its own, under its own id, and the call was idle so no entry named it.  *)
LEMMA RegisterIInv ==
    ASSUME IInv, NEW k \in Calls, Register(k) PROVE IInv'
<1> USE CallsAssumption DEF IInv, Register, RegisterCall
<1>1. PICK s \in Services : /\ cid' = [cid EXCEPT ![k] = <<s, now>>]
                            /\ pending' = [pending EXCEPT ![<<s, now>>] = k]
    OBVIOUS
<1>2. <<s, now>> \in Ids
    BY DEF TypeOK, Ids
<1>3. TypeOK'
    BY <1>1, <1>2 DEF TypeOK, CallStates
<1>4. EntryAtOwnId'
    <2> SUFFICES ASSUME NEW i \in Ids, pending'[i] # None
                 PROVE /\ pc'[pending'[i]] \in Live
                       /\ cid'[pending'[i]] = i
        BY DEF EntryAtOwnId
    <2>1. CASE i = <<s, now>>
        BY <1>1, <1>2, <2>1 DEF TypeOK, Live
    <2>2. CASE i # <<s, now>>
        <3>1. pending'[i] = pending[i] /\ pending[i] # k
            BY <1>1, <2>2 DEF TypeOK, EntryAtOwnId, Live
        <3>2. QED
            BY <1>1, <3>1 DEF TypeOK, EntryAtOwnId
    <2>3. QED
        BY <2>1, <2>2
<1>5. QED
    BY <1>3, <1>4

(* The send step changes no entry and only moves a live call to a live    *)
(* state (wait, or ret on a send error).                                   *)
LEMMA SendCallIInv ==
    ASSUME IInv, NEW k \in Calls, SendCall(k) PROVE IInv'
<1> USE DEF IInv, SendCall
<1>1. TypeOK'
    BY DEF TypeOK, CallStates, Responses
<1>2. EntryAtOwnId'
    BY DEF TypeOK, EntryAtOwnId, Live
<1>3. QED
    BY <1>1, <1>2

(* Receiving or timing out moves a waiting call to ret, still live.       *)
LEMMA ReceiveIInv ==
    ASSUME IInv, NEW k \in Calls, Receive(k) PROVE IInv'
<1> USE DEF IInv, Receive
<1>1. TypeOK'
    BY DEF TypeOK, CallStates
<1>2. EntryAtOwnId'
    BY DEF TypeOK, EntryAtOwnId, Live
<1>3. QED
    BY <1>1, <1>2

LEMMA TimeoutIInv ==
    ASSUME IInv, NEW k \in Calls, Timeout(k) PROVE IInv'
<1> USE DEF IInv, Timeout
<1>1. TypeOK'
    BY DEF TypeOK, CallStates
<1>2. EntryAtOwnId'
    BY DEF TypeOK, EntryAtOwnId, Live
<1>3. QED
    BY <1>1, <1>2

(* The deferred delete clears cid[k]; by EntryAtOwnId no other entry names *)
(* k, so k may become done.                                                *)
LEMMA DeleteEntryIInv ==
    ASSUME IInv, NEW k \in Calls, DeleteEntry(k) PROVE IInv'
<1> USE CallsAssumption DEF IInv, DeleteEntry
<1>1. TypeOK'
    BY DEF TypeOK, CallStates
<1>2. EntryAtOwnId'
    <2> SUFFICES ASSUME NEW i \in Ids, pending'[i] # None
                 PROVE /\ pc'[pending'[i]] \in Live
                       /\ cid'[pending'[i]] = i
        BY DEF EntryAtOwnId
    <2>1. i # cid[k] /\ pending'[i] = pending[i]
        BY DEF TypeOK, CallStates
    <2>2. pending[i] # k
        BY <2>1 DEF TypeOK, EntryAtOwnId
    <2>3. QED
        BY <2>1, <2>2 DEF TypeOK, EntryAtOwnId
<1>3. QED
    BY <1>1, <1>2

(* The readLoop's steps and the clock leave pc, cid and pending alone.     *)
LEMMA LookupResponseIInv ==
    ASSUME IInv, LookupResponse PROVE IInv'
<1> USE DEF IInv, LookupResponse
<1>1. PICK r \in inFlight :
          /\ inFlight' = inFlight \ {r}
          /\ IF pending[r.id] = None
                THEN UNCHANGED rl
                ELSE rl' = [st |-> "route", ch |-> pending[r.id], from |-> r.from]
    OBVIOUS
<1>2. r \in Responses
    BY DEF TypeOK, CallStates
<1>3. rl' \in RLStates
    <2>1. CASE pending[r.id] = None
        BY <1>1, <2>1 DEF TypeOK, CallStates
    <2>2. CASE pending[r.id] # None
        <3>1. pending[r.id] \in Calls
            BY <1>2, <2>2 DEF TypeOK, CallStates, Responses
        <3>2. QED
            BY <1>1, <1>2, <2>2, <3>1 DEF RLStates, Responses
    <2>3. QED
        BY <2>1, <2>2
<1>4. TypeOK'
    BY <1>1, <1>3 DEF TypeOK, CallStates
<1>5. EntryAtOwnId'
    BY DEF EntryAtOwnId
<1>6. QED
    BY <1>4, <1>5

LEMMA DeliverResponseIInv ==
    ASSUME IInv, DeliverResponse PROVE IInv'
<1> USE DEF IInv, DeliverResponse
<1>1. rl.ch \in Calls /\ rl.from \in Calls
    BY DEF TypeOK, RLStates
<1>2. TypeOK'
    BY <1>1 DEF TypeOK, RLStates
<1>3. EntryAtOwnId'
    BY DEF EntryAtOwnId
<1>4. QED
    BY <1>2, <1>3

LEMMA TickIInv ==
    ASSUME IInv, Tick PROVE IInv'
<1> USE CallsAssumption DEF IInv, Tick
<1>1. TypeOK'
    BY DEF TypeOK, CallStates
<1>2. EntryAtOwnId'
    BY DEF EntryAtOwnId
<1>3. QED
    BY <1>1, <1>2

LEMMA StutterIInv ==
    ASSUME IInv, UNCHANGED vars PROVE IInv'
BY DEF IInv, vars, TypeOK, EntryAtOwnId

LEMMA NextIInv == IInv /\ [Next]_vars => IInv'
<1> SUFFICES ASSUME IInv, [Next]_vars PROVE IInv'
    OBVIOUS
<1>1. CASE Tick
    BY <1>1, TickIInv
<1>2. CASE \E k \in Calls : Register(k) \/ SendCall(k) \/ Receive(k)
                            \/ Timeout(k) \/ DeleteEntry(k)
    BY <1>2, RegisterIInv, SendCallIInv, ReceiveIInv, TimeoutIInv, DeleteEntryIInv
<1>3. CASE LookupResponse
    BY <1>3, LookupResponseIInv
<1>4. CASE DeliverResponse
    BY <1>4, DeliverResponseIInv
<1>5. CASE UNCHANGED vars
    BY <1>5, StutterIInv
<1>6. QED
    BY <1>1, <1>2, <1>3, <1>4, <1>5 DEF Next

LEMMA SpecIInv == Spec => []IInv
BY InitIInv, NextIInv, PTL DEF Spec

(* Type correctness of the service-call model.                              *)
THEOREM ServiceTypeCorrect == Spec => []TypeOK
BY SpecIInv, PTL DEF IInv

(* Spec 3: no entry of c.svcPending outlives its CallService, for any      *)
(* number of calls, services and milliseconds: the deferred delete runs on *)
(* every return path, and whatever entry it removes, no other names k.     *)
THEOREM NoPendingLeak == Spec => []NoEntryOutlivesCall
<1>1. IInv => NoEntryOutlivesCall
    BY DEF IInv, EntryAtOwnId, NoEntryOutlivesCall, Live
<1>2. QED
    BY <1>1, SpecIInv, PTL

-----------------------------------------------------------------------------
(* The refinement mapping onto the table of spec 3: the calls named by an  *)
(* entry, and the tuple of the abstract variables.                          *)
Owners == {pending[i] : i \in Ids} \ {None}

tableAbs == <<[k \in Calls |-> Phase(k)], Owners>>

(* Writing v (a call or None) under id i takes the owner of i out of the   *)
(* table and puts v in: by EntryAtOwnId the owner of i owns no other id.   *)
LEMMA OwnersAfterWrite ==
    ASSUME IInv, NEW i \in Ids, NEW v \in Calls \cup {None},
           pending' = [pending EXCEPT ![i] = v]
    PROVE  Owners' = (Owners \ {pending[i]}) \cup ({v} \ {None})
<1> USE DEF IInv, TypeOK
<1>1. ASSUME NEW j \in Ids, j # i, pending[j] # None PROVE pending[j] # pending[i]
    BY <1>1 DEF EntryAtOwnId
<1>2. \A j \in Ids : pending'[j] = IF j = i THEN v ELSE pending[j]
    OBVIOUS
<1>3. QED
    BY <1>1, <1>2 DEF Owners

(* Calls other than k keep their phase when only pc[k] changes.            *)
LEMMA PhaseAfter ==
    ASSUME NEW k \in Calls, NEW x, pc' = [pc EXCEPT ![k] = x], pc \in [Calls -> CallStates]
    PROVE  [j \in Calls |-> Phase(j)]' = [[j \in Calls |-> Phase(j)] EXCEPT ![k] = Phase(k)']
BY DEF Phase

(* Registering is the abstract Register: the caller was idle, so it owned  *)
(* nothing; it takes id <<s, now>> and displaces that id's owner, if any.  *)
LEMMA RegisterRefines ==
    ASSUME IInv, NEW k \in Calls, Register(k) PROVE Table!Register(k)
<1> USE DEF IInv
<1>1. PICK s \in Services : RegisterCall(k, s)
    BY DEF Register
<1> DEFINE i == <<s, now>>
<1>2. i \in Ids
    BY DEF TypeOK, Ids
<1>3. pending' = [pending EXCEPT ![i] = k] /\ pc[k] = "idle"
    BY <1>1 DEF RegisterCall
<1>4. Owners' = (Owners \ {pending[i]}) \cup ({k} \ {None})
    BY <1>2, <1>3, OwnersAfterWrite
<1>5. k \notin Owners /\ None \notin Owners /\ k # None
    BY <1>3, CallsAssumption DEF Owners, EntryAtOwnId, TypeOK, Live
<1>10. Owners' = (Owners \ {IF pending[i] = None THEN k ELSE pending[i]}) \cup {k}
    BY <1>4, <1>5
<1>6. (IF pending[i] = None THEN k ELSE pending[i]) \in Owners \cup {k}
    BY <1>2 DEF Owners
<1>7. [j \in Calls |-> Phase(j)]' = [[j \in Calls |-> Phase(j)] EXCEPT ![k] = "active"]
    <2>1. pc' = [pc EXCEPT ![k] = "send"]
        BY <1>1 DEF RegisterCall
    <2>2. Phase(k)' = "active"
        BY <2>1 DEF TypeOK, Phase
    <2>3. QED
        BY <2>1, <2>2, PhaseAfter DEF TypeOK
<1>8. [j \in Calls |-> Phase(j)][k] = "idle"
    BY <1>3 DEF Phase
<1>9. QED
    BY <1>10, <1>6, <1>7, <1>8 DEF Table!Register, Owners

(* The deferred delete is the abstract Return: it removes the caller's own *)
(* entry if it still has one; if its id was taken over, it removes the     *)
(* entry of the call that took it (or nothing, once that one is gone).     *)
LEMMA DeleteEntryRefines ==
    ASSUME IInv, NEW k \in Calls, DeleteEntry(k) PROVE Table!Return(k)
<1> USE DEF IInv
<1> DEFINE i == cid[k]
<1>1. i \in Ids
    BY DEF TypeOK
<1>9. pending' = [pending EXCEPT ![i] = None]
    BY DEF DeleteEntry
<1>2. Owners' = Owners \ {pending[i]}
    <2>1. Owners' = (Owners \ {pending[i]}) \cup ({None} \ {None})
        BY <1>1, <1>9, OwnersAfterWrite
    <2>2. QED
        BY <2>1
<1>3. k \in Owners => pending[i] = k
    BY DEF Owners, EntryAtOwnId
<1>4. \/ k \in Owners /\ Owners' = Owners \ {k}
      \/ k \notin Owners /\ \E d \in Owners \cup {k} : Owners' = Owners \ {d}
    <2>1. CASE k \in Owners
        BY <1>2, <1>3, <2>1
    <2>2. CASE k \notin Owners
        <3>1. (IF pending[i] = None THEN k ELSE pending[i]) \in Owners \cup {k}
            BY <1>1 DEF Owners
        <3>2. Owners' = Owners \ {IF pending[i] = None THEN k ELSE pending[i]}
            BY <1>2, <2>2 DEF Owners
        <3>3. QED
            BY <2>2, <3>1, <3>2
    <2>3. QED
        BY <2>1, <2>2
<1>6. [j \in Calls |-> Phase(j)]' = [[j \in Calls |-> Phase(j)] EXCEPT ![k] = "returned"]
    <2>1. pc' = [pc EXCEPT ![k] = "done"]
        BY DEF DeleteEntry
    <2>2. Phase(k)' = "returned"
        BY <2>1 DEF TypeOK, Phase
    <2>3. QED
        BY <2>1, <2>2, PhaseAfter DEF TypeOK
<1>7. [j \in Calls |-> Phase(j)][k] = "active"
    BY DEF DeleteEntry, Phase
<1>8. QED
    BY <1>4, <1>6, <1>7 DEF Table!Return, Owners

(* A step that moves a call between send, wait and ret changes neither its *)
(* phase nor the table.                                                    *)
LEMMA LiveStepStutters ==
    ASSUME IInv, NEW k \in Calls, NEW x \in {"wait", "ret"}, pc[k] \in {"send", "wait"},
           pc' = [pc EXCEPT ![k] = x], UNCHANGED pending
    PROVE  UNCHANGED tableAbs
<1>1. Phase(k)' = Phase(k)
    BY DEF Phase, IInv, TypeOK
<1>2. [j \in Calls |-> Phase(j)]' = [j \in Calls |-> Phase(j)]
    BY <1>1, PhaseAfter DEF IInv, TypeOK
<1>3. QED
    BY <1>2 DEF tableAbs, Owners

(* Every step of Next is a table step or leaves tableAbs unchanged.        *)
LEMMA NextTableRefines == IInv /\ [Next]_vars => [Table!Next]_tableAbs
<1> SUFFICES ASSUME IInv, [Next]_vars PROVE [Table!Next]_tableAbs
    OBVIOUS
<1>1. ASSUME NEW k \in Calls, Register(k) PROVE Table!Next
    BY <1>1, RegisterRefines DEF Table!Next
<1>2. ASSUME NEW k \in Calls, DeleteEntry(k) PROVE Table!Next
    BY <1>2, DeleteEntryRefines DEF Table!Next
<1>3. ASSUME NEW k \in Calls, SendCall(k) PROVE UNCHANGED tableAbs
    <2>1. CASE pc' = [pc EXCEPT ![k] = "wait"]
        BY <1>3, <2>1, LiveStepStutters DEF SendCall
    <2>2. CASE pc' = [pc EXCEPT ![k] = "ret"]
        BY <1>3, <2>2, LiveStepStutters DEF SendCall
    <2>3. QED
        BY <1>3, <2>1, <2>2 DEF SendCall
<1>4. ASSUME NEW k \in Calls, Receive(k) \/ Timeout(k) PROVE UNCHANGED tableAbs
    BY <1>4, LiveStepStutters DEF Receive, Timeout
<1>5. CASE Tick \/ LookupResponse \/ DeliverResponse \/ UNCHANGED vars
    BY <1>5 DEF Tick, LookupResponse, DeliverResponse, vars, tableAbs, Owners, Phase
<1>6. QED
    BY <1>1, <1>2, <1>3, <1>4, <1>5 DEF Next

(* c.svcPending implements the per-call table of spec 3, for any number of *)
(* calls, services and milliseconds: CallService's registration under      *)
(* svcMu and its deferred delete refine Register and Return, and the only  *)
(* way one call changes another's entry is the take-over of a colliding   *)
(* <<service, millisecond>> id.                                            *)
THEOREM TableImplemented == Spec => TableRefined
<1>1. Init => Table!Init
    BY DEF Init, Table!Init, Phase
<1>2. QED
    BY <1>1, NextTableRefines, SpecIInv, PTL
       DEF Spec, TableRefined, Table!Spec, Table!pvars, tableAbs, Owners
=============================================================================
