-------------------------- MODULE TopicRoutingProofs --------------------------
(***************************************************************************)
(* Proofs about TopicRouting for all values of the constants.              *)
(*                                                                         *)
(* HzFromLastGap needs what measureHz's stored timestamp is: *)
(* zero exactly when no frame has reached the callback, the arrival time  *)
(* of the last one otherwise, and never later than the clock.             *)
(***************************************************************************)
EXTENDS TopicRouting, SequenceTheorems, TLAPS

(* The stored timestamp of each counted kind.                              *)
LastIsArrival ==
    \A k \in HzKinds :
        /\ (arr[k] = <<>>) = (last[k] = NoTime)
        /\ arr[k] # <<>> => last[k] = arr[k][Len(arr[k])]
        /\ last[k] <= now

(* Every kind the server publishes on the current socket has its field    *)
(* set: SubSend, the only step that adds a subscription, sets it.          *)
RoutedInv == \A k \in subs : topic[k]

IInv == TypeOK /\ RoutedInv /\ LastIsArrival /\ HzFromLastGap

LEMMA InitIInv == Init => IInv
<1> SUFFICES ASSUME Init PROVE IInv
    OBVIOUS
<1>0. NK \in Nat
    BY RoutingAssumption, LenProperties DEF NK
<1>1. TypeOK
    <2>1. <<>> \in Seq(0..MaxTime)
        BY EmptySeq
    <2>2. pc \in [Gs -> 0..Done] /\ ph \in [Gs -> {"write", "send"}]
        BY <1>0, RoutingAssumption DEF Init, Gs, Done
    <2>3. last \in [HzKinds -> {NoTime} \cup 0..MaxTime] /\ hz \in [HzKinds -> Nat]
        BY DEF Init, NoTime
    <2>4. arr \in [HzKinds -> Seq(0..MaxTime)]
        BY <2>1 DEF Init
    <2>5. /\ topic \in [Kinds -> BOOLEAN] /\ writers \in [Kinds -> SUBSET Gs]
          /\ connected \in BOOLEAN /\ stopping \in BOOLEAN /\ subs \subseteq Kinds
        BY DEF Init
    <2>7. conns \in 0..MaxConns /\ now \in 0..MaxTime /\ frames \in 0..MaxFrames
        BY RoutingAssumption DEF Init
    <2>6. QED
        BY <2>2, <2>3, <2>4, <2>5, <2>7 DEF TypeOK
<1>2. RoutedInv
    BY DEF Init, RoutedInv
<1>3. LastIsArrival
    BY DEF Init, LastIsArrival, NoTime
<1>4. HzFromLastGap
    BY EmptySeq DEF Init, HzFromLastGap, RefHz
<1>5. QED
    BY <1>1, <1>2, <1>3, <1>4 DEF IInv

(* A step that leaves the rate counters and the clock alone keeps the     *)
(* facts about them.                                                       *)
LEMMA RatesUnchanged ==
    ASSUME LastIsArrival, HzFromLastGap, UNCHANGED <<now, last, hz, arr>>
    PROVE  LastIsArrival' /\ HzFromLastGap'
BY DEF LastIsArrival, HzFromLastGap, RefHz, Rate

(* measureHz's integer division yields a natural number.                  *)
LEMMA RateNat ==
    ASSUME NEW d \in Nat \ {0} PROVE Rate(d) \in Nat
BY RoutingAssumption DEF Rate

(* measureHz in a callback: the new timestamp is the arrival just         *)
(* recorded, and the rate is that of the gap since the previous one.       *)
LEMMA OnSensorRates ==
    ASSUME TypeOK, LastIsArrival, HzFromLastGap, NEW k \in Kinds,
           OnSensor(k), now' = now
    PROVE  /\ last' \in [HzKinds -> {NoTime} \cup 0..MaxTime]
           /\ hz' \in [HzKinds -> Nat]
           /\ arr' \in [HzKinds -> Seq(0..MaxTime)]
           /\ LastIsArrival' /\ HzFromLastGap'
<1> USE RoutingAssumption
<1>1. CASE k \notin HzKinds
    BY <1>1, RatesUnchanged DEF OnSensor, TypeOK
<1>2. CASE k \in HzKinds
    <2> DEFINE s == arr[k]
               l == last[k]
               d == now - l
    <2>1. /\ last' = [last EXCEPT ![k] = now]
          /\ hz' = [hz EXCEPT ![k] = IF l = NoTime \/ d <= 0 THEN 0 ELSE Rate(d)]
          /\ arr' = [arr EXCEPT ![k] = Append(s, now)]
        BY <1>2 DEF OnSensor, HzField
    <2>2. /\ s \in Seq(0..MaxTime) /\ now \in 0..MaxTime
          /\ l \in {NoTime} \cup 0..MaxTime
        BY <1>2 DEF TypeOK
    <2>3. /\ Append(s, now) \in Seq(0..MaxTime)
          /\ Len(Append(s, now)) = Len(s) + 1
          /\ Append(s, now)[Len(s) + 1] = now
          /\ \A i \in 1..Len(s) : Append(s, now)[i] = s[i]
        BY <2>2, AppendProperties
    <2>4. Append(s, now) # <<>>
        <3>1. Len(s) \in Nat /\ Len(<<>>) = 0
            BY <2>2, LenProperties, EmptySeq
        <3>2. QED
            BY <2>3, <3>1
    <2>5. (IF l = NoTime \/ d <= 0 THEN 0 ELSE Rate(d)) = RefHz(Append(s, now))
        <3>1. CASE s = <<>>
            <4>1. l = NoTime /\ Len(Append(s, now)) = 1
                BY <1>2, <2>3, <3>1, EmptySeq DEF LastIsArrival
            <4>2. QED
                BY <4>1 DEF RefHz
        <3>2. CASE s # <<>>
            <4>1. l = s[Len(s)] /\ l # NoTime /\ l <= now
                BY <1>2, <3>2 DEF LastIsArrival
            <4>2. Len(s) \in Nat \ {0}
                BY <2>2, <3>2, EmptySeq, LenProperties
            <4>3. Append(s, now)[Len(s)] = l
                BY <2>3, <4>1, <4>2
            <4>4. l \in 0..MaxTime /\ d \in Nat
                BY <2>2, <4>1
            <4>5. /\ Len(Append(s, now)) >= 2
                  /\ Append(s, now)[Len(Append(s, now))] = now
                  /\ Append(s, now)[Len(Append(s, now)) - 1] = l
                BY <2>3, <4>2, <4>3
            <4>6. RefHz(Append(s, now)) = IF d = 0 THEN 0 ELSE Rate(d)
                BY <4>5 DEF RefHz
            <4>7. (l = NoTime \/ d <= 0) <=> d = 0
                BY <4>1, <4>4 DEF NoTime
            <4>8. QED
                BY <4>6, <4>7
        <3>3. QED
            BY <3>1, <3>2
    <2>6. Rate(d) \in Nat \/ l = NoTime \/ d <= 0
        <3>1. CASE l # NoTime /\ d > 0
            BY <2>2, <3>1, RateNat DEF NoTime
        <3>2. QED
            BY <2>2, <3>1 DEF NoTime
    <2>7. hz' \in [HzKinds -> Nat]
        BY <2>1, <2>6 DEF TypeOK
    <2>8. LastIsArrival'
        <3> SUFFICES ASSUME NEW j \in HzKinds
                     PROVE /\ (arr'[j] = <<>>) = (last'[j] = NoTime)
                           /\ arr'[j] # <<>> => last'[j] = arr'[j][Len(arr'[j])]
                           /\ last'[j] <= now'
            BY DEF LastIsArrival
        <3>1. CASE j = k
            <4>1. arr'[j] = Append(s, now) /\ last'[j] = now
                BY <1>2, <2>1, <3>1 DEF TypeOK
            <4>2. QED
                BY <2>2, <2>3, <2>4, <4>1 DEF NoTime
        <3>2. CASE j # k
            BY <2>1, <3>2 DEF TypeOK, LastIsArrival
        <3>3. QED
            BY <3>1, <3>2
    <2>9. HzFromLastGap'
        BY <2>1, <2>5 DEF HzFromLastGap, TypeOK
    <2>10. QED
        BY <2>1, <2>2, <2>3, <2>7, <2>8, <2>9 DEF TypeOK
<1>3. QED
    BY <1>1, <1>2

(* The kind a goroutine at pc[g] subscribes is one of the kinds.           *)
LEMMA KindAt ==
    ASSUME NEW i \in 1..NK PROVE SubOrder[i] \in Kinds
BY DEF Kinds, NK

(* Every step but a publish frame leaves the counters alone.              *)
LEMMA QuietIInv ==
    ASSUME IInv, TypeOK', RoutedInv', UNCHANGED <<now, last, hz, arr>>
    PROVE  IInv'
BY RatesUnchanged DEF IInv

LEMMA ConnectIInv == ASSUME IInv, Connect PROVE IInv'
<1>1. TypeOK /\ NK \in Nat
    BY RoutingAssumption, LenProperties DEF IInv, NK
<1>2. conns \in 0..MaxConns /\ conns < MaxConns
    BY <1>1 DEF Connect, TypeOK
<1>6. conns + 1 \in Gs
    BY <1>2, RoutingAssumption DEF Gs
<1>7. 1 \in 0..Done
    BY <1>1 DEF Done
<1>3. TypeOK'
    BY <1>1, <1>2, <1>6, <1>7, RoutingAssumption DEF Connect, TypeOK, rateVars
<1>4. RoutedInv'
    BY DEF Connect, RoutedInv
<1>5. QED
    BY <1>3, <1>4, QuietIInv DEF Connect, rateVars

LEMMA DropIInv == ASSUME IInv, Drop PROVE IInv'
<1>1. TypeOK' /\ RoutedInv'
    BY DEF IInv, Drop, TypeOK, RoutedInv, subVars, rateVars
<1>2. QED
    BY <1>1, QuietIInv DEF Drop, rateVars

LEMMA SubWriteIInv == ASSUME IInv, NEW g \in Gs, SubWrite(g) PROVE IInv'
<1>1. TypeOK
    BY DEF IInv
<1>2. SubOrder[pc[g]] \in Kinds
    BY KindAt DEF SubWrite
<1>3. TypeOK'
    BY <1>1, <1>2 DEF SubWrite, TypeOK, linkVars, rateVars
<1>4. RoutedInv'
    BY DEF IInv, SubWrite, RoutedInv, linkVars
<1>5. QED
    BY <1>3, <1>4, QuietIInv DEF SubWrite, rateVars

(* The subscribe frame goes out after the field is set.                    *)
LEMMA SubSendIInv == ASSUME IInv, NEW g \in Gs, SubSend(g) PROVE IInv'
<1> DEFINE k == SubOrder[pc[g]]
<1>1. TypeOK /\ RoutedInv
    BY DEF IInv
<1>2. k \in Kinds /\ NK \in Nat /\ pc[g] \in 1..NK
    BY KindAt, RoutingAssumption, LenProperties DEF SubSend, NK
<1>3. pc[g] + 1 \in 0..Done
    BY <1>2 DEF Done
<1>4. TypeOK'
    BY <1>1, <1>2, <1>3 DEF SubSend, TypeOK, rateVars
<1>5. RoutedInv'
    BY <1>1, <1>2 DEF SubSend, RoutedInv, TypeOK
<1>6. QED
    BY <1>4, <1>5, QuietIInv DEF SubSend, rateVars

LEMMA UnsubscribeAllIInv == ASSUME IInv, UnsubscribeAll PROVE IInv'
<1>1. TypeOK' /\ RoutedInv'
    BY DEF IInv, UnsubscribeAll, TypeOK, RoutedInv, subVars, rateVars
<1>2. QED
    BY <1>1, QuietIInv DEF UnsubscribeAll, rateVars

LEMMA StopDisconnectIInv == ASSUME IInv, StopDisconnect PROVE IInv'
<1>1. TypeOK' /\ RoutedInv'
    BY DEF IInv, StopDisconnect, TypeOK, RoutedInv, subVars, rateVars
<1>2. QED
    BY <1>1, QuietIInv DEF StopDisconnect, rateVars

(* The clock moves on: every stored timestamp stays behind it.             *)
LEMMA TickIInv == ASSUME IInv, Tick PROVE IInv'
<1>1. TypeOK /\ LastIsArrival /\ HzFromLastGap /\ RoutedInv
    BY DEF IInv
<1>2. TypeOK'
    BY <1>1, RoutingAssumption DEF Tick, TypeOK, linkVars, subVars
<1>3. RoutedInv'
    BY <1>1 DEF Tick, RoutedInv, linkVars, subVars
<1>4. LastIsArrival'
    BY <1>1, RoutingAssumption DEF Tick, LastIsArrival, TypeOK, NoTime
<1>5. HzFromLastGap'
    BY <1>1 DEF Tick, HzFromLastGap
<1>6. QED
    BY <1>2, <1>3, <1>4, <1>5 DEF IInv

(* A publish frame changes only the counters of its kind, if it reaches   *)
(* the callback.                                                           *)
LEMMA PublishIInv == ASSUME IInv, Publish PROVE IInv'
<1>0. TypeOK /\ LastIsArrival /\ HzFromLastGap /\ RoutedInv
    BY DEF IInv
<1>1. PICK k \in subs :
          \E seen \in IF writers[k] = {} THEN {topic[k]} ELSE {topic[k], TRUE},
            decoded \in BOOLEAN :
              IF seen THEN ParseFrame(k, decoded) ELSE UNCHANGED <<last, hz, arr>>
    BY DEF Publish
<1>2. k \in Kinds /\ now' = now
    BY <1>0 DEF TypeOK, Publish, linkVars
<1>3. /\ last' \in [HzKinds -> {NoTime} \cup 0..MaxTime]
      /\ hz' \in [HzKinds -> Nat]
      /\ arr' \in [HzKinds -> Seq(0..MaxTime)]
      /\ LastIsArrival' /\ HzFromLastGap'
    <2>1. CASE OnSensor(k)
        BY <1>0, <1>2, <2>1, OnSensorRates
    <2>2. CASE UNCHANGED <<last, hz, arr>>
        BY <1>0, <1>2, <2>2, RatesUnchanged DEF TypeOK
    <2>3. QED
        BY <1>1, <2>1, <2>2 DEF ParseFrame
<1>4. TypeOK'
    BY <1>0, <1>2, <1>3, RoutingAssumption DEF Publish, TypeOK, linkVars, subVars
<1>5. RoutedInv'
    BY <1>0 DEF Publish, RoutedInv, linkVars, subVars
<1>6. QED
    BY <1>3, <1>4, <1>5 DEF IInv

LEMMA StutterIInv == ASSUME IInv, UNCHANGED vars PROVE IInv'
BY DEF IInv, vars, TypeOK, RoutedInv, LastIsArrival, HzFromLastGap, RefHz, Rate

LEMMA NextIInv == IInv /\ [Next]_vars => IInv'
<1> SUFFICES ASSUME IInv, [Next]_vars PROVE IInv'
    OBVIOUS
<1>1. CASE \E g \in Gs : SubWrite(g) \/ SubSend(g)
    BY <1>1, SubWriteIInv, SubSendIInv
<1>2. QED
    BY <1>1, ConnectIInv, DropIInv, UnsubscribeAllIInv, StopDisconnectIInv,
       TickIInv, PublishIInv, StutterIInv DEF Next

LEMMA SpecIInv == Spec => []IInv
BY InitIInv, NextIInv, PTL DEF Spec

(* Type correctness of the subscription and rate-counter state.            *)
THEOREM RoutingTypeCorrect == Spec => []TypeOK
BY SpecIInv, PTL DEF IInv

(* For every clock resolution: each counter reports the rate of the gap   *)
(* between the last two frames of its kind that reached measureHz.        *)
THEOREM CounterIsLastGap == Spec => []HzFromLastGap
BY SpecIInv, PTL DEF IInv
=============================================================================
