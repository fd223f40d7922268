--------------------------- MODULE RobotStateProofs ---------------------------
(***************************************************************************)
(* Proofs about RobotState for every history length.                       *)
(*                                                                         *)
(* The history window is inductive once we know that the samples received *)
(* form a sequence.  While fewer than MaxHistory samples have arrived, the *)
(* history is all of them; from then on it has exactly MaxHistory          *)
(* elements, so OnTwist's append always makes it one too long and the      *)
(* trim drops exactly the sample that leaves the window.                   *)
(*                                                                         *)
(* The map->odom cache is inductive by itself; the work is to know what    *)
(* parseTF's loop (a recursive function) leaves in it.  A /tf message of  *)
(* the model has at most two transforms, so the loop is written out        *)
(* (ParseTFUnfold) and no induction is needed.                             *)
(***************************************************************************)
EXTENDS RobotState, SequenceTheorems, TLAPS

(* First index of the window after n samples.                              *)
Lo(n) == IF n > MaxHistory THEN n - MaxHistory + 1 ELSE 1

VelInv ==
    /\ received \in Seq(Twists)
    /\ hist = SubSeq(received, Lo(Len(received)), Len(received))

LEMMA WindowIsVelInv ==
    ASSUME received \in Seq(Twists)
    PROVE  VelInv <=> HistoryWindow
BY DEF VelInv, HistoryWindow, Lo

LEMMA InitVelInv == Init => VelInv
<1> SUFFICES ASSUME Init PROVE VelInv
    OBVIOUS
<1>1. received = <<>> /\ hist = <<>>
    BY DEF Init
<1>2. received \in Seq(Twists) /\ Len(received) = 0
    BY <1>1, EmptySeq
<1>3. Lo(0) = 1
    BY RobotAssumption DEF Lo
<1>4. SubSeq(received, 1, 0) = <<>>
    BY SubSeqEmpty
<1>5. QED
    BY <1>1, <1>2, <1>3, <1>4 DEF VelInv

(* The cmd_vel callback keeps the window: the case split is on whether the *)
(* history was already full.                                                *)
LEMMA OnTwistVelInv ==
    ASSUME VelInv, OnTwist PROVE VelInv'
<1> USE RobotAssumption
<1>1. PICK v \in Twists :
          /\ received' = Append(received, v)
          /\ hist' = IF Len(Append(hist, v)) > MaxHistory
                        THEN Tail(Append(hist, v)) ELSE Append(hist, v)
    BY DEF OnTwist
<1> DEFINE R == received
           n == Len(received)
           H == MaxHistory
<1>2. R \in Seq(Twists) /\ n \in Nat
    BY DEF VelInv
<1>3. /\ received' \in Seq(Twists)
      /\ Len(received') = n + 1
      /\ \A i \in 1..n : received'[i] = R[i]
      /\ received'[n + 1] = v
    BY <1>1, <1>2, AppendProperties
<1>4. CASE n < H
    <2>0. Lo(n) = 1 /\ SubSeq(R, 1, n) = R
        BY <1>2, <1>4, SubSeqFull DEF Lo
    <2>1. hist = R
        BY <2>0 DEF VelInv
    <2>2. Len(Append(hist, v)) = n + 1 /\ ~(n + 1 > H)
        BY <1>2, <1>4, <2>1, AppendProperties
    <2>3. hist' = received'
        BY <1>1, <2>1, <2>2
    <2>4. received' = SubSeq(received', 1, n + 1)
        BY <1>3, SubSeqFull
    <2>5. Lo(Len(received')) = 1
        BY <1>2, <1>3, <1>4 DEF Lo
    <2>6. QED
        BY <1>3, <2>3, <2>4, <2>5 DEF VelInv
<1>5. CASE n >= H
    <2> DEFINE lo == n - H + 1
    <2>1. Lo(n) = lo /\ Lo(n + 1) = lo + 1 /\ lo \in 1..n
        BY <1>2, <1>5 DEF Lo
    <2>2. /\ hist \in Seq(Twists)
          /\ Len(hist) = H
          /\ \A i \in 1..H : hist[i] = R[lo + i - 1]
        <3>1. \A i \in lo..n : R[i] \in Twists
            BY <1>2, <2>1
        <3>2. QED
            BY <1>2, <2>1, <3>1, SubSeqProperties DEF VelInv
    <2> DEFINE A == Append(hist, v)
    <2>3. /\ A \in Seq(Twists) /\ A # <<>>
          /\ Len(A) = H + 1
          /\ \A i \in 1..H : A[i] = hist[i]
          /\ A[H + 1] = v
        BY <2>2, AppendProperties
    <2>4. hist' = Tail(A)
        BY <1>1, <2>3
    <2>5. /\ Tail(A) \in Seq(Twists)
          /\ Len(Tail(A)) = H
          /\ \A i \in 1..H : Tail(A)[i] = A[i + 1]
        BY <2>3, HeadTailProperties
    <2> DEFINE W == SubSeq(received', lo + 1, n + 1)
    <2>6. /\ W \in Seq(Twists)
          /\ Len(W) = H
          /\ \A i \in 1..H : W[i] = received'[lo + i]
        <3>1. \A i \in lo + 1 .. n + 1 : received'[i] \in Twists
            BY <1>3, <2>1, LenProperties
        <3>2. QED
            BY <1>2, <2>1, <3>1, SubSeqProperties
    <2>7. \A i \in 1..H : Tail(A)[i] = W[i]
        <3> SUFFICES ASSUME NEW i \in 1..H PROVE Tail(A)[i] = W[i]
            OBVIOUS
        <3>0. Tail(A)[i] = A[i + 1] /\ W[i] = received'[lo + i]
            BY <2>5, <2>6
        <3>1. CASE i < H
            <4>1. i + 1 \in 1..H /\ lo + i \in 1..n
                BY <1>2, <2>1, <3>1
            <4>2. A[i + 1] = R[lo + i]
                BY <2>2, <2>3, <4>1
            <4>3. received'[lo + i] = R[lo + i]
                BY <1>3, <4>1
            <4>4. QED
                BY <3>0, <4>2, <4>3
        <3>2. CASE i = H
            <4>1. lo + i = n + 1
                BY <1>2, <3>2
            <4>2. QED
                BY <1>3, <2>3, <3>0, <3>2, <4>1
        <3>3. i < H \/ i = H
            OBVIOUS
        <3>4. QED
            BY <3>1, <3>2, <3>3, Zenon
    <2>8. Tail(A) = W
        BY <2>5, <2>6, <2>7, SeqEqual
    <2>9. QED
        BY <1>3, <2>1, <2>4, <2>8 DEF VelInv
<1>6. QED
    BY <1>2, <1>4, <1>5

(* Every other step leaves the samples and the history alone.              *)
LEMMA OtherVelInv ==
    ASSUME VelInv, UNCHANGED <<hist, received>> PROVE VelInv'
BY DEF VelInv, Lo

LEMMA NextVelInv == VelInv /\ [Next]_vars => VelInv'
<1> SUFFICES ASSUME VelInv, [Next]_vars PROVE VelInv'
    OBVIOUS
<1>1. CASE OnTwist
    BY <1>1, OnTwistVelInv
<1>2. CASE ~OnTwist
    <2>1. UNCHANGED <<hist, received>>
        BY <1>2 DEF Next, vars, velVars, sensorVars, ReceiveTF, SetVelocity, SettingsWriteLinear,
           SettingsWriteAngular, SettingsSave, AddNavigationPoint, AddValidate,
           AddAppend, DeleteNavPoint, DeletePoint, ClearNavigationPoints,
           ClearPoints, ImportNavPoints, ImportPoints, SendNavigationPoints,
           SendCopy, SendCall
    <2>2. QED
        BY <2>1, OtherVelInv
<1>3. QED
    BY <1>1, <1>2

LEMMA SpecVelInv == Spec => []VelInv
BY InitVelInv, NextVelInv, PTL DEF Spec

(* Spec 4.2, for every MaxHistory: the velocity history is always the last *)
(* MaxHistory cmd_vel samples received (all of them until that many have *)
(* arrived), in arrival order -- OnTwist's trim drops exactly the oldest.  *)
THEOREM HistoryIsWindow == Spec => []HistoryWindow
<1>1. VelInv => HistoryWindow
    BY WindowIsVelInv DEF VelInv
<1>2. QED
    BY <1>1, SpecVelInv, PTL

-----------------------------------------------------------------------------
(* A /tf message holds at most two transforms, as a sequence.             *)
LEMMA FrameShape ==
    ASSUME NEW frame \in Frames
    PROVE  /\ frame \in Seq(Transforms)
           /\ Len(frame) \in 0..2
           /\ DOMAIN frame = 1..Len(frame)
<1>1. PICK k \in 0..2 : frame \in [1..k -> Transforms]
    BY DEF Frames, SeqUpTo
<1>2. frame \in Seq(Transforms) /\ Len(frame) = k
    BY <1>1
<1>3. QED
    BY <1>1, <1>2

(* parseTF's loop over at most two transforms, written out.  The loop is a *)
(* recursive function; for frames this short its value is found without   *)
(* induction, from a function that visibly satisfies the definition.      *)
LEMMA ParseTFUnfold ==
    ASSUME NEW frame \in Frames, NEW c
    PROVE  LET S0 == [cache |-> c, data |-> NoTF, emit |-> FALSE]
           IN  /\ Len(frame) = 0 => ParseTF(frame, c) = S0
               /\ Len(frame) = 1 => ParseTF(frame, c) = TFStep(S0, frame[1])
               /\ Len(frame) = 2 => ParseTF(frame, c) = TFStep(TFStep(S0, frame[1]), frame[2])
<1> DEFINE S0 == [cache |-> c, data |-> NoTF, emit |-> FALSE]
           n == Len(frame)
           Body(f) == [i \in 0..n |-> IF i = 0 THEN S0 ELSE TFStep(f[i - 1], frame[i])]
           step == CHOOSE f : f = Body(f)
           g == [i \in 0..n |-> IF i = 0 THEN S0
                                ELSE IF i = 1 THEN TFStep(S0, frame[1])
                                ELSE TFStep(TFStep(S0, frame[1]), frame[2])]
<1>1. n \in 0..2
    BY FrameShape
<1>2. g = Body(g)
    BY <1>1
<1>3. step = Body(step)
    BY <1>2
<1>4. ParseTF(frame, c) = step[n]
    BY DEF ParseTF
<1>5. \A i \in 0..n : step[i] = IF i = 0 THEN S0 ELSE TFStep(step[i - 1], frame[i])
    BY <1>3, Zenon
<1>6. step[0] = S0
    <2>1. 0 \in 0..n
        BY <1>1
    <2>2. QED
        BY <2>1, <1>5, Zenon
<1>7. n >= 1 => step[1] = TFStep(S0, frame[1])
    BY <1>1, <1>5, <1>6
<1>8. n >= 2 => step[2] = TFStep(TFStep(S0, frame[1]), frame[2])
    BY <1>1, <1>5, <1>7
<1>9. n = 0 => ParseTF(frame, c) = S0
    BY <1>4, <1>6
<1>10. n = 1 => ParseTF(frame, c) = TFStep(S0, frame[1])
    BY <1>4, <1>7
<1>11. n = 2 => ParseTF(frame, c) = TFStep(TFStep(S0, frame[1]), frame[2])
    BY <1>4, <1>8
<1>12. QED
    BY <1>9, <1>10, <1>11

(* One iteration of the loop keeps the shape of its state, and moves the   *)
(* cache only on a map->odom transform.                                    *)
LEMMA TFStepCache ==
    ASSUME NEW s, NEW t, DOMAIN s = {"cache", "data", "emit"}
    PROVE  /\ DOMAIN TFStep(s, t) = {"cache", "data", "emit"}
           /\ TFStep(s, t).cache = IF t.pair = "map_odom" THEN t.val ELSE s.cache
BY DEF TFStep

(* LastVal picks the value at the last position carrying the pair.        *)
LEMMA LastValAt ==
    ASSUME NEW frame, NEW p, NEW d, NEW k \in At(frame, p),
           DOMAIN frame \subseteq Nat,
           \A j \in At(frame, p) : j <= k
    PROVE  LastVal(frame, p, d) = frame[k].val
<1> DEFINE m == CHOOSE i \in At(frame, p) : \A j \in At(frame, p) : j <= i
<1>1. m \in At(frame, p) /\ \A j \in At(frame, p) : j <= m
    BY Zenon
<1>2. m = k
    BY <1>1 DEF At
<1>3. QED
    BY <1>2 DEF LastVal

(* After the loop, the cache holds the last map->odom transform of the    *)
(* message, or the cache it started from when there is none.              *)
LEMMA ParseTFCache ==
    ASSUME NEW frame \in Frames, NEW c
    PROVE  ParseTF(frame, c).cache = LastVal(frame, "map_odom", c)
<1> DEFINE S0 == [cache |-> c, data |-> NoTF, emit |-> FALSE]
           S1 == TFStep(S0, frame[1])
           S2 == TFStep(S1, frame[2])
           MO(i) == frame[i].pair = "map_odom"
<1>1. /\ Len(frame) \in 0..2
      /\ DOMAIN frame = 1..Len(frame)
    BY FrameShape
<1>2. /\ DOMAIN S1 = {"cache", "data", "emit"}
      /\ S1.cache = IF MO(1) THEN frame[1].val ELSE c
      /\ S2.cache = IF MO(2) THEN frame[2].val ELSE S1.cache
    BY TFStepCache
<1>3. CASE Len(frame) = 0
    <2>1. At(frame, "map_odom") = {}
        BY <1>1, <1>3 DEF At
    <2>2. ParseTF(frame, c) = S0
        BY <1>3, ParseTFUnfold
    <2>3. QED
        BY <2>1, <2>2 DEF LastVal
<1>4. CASE Len(frame) = 1
    <2>1. ParseTF(frame, c) = S1
        BY <1>4, ParseTFUnfold
    <2>2. CASE MO(1)
        BY <1>1, <1>2, <1>4, <2>1, <2>2, LastValAt DEF At
    <2>3. CASE ~MO(1)
        <3>1. At(frame, "map_odom") = {}
            BY <1>1, <1>4, <2>3 DEF At
        <3>2. QED
            BY <1>2, <2>1, <2>3, <3>1 DEF LastVal
    <2>4. QED
        BY <2>2, <2>3
<1>5. CASE Len(frame) = 2
    <2>1. ParseTF(frame, c) = S2
        BY <1>5, ParseTFUnfold
    <2>2. CASE MO(2)
        BY <1>1, <1>2, <1>5, <2>1, <2>2, LastValAt DEF At
    <2>3. CASE ~MO(2) /\ MO(1)
        BY <1>1, <1>2, <1>5, <2>1, <2>3, LastValAt DEF At
    <2>4. CASE ~MO(2) /\ ~MO(1)
        <3>1. At(frame, "map_odom") = {}
            BY <1>1, <1>5, <2>4 DEF At
        <3>2. QED
            BY <1>2, <2>1, <2>4, <3>1 DEF LastVal
    <2>5. QED
        BY <2>2, <2>3, <2>4
<1>6. QED
    BY <1>1, <1>3, <1>4, <1>5

(* A /tf message leaves the cache equal to the last map->odom transform    *)
(* observed: StoreTF's cache and the ghost lastMO both move to the last    *)
(* map->odom transform of the message, or both stay.                       *)
LEMMA ReceiveTFCache ==
    ASSUME CacheIsLatestMapOdom, ReceiveTF
    PROVE  CacheIsLatestMapOdom'
<1>1. PICK frame \in Frames :
         /\ mapOdom' = ParseTF(frame, mapOdom).cache
         /\ lastMO' = LastVal(frame, "map_odom", lastMO)
    BY DEF ReceiveTF, StoreTF
<1>2. ParseTF(frame, mapOdom).cache = LastVal(frame, "map_odom", mapOdom)
    BY ParseTFCache
<1>3. QED
    BY <1>1, <1>2 DEF CacheIsLatestMapOdom

(* Spec 2, for all constants: the cached map->odom transform is always the *)
(* most recent one received, whatever the order of map->odom and          *)
(* odom->base_footprint transforms within and across /tf messages         *)
(* (Client.parseTF's writes of c.globalMapOdom).                          *)
THEOREM CacheIsLatest == Spec => []CacheIsLatestMapOdom
<1>1. Init => CacheIsLatestMapOdom
    BY DEF Init, CacheIsLatestMapOdom
<1>2. CacheIsLatestMapOdom /\ [Next]_vars => CacheIsLatestMapOdom'
    <2> SUFFICES ASSUME CacheIsLatestMapOdom, [Next]_vars PROVE CacheIsLatestMapOdom'
        OBVIOUS
    <2>1. CASE ReceiveTF
        BY <2>1, ReceiveTFCache
    <2>2. CASE ~ReceiveTF
        <3>1. UNCHANGED <<mapOdom, lastMO>>
            BY <2>2 DEF Next, vars, tfVars, sensorVars, OnTwist, SetVelocity, SettingsWriteLinear,
               SettingsWriteAngular, SettingsSave, AddNavigationPoint, AddValidate,
               AddAppend, DeleteNavPoint, DeletePoint, ClearNavigationPoints,
               ClearPoints, ImportNavPoints, ImportPoints, SendNavigationPoints,
               SendCopy, SendCall
        <3>2. QED
            BY <3>1 DEF CacheIsLatestMapOdom
    <2>3. QED
        BY <2>1, <2>2
<1>3. QED
    BY <1>1, <1>2, PTL DEF Spec
=============================================================================
