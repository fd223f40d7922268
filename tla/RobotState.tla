------------------------------ MODULE RobotState ------------------------------
(***************************************************************************)
(* Per-robot state written from outside the protocol link                  *)
(* (src/robot/robot.go, the NavigationManager of src/unnamed/part_003 and  *)
(* the HTTP handlers that call them):                                      *)
(*   - the cmd_vel callback and its velocity history;                      *)
(*   - the velocity ratios, read by SetVelocity under r.mu and written by  *)
(*     the UpdateSettings handler without it;                              *)
(*   - the navigation point lists: Add* (validate under rb.mu's read lock, *)
(*     then append under its write lock, both under nm.mu), Delete, Clear, *)
(*     Import (rb.mu only), and Send (copy under the read lock, then a     *)
(*     service call with no lock held).                                    *)
(* Each HTTP request runs on its own goroutine; a request of Reqs does one *)
(* operation at a time.  Coordinates are left out: a point is its name.    *)
(***************************************************************************)
EXTENDS Naturals, Sequences

CONSTANTS
    Twists,       \* cmd_vel samples
    MaxHistory,   \* r.MaxHistory (100 in NewRobot)
    MaxSamples,   \* bound on the cmd_vel samples received
    Ratios,       \* velocity ratio values a settings request may carry
    PointTypes,   \* "waypoint", "service_point", ...
    Names,        \* point names
    Empty,        \* the empty name ""
    MaxPoints,    \* bound on the length of a point list
    Reqs,         \* concurrent HTTP requests
    MapOdoms,     \* map->odom transforms the robot may publish
    Bfps,         \* odom->base_footprint transforms
    Zero          \* the zero-valued transform (Go's zero TransformStamped)

ASSUME RobotAssumption ==
    /\ MaxHistory \in Nat \ {0}
    /\ MaxSamples \in Nat
    /\ MaxPoints \in Nat
    /\ Empty \notin Names
    /\ Zero \notin MapOdoms \cup Bfps

AllNames == Names \cup {Empty}
(* Sequences over S of length at most n.                                  *)
SeqUpTo(S, n) == UNION {[1..k -> S] : k \in 0..n}
PointLists == SeqUpTo(Names, MaxPoints)
ReqStates == [op : {"idle"}, t : {Empty}, n : {Empty}, snap : {<<>>}]
        \cup [op : {"add"}, t : PointTypes, n : Names, snap : {<<>>}]
        \cup [op : {"send"}, t : PointTypes, n : {Empty}, snap : PointLists]
        \cup [op : {"settings", "save"}, t : {Empty}, n : {Empty}, snap : {<<>>}]
Idle == [op |-> "idle", t |-> Empty, n |-> Empty, snap |-> <<>>]
NoHolder == Empty

(* A transform of a /tf message, reduced to its frame pair and its value.  *)
Transforms == [pair : {"map_odom"}, val : MapOdoms]
         \cup [pair : {"odom_bfp"}, val : Bfps]
         \cup [pair : {"other"}, val : {Zero}]
(* The /tf messages: lists of at most two transforms.                     *)
Frames == SeqUpTo(Transforms, 2)
(* TFData: the map->odom half and the odom->base_footprint half.           *)
NoTF == [mo |-> Zero, bfp |-> Zero]

VARIABLES
    hist,        \* r.VelocityHistory
    received,    \* every cmd_vel sample received so far, oldest first
    linRatio,    \* r.LinearVelRatio
    angRatio,    \* r.AngularVelRatio
    pendAng,     \* the angular ratio a settings request is about to write
    desired,     \* the pair last given to SetDesiredCmdVel (per unit input)
    configured,  \* ratio pairs some settings request has submitted (ghost)
    saved,       \* the pair the robot last stored from RequestSettingsSave
    pts,         \* pts[t]: rb.Waypoints, rb.PathPoints, ...
    robotPts,    \* the lists the robot last accepted from a Send
    nmHolder,    \* the request holding nm.mu (NoHolder: none)
    req,         \* req[r]: the operation request r is in the middle of
    mapOdom,     \* c.globalMapOdom
    tf,          \* r.TF (NoTF: never set; r.TFReceived is tf # NoTF)
    lastMO,      \* the last map->odom transform received (ghost)
    refTF        \* the pose event spec 4.1 describes for the last /tf message (ghost)

vars == <<hist, received, linRatio, angRatio, pendAng, desired, configured, saved, pts, robotPts, nmHolder, req, mapOdom, tf, lastMO, refTF>>
velVars == <<hist, received>>
ratioVars == <<linRatio, angRatio, pendAng, desired, configured, saved>>
navVars == <<pts, robotPts, nmHolder>>
tfVars == <<mapOdom, tf, lastMO, refTF>>
sensorVars == <<velVars, tfVars>>

-----------------------------------------------------------------------------
Init ==
    /\ hist = <<>>
    /\ received = <<>>
    /\ linRatio = 1
    /\ angRatio = 1
    /\ pendAng = 1
    /\ desired = <<1, 1>>
    /\ configured = {<<1, 1>>}
    /\ saved = <<1, 1>>
    /\ pts = [t \in PointTypes |-> <<>>]
    /\ robotPts = [t \in PointTypes |-> <<>>]
    /\ nmHolder = NoHolder
    /\ req = [r \in Reqs |-> Idle]
    /\ mapOdom = Zero
    /\ tf = NoTF
    /\ lastMO = Zero
    /\ refTF = NoTF

(* Mutant: the history is never trimmed.                                   *)
OnTwistNoTrim ==
    /\ Len(received) < MaxSamples
    /\ \E v \in Twists :
          /\ received' = Append(received, v)
          /\ hist' = Append(hist, v)
    /\ UNCHANGED <<tfVars, ratioVars, navVars, req>>

(* Mutant: the oldest sample is dropped once the history is full.         *)
OnTwistTrimAtMax ==
    /\ Len(received) < MaxSamples
    /\ \E v \in Twists :
          /\ received' = Append(received, v)
          /\ hist' = IF Len(Append(hist, v)) >= MaxHistory
                        THEN Tail(Append(hist, v)) ELSE Append(hist, v)
    /\ UNCHANGED <<tfVars, ratioVars, navVars, req>>

(* client.OnTwist: under r.mu, record the sample and append it to the     *)
(* history, dropping the oldest one when it grows past MaxHistory.        *)
OnTwist ==
    /\ Len(received) < MaxSamples
    /\ \E v \in Twists :
          /\ received' = Append(received, v)
          /\ hist' = IF Len(Append(hist, v)) > MaxHistory
                        THEN Tail(Append(hist, v)) ELSE Append(hist, v)
    /\ UNCHANGED <<tfVars, ratioVars, navVars, req>>

(* One iteration of parseTF's loop, on transform t: a map->odom transform *)
(* replaces the cache and the map->odom half of tfData; an                 *)
(* odom->base_footprint one copies the cache into tfData, sets its own     *)
(* half and marks the event for emission; any other pair is skipped.       *)
TFStep(s, t) ==
    CASE t.pair = "map_odom" ->
           [s EXCEPT !.cache = t.val, !.data.mo = t.val]
      [] t.pair = "odom_bfp" ->
           [s EXCEPT !.data = [mo |-> s.cache, bfp |-> t.val], !.emit = TRUE]
      [] OTHER -> s

(* parseTF's loop over the transforms of one /tf message, from the cached *)
(* map->odom transform c, with empty tfData and nothing to emit.          *)
ParseTF(frame, c) ==
    LET step[i \in 0..Len(frame)] ==
          IF i = 0 THEN [cache |-> c, data |-> NoTF, emit |-> FALSE]
          ELSE TFStep(step[i - 1], frame[i])
    IN  step[Len(frame)]

(* Mutant: a map->odom transform fills tfData but not the cache.            *)
StoreTFNoCache(frame) ==
    LET r == ParseTF(frame, mapOdom)
    IN  /\ mapOdom' = mapOdom
        /\ tf' = IF r.emit THEN r.data ELSE tf

(* The readLoop's steps for a /tf message, and the OnTF callback: cache the *)
(* map->odom transform under c.mu, then, if an event is due, r.TF = tfData *)
(* and r.TFReceived = true under r.mu.                                      *)
StoreTF(frame) ==
    LET r == ParseTF(frame, mapOdom)
    IN  /\ mapOdom' = r.cache
        /\ tf' = IF r.emit THEN r.data ELSE tf

(* Reference definitions, from spec 2 and 4.1: the positions of frame that *)
(* carry pair p; the value of the last of them (d if none); the cache is   *)
(* the last map->odom transform observed; each odom->base_footprint        *)
(* transform is composed with the cache as it is when that transform      *)
(* arrives, and the last such composition is the event.                   *)
At(frame, p) == {i \in DOMAIN frame : frame[i].pair = p}
LastVal(frame, p, d) ==
    IF At(frame, p) = {} THEN d
    ELSE frame[CHOOSE i \in At(frame, p) : \A j \in At(frame, p) : j <= i].val
RefEvent(frame, c, old) ==
    IF At(frame, "odom_bfp") = {} THEN old
    ELSE LET b == CHOOSE i \in At(frame, "odom_bfp") :
                      \A j \in At(frame, "odom_bfp") : j <= i
         IN  [mo |-> LastVal(SubSeq(frame, 1, b - 1), "map_odom", c),
              bfp |-> frame[b].val]

(* A /tf publish frame arrives: handleMessage -> handlePublish routes it by *)
(* c.topicTF to parseTF, which ends in the OnTF callback.                   *)
ReceiveTF ==
    \E frame \in Frames :
        /\ StoreTF(frame)
        /\ lastMO' = LastVal(frame, "map_odom", lastMO)
        /\ refTF' = RefEvent(frame, lastMO, refTF)
        /\ UNCHANGED <<velVars, ratioVars, navVars, req>>

(* Robot.SetVelocity: read both ratios under the read lock, release it,   *)
(* then SetDesiredCmdVel(input * ratio).                                   *)
SetVelocity ==
    /\ desired' = <<linRatio, angRatio>>
    /\ UNCHANGED <<sensorVars, linRatio, angRatio, pendAng, configured, saved, navVars, req>>

(* UpdateSettings: rb.LinearVelRatio = f and then rb.AngularVelRatio = g,  *)
(* two plain writes with no lock (rosbridge/types.go).  The settings page  *)
(* (app.js) always submits both.  The float64 writes are word-sized, so    *)
(* the race tears the pair, never a single value.                          *)
SettingsWriteLinear(r) ==
    /\ req[r] = Idle
    /\ \E f, g \in Ratios :
          /\ linRatio' = f
          /\ pendAng' = g
          /\ configured' = configured \cup {<<f, g>>}
    /\ req' = [req EXCEPT ![r].op = "settings"]
    /\ UNCHANGED <<sensorVars, angRatio, desired, saved, navVars>>

SettingsWriteAngular(r) ==
    /\ req[r].op = "settings"
    /\ angRatio' = pendAng
    /\ req' = [req EXCEPT ![r].op = "save"]
    /\ UNCHANGED <<sensorVars, linRatio, pendAng, desired, configured, saved, navVars>>

(* If rb.Connected: RequestSettingsSave with rb.LinearVelRatio and         *)
(* rb.AngularVelRatio read again, still without the lock; the robot stores *)
(* them unless the call fails.                                             *)
SettingsSave(r) ==
    /\ req[r].op = "save"
    /\ \/ saved' = <<linRatio, angRatio>>
       \/ UNCHANGED saved
    /\ req' = [req EXCEPT ![r] = Idle]
    /\ UNCHANGED <<sensorVars, linRatio, angRatio, pendAng, desired, configured, navVars>>

-----------------------------------------------------------------------------
(* Names of a point list.                                                   *)
NamesOf(l) == {l[i] : i \in DOMAIN l}

(* Add*: take nm.mu, validateAndCreate: reject an empty name, read the   *)
(* list under rb.mu.RLock and reject a duplicate.                          *)
AddValidate(r, t, n) ==
    /\ req[r] = Idle
    /\ nmHolder = NoHolder
    /\ IF n = Empty \/ n \in NamesOf(pts[t])
          THEN UNCHANGED <<nmHolder, req>>               \* error returned
          ELSE /\ nmHolder' = r
               /\ req' = [req EXCEPT ![r] = [op |-> "add", t |-> t, n |-> n, snap |-> <<>>]]
    /\ UNCHANGED <<sensorVars, ratioVars, pts, robotPts>>

(* The AddNavigationPoint handler: the type and the name of the form go to *)
(* the Add* of that type (a type outside PointTypes is rejected first).    *)
AddNavigationPoint(r) == \E t \in PointTypes, n \in AllNames : AddValidate(r, t, n)

(* rb.mu.Lock; append; unlock; release nm.mu.                               *)
AddAppend(r) ==
    /\ req[r].op = "add"
    /\ Len(pts[req[r].t]) < MaxPoints
    /\ pts' = [pts EXCEPT ![req[r].t] = Append(@, req[r].n)]
    /\ nmHolder' = NoHolder
    /\ req' = [req EXCEPT ![r] = Idle]
    /\ UNCHANGED <<sensorVars, ratioVars, robotPts>>

(* removeByName: keep the points whose name differs.                       *)
RemoveByName(l, n) == SelectSeq(l, LAMBDA p : p # n)

(* NavigationManager.DeletePoint, under rb.mu.                            *)
DeletePoint(r, t, n) ==
    /\ req[r] = Idle
    /\ pts' = [pts EXCEPT ![t] = RemoveByName(@, n)]
    /\ UNCHANGED <<sensorVars, ratioVars, robotPts, nmHolder, req>>

(* The DeleteNavPoint handler: type and name from the query.               *)
DeleteNavPoint(r) == \E t \in PointTypes, n \in AllNames : DeletePoint(r, t, n)

(* Clear*Points, under rb.mu.  (NavigationManager.ClearAllPoints has no    *)
(* caller.)                                                                *)
ClearPoints(r, t) ==
    /\ req[r] = Idle
    /\ pts' = [pts EXCEPT ![t] = <<>>]
    /\ UNCHANGED <<sensorVars, ratioVars, robotPts, nmHolder, req>>

(* The ClearNavigationPoints handler: the Clear*Points of the type.        *)
ClearNavigationPoints(r) == \E t \in PointTypes : ClearPoints(r, t)

(* Robot.ImportPoints: replace a list under rb.mu, with no validation and  *)
(* without nm.mu.                                                          *)
ImportPoints(r, t, l) ==
    /\ req[r] = Idle
    /\ pts' = [pts EXCEPT ![t] = l]
    /\ UNCHANGED <<sensorVars, ratioVars, robotPts, nmHolder, req>>

(* The ImportNavPoints handler: the uploaded type and list, as decoded.    *)
ImportNavPoints(r) == \E t \in PointTypes, l \in PointLists : ImportPoints(r, t, l)

(* Send*ToRobot: copy the list under the read lock.                        *)
SendCopy(r, t) ==
    /\ req[r] = Idle
    /\ req' = [req EXCEPT ![r] = [op |-> "send", t |-> t, n |-> Empty, snap |-> pts[t]]]
    /\ UNCHANGED <<sensorVars, ratioVars, navVars>>

(* The SendNavigationPoints handler: the Send*ToRobot of the type.         *)
SendNavigationPoints(r) == \E t \in PointTypes : SendCopy(r, t)

(* With no lock held, the service call: the robot takes the copy, or the   *)
(* call fails (not connected, timeout) and nothing changes.                 *)
SendCall(r) ==
    /\ req[r].op = "send"
    /\ \/ robotPts' = [robotPts EXCEPT ![req[r].t] = req[r].snap]
       \/ UNCHANGED robotPts
    /\ req' = [req EXCEPT ![r] = Idle]
    /\ UNCHANGED <<sensorVars, ratioVars, pts, nmHolder>>

-----------------------------------------------------------------------------
Next ==
    \/ OnTwist
    \/ ReceiveTF
    \/ SetVelocity
    \/ \E r \in Reqs :
          \/ SettingsWriteLinear(r) \/ SettingsWriteAngular(r) \/ SettingsSave(r)
          \/ AddNavigationPoint(r) \/ AddAppend(r) \/ DeleteNavPoint(r)
          \/ ClearNavigationPoints(r) \/ ImportNavPoints(r)
          \/ SendNavigationPoints(r) \/ SendCall(r)

Spec == Init /\ [][Next]_vars

-----------------------------------------------------------------------------
(* Types; the history never exceeds MaxHistory samples.                     *)
TypeOK ==
    /\ hist \in SeqUpTo(Twists, MaxHistory)
    /\ received \in SeqUpTo(Twists, MaxSamples)
    /\ linRatio \in Ratios \cup {1} /\ angRatio \in Ratios \cup {1}
    /\ pendAng \in Ratios \cup {1}
    /\ desired \in (Ratios \cup {1}) \X (Ratios \cup {1})
    /\ configured \subseteq (Ratios \cup {1}) \X (Ratios \cup {1})
    /\ saved \in (Ratios \cup {1}) \X (Ratios \cup {1})
    /\ pts \in [PointTypes -> PointLists]
    /\ robotPts \in [PointTypes -> PointLists]
    /\ nmHolder \in Reqs \cup {NoHolder}
    /\ req \in [Reqs -> ReqStates]
    /\ mapOdom \in MapOdoms \cup {Zero} /\ lastMO \in MapOdoms \cup {Zero}
    /\ tf \in [mo : MapOdoms \cup {Zero}, bfp : Bfps \cup {Zero}]
    /\ refTF \in [mo : MapOdoms \cup {Zero}, bfp : Bfps \cup {Zero}]

(* Spec 4.2: the velocity history holds the most recent samples, in the   *)
(* order received, as many as were received up to MaxHistory; on overflow  *)
(* the oldest sample is dropped.                                           *)
HistoryWindow ==
    hist = SubSeq(received, IF Len(received) > MaxHistory
                               THEN Len(received) - MaxHistory + 1 ELSE 1,
                  Len(received))

(* Spec 2: the cached map->odom transform is the most recent one observed *)
(* for that frame pair, kept across odom->base_footprint events until      *)
(* replaced -- whatever the order of the transforms within and across     *)
(* /tf messages.                                                            *)
CacheIsLatestMapOdom == mapOdom = lastMO

(* Spec 4.1: the pose event composes an odom->base_footprint transform with *)
(* the map->odom transform cached when it arrives.                          *)
TFEventUsesCacheAtArrival == tf = refTF

(* validateAndCreate's purpose: an Add never appends a name that the list  *)
(* already holds (the duplicate check is done before the append).          *)
AddNeverDuplicates ==
    [][\A r \in Reqs :
         AddAppend(r) => req[r].n \notin NamesOf(pts[req[r].t])]_vars

(* SetVelocity scales a joystick command, and the robot stores, a ratio   *)
(* pair that one settings request submitted (or the defaults), never the   *)
(* linear ratio of one request with the angular ratio of another.          *)
RatiosConsistent == desired \in configured /\ saved \in configured
=============================================================================
