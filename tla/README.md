# Formal models of rom_go_app

TLA+ models of the concurrent core of the robot fleet web bridge: the
rosbridge protocol client, the robot registry with its broadcast hub, and
the browser bridges that drain the hub, and the service-call table. TLC
checks them on small instances. TLAPS proves, for every value of the
constants, the client's type and reader invariants, the hub's and
registry's safety invariants, and that no pending service call outlives
its caller.

## The system and its parts

| Part (spec §2) | Code | State that matters | Concurrency |
|---|---|---|---|
| ProtocolLink | `src/unnamed/part_000` (`rosbridge.Client`) | `connected`, `conn`, `cmdVelTicker`, `stopCh`, `desiredTwist`/`lastTwist`, `svcPending` | a readLoop per successful Connect, a cmd_vel publisher goroutine per Connect, `go scheduleReconnect`, `go OnConnected/OnDisconnected`; one mutex `c.mu` |
| RobotState | `src/robot/robot.go` | sensor caches, `Connected`, `VelocityHistory` | written from the link's callbacks under `r.mu` |
| FleetRegistry | `src/unnamed/part_002` (`robot.Manager`) | `robots`, `currentID`, `nextID` | `m.mu`, held across the broadcast of each registry event |
| BroadcastHub | `src/unnamed/part_002` | `subscribers` (channels of capacity 100) | `broadcastMu` (RWMutex); Broadcast is non-blocking per channel |
| ClientBridge | `src/handlers/ws_handler.go` | per browser: channel, `done`, socket | a reader goroutine (the handler) and a writer goroutine; cleanup under `sync.Once` |

How they interact:
- The HTTP AddRobot handler (`src/rosbridge/types.go`) registers a robot. It then starts `go Client.Connect()`.
- The registry wraps every client callback so that it broadcasts to the hub.
- Each browser bridge subscribes to the hub and forwards events to its browser.
- Browser commands reach the client through the bridge. Examples are `SetVelocity`, which becomes `SetDesiredCmdVel`, and the `connect`/`disconnect` commands.

## Modules

### `RosbridgeClient.tla`: one protocol link and its robot flag

The model covers one `Client` together with the callbacks `Manager.AddRobot` installs on it.

Goroutines are modelled as follows:
- Dial number `g` (`g \in 1..MaxConns`) names the socket it opens. It also names the readLoop and the publisher goroutine that Connect starts.
- `rd[g]` is the socket readLoop `g` is blocked on. It is `NoConn` once that readLoop has returned.
- `pub[g]` is the program counter of publisher `g`. Its states are:
  - `top`: about to evaluate `select`, where it reads `c.cmdVelTicker`;
  - `wait`: blocked in the select on ticker `ptk[g]`;
  - `tick`, `send`, `store`: the three lock regions of `publishCmdVelTick`.
- Started-but-not-run goroutines are counters:
  - `rcSleep` and `rcReady` for `scheduleReconnect`, before and after its `connected` check;
  - `onConn` and `onDisc` for the callbacks.

Every region under `c.mu` is one step. The actions map to the code like this:

| Action | Code |
|---|---|
| `DialOK`, `DialFail`, `Dial` | `Connect` past its `connected` guard. A success stores the socket, starts readLoop and publisher, replaces the ticker and starts `OnConnected`. A failure starts `scheduleReconnect`. |
| `UserConnect` | a Connect from the AddRobot handler or the browser's `connect` command |
| `ReconnectWake`, `ReconnectConnect` | `scheduleReconnect` |
| `StopConnection` | `Robot.StopConnection` → `disconnect`: ticker stopped, non-blocking send on the unbuffered `stopCh` (taken only by a publisher in `wait`), socket closed, `OnDisconnected` started |
| `ReadFrame`, `ReadFail` | readLoop. Each iteration re-reads `c.conn`. The error path clears `connected` whatever socket failed. |
| `PubSelect`, `PubTick`, `PubCheck`, `PubSend`, `PubStore` | the publisher loop and `publishCmdVelTick`. `PubSend` is `c.send`. `PubStore` stores `lastTwist` whatever send returned. |
| `RunOnConnected`, `RunOnDisconnected` | the callbacks, which write `Robot.Connected` and set the topics and `cmdVelEnabled` |
| `SetDesiredCmdVel`, `SocketBreaks` | the joystick, and the network ending a socket |

Data is abstracted:
- A velocity is a member of `Twists`.
- `wire` is the last command the robot received.
- Topic names are reduced to `topicSet`.

Abstract link: `ProtocolLink.tla` is what spec §4.1 promises of a link, as a safety specification over four variables: `up`, the current socket `sock`, the sockets `opened` so far, and the robot's last command `wire`. Its steps are:
- `Up`: only while down, on a socket never opened before;
- `Down`: only while up;
- `Send(v)`: only while up.

`RosbridgeClient` maps onto it with `Link == INSTANCE ProtocolLink WITH up <- connected, sock <- conn, opened <- 1..dialled, wire <- wire`, and `LinkRefined == Link!Spec`. Failed dials, timers, publishers' lock regions and callbacks are stutters. The abstract spec leaves out the `Stopped` state of §4.1 on purpose: the code lets a reconnect scheduled before `Stop` connect again (the violation run on `StopIsTerminal`), so no mapping could make `Stop` terminal.

### `FleetHub.tla`: registry, broadcast hub and browser bridges

Registry operations:
- `AddRobot`, `RemoveRobot` and `SwitchRobot` take `m.mu`, change the registry and start a broadcast while still holding `m.mu`.
- `ClearAll` (on SIGINT, `main.go`) empties the registry without a broadcast.
- The duplicate-endpoint and not-found paths return an error and change nothing. They are stutters and are left out.
- `AddRobotRequest`, `RemoveRobotRequest` and `SwitchRobotRequest` are the HTTP handlers of `/api/robots` (`rosbridge/types.go`). A wrong method, a missing field, a bad port, a duplicate (409) or an unknown id (404) answers an error and changes nothing. Only the accepted requests are steps: the Manager operation with the submitted endpoint or id. The `go Connect(); Handshake()` that `AddRobot` starts is `UserConnect` in `RosbridgeClient`.

Abstract registry: `FleetRegistry.tla` is the registry that spec §4.3 and §8 describe, with every operation one atomic step:
- `Add` refuses an ip:port already registered and takes an id above every id used so far; the first robot becomes current;
- `Remove` deletes a registered id and, if it was current, selects a remaining robot or none;
- `Switch` selects a registered id;
- `Clear` empties the registry.

`FleetHub` maps onto it with `Registry == INSTANCE FleetRegistry WITH reg <- [i \in robots |-> ep[i]], current <- currentID, used <- 1..(nextID - 1)`. `RegistryRefined == Registry!Spec` says that every step of Manager is an abstract step or leaves the registry unchanged. This holds although each operation is split between `m.mu` and its broadcast: broadcasts and bridge steps leave the registry alone.

Broadcasts:
- A broadcast is a loop of `Offer` steps, one per subscriber channel in the snapshot taken when the read lock was acquired. Each offer is non-blocking: a full channel drops the message.
- Broadcasters run concurrently: the `m.mu` holder (`"reg"`) and telemetry or callback broadcasts from the robots' readLoops (`"tel"`).

Subscribe and Unsubscribe:
- `Subscribe` and the delete half of `Unsubscribe` take the write lock, so they wait until no broadcaster holds the read lock.
- `WriterWaiting` models Go's RWMutex rule that a pending `Lock` blocks new `RLock`s. Without it, registry and telemetry broadcasts could starve the lock forever, which Go does not allow.

Each bridge:
- It upgrades, subscribes and starts its writer.
- Either goroutine may fail (`ReaderFails`, `WriterFails`) and run `cleanup`:
  - `CloseDone`: `close(done)`;
  - `UnsubDelete`: delete the channel under the write lock;
  - `UnsubClose`: close the channel, then close the socket.

Payloads are abstracted: a channel is its fill level.

Abstract hub: `BroadcastHub.tla` is the hub of spec §4.4 and §4.5, with each operation on one queue one step:
- `Subscribe`: registers a queue that was never registered or closed;
- `Unsubscribe`: deregisters and closes a registered queue in one step. A second call is a stutter.
- `Deliver`: a non-blocking offer to a registered queue, dropped when the queue is full;
- `Receive`: takes a buffered message, also after the close.

`FleetHub` maps onto it with `Hub == INSTANCE BroadcastHub WITH registered <- subs, closed <- chClosed \cup {c : ws[c] = "unsub"}, fill <- fill`. A channel counts as closed from the delete on, and the close after the unlock is a stutter. `HubRefined == Hub!Spec`.

### `ServiceCalls.tla`: CallService and the pending-call table

Each call `k` is one `CallService` invocation (the Handshake and the service wrappers only choose the service name). Its state:
- `pc[k]`, which runs `idle → send → wait → ret → done`;
- `cid[k]`, the id `<<service, ms>>`, standing for `svc_<service>_<UnixMilli>`;
- its capacity-1 channel `buf[k]`;
- `result[k]`, recording whose response it returned.

`pending` is `c.svcPending`: a function from ids to call names, with `None` for no entry. `now` is the millisecond clock (`Tick`).

The actions follow `CallService` line by line:
- `Register` (lines 476–483) makes the id and the channel and stores the entry under `svcMu`, overwriting any entry with the same id.
- `SendCall` (485–495) is `c.send`, which succeeds or fails. On failure the call returns, and the deferred delete still runs.
- `Receive` and `Timeout` (497–501) are the two cases of the select.
- `DeleteEntry` is the deferred `delete(c.svcPending, id)`.

The readLoop's handling of a `service_response` is two steps:
- `LookupResponse` (lines 707–771): read the frame, and look the id up under `svcMu`. A frame with no entry is dropped.
- `DeliverResponse` (772–774): the channel send after the lock. It blocks while the slot is full.

Each response frame carries the id of its request. The model also records which call sent that request, so that misrouting can be seen.

Abstract table: `PendingCalls.tla` is the pending table of spec §3, per call. A call is `idle`, `active` or `returned`, and `owners` is the set of calls that own an entry. Ids collide (`<<service, ms>>`), so the abstract spec allows exactly the take-over the code does:
- `Register`: gives the call an entry and displaces at most one other;
- `Return`: removes the call's own entry. If its entry was taken over, it removes at most the entry of the call that took it.

`ServiceCalls` maps onto it with `Table == INSTANCE PendingCalls WITH status <- [k |-> Phase(k)], owners <- {pending[i] : i \in Ids} \ {None}`. `Phase` groups `send`, `wait` and `ret` as `active`. `TableRefined == Table!Spec`.

### `TopicRouting.tla`: subscriptions, routing of publish frames, rate counters

State: `subs` (the kinds the server holds a subscription for on the current socket), `topic[k]` (whether `c.topicX` is set), `writers[k]` (the `OnConnected` goroutines in the middle of writing that field), the goroutines' `pc`/`ph`, and per counted kind `last`/`hz` (`measureHz`) with a ghost list `arr` of arrival times.

Actions: `Connect` (empties `subs`, starts an `OnConnected` goroutine), `Drop`, `SubWrite`, `SubSend`, `UnsubscribeAll`, `StopDisconnect`, `Tick` and `Publish` (handlePublish plus the kind's callback).

Each `Subscribe*` is `c.topicX = c.ns + topic; c.send(...)`. `SubWrite` marks the field write as in progress, and `SubSend` merges its completion with the subscribe send into one step. The code's order (field first, then frame) is therefore built into the model and is not checked. The unlocked write racing `handlePublish`'s read is the data race the model leaves out (see the hazards in `PROJECT.json`).

### `BrowserSocket.tla`: the page's WebSocket client

This models `src/static/js/websocket.js`, which `app.js` starts once at load. Each handler is one task of the browser's event loop, so each is one atomic step.

State:
- `st[s]`: the readyState of every socket the page has created.
- `made`: the number of sockets created so far.
- `ws`: the socket the module-level variable `ws` refers to.
- `timer`: whether `reconnectTimer` is set.

Actions:
- `PageLoad` and `TimerFires` both call `NewSocket`. That is `connect()`, which replaces `ws` and does not close the old socket.
- `Opened`: `onopen` clears the interval.
- `Errored`: the socket fails, and `onerror` closes the socket `ws` refers to, not the one that failed.
- `Dropped`: the server or the network closes an open socket. This is an environment step.
- `Closed`: `onclose` calls `scheduleReconnect`.

The frames the page sends are left out. `send()` writes only when `ws` is open, so whether the page can send is whether `st[ws]` is open.

### `MC_FleetHub.tla`, `MC_ServiceCalls.tla`

Model values for the endpoints, the bridges and `NoEp`; for the calls and the service names.

### `RosbridgeClientProofs.tla`, `FleetHubProofs.tla`, `ServiceCallsProofs.tla`, `BrowserSocketProofs.tla`

The TLAPS proofs (see below).

## Runs

| Run | Config | Result | What it shows |
|---|---|---|---|
| client_link | `RosbridgeClient.cfg` | pass | `TypeOK`; `CurrentSocketHasReader` (some readLoop is blocked on the current open socket); `LinkRecovers` (a broken connected link is restored unless stopped or out of dials); `LinkRefined` (the client implements the abstract link of spec §4.1) |
| client_two_sockets | `RosbridgeClient_AtMostOneOpenSocket.cfg` | violation | two sockets open at once (spec §8) |
| client_stop_resurrected | `RosbridgeClient_StopIsTerminal.cfg` | violation | a reconnect revives a stopped link (spec §4.1) |
| client_lost_command | `RosbridgeClient_LastTwistWasPublished.cfg` | violation | a failed send is recorded as published, so the command is lost |
| fleet_hub | `MC_FleetHub.cfg` | pass | `TypeOK`, `NoSendOnClosedChannel`, `CurrentSelectionValid`, `BridgeReleased` (a bridge whose writer failed is removed from the hub whatever its browser does), and `RegistryRefined` (Manager with its HTTP handlers implements the atomic registry of spec §4.3); `HubRefined` (the hub with the bridges' cleanup implements the broadcast hub of spec §4.4) |
| service_calls | `MC_ServiceCalls.cfg` | pass | `TypeOK`, `NoEntryOutlivesCall` (spec §3: every pending entry belongs to a call that has not returned), `TableRefined` (`c.svcPending` implements the per-call table, with id take-over) |
| service_id_collision | `MC_ServiceCalls_ResponseRouted.cfg` | violation | two calls of one service in one millisecond share an id, and one returns the other's response (spec §4.1) |
| browser_socket | `BrowserSocket.cfg` | pass | `ReconnectPending`: a loaded page never has every socket closed with no reconnect interval set |
| browser_stranded | `BrowserSocket_CurrentSocketReplaced.cfg` | violation | a stale socket's `onopen` clears the interval after the current `ws` closed; every command is dropped while the stale socket lives |
| robot_state | `MC_RobotState.cfg` | pass | `TypeOK`; `HistoryWindow` (spec §4.2: the history is the last `MaxHistory` samples in order); `CacheIsLatestMapOdom` (spec §2: the map→odom cache is the last one received, whatever the order within and across /tf messages) |
| bridge_concurrent_write | `BridgeCommands_SingleWriter.cfg` | violation | a `request_map` reply written by the reader goroutine while the writer goroutine is inside its own `WriteJSON`: two concurrent writers on one gorilla connection, which panics (spec §7) |
| topic_routing | `MC_TopicRouting.cfg` | pass | `HzFromLastGap` (each rate counter is `Second` divided by the gap between the last two frames of its kind); `SubscribedWhileConnected` (a link that stays up and is not stopping is eventually subscribed to every kind) |

More properties are stated and found violated by TLC. They are not among the project's runs:
- `SinglePublisher` (`RosbridgeClient_SinglePublisher.cfg`): a publisher whose ticker was replaced keeps running beside the new one (spec §4.1).
- `RobotFlagAgrees` (`RosbridgeClient_RobotFlagAgrees.cfg`): the `OnConnected` and `OnDisconnected` goroutines run out of order, and `Robot.Connected` stays true for a stopped link.
- `AtMostOneOpen` (`BrowserSocket_AtMostOneOpen.cfg`): the interval fires while an attempt is still connecting; both sockets open and the older one is never closed.
- `ReadLoopNeverStuck` (`MC_ServiceCalls_ReadLoopNeverStuck.cfg`):
  1. two calls share an id;
  2. the later caller times out;
  3. before its deferred delete runs, both responses are routed to its capacity-1 channel;
  4. the second send blocks the readLoop forever.

  The link then reads no more frames and never notices a disconnect.
- `AddNeverDuplicates` (`MC_RobotState_AddNeverDuplicates.cfg`): an Add validates the name under `nm.mu`; before its append, an Import (which takes only `rb.mu`) puts the same name in the list, and the append duplicates it.
- `RatiosConsistent` (`MC_RobotState_RatiosConsistent.cfg`): two settings requests interleave their unlocked writes; `SetVelocity` and the robot's saved settings get the linear ratio of one and the angular ratio of the other.
- `TFEventUsesCacheAtArrival` (`MC_RobotState_TFEventUsesCacheAtArrival.cfg`): a /tf message with odom→base_footprint before map→odom. `parseTF` composes the pose with the later map→odom of the same message, not the one cached when the odom transform arrived (spec §4.1).

Each violation run is listed under `findings` in `PROJECT.json`, with the trace's explanation. Every property of a passing run has a mutant in `PROJECT.json`: a plausible bug in the mapped code that TLC catches.

### Bounds

Client run:
- `MaxConns = 2` successful dials and `MaxDialFailures = 1`.
- This is enough for a stale reader and a stale publisher to coexist with a fresh connection, and for a reconnect to race a stop.
- `Twists = {0, 1}`: a command must change for a publish to matter.
- The two-socket violation needs a third dial (`MaxConns = 3`).

Fleet run:
- Three robots, two endpoints (so the duplicate check matters), and two bridges (so that one bridge's cleanup overlaps a broadcast to the other).
- Channel capacity 1 stands for 100: what matters is full versus not full.

Service-call runs:
- Three calls, two services and two milliseconds (`MaxMs = 1`).
- Two calls are enough for a collision. The third lets a collision overlap an unrelated call, and lets a later call reuse an id after an earlier call deleted it.

Browser run:
- Five sockets (`MaxSockets = 5`).
- This is enough for two overlapping attempts after a failure, plus a further reconnect after they close.
- `TypeOK` of this module is proved (`BrowserTypeCorrect`) rather than checked by the run.

Robot-state runs:
- `MaxHistory = 2` with `MaxSamples = 3`: the history fills and then overflows once.
- Two requests, two names, one point type. `MaxPoints = 1` in the pass run; 2 in the duplicates run, so that the duplicate can be appended.
- Two map→odom values and one odom→base_footprint value, in /tf messages of up to two transforms: enough for both orders within a message.

Topic-routing run:
- Four kinds (`map`, `tf`, `odom`, `cmd_vel`), three of them with a rate counter.
- `Second = 2`, `MaxTime = 2`, `MaxConns = 2`, `MaxFrames = 3`. A zero gap, a gap of one and a gap of two all happen, and a second connection's `OnConnected` races the first.
- The run has `CHECK_DEADLOCK FALSE`: the bounds on time, connections and frames end every behaviour, whereas the code's loops never stop.

`LinkRestored` counts `dialled = MaxConns` as restored. This is because the model's dial bound, not the code, stops further reconnects.

## Fairness

Goroutines that are runnable get scheduled by the Go runtime, so weak fairness of a goroutine's steps is justified. Each module assumes it only for the goroutines its liveness property needs:
- `RosbridgeClient`: the readLoop's error path and both steps of `scheduleReconnect`. The publishers and the callbacks get none: they hold no lock across steps, so `LinkRecovers` holds however they are scheduled;
- broadcast offers and ends;
- `Subscribe`;
- the bridge writer's steps;
- the cleanup steps;
- the `OnConnected` goroutine's steps in `TopicRouting` (`SubWrite`, `SubSend`) and `StopConnection`'s disconnect after its `UnsubscribeAll`;
- the browser's interval timer and its queued close events. Whether the network opens, fails or drops a socket gets no fairness.

The following are environment actions and get no fairness:
- users (Connect, Stop, SetDesiredCmdVel, registry operations, and starting a service call);
- the clock;
- the network (`SocketBreaks`, a read that returns a frame);
- browsers (`Upgrade`, `ReaderFails`, `WriterFails`).

## What is proved

`RosbridgeClientProofs.tla` proves, for every `MaxConns > 0`, every `MaxDialFailures` and every set `Twists`:

- `TypeCorrect`: `Spec => []TypeOK`. This includes that pending reconnects number at most `MaxConns + MaxDialFailures` and pending callbacks at most `MaxConns`.
- `ReaderWatchesCurrentSocket`: `Spec => []CurrentSocketHasReader`.
- That a cmd_vel frame reaches the robot only while the client reports itself connected is part of `LinkImplemented`: the abstract `Send` requires `up`.

- `LinkImplemented`: `Spec => LinkRefined`. `Init` maps to the abstract `Init`. Under `IInv`, each step maps to a link step or a stutter. `DialOKRefines` covers a successful dial past the `connected` guard, which is `Up` on socket `dialled + 1`: that socket is in `Gens` and outside `1..dialled`. `GoDownRefines` covers `disconnect` and readLoop's error path. These are `Down` when the link was up and stutters otherwise; a stale readLoop failing after the link is already down is a stutter. `PubSendRefines` covers `c.send`: it is `Send(pdes[p])` when it gets through and a stutter when it fails. Every other action leaves the four mapped variables alone.

The two state invariants are not inductive alone. The proof uses the strengthening `IInv == TypeOK /\ ConnInv /\ CounterInv /\ ReaderInv`:

- `ConnInv`: `connected` implies a dialled socket is current.
- `CounterInv` does the counting. Every pending reconnect comes from a failed dial, or from a lost connection of an earlier successful dial, so pending reconnects plus the live connection are at most the dials made. Likewise, pending `OnDisconnected` callbacks plus the live connection are at most the successful dials.
- `ReaderInv`: while socket `g` is current and open, readLoop `g` is blocked on it. A readLoop re-reads `c.conn` only after a frame, and then lands on the current socket.

TLC checked `IInv` as an invariant before it was proved. The proof has:
- one lemma for `Init`;
- one lemma per action or action case, with one step per conjunct of `IInv`;
- `NextIInv`, which combines them;
- a PTL step for each theorem.

`FleetHubProofs.tla` proves, for every `MaxRobots > 0`, every set of endpoints, every non-empty set of bridges and every capacity `BufCap > 0`:

- `NoSendOnClosed`: `Spec => []NoSendOnClosedChannel`.
- `SelectionValid`: `Spec => []CurrentSelectionValid`.
- `FleetTypeCorrect`: `Spec => []TypeOK`.
- `RegistryImplemented`: `Spec => RegistryRefined`, that is, `Spec => Registry!Spec`.
- `HubImplemented`: `Spec => HubRefined`. It uses one lemma per hub-changing action:
  - `OfferRefines` is `Deliver`. The channel offered to is still subscribed, by `HubInv`'s `left \subseteq subs`.
  - `WriterForwardRefines` and `WriterFailsRefines` are `Receive`.
  - `SubscribeRefines` is `Subscribe`. An upgraded bridge is neither in the map nor closed, by `HubInv`.
  - `UnsubDeleteRefines` is `Unsubscribe`.
  - `UnsubCloseStutters`: the close moves the channel from `unsub` to `chClosed`, so the mapped `closed` set does not change.

  `OtherStepsStutter` shows that `close(done)`, upgrades, writer returns and registry steps never add or remove an `unsub` bridge.

The refinement proof follows the usual pattern:
- `Init` maps to the abstract `Init`: the empty id set gives the empty function, and `1..0` is empty;
- under `IInv`, each step of `Next` maps to an abstract step or a stutter. There is one lemma per registry action (`AddRobotRefines`, `RemoveRobotRefines`, `SwitchRobotRefines`, `ClearAllRefines`), and every other action leaves `regVars` unchanged;
- in `AddRobotRefines`, the witness id is `nextID`. It is fresh and above every used id because the used ids are `1..nextID-1`. The registry function grows by exactly that id because `IdInv` puts every registered id below `nextID`, so `ep` changes only off the registry.

The strengthening adds two invariants:

- `HubInv` says three things:
  - a broadcaster holds channels only while it is active, and only channels that are in the subscriber map;
  - map membership is exactly the `live`/`done` stages of a bridge;
  - a channel is closed exactly in the `closed` stage.

  So the close in `Unsubscribe` comes after the delete, and no broadcaster can still hold the channel. This rests on the fact that the map changes only under the write lock, which is never taken while a broadcast holds the read lock.
- `IdInv`: every registered id is below `nextID`. A new id is therefore never already registered, which the refinement of `AddRobot` onto the registry needs.

`ServiceCallsProofs.tla` proves, for any sets of calls and services (`Services` non-empty) and any `MaxMs`:

- `ServiceTypeCorrect`: `Spec => []TypeOK`.
- `NoPendingLeak`: `Spec => []NoEntryOutlivesCall`.

The strengthening is `EntryAtOwnId`: an entry naming call `k`'s channel sits under `cid[k]`, the id that `k` built. This is needed because the deferred delete removes only `cid[k]`. Without it, another entry could still name `k` after `k` has returned. The invariant survives id collisions: an overwrite replaces the earlier call's only entry, and a delete under a shared id removes the later call's entry. Neither leaves an entry naming a returned call.

- `TableImplemented`: `Spec => TableRefined`. It rests on `EntryAtOwnId`, which gives lemma `OwnersAfterWrite`: writing `v` under id `i` removes the owner of `i` from the owner set and adds `v`, because that owner owns no other id.
  - `RegisterRefines`: the witness for the displaced call is the previous owner of `<<s, now>>`, or the caller itself when there was none.
  - `DeleteEntryRefines`: if the caller still owns an entry, it is the one under `cid[k]` and is removed. Otherwise the delete removes the entry of whoever took `cid[k]` over, or nothing.
  - `LiveStepStutters`: steps between `send`, `wait` and `ret` keep the phase and the table.

`BrowserSocketProofs.tla` proves, for every `MaxSockets > 0`:

- `BrowserTypeCorrect`.
- `ReconnectAlwaysPending`: `Spec => []ReconnectPending`.

The strengthening `Created` says that the sockets created so far are exactly `1..made`. The only step that clears the interval is `onopen`, and it opens a socket that exists, so after it not every created socket is closed.

`RobotStateProofs.tla` proves, for every `MaxHistory > 0`:

- `HistoryIsWindow`: `Spec => []HistoryWindow`.

The strengthening `VelInv` adds that the ghost `received` is a sequence of twists. The step for `OnTwist` splits on whether the history is full: below `MaxHistory` the history is all of `received`; from then on it has exactly `MaxHistory` elements, so the append always makes it one too long and the trim drops exactly the sample that leaves the window. Every other action leaves both sequences alone.

It also proves, for all constants:

- `CacheIsLatest`: `Spec => []CacheIsLatestMapOdom`.

The invariant is inductive as it stands. What the proof needs is what `parseTF`'s loop leaves in the cache. `ParseTF` is a recursive function (`step[i]` applies `TFStep` to `step[i-1]`), and the provers cannot do induction over it. A `/tf` message in the model, however, holds at most two transforms (`Frames == SeqUpTo(Transforms, 2)`). The lemmas are:
- `FrameShape`: a frame has length 0, 1 or 2.
- `ParseTFUnfold`: for those three lengths, `ParseTF` is the written-out composition of `TFStep`. The proof exhibits a function that satisfies the recursive definition, so the `CHOOSE` behind the definition satisfies it too, and then reads off its values at 0, 1 and 2. None of this uses induction.
- `TFStepCache`: one `TFStep` moves the cache only on a map->odom transform.
- `LastValAt`: `LastVal` returns the value at the last position carrying the pair.
- `ParseTFCache`: after the loop, the cache is `LastVal(frame, "map_odom", c)`, which is also how the ghost `lastMO` moves.

The theorem therefore covers frames of up to two transforms, for every set of transforms. Longer frames would need induction.

`TopicRoutingProofs.tla` proves, for every non-empty order of distinct kinds, every set of rate kinds and every clock resolution `Second > 0`:

- `RoutingTypeCorrect`: `Spec => []TypeOK`.
- `CounterIsLastGap`: `Spec => []HzFromLastGap`.

The strengthening `LastIsArrival` ties the ghost arrival list to the code's state: `arr[k]` is empty exactly when `last[k]` is unset, otherwise `last[k]` is its last element, and no arrival is later than `now`. With it, the `Publish` step shows that the new counter is computed from the same gap that `RefHz` reads off the extended list. The conjunct `RoutedInv` (every subscribed kind has its field set) is carried along; it holds because a kind joins `subs` only in `SubSend`, which sets the field, and nothing clears a field.

The proofs share one detail: the Boolean flags have their own type predicate, `FlagTypeOK`, because the SMT backend fails on goals that mix Boolean membership with arithmetic.

## What is only model-checked

- Liveness properties (`LinkRecovers`, `BridgeReleased`, `SubscribedWhileConnected`, and `CurrentSocketReplaced`, which is violated): TLAPS does not reason about fairness and `ENABLED` here.
- `RobotState`'s `TypeOK`. `DeletePoint`'s `removeByName` is `SelectSeq`, itself a recursive function over a list of up to `MaxPoints` names (a constant). Bounding its length and its elements needs induction over the list, which the installed provers cannot do. The frame bound that makes `ParseTF` provable has no counterpart here.
- The type of `BridgeCommands`, and the fleet hub's liveness.
- The violation runs are TLC counterexamples by nature.

## Not modelled, and the plan

Not modelled yet, in the order planned:

1. **Abstract service call**: each call either returns its own response or times out, with `ServiceCalls` as its refinement. It fails exactly where `ResponseRouted` does.
2. **Registry ⨯ link composition** (the HTTP handlers that start and stop links are already actions of both sides):
   - `RemoveRobot` holding `m.mu` while `StopConnection` waits for a dial that holds `c.mu` (spec §5);
   - a removed robot brought back by `go Connect` or `scheduleReconnect`.
3. **Teleop chain**: the joystick's send rate and the absence of a deadman; a browser that disconnects mid-drag leaves the last command in `desiredTwist`, which the publisher keeps sending.
4. **Wall obstacles and the fire-and-forget map/task calls** (`GoAll*`, `RequestTask`).
5. **A link spec with `Stopped`**: `ProtocolLink` has no `Stopped` state, because the code breaks it (`StopIsTerminal`). A version with it would be checked as a violation run once the reconnect honours the stop.

Left out on purpose:
- The read-only robot handlers `ListRobots`, `RobotStatus` and `GetVelocityHistory`. They change no state. Their two-lock reads are listed as hazards in `PROJECT.json`.
- Speech transcription, the map HTTP handlers (including the `MapList` cache that `SaveMap` leaves stale, listed as a hazard), page rendering and frame builders. They are request parsing, subprocess and template I/O, or pure JSON construction, and the spec puts them out of scope.
- The browser scripts under `static/js` other than `websocket.js`: DOM updates, canvas drawing and joystick geometry.
