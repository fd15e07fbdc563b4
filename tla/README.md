# iotPlatform_back: specifications, model checking and proofs

TLA+ modules for the core of the platform: who is connected, who is let in, who is
said to be online, what a device's sensors and actuators are defined to be, which
bytes cross the MQTT bridge, and what happens to a command, a configuration and a
sensor report on their way between a device and the stores. Each module is translated
from the Go source; `PROJECT.json` names the lines behind every definition.

The platform is one Go process in front of PostgreSQL (devices, message log,
configurations), Redis (status hashes, caches, command queues, report buffer),
InfluxDB (sensor data) and an MQTT broker. Devices come in over HTTP, UDP, a
native WebSocket and an MQTT-over-WebSocket bridge; users over HTTP and the two
WebSockets. Everything below runs in goroutines of that process, and shares
state through a few mutexes and the stores.

## 1. Inventory

| Part | State it keeps | Operations | What is hard |
|---|---|---|---|
| MQTT bridge (`mqtt_gateway_controller.go`) | `conns`, `deviceTokens`; per connection `subOnce`, `online`, sockets | accept, register, two pumps, onSubscribe, onPublish, unregister | overlapping connections of one device; status written after the lock is released; either pump may end first |
| Frames and topics (`mqtt_gateway_controller.go`) | per connection: the bytes read and not consumed, `acl`, `timeout` | parse CONNECT, cut both streams into frames, decide on a user's topics, idle timeout | bytes arrive in pieces cut anywhere; boundaries of the encodings; verdicts kept, and answers cached, while devices are registered and deleted |
| WebSocket hub (`hub.go`, `handler.go`, `device_handler.go`) | `clients`, `deviceClients`, `ownerClients`, a buffered `Send` channel per client | Register, RegisterUser, Unregister, SendToDevice, SendToOwner, read and write pumps, presence callbacks | displaced and slow clients; channels closed once; lookups used outside the lock; callbacks in goroutines of their own |
| Presence (`device_service.go`, `device_report_service.go`, `device_offline_syncer.go`) | status in PostgreSQL, status hash in Redis and its local cache, `pgUpdatePending` | UpdateStatus, report, heartbeat, debounced flush, periodic scan, status read | four writers of two stores, none of them atomic; a cache filled from what was read earlier; restart in the middle |
| Life cycle and tokens (`device_service.go`, `device_report_service.go`, `auth.go`) | device row with `last_active_time`, the device's token, `deviceAuthCache` (5 s), the report service's "dev:" entries, the cached row | Register, GetDeviceToken, token check, report, heartbeat, daily cleanup, Delete | answers of one store kept in three local caches; a deletion that leaves the token; a cleanup that lists now and logs out later |
| Downlink (`downlink_service.go`, `message_log_repo.go`) | message log, Redis list per device with a TTL | EnqueueCmd, PollCmd, AckCmd, removal with the device | push, trim and expire are three calls; polls race with each other, with pushes and with acknowledgements that nobody checks; lost answers |
| Configuration (`device_config_service.go`, `thing_model_apply.go`, `device_config_repo.go`) | one row per device (version, payload, status, reported version), queued and retained envelopes | Save, Apply, Report, deletion | versions under concurrent writers; read-modify-write of the parts |
| Thing model (`device_sensor_service.go`, `device_actuator_service.go`, `sensor_model.go`, `actuator_model.go`, `thing_model.go`) | one row per definition: columns and a JSON body | Create, Update, Delete, Apply, validation of requests | an update reads, merges and writes back; what was never sent together is stored together; JSON null |
| Reported values (`device_report_service.go`, `sensor_data.go`, `thing_model.go`) | the latest values in Redis, the cached list of definitions | check of a report, detail view, resolution of a reported name | check and view see definitions of different ages, or none; names that collide |
| Report buffer (`device_data_buffer.go`, `redis.go` FastReportWrite, `influxdb_service.go`) | Redis list, the worker's batch, asynchronous writes | push, drain, flush, requeue, trim, stop | failed writes, a bounded list, process end |
| Two-level cache (`redis.go` GetOrLoad, LocalCache) | local entries in each instance, Redis entries, negative entries, the load under way of a key, invalidations on their way | load, set, evict, publish, receive | fills that race with invalidations; lost messages; changes that evict nothing |
| Accounts (`user_service.go`, `user_controller.go`, `auth.go`) | the user's row, its cached copy, the tokens of its logins | Login, Update, Get, Delete, Logout | every writer writes the whole row it read earlier; a deletion lists one token for each device key and logs them out one by one |
| UDP server (`udp_server.go`) | a socket | a goroutine per datagram, which calls ReportStatus | a datagram without a token is not asked for one |
| Controllers, router, queries, configuration, generated code | none | one service call per request | none of interest here |

The bridge and the hub call `UpdateStatus` when a connection comes up or goes
down; the hub carries the pushes of the downlink; `Save` hands its envelope to
the downlink's queue and to the MQTT publisher; `Apply` compiles the definitions
and calls `Save`; a report writes the status hash and the buffer list in one Redis
pipeline; the scan asks the connection tables of the hub and the bridge before it
writes anybody OFFLINE. A device's request passes the token check
(over HTTP behind a local cache), and a report then looks whether the device
exists (behind two more).

What each part has to get right, in a line:

* Bridge and hub: one live connection per device, nothing left behind by one that
  ended, no channel closed twice, offline said only of a device that lost its
  connection; status follows connections sooner or later (presence).
* Downlink: a command is fetched at most once, in order, and not forgotten unless
  something failed; lists stay bounded and do not live for ever; the log follows what
  was fetched.
* Configuration: versions count the writes, the newest configuration is sent, a
  device is never said to have reported what was never sent.
* Thing model: whatever was accepted piece by piece is sound as a whole, nothing
  sent is lost, what is applied is what is defined.
* Reported values: what is shown beside a definition fits it, or there is a reason, and
  not for ever.
* Buffer and caches: no report disappears or doubles while nothing fails; no value
  is stale without a reason, or for ever.
* Frames: what a sender framed is what the receiver gets, in whatever pieces it
  came; a user reaches only its own devices; a client that keeps its keepalive is
  not cut off.
* Tokens: a token that was logged out and a device that was deleted are refused
  before long, however often they are used; a device that reports keeps its token.
* Accounts: a status an administrator has set stays; a deletion leaves no token
  without a reason.

`PROJECT.json` lists the hazards of these parts, each at its line.

## 2. Modules

| Module | Models | Abstract specification |
|---|---|---|
| `SessionRegistry` | what the hub and the bridge promise: at most one live session per principal, a session ends once and for good | |
| `MqttGateway` | the bridge: one handler and two pumps per connection | implements `SessionRegistry` |
| `MqttCodec` | the frame tools of the bridge as operators, beside the encoder they must invert | |
| `MqttFrames` | one connection through the bridge as two byte streams | the encoder of `MqttCodec`, and the concatenation of what was sent |
| `Hub` | the hub, its pumps and callbacks | implements `SessionRegistry` |
| `Presence` | status in the two stores and the local cache, and the offline scan | |
| `DeviceTokens` | the token of one device, the caches it is accepted by, the cleanup and the deletion, in time | |
| `Accounts` | one user account and the requests about it | |
| `Downlink` | the commands of one device | |
| `DeviceConfig` | the configuration of one device | |
| `ThingModel` | the definitions of one device, their requests, and the configurations made with them | |
| `SensorReports` | the values one device reports, checked and shown with lists of its definitions | |
| `DataBuffer` | the report list, the worker, the writer and the process | |
| `DeviceCache` | one key of the two-level cache, in several instances of the server | |
| `<M>Proofs` | theorems of `<M>` | |
| `GatewayCacheProofs`, `HubAccountsProofs`, `ConfigPresenceProofs` | theorems of `MqttGateway` and `DeviceCache`, of `Hub` and `Accounts`, of `DeviceConfig` and `Presence`; `ThingModelProofs` has those of `SensorReports` too | |
| `MC<M>` | values and symmetry sets for `<M>`'s instances; `MCThingModel` has those of `SensorReports` too | |

**The grain of a step.** A step is one critical section, one access to a store,
one read of an atomic flag, or one operation on a channel. What the code does
under a mutex is one action; what it does after the unlock is another. So every
interleaving the Go scheduler can produce at these points is in the model.
Network peers are not modelled: a read may fail whenever the pump is reading.

**`MqttGateway`.** `handler`, `wsPump` and `tcpPump` are the program counters of
the three goroutines of `HandleWebSocket`. `RegisterConn` is the section of
`registerConn` under `connMu`; `Detach` that of `unregisterConn`; `CheckOnline`,
`OfflinePG`, `OfflineRedis` and `OfflineTell` what follows the unlock, one store
at a time; `ReadSubscribe`, `OnlinePG`, `OnlineRedis`, `OnlineFlag` and
`OnlineTell` the body of `subOnce.Do`. `UnregisterDeviceToken` is the deferred
call that runs last. Tokens are numbers, because Sa-Token gives every login of a
device the same token until it is logged out (`main.go`, `IsShare`).

**`MqttCodec`, `MqttFrames`.** The numbers are scaled: a byte is below `2 * Base`
(`Base` is 4 for 128), a variable integer has at most `MaxDigits` digits (3 for 4),
the two-byte lengths of the protocol are one byte, and a topic is one byte, the
device it names. `TotalLength` is `mqttPacketTotalLength`, `ReaderLength` what
`ReadFrame` reads, `ParseConnect` is `parseConnectCredentials` with every bounds
check in its place (`Nowhere` is a position that fails them). `client` says what a
client will send; `ReadConnect`, `Authenticate` and `Bridge` are `HandleWebSocket`;
`TakeDeviceFrame` and `TakeUserFrame` one turn of the pump's inner loop, the latter
with `userFrameAllowed` and the lookups it makes; `ReadFrame` one turn of the other
pump. `owned` are the rows that say a device is the user's, and `copies` what older
reads of a row may still answer, from either level of the cache or on their way there:
a lookup (`Lookups`) answers what the row or a copy says, or fails. A copy is there when
the connection begins, made by this lookup or by anybody else's (`CopyRow`), and gone
when it expires or is evicted (`DropCopy`). `taken`, `cuts` and `refused` record what the
pump decided, `held` and `missed` what the user owned, and did not own, at some moment of
the connection or by a copy that was there when it began. Clients and the broker send well-formed packets
only (`WellFormed` and `IsPacket`, the assumption of `MqttFrames` about its constants);
a client that does not wait for CONNACK may lose bytes, and is read out of step
from then on.

**`Hub`.** `mapVars` are the three maps. `CloseSend` keeps what the runtime does
with a second `close`; `Send` what it does with a send on a closed channel;
`WriteOwnerSet` what it may do with a map written while another goroutine ranges
over it. `fate` leaves "up" when the process would end. `Register` and
`RegisterUser` are `HandleDevice` and `HandleUser`: what they check before they
register changes nothing. A callback started with `go` is a `Notice`, "due" until
it has written the status and looked its owner up, "told" afterwards; then, like
any push (`Pushers`), it visits the owner's connections one by one, outside the
lock. The end of a read pump is one step, since nobody can tell a pump that has
failed from one that is about to.

**`Presence`.** The connections are reduced to `linked`; the calls of
`UpdateStatus` under way are a set, so that any number overlap. `Beat` is a
report or a heartbeat. `ScanList` to `MarkPG` follow `syncOnce` line by line.
`CacheDeviceStatus` replaces the hash and drops the local entry; that it deletes and
then writes is one step, since a read in between does no more than one that began
before both. `ReadHash` and `FillLocal` are the two ends of `GetCachedDeviceStatus`
(one read per device at a time). The cached row that `GetDeviceStatus` falls back to
when there is no hash keeps whatever status it was made with, and is left out.

**`DeviceTokens`.** Time passes in ticks, and whatever is under way may take `Slow`
of them. A call goes from the token check (`CheckLocal`, `MissLocal`, `CheckStore`,
`Remember` are `DeviceAuthMiddleware`; `CheckAlways` the check of the report service;
`CheckNothing` a datagram that names no token, or the gateway when it has none) to the
question whether the device exists (`LookLocally`, `LookUp`, `Fill`, `Mark`) and
is accepted (`Accept`). `auth`, `known` and `copy` say how long the entries of the
three caches have still to live. `FlushTake` and `FlushWrite` bring
`last_active_time` to the row, `ListInactive` and `Logout` are
`CleanupInactiveDeviceTokens`, `FindForDelete`, `DeleteRow` and `Evict` are `Delete`.
`dead`, `gone`, `unheard` and `returned` are ghosts that measure; `lenient` and
`deserved` record a decision that came too late or was wrong. `Grace`, `Farewell` and
`Lag` are the exact bounds: with any of them one tick shorter TLC finds the property
violated.

**`Accounts`.** Of the row only `status` is kept, the field only an administrator
may change. `ReadAccount`, `Issue` and `Save` are a login, which writes the row back
as it read it; `Admit` to `EvictUserCache` an edit, or a read, which ends with `Answer`;
`ListTokens`, `LogOut` and `DeleteRow` a deletion. The two levels of the cache are
one here. `tokens` are the logins whose token is valid, `listed` those of them that
Sa-Token's list names: it has one entry for each device key (`EntryOf`), a login takes
the entry of its key, and the token that had it stays valid (`IsShare(false)`); logins
that name no device all use the key "default". `said` is the status an administrator set last, `firm` that this change
met no other request half-way and its eviction worked, `excused` the tokens issued
after a deletion listed them or whose logout failed.

**`Downlink`.** `phase[c]` is how far the `EnqueueCmd` of `c` is; its "repush" stands for
the client library's retry of a push whose answer was lost. `AckCmd` marks any command
that has a row, as the code does: it asks neither whether the command was fetched nor by
whom, nor whether it was acknowledged before. `settled` is a ghost: the commands that
were acknowledged when nothing of them was left in the list, in a handler or in a poll.

**`DeviceConfig`.** A configuration says which request wrote each part, which is
all the properties need. `Update`, `Insert` and `Retry` are the statements of
the repository's `Upsert`; `ReadBack` is the query `Save` makes afterwards.

**`ThingModel`.** `rows[k]` holds the definitions of a kind ("sensor" or
"actuator"): columns `name` and `enabled`, and `body`, the JSON column with the
rest. A request is a function from the keys present to JSON values, with `Null`
and `Malformed` among them; `Decode` is what `encoding/json` leaves of it,
`PatchAccepted` and `CreateAccepted` are the `Validate` methods, `Merge` what an
update does to a body. `Create` and `Delete` are one statement each; `ReadRow` and
`WriteRow` are the two of an update; `List`, `ReadConfig` and `SaveConfig` are what
Apply does to the configuration, of which only the two parts are kept (versions and
envelopes are `DeviceConfig`'s). `sent`, `clash` and `edits` are ghosts: the values last sent, whether an
update wrote over what it had not read, and the number of changes. Left out: the
field `type`, which goes the way of `unit`, the lengths of texts and the syntax of
identifiers.

**`SensorReports`.** A worker checks a report, or shows the latest values. Either asks for
the list of definitions at a moment of its own (`FindCopy`, `LoadRows` and `Fill`, or
`ListFails`), so that the two may see lists of different ages. `Meant` is the definition
the report path checks a reported name against (of several, the one created last);
`Valid` is `validateSensorValues`, which keeps every value if the list is empty or could
not be read; `ShownBy` is `AttachLatest`, which asks for the identifier first. `recent`
are the latest values in Redis, which a report replaces whole and which expire. Changes
write a row and evict the list afterwards; the two levels of the cache are one copy,
which may be filled late, miss an eviction and expires. `judged` is a ghost: the list
that values were checked against.

**`DataBuffer`.** `writer` is the `BatchWriter` of the buffer: "sync" tells a
failed write, as the interface in `device_data_buffer.go` has it; "async" is
`FlushReports` as the platform wires it, which starts the write and returns nil.
`fallback` is a Redis older than 6.2, on which a batch is popped one by one.

**`DeviceCache`.** One key, of one of three kinds: "row" (a device, or its absence),
which `Register` and `Update` write through with `CacheDevice`; "list" (the devices of
a user), which every change evicts with `evictKey`; and "defs" (the sensors or the
actuators of a device), which every change of a definition evicts, but which
`DeleteDevice` empties without telling any cache, as `deleteCascades` does. `orphaned`
says that this was the last change. A user's row is evicted too, as in `Delete`; that the
creation of a user invalidates nothing is left out. A value is the number of the
change that made it. `GetOrLoad` is `Miss` to `FillL1` for the reader and
`Recheck` to `NegLocal` for the load that single flight runs once per instance.
`late` is a ghost: it marks a value in somebody's hands, or an entry, that was read
before an invalidation that has come since. Entries expire at any time, except
that a negative key (30 seconds) goes before an entry made about the same time
(at least 90 seconds) does; the identifier of a device is taken never to be
drawn again after the device was deleted.

## 3. Runs

| Run | Asks | Instance |
|---|---|---|
| `MqttGateway_bridges` | `TokenIsBacked`, `RegistryMatchesBridges`, `RegistrySpec`, `ClosedIsReleased` | 2 connections, a device and a user, 2 tokens, 1 report, failing stores |
| `MqttFrames_stream` | `ConnectUnderstood`, `BytesConserved`, `CutAtFrames`, `LivelyStaysConnected`, `FramesArrive`, `OnlyOwnTopics` | 149 clients that differ in their CONNECT, their frames, what the broker writes to them or how they keep alive; 1 ping; 2 devices, owned or not, with any cached answers, 1 change of their rows, failing lookups |
| `Hub_connections` | `HubIsConsistent`, `OfflineNoticeIsDue`, `RegistrySpec`, `LeaversEnd` | 2 device connections of 1 device, 1 console of its owner, 1 push and 4 callbacks, channels of capacity 1, failing status writes |
| `Downlink_queue` | `FetchedOnceInOrder`, `AbandonedExpires`, `AnsweredIsPollable`, `LogIsEarned`, `IssuedIsFetched` | 2 commands, 2 polls, a list of 1, 2 failing stores, lost answers or handlers that die |
| `DeviceConfig_writers` | `VersionsCountWrites`, `LatestIsQueued`, `ReportedNotAhead` | 3 requests, 2 parts, 1 deletion, faults |
| `ThingModel_edits` | `StoredIsSound`, `LastSentIsKept`, `ApplyIsComplete`, and of `SensorReports` `MisfitIsExplained`, `ViewsComeRight` | 2 identifiers of each kind, 2 handlers, 5 requests drawn from 5 creations and 11 updates, numbers 0 to 2; 2 identifiers, of which one is a name too, 2 forms of a definition, 2 reports, 1 worker, 3 changes, 1 failing step |
| `DataBuffer_reports` | `EachReportOnce`, `QueueBounded`, `ListInOrder`, `EveryReportStored` | 3 reports, a list of 1, batches of 2, either writer, either Redis, refused writes, 1 failing call or crash |
| `DeviceCache_calls` | `StaleIsExplained`, `CachesConverge` | 2 reads, 1 write, 2 instances, a row or a list of definitions, 1 failing call, lost message or restart |
| `Presence_scan` | `SteadyNotMarked`, `SilentGoesOffline` | 1 device, any initial status, 1 failing access, 1 restart |
| `DeviceTokens_revocation` | `RevokedIsRefused`, `ListedWasSilent`, `DeletedIsForgotten` | 2 calls, 1 token, entries that live 1 or 2 ticks, steps up to 1 tick late, 1 failing call or restart |
| `Accounts_requests` | `FirmChangeStays`, `LeftTokenIsExplained` | 4 requests of any kind, 2 device keys, 1 device key in use at a time, 1 failing step |
| `MqttGateway_ReconnectedStaysOnline` | violation, see section 6 | 2 connections |

The type invariants are in no run: each is proved for its module (section 5).

**Bounds.** Every bound is a constant with "(bound)" or "bound on" in its comment,
and each is large enough for the case it is there for. `MaxFaults` is how often
something may go wrong in a behaviour, at any point of it; a property that is
promised only while nothing does says `faults = 0`. Two connections of one
device are what it takes to displace, three goroutines each to overlap; a
channel of capacity 1 and a list of 1 make them full and trimmed; two
commands and two polls let a command be issued before, during and after a poll
and be overtaken by another; three
requests let two race while the third meets the row they left. In `MqttFrames` the
smallest `Base` and lengths make a packet need one, two or three digits, and an idle
threshold be below, within and above its bounds; an answer about an owner is
any copy there may be of the row before or after the change, and the change may come before,
between or after the lookups. The topics of `OnlyOwnTopics` range over
all lists of up to two (`TopicLists`), whatever the clients send. In `DeviceTokens` a call may be called
any number of times, so that two are one that is late and everything that happens
meanwhile; entries are per token, and one token that is logged out shows what a
second would (with two the run has 29 million states); the time that matters is
measured against the constants, none of which is larger than it takes for an entry to
be made, used, overtaken and gone. Four requests in `Accounts` are two edits and two
logins, or a deletion and three others, of which two may use the same device key. In
`SensorReports` three changes are a definition created, changed or deleted, and another
whose name is its identifier, before, between or after a check and a view; one worker is
enough, used over and over, since changes, evictions and expiry come between any two of its
steps (with two and 2 changes the run has 1.5 million states and holds as well). It and `ThingModel` share no
variable, and `EitherSpec` lets one of them move in a behaviour, so that one run asks both
and their states add up. One restart and
one failing access of `Presence` may come at any step. A reader of the cache may be
called any number of times, so that two are a reader and a load overlapping, in
one instance or in two, before, during and after the write; with two writers the
safety properties of `DeviceCache` hold as well (4 million states without faults),
in more time than a run should take. A key of kind "list" does what one of kind "defs"
does without `DeleteDevice`, and has no run of its own. In `Hub_connections` it is a console that gets
full and is evicted, by the callbacks; a full device connection takes a second push,
which only the proofs cover. In `ThingModel`, five requests are what it takes to
create two definitions, read one for an update, change it under the update's feet,
and apply; the creations and updates of `MCThingModel` are fine, or contradict themselves
(a range or thresholds upside down, an interval of 0, a driver that does not exist,
specs of the wrong type), or have nulls, empty objects, an enum whose type changes
while its values stay, or a name that is another definition's identifier. `Numbers`
is small because the requests use no others; `InRangeIsEnough` is for all of them. Devices share nothing but
the maps and locks, so one device is enough where properties are about a device;
the theorems of section 5 hold for any number. Where a handler or an attempt is
"used once", its set is the bound. Symmetry is used only in runs without a
liveness property.

**Deadlock.** Handlers that are used once come to an end, so the runs stop with
nothing left to do and do not check for deadlock; what must not be left undone is
stated as a liveness property instead. `Presence_scan` and `DeviceTokens_revocation`
go on for ever and check it (in the latter, that time can always pass: nothing is
late that cannot be done).

## 4. Fairness

* Bridge and hub: goroutines that can run do run (the Go scheduler is
  preemptive), and a read or write on a closed socket, or a receive from a closed
  channel, returns. Nothing is assumed of peers: an open connection may stay open
  for ever, so the pumps are fair only once their connection is closed.
* Frames: the client and the broker go on sending what they have to send, and both
  pumps go on reading. The connection may end at any time.
* Downlink: handlers run to their end, and the device keeps polling: `IssuedIsFetched`
  is a promise to a device that polls.
* Report buffer: the ticker ticks; `FlushSync` is strongly fair, that is, InfluxDB
  may refuse again and again but not for ever.
* Device cache: calls go on, messages arrive, and no entry lives for ever.
* Reported values: requests go on and evictions are carried out, and the list of
  definitions expires. The latest values expire too, or are replaced by a later report:
  one of the two happens, whether or not a device keeps reporting.
* Presence: time passes, the flush timer fires, calls under way end and the scan
  runs; a read that has begun ends, and an entry of the local cache expires.
  `SilentGoesOffline` assumes of the device only that it has gone and reports no more.
* Tokens and accounts: none; what must happen in time is stated with a clock.

## 5. Proofs

TLAPS checks the theorems of eight modules, for every value of the constants that
satisfies the named assumptions (disjoint sets, markers that are no members,
positive bounds). Every safety invariant and action property of the passing runs is
proved, and every type invariant. Each proof is an induction: a stronger invariant
holds initially (`InitIInv`, or a lemma `...Init`), is kept by every action (`NextIInv`,
`...Step`: a step per action), and implies the property. Where the strengthening is
called `IInv`, or `PresenceInv`, it is defined beside the properties of its module;
elsewhere it stands in front of the proof, a few conjuncts for each property.

| Module | Theorem | Why the property alone is not inductive |
|---|---|---|
| `GatewayCacheProofs` (`MqttGateway`) | `RegistryIsTrue`, `NoLeakedToken`, `OfflineOnlyFromCurrent`, `ImplementsRegistry` | `PhasesAgree` ties flags and pumps to how far a handler is: a connection that is not registered yet has no open pump, and a pump that ended has closed the sockets |
| (`DeviceCache`) | `StaleIsAlwaysExplained` | `StaleInv` says of every value in somebody's hands, and of the negative entry, what the property says of the entries: it is the row, or was overtaken, or an invalidation that reaches it is still to come; an old negative entry is hidden behind an entry in Redis. `WaitInv` says of the contract of `singleflight`, as modelled, that a load knows who waits for it |
| `HubAccountsProofs` (`Hub`) | `AlwaysConsistent`, `DisplacedIsSilent`, `ImplementsRegistry` | `ClientsPlaced`: a client in the maps has its pumps, its device or owner, and a callback is about such a client; `MapsAgree` and `ClosedWhenLeft` need each other |
| (`Accounts`) | `LeftTokenAlwaysExplained` | `ListInv`: a valid token that the list does not name shares its device key with another login; `TokensCovered`: while a deletion is at work, every other valid token is on its list or excused; `RowGoesLast` |
| | `FirmChangeAlwaysStays` | `HoldersKnow`, `CopyKnows`: from the write of the change on, whoever holds a status holds that one, and from its eviction on so does the copy |
| `DownlinkProofs` | `NoQueueForEver`, `NoCommandForgotten`, `LogIsTrue` | what is in the list was pushed, a poll's batch was handed out, rows come first, and a command is accounted for from its push on, before it is answered; of a settled command nothing comes back (`SettledIsOver`) |
| | `FetchedOnceAlways` | `OrderInv` is about the course of a command, what was fetched followed by what is in the list: a command is in it once, and once more for a failure at most (`PushedOnce`), and what was answered before a command was issued is in front of it or gone, because it is never pushed again (`EarlierAreDone`) |
| `ConfigPresenceProofs` (`DeviceConfig`) | `VersionsAreDistinct`, `NoEnvelopeBehind`, `LatestReachesQueue`, `NoReportAhead` | versions number the writes one to one, the last writer's payload is the row's, and an envelope is its writer's own |
| (`Presence`) | `NoConnectedVictim` | the scan's sets are empty between scans, and it has a device in hand only while it writes one |
| `ThingModelProofs` (`ThingModel`) | `StoredAlwaysSound`, `LastSentAlwaysKept`, `ApplyAlwaysComplete` | a handler between its two steps holds an accepted request and a sound row (`Merging`), or lists that were complete when they were made (`PartHolds`) |
| (`SensorReports`) | `MisfitAlwaysExplained` | `ChecksHold`: what is about to be stored, is stored, or is about to be shown fits the definitions its names mean in the list it was checked against |
| `MqttFramesProofs` | `StreamsConserved`, `TopicsWereOwned`, `KeepaliveIsTolerated` | a frame that is cut stays the same frame while more are taken, and a verdict that is kept says what was true at some moment |
| | `ConnectAlwaysUnderstood` | `GotHello`: what is kept as the CONNECT is the packet of this client, because a length known from the first bytes is the length of the whole |
| | `LivelyAlwaysConnected` | `SilenceBounded`: the threshold comes from what was parsed, and the parser read the keepalive the client encoded |
| | `AlwaysCutAtFrames` | `CutUp`, `CutDown`: what was taken is exactly the first frames sent, so that what is left begins with a frame; `OnlyFrames`: whatever the client has still to send, it sends whole frames |
| `DeviceTokensProofs` | `RevokedAlwaysRefused` | `EntriesEnd`: what an entry has still to live and what its token has been dead for never exceed `Slow + AuthTTL` together; it holds of a new entry because the call that makes it had a valid token at its last step (`AnswersAreFresh`) |
| | `DeletedAlwaysForgotten` | `FarewellInv`, the same sum for each copy of a deleted row: read, cached, noted, accepted, each stage is entered a fixed time after the deletion at most (`Latest`) |
| | `ListedWasAlwaysSilent` | `RowFollows`: how far the silence in the row is ahead of the real one, with no write pending, with one waiting for its timer, and with one under way |
| `DataBufferProofs` | `ReportsAlwaysOnce` | `OnceInv`: all of list and batch differ, and none of them is being written or stored; with a writer that tells, a report is somewhere from its push on |
| | `QueueAlwaysBounded` | `RoomInv`: list and batch together, since the batch may come back, and what the worker may still put back in each of its phases |
| | `ListAlwaysInOrder` | `OrderInv`: any two of list and batch stand as they arrived, and a report arrives once |

`StoredAlwaysSound` holds for every set of requests, contradictory ones included,
and rests on two facts: soundness of a body is soundness of each field, so a body
merged from an accepted request and a sound body is sound (`MergeIsSound`); and the
six comparisons of `SensorSpecs.Validate`, each made only if both of its numbers
are there, are enough for those that are there to be completed to an ordered range
(`InRangeIsEnough`).

**The codec.** The theorems of `MqttFramesProofs` hold for every set of clients, every
way to cut what they send, and every `Base` and `MaxDigits`, those of the protocol's
variable integers (128 and 4) among them; its two-byte fields remain one byte wide
(section 2). They rest on what recursive definitions compute for inputs of any
length, which is proved by induction in the form of sets: a set of natural numbers with
0, and with n + 1 for every n in it, has them all (`Induction`, from the least element
of its complement), and a function defined by its last value exists
(`Recursion`). From these come what the digits of a number are worth (`NumberValue`,
`EncodedDigits`), that the reader inverts the encoder (`NumberEncoded`), that reading from
a longer buffer gives the same (`VarintPrefix`, `LengthPrefix`), how long a packet is
(`PacketLength`), that the fields of CONNECT are found one behind the other
(`ConnectParsed`) and that frames concatenated are cut into the same frames
(`FlattenAppend`, `NextFrame`). `TopicsWereOwned` reads a frame by the encoder, not by
the gateway: a PUBLISH to a topic, or a SUBSCRIBE to a list of topics at the level of the
client's own CONNECT, is read by `Topics` as what it was encoded from (`PublishRead`,
`SubscribeRead`), since the gateway read the level right (`ConnectAlwaysUnderstood`).
`KeepaliveIsTolerated` is about `computeIdleTimeout` alone: for every keepalive above
zero and whatever the bounds, the threshold is within them, is at least one and a half
keepalives where these stay below the upper bound, and is the upper bound where they do
not.

**Sequences.** The buffer's three theorems use one vocabulary: a push, a pop, a
requeue and a trim put sequences together or cut them in two (`TrimParts`, `PopParts`,
`PushParts`, `RequeueParts`), and what is in a concatenation, how many, and in which
order, follows from its parts (`ElementsOfConcat`, `AmongConcat`, `PairwiseConcat`). The
order of `Downlink` is carried by an order-preserving map from what is left of a list to
what it was (`Thinner`).

**Two in one module.** Four proof modules extend two components each, which share no
constant and no variable: nothing is said about the two together, and each theorem is
about the behaviours of one specification. So that both can be extended, `DeviceCache`,
`Accounts`, `Presence` and `SensorReports` give their initial states, next-state relation and
specification a name of their own (`CacheSpec`, `AccountSpec`, `PresenceSpec`,
`ReportSpec`).

**What a change would have to guarantee.** Six theorems are conditional: they take
statements of section 6 that the code does not keep, and a condition on the interleaving
under which they do hold. The behaviours in which the actors take turns satisfy each
condition, so that none is empty; each names what a lock or a queue would have to cover.
They say nothing of the code as it is.

| Theorem | Condition | What follows | Invariant |
|---|---|---|---|
| `LockedPushesSuffice` (`Hub`) | the maps do not change while a push is under way (`MapsHeld`) | `fate = "up"`, so `NoSendOnClosed`, `NoMapRace` | `WalkInv`: whom a push is about to send to is registered |
| `OneNoticeSuffices` (`Hub`) | one callback about a device at a time (`OneNotice`), and its write works | `ConnectedIsOnline` | `Shown`: a connected device is ONLINE with no callback to come, or its own is the one to come |
| `OneRequestSuffices` (`Accounts`) | requests of an account do not overlap, nothing fails (`Undisturbed`); for the second, no two logins share a device key (`KeysApart`) | `OnlyAdminsChangeStatus`, `NoTokenWithoutUser` | `AloneInv`: what a request holds, and the copy unless it is about to be evicted, is the row |
| `OneAtATimeSuffices` (`DeviceConfig`) | requests of a device do not overlap, the device is not deleted (`OneAtATime`) | `OneConfigPerVersion`, `PartsSurvive`, and without faults `RetainedIsLatest` | `SerialInv`: the row is what the request under way wrote, and what was sent is some writer's own |
| `UnovertakenSuffices` (`DeviceCache`) | nothing fails, and a change reaches a cache only while nobody else has a value in hand (`Unovertaken`) | `NoOldValueAfterWrite`, which leaves out the definitions of a deleted device | `PunctualInv`: nothing was overtaken, wherever it is |
| `RowLockSuffices` (`ThingModel`) | a row does not change between the two steps of an update (`RowLock`) | `UnsentFieldsKept`, and all that was last sent is stored | `LockInv`: what an update has read is the row |

The conditions are assumptions about behaviours and no specification states them, so no
run checks these six. Of a failed eviction, `OneRequestSuffices` must be silent: the copy
that stays is what the next edit writes back.

`OfflineOnlyFromCurrent` and `NoEnvelopeBehind` are proved and in no run either.
`ImplementsRegistry` is the refinement: initial states map to initial states of
`SessionRegistry`, and every step to a step of it or to a stutter.

Only model-checked are the liveness properties (`ClosedIsReleased`, `LeaversEnd`,
`IssuedIsFetched`, `EveryReportStored`, `CachesConverge`, `SilentGoesOffline`,
`FramesArrive`, `ViewsComeRight`), because the prover does not handle fairness and ENABLED.

## 6. What the source says and the code does not do

One disagreement has a run of its own:

* `ReconnectedStaysOnline`. A bridge ends, is still registered, and leaves the
  table; the device reconnects, subscribes and is ONLINE; then the old handler,
  past its check, writes OFFLINE. The comment at line 213 of the controller says
  this is avoided. The device stays OFFLINE while connected, until it reports.

The modules state more, at their end. To see one broken, make it the only property
of the passing run of its module (`ThingModel_edits` for `SensorReports`), without symmetry.

| Statement | Where the source says so | The behaviour that breaks it |
|---|---|---|
| `MqttGateway!TokenOfOpenBridgeKept` | controller line 154 | the old and the new connection came with the same token; the old one's cleanup removes it |
| `MqttGateway!NoConnectionMeansOffline` | controller line 84 | the other pump ends while onSubscribe writes ONLINE; the cleanup finds `online` unset and writes nothing |
| `Hub!NoSendOnClosed` | `hub_test.go:112` | a push looks a client up and releases the lock; the client is displaced, its channel closed; the push sends and panics. In an HTTP handler the panic is recovered; in the other callers it ends the process |
| `Hub!NoMapRace` | `hub_test.go:69` | SendToOwner ranges over the owner's set while a console joins or leaves |
| `Hub!ConnectedIsOnline` | controller line 95 | the OFFLINE callback of an old connection runs after the ONLINE callback of the new one |
| `Presence!ConnectedNotMarked` | `main.go:259` | the device connects after the scan asked for it and before the scan writes |
| `Presence!OfflineIsShown` | `redis.go:337`, `device_service.go:331` | a status read has the old status in hand while OFFLINE is written and the local entry dropped, and fills the local cache afterwards |
| `DeviceTokens!CleanedIsSilent` | `README.md:195` | the device comes back after the cleanup has listed it and before its token is logged out |
| `DeviceTokens!NothingLeft` | `device_service.go:229` | a deletion evicts every cache of the device and leaves its token valid |
| `Accounts!OnlyAdminsChangeStatus` | `user_controller.go:214` | a login, or an edit of the user's own, has read the row before an administrator disables the account, and writes it back as it was |
| `Accounts!NoTokenWithoutUser` | `user_service.go:225` | a login that has checked the password gets its token after the deletion has listed the tokens |
| `Accounts!EveryTokenIsLoggedOut` | `user_service.go:225` | two logins share a device key, as all do that name no device (`main.go:141`); `GetTokenValueList` names the later token only, and the earlier one outlives the user. `LeftTokenIsExplained` says that this, a login under way and a failing call are the only ways |
| `Downlink!AnsweredIsFetchedLater` | service line 140 | PollCmd empties the list, MarkSent fails, the commands are not returned |
| `Downlink!DeliveredStays` | service line 185 | a command is acknowledged, pushed over WebSocket or by its identifier alone, while it is in the list too; then a poll marks it sent |
| `DeviceConfig!OneConfigPerVersion` | service line 77, `API.md:1507` | two requests write versions 1 and 2, both then read back version 2 and send it, with two configurations; devices drop a version they know |
| `DeviceConfig!RetainedIsLatest` | service line 101 | the writer of the older version publishes last |
| `DeviceConfig!PartsSurvive` | repository line 45 | two Apply requests read the same configuration; the later write undoes the earlier |
| `DeviceConfig!AckedIsConfirmed` | `API.md:293` | a report of an older version acknowledges the newer one |
| `DeviceCache!NoOldValueAfterWrite` | `redis.go:296` | a load has read a row; the row is updated, set in Redis and announced; the load then stores the old row, until it expires |
| `DeviceCache!EveryChangeEvicts` | `device_service.go:229`, `redis.go:449` | the deletion of a device removes its sensors and actuators and calls neither `EvictSensorDefsCache` nor `EvictActuatorDefsCache`; the lists stay until they expire (10 seconds locally, half an hour in Redis). `StaleIsExplained` says that this is the only such case |
| `SensorReports!IdentifierDecides` | `thing_model.go:38` | the check of a report enters identifiers and names in one map: a definition created later whose name is the identifier of another decides whether that one's value is kept, and the value is shown with the earlier one too |
| `ThingModel!NullRestoresInheritance` | `sensor_model.go:299` | `reportInterval` of an update is a pointer to a raw JSON value, which the decoder makes nil for a null: taken as not sent, refused when alone; an interval once set cannot be unset, and the branch at line 431 is never reached |
| `ThingModel!UnsentFieldsKept` | `sensor_model.go:298` | two updates of one definition read it before either writes: the later one writes the whole body |
| `ThingModel!DataTypeIsKnown` | `sensor_model.go:354` | an update with an empty data type stores it as it is |
| `ThingModel!EmptySpecsLeftOut` | `sensor_model.go:322` | a creation with specs `{}` keeps them |
| `DataBuffer!FailedWriteKept` (async writer) | buffer line 157 | the platform's writer returns nil before the write fails |
| `DataBuffer!GracefulStopKeeps` (async writer) | buffer line 119 | main returns while the writes of the last drain still run |
| `DataBuffer!TrimKeepsNewest` (sync writer) | buffer line 210 | a batch put back at the head makes LTRIM cut newer reports |

What the models show besides, without a sentence of the source against it:

* The bytes that a client sends behind its CONNECT in the same message are dropped
  (`lost` of `MqttFrames`), and the stream is read out of step if they were part of a
  packet. A client that waits for CONNACK is not affected.
* The length of the will's properties is read as one byte, where MQTT 5 has a variable
  integer: from 128 bytes on, what follows is misread (`Understandable`). Of such a
  connection `OnlyOwnTopics` says nothing: a user who logged in otherwise is bridged though
  its CONNECT does not parse, and its protocol level, by which the topics of a SUBSCRIBE
  are found, is then not known (lines 772 to 786).
* The topic of the will, which is part of CONNECT, is not among the topics looked at
  (line 402 forwards the packet as it came), and `OnlyOwnTopics` is about PUBLISH and
  SUBSCRIBE.
* Whether a user owns a device is answered by `GetByDeviceID`, from a cache of two levels,
  and kept by the connection: the answer may be as old as a copy of the row lives, and
  the verdict as old as the connection is besides.
* An acknowledgement is taken for any command that was logged, whoever sends it and
  whether or not it was fetched; a poll that takes the command later marks it sent again.
* While a device's definitions cannot be read, its values are kept unchecked.
* A token of an account stays valid when the account is disabled; only new logins
  are refused.
* A device silent for the whole period that gets its token afresh keeps it only if it
  reports before the next cleanup: asking for a token is not activity.

## 7. Not modelled

Payloads, topics, JSON and wording: only what a property tells apart is kept
(which device, which command, which writer). Password hashing, cookies, Sa-Token, the
MQTT and Redis client libraries, the ORM and the stores themselves are external; of
the stores only the effect of a statement, its failure, and where it matters the loss
of its answer. Down-sampling and queries change no state. The rate limiter, the
logger, the configuration and the generated API documents carry no logic of the
program. And, of parts that are modelled:

* where a request carries its token (header, query, cookie), and the middleware that
  takes a user's token or a device's;
* the MQTT history, which is written and read whole, and the random eviction of a full
  local cache;
* ranges, units and time stamps of reported values, and several values of one name in
  one report;
* the status in the cached row of a device (section 2, `Presence`);
* the ownership check of a device's Update, and the lists of devices and of users;
* the registration of a user, and that it invalidates nothing; that the deletion of
  a user leaves the caches and tokens of its devices alone;
* malformed MQTT packets; the end of the UDP server.

## 8. Plan

Done, in this order: connections (`MqttGateway`, `Hub`, with `SessionRegistry` as what
both promise), presence, downlink, configuration, buffer, cache, definitions, frames,
tokens, accounts, the local cache of the status in `Presence`, the proofs of every
safety property the runs check, and the conditions under which the statements of `Hub`,
`Accounts`, `DeviceCache`, most of `DeviceConfig` and one of `ThingModel` would hold;
reported values (`SensorReports`), the device keys of tokens, the definitions a deletion
leaves in the caches, and the copies a user's ownership is read from.
What remains:

1. For the statements of section 6 that section 5 gives no condition for (of `Presence`,
   `DeviceTokens`, `Downlink`, `DataBuffer`, the gateway, and `AckedIsConfirmed`): what a change of the code
   would have to guarantee.
2. Composition: `ThingModel` as a user of `DeviceConfig` (the parts of one are the
   requests' parts of the other), and the connection table of `Presence` as an
   abstraction of `Hub` and `MqttGateway`; `ThingModel` and `DeviceCache` behind the
   definitions and the copy of `SensorReports`.
3. An abstract specification for the caches: a register with bounded staleness, which
   `DeviceCache`, the local cache of `Presence` and the entries of `DeviceTokens`
   implement.
