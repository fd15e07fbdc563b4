----------------------------- MODULE MqttGateway -----------------------------
(***************************************************************************)
(* The MQTT-over-WebSocket gateway of                                      *)
(* internal/controller/mqtt_gateway_controller.go: one handler goroutine   *)
(* and two pump goroutines per connection, the registry of connections,    *)
(* the registry of device tokens, and the presence status the handlers     *)
(* write, first to PostgreSQL and then to Redis.                           *)
(*                                                                         *)
(* Every step below is one critical section, one store access or one read  *)
(* of a shared flag of the code, so that the interleavings of the          *)
(* goroutines of several connections of one device are all there.  Frames, *)
(* topics and payloads are abstracted: a device pump reads "its own        *)
(* SUBSCRIBE", "a PUBLISH with sensor data", or an error.                  *)
(***************************************************************************)
EXTENDS Naturals, FiniteSets

CONSTANTS Devices,      \* device principals
          Users,        \* user principals ("user:<id>" connections)
          Conns,        \* connection attempts, each used once
          MaxTokens,    \* bound on the tokens issued to a device, one after the other
          NoConn,       \* "no connection registered"
          Nobody,       \* principal of a connection not accepted yet
          MaxReports,   \* bound on the PUBLISH frames read in a behaviour
          StoreFaults   \* whether a PostgreSQL or Redis write may fail

Principals == Devices \cup Users

\* The tokens of a device, numbered as Sa-Token issues them; "no token recorded".
Tokens == 1 .. MaxTokens
NoToken == 0

ASSUME GatewayAssumptions ==
    /\ Devices \cap Users = {}
    /\ Nobody \notin Principals
    /\ NoConn \notin Conns
    /\ MaxTokens \in Nat \ {0}
    /\ MaxReports \in Nat
    /\ StoreFaults \in BOOLEAN

Status == {"ONLINE", "OFFLINE"}

\* Program counter of the goroutine of HandleWebSocket.
HandlerPhases ==
    {"idle",       \* not accepted yet
     "bridged",    \* CONNECT forwarded to the broker, token recorded
     "pumping",    \* registered in conns; waiting for one pump to end
     "detached",   \* removed from conns, still to read conn.online
     "offPG",      \* UpdateStatus(OFFLINE): PostgreSQL write pending
     "offRedis",   \* UpdateStatus(OFFLINE): Redis write pending
     "offTell",    \* onOffline notification pending
     "untoken",    \* deferred unregisterDeviceToken pending
     "gone"}

\* Program counter of the goroutine that reads the device's frames.
PumpPhases ==
    {"off", "read",
     "onPG", "onRedis", "onFlag", "onTell",  \* inside subOnce.Do
     "over"}

VARIABLES
    handler,       \* handler[c]   : phase of the handler goroutine
    wsPump,        \* wsPump[c]    : phase of the device-to-broker pump
    tcpPump,       \* tcpPump[c]   : phase of the broker-to-device pump
    principal,     \* principal[c] : conn.deviceID
    token,         \* token[c]     : credential it authenticated with
    closed,        \* closed[c]    : conn.close() has run
    subOnce,       \* subOnce[c]   : conn.subOnce has fired
    online,        \* online[c]    : conn.online
    conns,         \* g.conns
    deviceTokens,  \* g.deviceTokens
    issued,        \* issued[d]    : token Sa-Token accepts for d now
    pg,            \* pg[d]        : status column in PostgreSQL
    redis,         \* redis[d]     : status field of the Redis hash
    told,          \* told[d]      : last presence message sent to the owner
    reports,       \* in-flight ReportStatus goroutines
    pgPending,     \* devices waiting for the debounced PostgreSQL update
    pgFlushing,    \* devices taken by a running flushPGUpdates
    published      \* PUBLISH frames read so far (bound)

connVars == <<handler, wsPump, tcpPump, principal, token, closed, subOnce, online>>
storeVars == <<pg, redis, told>>
reportVars == <<reports, pgPending, pgFlushing, published>>
vars == <<connVars, conns, deviceTokens, issued, storeVars, reportVars>>

Report == [device : Devices, token : Tokens]

TypeOK ==
    /\ handler \in [Conns -> HandlerPhases]
    /\ wsPump \in [Conns -> PumpPhases]
    /\ tcpPump \in [Conns -> {"off", "read", "over"}]
    /\ principal \in [Conns -> Principals \cup {Nobody}]
    /\ token \in [Conns -> Tokens \cup {NoToken}]
    /\ closed \in [Conns -> BOOLEAN]
    /\ subOnce \in [Conns -> BOOLEAN]
    /\ online \in [Conns -> BOOLEAN]
    /\ conns \in [Principals -> Conns \cup {NoConn}]
    /\ deviceTokens \in [Devices -> Tokens \cup {NoToken}]
    /\ issued \in [Devices -> Tokens]
    /\ pg \in [Devices -> Status]
    /\ redis \in [Devices -> Status]
    /\ told \in [Devices -> Status]
    /\ reports \in SUBSET Report
    /\ pgPending \in SUBSET Devices
    /\ pgFlushing \in SUBSET Devices
    /\ published \in 0 .. MaxReports

Init ==
    /\ handler = [c \in Conns |-> "idle"]
    /\ wsPump = [c \in Conns |-> "off"]
    /\ tcpPump = [c \in Conns |-> "off"]
    /\ principal = [c \in Conns |-> Nobody]
    /\ token = [c \in Conns |-> NoToken]
    /\ closed = [c \in Conns |-> FALSE]
    /\ subOnce = [c \in Conns |-> FALSE]
    /\ online = [c \in Conns |-> FALSE]
    /\ conns = [p \in Principals |-> NoConn]
    /\ deviceTokens = [d \in Devices |-> NoToken]
    /\ issued = [d \in Devices |-> 1]
    /\ pg = [d \in Devices |-> "OFFLINE"]
    /\ redis = [d \in Devices |-> "OFFLINE"]
    /\ told = [d \in Devices |-> "OFFLINE"]
    /\ reports = {}
    /\ pgPending = {}
    /\ pgFlushing = {}
    /\ published = 0

IsUser(c) == principal[c] \in Users

-----------------------------------------------------------------------------
(* Accepting a connection.                                                 *)

\* registerDeviceToken: the newest connection's token replaces the recorded one.
RegisterDeviceToken(d, t) ==
    deviceTokens' = [deviceTokens EXCEPT ![d] = t]

\* A device passes authentication, the broker takes its CONNECT, and its
\* token is recorded.  (A refused connection changes nothing.)
AcceptDevice(c, d) ==
    /\ handler[c] = "idle"
    /\ handler' = [handler EXCEPT ![c] = "bridged"]
    /\ principal' = [principal EXCEPT ![c] = d]
    /\ token' = [token EXCEPT ![c] = issued[d]]
    /\ RegisterDeviceToken(d, issued[d])
    /\ UNCHANGED <<wsPump, tcpPump, closed, subOnce, online, conns, issued, storeVars, reportVars>>

\* A user's browser connects as "user:<id>"; no device token is recorded.
AcceptUser(c, u) ==
    /\ handler[c] = "idle"
    /\ handler' = [handler EXCEPT ![c] = "bridged"]
    /\ principal' = [principal EXCEPT ![c] = u]
    /\ UNCHANGED <<wsPump, tcpPump, token, closed, subOnce, online, conns,
                   deviceTokens, issued, storeVars, reportVars>>

\* (Mutant of Kicked: the older connection is not closed.)
KickedNobody(c) == closed

\* registerConn's registry: under connMu, an older connection of the same
\* principal is closed and the entry now names this one.
Kicked(c) ==
    LET old == conns[principal[c]]
    IN  IF old \in Conns \ {c} THEN [closed EXCEPT ![old] = TRUE] ELSE closed

\* (Mutant of Entered: the entry is written only when there is none.)
EnteredIfAbsent(c) ==
    IF conns[principal[c]] = NoConn THEN [conns EXCEPT ![principal[c]] = c] ELSE conns

Entered(c) == [conns EXCEPT ![principal[c]] = c]

RegisterConn(c) ==
    /\ handler[c] = "bridged"
    /\ closed' = Kicked(c)
    /\ conns' = Entered(c)
    /\ handler' = [handler EXCEPT ![c] = "pumping"]
    /\ wsPump' = [wsPump EXCEPT ![c] = "read"]
    /\ tcpPump' = [tcpPump EXCEPT ![c] = "read"]
    /\ UNCHANGED <<principal, token, subOnce, online, deviceTokens, issued, storeVars, reportVars>>

-----------------------------------------------------------------------------
(* The device-to-broker pump.                                              *)

\* ReadMessage fails: the peer went away, the idle deadline passed, or the
\* sockets were closed by the other pump or by a newer connection.  The same
\* step stands for a tcp.Write that fails.
WsPumpStops(c) ==
    /\ wsPump[c] = "read"
    /\ wsPump' = [wsPump EXCEPT ![c] = "over"]
    /\ closed' = [closed EXCEPT ![c] = TRUE]
    /\ UNCHANGED <<handler, tcpPump, principal, token, subOnce, online, conns,
                   deviceTokens, issued, storeVars, reportVars>>

\* onSubscribe: the first SUBSCRIBE to an own topic enters subOnce.Do.  The
\* frame may already sit in the read buffer when the sockets are closed, so
\* being closed does not stop the pump before its next read or write fails.
ReadSubscribe(c) ==
    /\ wsPump[c] = "read"
    /\ ~IsUser(c)
    /\ ~subOnce[c]
    /\ subOnce' = [subOnce EXCEPT ![c] = TRUE]
    /\ wsPump' = [wsPump EXCEPT ![c] = "onPG"]
    /\ UNCHANGED <<handler, tcpPump, principal, token, closed, online, conns,
                   deviceTokens, issued, storeVars, reportVars>>

\* UpdateStatus(ONLINE), first store: PostgreSQL.  On an error onSubscribe
\* returns with conn.online still FALSE, and subOnce never fires again.
OnlinePG(c) ==
    /\ wsPump[c] = "onPG"
    /\ \/ /\ pg' = [pg EXCEPT ![principal[c]] = "ONLINE"]
          /\ wsPump' = [wsPump EXCEPT ![c] = "onRedis"]
       \/ /\ StoreFaults
          /\ wsPump' = [wsPump EXCEPT ![c] = "read"]
          /\ UNCHANGED pg
    /\ UNCHANGED <<handler, tcpPump, principal, token, closed, subOnce, online, conns,
                   deviceTokens, issued, redis, told, reportVars>>

\* UpdateStatus(ONLINE), second store: Redis.  Its error is ignored.
OnlineRedis(c) ==
    /\ wsPump[c] = "onRedis"
    /\ \/ redis' = [redis EXCEPT ![principal[c]] = "ONLINE"]
       \/ StoreFaults /\ UNCHANGED redis
    /\ wsPump' = [wsPump EXCEPT ![c] = "onFlag"]
    /\ UNCHANGED <<handler, tcpPump, principal, token, closed, subOnce, online, conns,
                   deviceTokens, issued, pg, told, reportVars>>

\* conn.online.Store(true), after the status is written.
OnlineFlag(c) ==
    /\ wsPump[c] = "onFlag"
    /\ online' = [online EXCEPT ![c] = TRUE]
    /\ wsPump' = [wsPump EXCEPT ![c] = "onTell"]
    /\ UNCHANGED <<handler, tcpPump, principal, token, closed, subOnce, conns,
                   deviceTokens, issued, storeVars, reportVars>>

\* g.onOnline: the owner's sessions are told, and the pump reads on.
OnlineTell(c) ==
    /\ wsPump[c] = "onTell"
    /\ told' = [told EXCEPT ![principal[c]] = "ONLINE"]
    /\ wsPump' = [wsPump EXCEPT ![c] = "read"]
    /\ UNCHANGED <<handler, tcpPump, principal, token, closed, subOnce, online, conns,
                   deviceTokens, issued, pg, redis, reportVars>>

\* The goroutine onPublish starts for device d: none without a recorded token.
ReportOf(d) ==
    IF deviceTokens[d] = NoToken THEN {} ELSE {[device |-> d, token |-> deviceTokens[d]]}

\* logPublish / onPublish: sensor data under a topic that names device d, whoever
\* the connection belongs to.
ReadPublish(c, d) ==
    /\ wsPump[c] = "read"
    /\ ~IsUser(c)
    /\ published < MaxReports
    /\ published' = published + 1
    /\ reports' = reports \cup ReportOf(d)
    /\ UNCHANGED <<connVars, conns, deviceTokens, issued, storeVars, pgPending, pgFlushing>>

-----------------------------------------------------------------------------
(* The broker-to-device pump.                                              *)

\* ReadFrame or WriteMessage fails: the broker hung up or the sockets are closed.
TcpPumpStops(c) ==
    /\ tcpPump[c] = "read"
    /\ tcpPump' = [tcpPump EXCEPT ![c] = "over"]
    /\ closed' = [closed EXCEPT ![c] = TRUE]
    /\ UNCHANGED <<handler, wsPump, principal, token, subOnce, online, conns,
                   deviceTokens, issued, storeVars, reportVars>>

-----------------------------------------------------------------------------
(* The end of the handler: one pump is enough to pass <-done, then the     *)
(* deferred unregisterConn and unregisterDeviceToken run, in this order.   *)

PumpEnded(c) == wsPump[c] = "over" \/ tcpPump[c] = "over"

\* g.conns[conn.deviceID] == conn, read under connMu.
IsCurrent(c) == conns[principal[c]] = c

\* (Mutant of Detach: a connection a newer one took the place of stays.)
DetachCurrent(c) ==
    /\ handler[c] = "pumping"
    /\ PumpEnded(c)
    /\ IsCurrent(c)
    /\ conns' = [conns EXCEPT ![principal[c]] = NoConn]
    /\ handler' = [handler EXCEPT ![c] = "detached"]
    /\ UNCHANGED <<wsPump, tcpPump, principal, token, closed, subOnce, online,
                   deviceTokens, issued, storeVars, reportVars>>

\* unregisterConn, the section under connMu.  A connection a newer one took
\* the place of leaves the registry and the status alone.
Detach(c) ==
    /\ handler[c] = "pumping"
    /\ PumpEnded(c)
    /\ conns' = IF IsCurrent(c) THEN [conns EXCEPT ![principal[c]] = NoConn] ELSE conns
    /\ handler' = [handler EXCEPT ![c] = IF IsCurrent(c) THEN "detached" ELSE "untoken"]
    /\ UNCHANGED <<wsPump, tcpPump, principal, token, closed, subOnce, online,
                   deviceTokens, issued, storeVars, reportVars>>

\* conn.online.Load(): a connection that never came online writes no status.
AfterDetach(c) == IF online[c] THEN "offPG" ELSE "untoken"

CheckOnline(c) ==
    /\ handler[c] = "detached"
    /\ handler' = [handler EXCEPT ![c] = AfterDetach(c)]
    /\ UNCHANGED <<wsPump, tcpPump, principal, token, closed, subOnce, online, conns,
                   deviceTokens, issued, storeVars, reportVars>>

\* UpdateStatus(OFFLINE), first store.  On an error Redis is not written, but
\* the owner is told all the same.
OfflinePG(c) ==
    /\ handler[c] = "offPG"
    /\ \/ /\ pg' = [pg EXCEPT ![principal[c]] = "OFFLINE"]
          /\ handler' = [handler EXCEPT ![c] = "offRedis"]
       \/ /\ StoreFaults
          /\ handler' = [handler EXCEPT ![c] = "offTell"]
          /\ UNCHANGED pg
    /\ UNCHANGED <<wsPump, tcpPump, principal, token, closed, subOnce, online, conns,
                   deviceTokens, issued, redis, told, reportVars>>

OfflineRedis(c) ==
    /\ handler[c] = "offRedis"
    /\ \/ redis' = [redis EXCEPT ![principal[c]] = "OFFLINE"]
       \/ StoreFaults /\ UNCHANGED redis
    /\ handler' = [handler EXCEPT ![c] = "offTell"]
    /\ UNCHANGED <<wsPump, tcpPump, principal, token, closed, subOnce, online, conns,
                   deviceTokens, issued, pg, told, reportVars>>

\* g.onOffline.
OfflineTell(c) ==
    /\ handler[c] = "offTell"
    /\ told' = [told EXCEPT ![principal[c]] = "OFFLINE"]
    /\ handler' = [handler EXCEPT ![c] = "untoken"]
    /\ UNCHANGED <<wsPump, tcpPump, principal, token, closed, subOnce, online, conns,
                   deviceTokens, issued, pg, redis, reportVars>>

\* (Mutant of Forgotten: the record is compared with the device's present token.)
ForgottenIfIssued(c) ==
    LET d == principal[c]
    IN  IF d \in Devices /\ deviceTokens[d] = issued[d]
        THEN [deviceTokens EXCEPT ![d] = NoToken]
        ELSE deviceTokens

\* unregisterDeviceToken: delete the record if it holds this connection's token.
Forgotten(c) ==
    LET d == principal[c]
    IN  IF d \in Devices /\ deviceTokens[d] = token[c]
        THEN [deviceTokens EXCEPT ![d] = NoToken]
        ELSE deviceTokens

UnregisterDeviceToken(c) ==
    /\ handler[c] = "untoken"
    /\ deviceTokens' = Forgotten(c)
    /\ handler' = [handler EXCEPT ![c] = "gone"]
    /\ UNCHANGED <<wsPump, tcpPump, principal, token, closed, subOnce, online, conns,
                   issued, storeVars, reportVars>>

-----------------------------------------------------------------------------
(* What goes on beside the connections.                                    *)

\* The device is logged out (cleanup of inactive devices) and a new token is
\* issued on its next login; open connections keep the one they came with.
RotateToken(d) ==
    /\ issued[d] < MaxTokens
    /\ issued' = [issued EXCEPT ![d] = @ + 1]
    /\ UNCHANGED <<connVars, conns, deviceTokens, storeVars, reportVars>>

\* ReportStatus goroutine: with a valid token the report path marks the device
\* ONLINE in Redis and schedules the PostgreSQL update.
ReportStatus(r) ==
    /\ r \in reports
    /\ reports' = reports \ {r}
    /\ IF r.token = issued[r.device]
       THEN /\ \/ redis' = [redis EXCEPT ![r.device] = "ONLINE"]
               \/ StoreFaults /\ UNCHANGED redis
            /\ pgPending' = pgPending \cup {r.device}
       ELSE UNCHANGED <<redis, pgPending>>
    /\ UNCHANGED <<connVars, conns, deviceTokens, issued, pg, told, pgFlushing, published>>

\* The 5 s timer: flushPGUpdates takes the pending set ...
FlushStart ==
    /\ pgPending # {}
    /\ pgFlushing' = pgFlushing \cup pgPending
    /\ pgPending' = {}
    /\ UNCHANGED <<connVars, conns, deviceTokens, issued, storeVars, reports, published>>

\* ... and writes one device after the other, outside the lock.
FlushWrite(d) ==
    /\ d \in pgFlushing
    /\ pgFlushing' = pgFlushing \ {d}
    /\ \/ pg' = [pg EXCEPT ![d] = "ONLINE"]
       \/ StoreFaults /\ UNCHANGED pg
    /\ UNCHANGED <<connVars, conns, deviceTokens, issued, redis, told, reports, pgPending, published>>

-----------------------------------------------------------------------------
WsPump(c) ==
    \/ WsPumpStops(c) \/ ReadSubscribe(c) \/ (\E d \in Devices : ReadPublish(c, d))
    \/ OnlinePG(c) \/ OnlineRedis(c) \/ OnlineFlag(c) \/ OnlineTell(c)

Finish(c) ==
    \/ Detach(c) \/ CheckOnline(c) \/ OfflinePG(c) \/ OfflineRedis(c)
    \/ OfflineTell(c) \/ UnregisterDeviceToken(c)

Next ==
    \/ \E c \in Conns, d \in Devices : AcceptDevice(c, d)
    \/ \E c \in Conns, u \in Users : AcceptUser(c, u)
    \/ \E c \in Conns : RegisterConn(c) \/ WsPump(c) \/ TcpPumpStops(c) \/ Finish(c)
    \/ \E r \in reports : ReportStatus(r)
    \/ FlushStart
    \/ \E d \in Devices : FlushWrite(d) \/ RotateToken(d)

Spec == Init /\ [][Next]_vars

\* The scheduler runs every goroutine that can run, and a read or a write on a
\* closed socket returns with an error.  Nothing is assumed of the peers: an
\* open connection may stay open for ever.
GoroutineFairness ==
    \A c \in Conns :
        /\ WF_vars(closed[c] /\ (WsPumpStops(c) \/ TcpPumpStops(c)))
        /\ WF_vars(OnlinePG(c) \/ OnlineRedis(c) \/ OnlineFlag(c) \/ OnlineTell(c))
        /\ WF_vars(RegisterConn(c))
        /\ WF_vars(Finish(c))

FairSpec == Spec /\ GoroutineFairness

-----------------------------------------------------------------------------
(* Properties.                                                             *)

\* IsConnected never vouches for a connection nobody will clean up: an entry
\* of g.conns names a connection of that principal whose handler still has its
\* unregisterConn ahead.  (A leaked entry would shield a dead device from the
\* offline syncer for ever.)
RegisteredIsHeld ==
    \A p \in Principals :
        conns[p] # NoConn => /\ handler[conns[p]] = "pumping"
                             /\ principal[conns[p]] = p

\* Two bridges never run side by side for one principal: a bridge whose sockets
\* are open is the registered one, however many reconnects overlap.
OneLiveBridge ==
    \A c \in Conns :
        handler[c] = "pumping" /\ ~closed[c] => conns[principal[c]] = c

\* The table of connections is the truth about bridges, in both directions: what
\* is registered is held by a running handler, and what is open is registered.
RegistryMatchesBridges == RegisteredIsHeld /\ OneLiveBridge

\* The token registry does not outlive the connections: a recorded token
\* belongs to a connection of that device whose cleanup is still to come.
TokenIsBacked ==
    \A d \in Devices :
        deviceTokens[d] # NoToken =>
            \E c \in Conns : /\ principal[c] = d
                             /\ token[c] = deviceTokens[d]
                             /\ handler[c] \notin {"idle", "gone"}

\* A connection over which a device came online is never forgotten without an
\* attempt to write its end: an OFFLINE goes to the owner, and to the stores,
\* only from the handler that took the connection out of the registry.
OfflineWriterWasCurrent ==
    \A c \in Conns :
        handler[c] \in {"detached", "offPG", "offRedis", "offTell"} =>
            /\ closed[c]
            /\ conns[principal[c]] # c
            /\ handler[c] # "detached" => online[c] /\ ~IsUser(c)

\* Every connection that is closed, by its own end or by a newer connection,
\* runs its cleanup to the end.
ClosedIsReleased == \A c \in Conns : closed[c] ~> handler[c] = "gone"

\* The registry of connections behaves as the abstract session registry.
Ended ==
    {c \in Conns : /\ handler[c] \notin {"idle", "bridged"}
                   /\ conns[principal[c]] # c}

Registry == INSTANCE SessionRegistry
            WITH Sessions <- Conns, NoSession <- NoConn, live <- conns, ended <- Ended

RegistrySpec == Registry!Spec

-----------------------------------------------------------------------------
(* The inductive invariant behind the safety properties above.             *)

\* How far a connection has come bounds what its pumps and flags can be.
PhasesAgree ==
    \A c \in Conns :
        /\ handler[c] = "idle" <=> principal[c] = Nobody
        /\ handler[c] \in {"idle", "bridged"} =>
              wsPump[c] = "off" /\ tcpPump[c] = "off" /\ ~closed[c]
        /\ PumpEnded(c) => closed[c]
        /\ handler[c] \notin {"idle", "bridged", "pumping"} => closed[c]
        /\ online[c] \/ wsPump[c] \in {"onPG", "onRedis", "onFlag", "onTell"} =>
              principal[c] \in Devices
        /\ principal[c] \in Devices => token[c] \in Tokens

IInv ==
    /\ TypeOK
    /\ PhasesAgree
    /\ RegisteredIsHeld
    /\ OneLiveBridge
    /\ OfflineWriterWasCurrent
    /\ TokenIsBacked

-----------------------------------------------------------------------------
(* What the comments of the source say and the code does not keep.         *)

\* Line 154 of the controller: a token is removed only if it is still this
\* connection's, so that a concurrent connection's token is not deleted.
TokenOfOpenBridgeKept ==
    \A c \in Conns :
        handler[c] = "pumping" /\ ~closed[c] /\ ~IsUser(c) =>
            deviceTokens[principal[c]] # NoToken

\* No goroutine is in the middle of a status write or of a notification of d.
Quiet(d) ==
    /\ \A c \in Conns : principal[c] = d =>
          /\ handler[c] \notin {"detached", "offPG", "offRedis", "offTell"}
          /\ wsPump[c] \notin {"onPG", "onRedis", "onFlag", "onTell"}
    /\ d \notin pgPending \cup pgFlushing
    /\ \A r \in reports : r.device # d

\* Lines 212-213: the cleanup of a replaced connection does not set the new
\* connection offline by mistake.
ReconnectedStaysOnline ==
    \A c \in Conns :
        handler[c] = "pumping" /\ ~closed[c] /\ online[c] /\ Quiet(principal[c]) =>
            pg[principal[c]] = "ONLINE"

\* Line 84: a closed connection sets the device OFFLINE in Redis and in
\* PostgreSQL at once, without waiting for the offline syncer.
NoConnectionMeansOffline ==
    \A d \in Devices :
        (\A c \in Conns : principal[c] = d => handler[c] = "gone") /\ Quiet(d) =>
            pg[d] = "OFFLINE" /\ redis[d] = "OFFLINE"

=============================================================================
