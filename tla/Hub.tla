--------------------------------- MODULE Hub ---------------------------------
(***************************************************************************)
(* The WebSocket hub of internal/websocket (hub.go), with the pumps of     *)
(* handler.go and the presence callbacks of device_handler.go.             *)
(*                                                                         *)
(* Register, RegisterUser and Unregister are critical sections.            *)
(* SendToDevice and SendToOwner look a target up under the read lock and   *)
(* use it after the lock is released, so each is several steps.  The       *)
(* callbacks run in goroutines of their own, in any order.                 *)
(*                                                                         *)
(* A message is only counted: queue[c] is the length of c.Send.  What the  *)
(* Go runtime does with a send on a closed channel, a second close, or a   *)
(* map written while it is iterated is kept in fate.                       *)
(***************************************************************************)
EXTENDS Naturals, FiniteSets

CONSTANTS Devices, Owners,
          Links,        \* device connections, each used once
          Consoles,     \* connections of users (owners), each used once
          NoClient,     \* "no connection"
          NoOwner,      \* OwnerID 0: the owner could not be resolved
          NoDevice,     \* DeviceID of a client that is not a device
          Calls,        \* goroutines outside the hub that push, one at a time (bound)
          MaxPushes,    \* how many pushes they make (bound)
          Cap,          \* capacity of Client.Send (256 in the code)
          StoreFaults   \* whether persisting a status may fail

Clients == Links \cup Consoles

\* A callback goroutine: the connection it is about and what it reports.  A
\* connection causes at most one of each.
Notice == [client : Links, status : {"ONLINE", "OFFLINE"}]

\* Who can be inside SendToDevice or SendToOwner.
Pushers == Calls \cup Notice

ASSUME HubAssumptions ==
    /\ Links \cap Consoles = {}
    /\ NoClient \notin Clients
    /\ NoOwner \notin Owners
    /\ NoDevice \notin Devices
    /\ Calls \cap Notice = {}
    /\ MaxPushes \in Nat
    /\ Cap \in Nat \ {0}
    /\ StoreFaults \in BOOLEAN

VARIABLES
    clients,        \* h.clients
    deviceClients,  \* h.deviceClients
    ownerClients,   \* h.ownerClients
    device,         \* device[c] : Client.DeviceID
    owner,          \* owner[c]  : Client.OwnerID
    queue,          \* queue[c]  : number of messages buffered in Client.Send
    sendClosed,     \* sendClosed[c] : Client.Send is closed
    connClosed,     \* connClosed[c] : Client.Conn is closed
    reader,         \* reader[c] : phase of readDevicePump / readUserPump
    writer,         \* writer[c] : phase of writePump
    evicting,       \* clients with a "go h.Unregister(client)" to run
    status,         \* status[d] : device status the callbacks persist
    notice,         \* notice[n] : whether callback n was started and has run
    pushes,         \* number of pushes started from outside the hub
    todo,           \* todo[p] : clients p still has to visit
    at,             \* at[p]   : client p is about to send to
    over,           \* over[p] : owner whose set p ranges over, or NoOwner
    fate            \* "up", or what ended the process

mapVars == <<clients, deviceClients, ownerClients>>
clientVars == <<device, owner>>
pumpVars == <<connClosed, reader, writer>>
walkVars == <<pushes, todo, at, over>>
vars == <<mapVars, clientVars, queue, sendClosed, pumpVars, evicting, status, notice, walkVars, fate>>

Fates == {"up", "sendOnClosed", "closeOfClosed", "mapRace"}

TypeOK ==
    /\ clients \in SUBSET Clients
    /\ deviceClients \in [Devices -> Links \cup {NoClient}]
    /\ ownerClients \in [Owners -> SUBSET Consoles]
    /\ device \in [Clients -> Devices \cup {NoDevice}]
    /\ owner \in [Clients -> Owners \cup {NoOwner}]
    /\ queue \in [Clients -> 0 .. Cap]
    /\ sendClosed \in [Clients -> BOOLEAN]
    /\ connClosed \in [Clients -> BOOLEAN]
    /\ reader \in [Clients -> {"off", "run", "over"}]
    /\ writer \in [Clients -> {"off", "run", "over"}]
    /\ evicting \in SUBSET Clients
    /\ status \in [Devices -> {"ONLINE", "OFFLINE"}]
    /\ notice \in [Notice -> {"none", "due", "told"}]
    /\ pushes \in 0 .. MaxPushes
    /\ todo \in [Pushers -> SUBSET Consoles]
    /\ at \in [Pushers -> Clients \cup {NoClient}]
    /\ over \in [Pushers -> Owners \cup {NoOwner}]
    /\ fate \in Fates

Init ==
    /\ clients = {}
    /\ deviceClients = [d \in Devices |-> NoClient]
    /\ ownerClients = [o \in Owners |-> {}]
    /\ device = [c \in Clients |-> NoDevice]
    /\ owner = [c \in Clients |-> NoOwner]
    /\ queue = [c \in Clients |-> 0]
    /\ sendClosed = [c \in Clients |-> FALSE]
    /\ connClosed = [c \in Clients |-> FALSE]
    /\ reader = [c \in Clients |-> "off"]
    /\ writer = [c \in Clients |-> "off"]
    /\ evicting = {}
    /\ status = [d \in Devices |-> "OFFLINE"]
    /\ notice = [n \in Notice |-> "none"]
    /\ pushes = 0
    /\ todo = [p \in Pushers |-> {}]
    /\ at = [p \in Pushers |-> NoClient]
    /\ over = [p \in Pushers |-> NoOwner]
    /\ fate = "up"

-----------------------------------------------------------------------------
(* What the runtime does.                                                  *)

\* Nothing runs any more once the process has ended.
Up == fate = "up"

\* close(c.Send): closing a channel twice is a panic nobody recovers.
CloseSend(c) ==
    /\ sendClosed' = [sendClosed EXCEPT ![c] = TRUE]
    /\ fate' = IF sendClosed[c] THEN "closeOfClosed" ELSE fate

\* Somebody is ranging over the set of o, outside the lock.
Iterated(o) ==
    \E p \in Pushers : over[p] = o

\* A write to the set of o: if it is being ranged over, the runtime may or may
\* not notice; when it does, the process ends.
WriteOwnerSet(o) ==
    \/ fate' = fate
    \/ Iterated(o) /\ fate' = "mapRace"

\* OnDeviceOnline / OnDeviceOffline are started only for a resolved owner.
Notify(c, o, s) ==
    notice' = IF o = NoOwner THEN notice
              ELSE [notice EXCEPT ![[client |-> c, status |-> s]] = "due"]

-----------------------------------------------------------------------------
(* Connections come and go.                                                *)

\* (Mutant of Displace: the older connection keeps its channel.)
DisplaceQuietly(old) == UNCHANGED <<sendClosed, fate>>

\* An older connection of the device loses its channel.
Displace(old) == IF old = NoClient THEN UNCHANGED <<sendClosed, fate>> ELSE CloseSend(old)

\* HandleDevice: the token named device d (a request without a valid token ends
\* here and changes nothing), the owner was looked up, or not found; Register
\* displaces an older connection of d and closes its channel, the pumps start.
Register(c, d, o) ==
    LET old == deviceClients[d]
    IN  /\ Up
        /\ reader[c] = "off"
        /\ device' = [device EXCEPT ![c] = d]
        /\ owner' = [owner EXCEPT ![c] = o]
        /\ Displace(old)
        /\ clients' = (clients \ {old}) \cup {c}
        /\ deviceClients' = [deviceClients EXCEPT ![d] = c]
        /\ Notify(c, o, "ONLINE")
        /\ reader' = [reader EXCEPT ![c] = "run"]
        /\ writer' = [writer EXCEPT ![c] = "run"]
        /\ UNCHANGED <<ownerClients, queue, connClosed, evicting, status, walkVars>>

\* HandleUser: a user whose token is good may have several connections.
RegisterUser(c, o) ==
    /\ Up
    /\ reader[c] = "off"
    /\ owner' = [owner EXCEPT ![c] = o]
    /\ clients' = clients \cup {c}
    /\ ownerClients' = [ownerClients EXCEPT ![o] = @ \cup {c}]
    /\ WriteOwnerSet(o)
    /\ reader' = [reader EXCEPT ![c] = "run"]
    /\ writer' = [writer EXCEPT ![c] = "run"]
    /\ UNCHANGED <<deviceClients, device, queue, sendClosed, connClosed, evicting, notice, status,
                   walkVars>>

\* (Mutant of Registered: Unregister does not look.)
RegisteredAnyway(c) == TRUE

\* (Mutant of UnregisterLink: the owner is told whatever was registered.)
UnregisterLinkTells(c) ==
    /\ clients' = clients \ {c}
    /\ IF c \in clients THEN CloseSend(c) ELSE UNCHANGED <<sendClosed, fate>>
    /\ deviceClients' = [d \in Devices |-> IF deviceClients[d] = c THEN NoClient ELSE deviceClients[d]]
    /\ Notify(c, owner[c], "OFFLINE")
    /\ UNCHANGED ownerClients

\* The two questions Unregister asks under the lock.
Registered(c) == c \in clients
IsItsDevices(c) == deviceClients[device[c]] = c

\* Unregister, for a device connection: nothing if it is registered no more.
UnregisterLink(c) ==
    IF Registered(c)
    THEN /\ clients' = clients \ {c}
         /\ CloseSend(c)
         /\ IF IsItsDevices(c)
            THEN /\ deviceClients' = [deviceClients EXCEPT ![device[c]] = NoClient]
                 /\ Notify(c, owner[c], "OFFLINE")
            ELSE UNCHANGED <<deviceClients, notice>>
         /\ UNCHANGED ownerClients
    ELSE UNCHANGED <<mapVars, sendClosed, notice, fate>>

\* Unregister, for a user's connection.
UnregisterConsole(c) ==
    IF Registered(c)
    THEN /\ clients' = clients \ {c}
         /\ sendClosed' = [sendClosed EXCEPT ![c] = TRUE]
         /\ ownerClients' = [ownerClients EXCEPT ![owner[c]] = @ \ {c}]
         /\ \/ sendClosed[c] /\ fate' = "closeOfClosed"
            \/ ~sendClosed[c] /\ WriteOwnerSet(owner[c])
         /\ UNCHANGED <<deviceClients, notice>>
    ELSE UNCHANGED <<mapVars, sendClosed, notice, fate>>

Unregister(c) == (c \in Links /\ UnregisterLink(c)) \/ (c \in Consoles /\ UnregisterConsole(c))

-----------------------------------------------------------------------------
(* The pumps.                                                              *)

\* ReadMessage fails (the peer is gone, the pong deadline passed, or the
\* connection was closed by the other pump) and, some time later, the deferred
\* Unregister and Conn.Close of the read pump run.  Nobody can tell a read pump
\* that has failed from one that is about to, so this is one step.
ReaderLeaves(c) ==
    /\ Up
    /\ reader[c] = "run"
    /\ Unregister(c)
    /\ reader' = [reader EXCEPT ![c] = "over"]
    /\ connClosed' = [connClosed EXCEPT ![c] = TRUE]
    /\ UNCHANGED <<clientVars, queue, writer, evicting, status, walkVars>>

\* The write pump takes a message and all that have queued up behind it.
WriterDrains(c) ==
    /\ Up
    /\ writer[c] = "run"
    /\ queue[c] > 0
    /\ queue' = [queue EXCEPT ![c] = 0]
    /\ UNCHANGED <<mapVars, clientVars, sendClosed, pumpVars, evicting, notice, status,
                   walkVars, fate>>

\* (Mutant of WriterEnds: the connection is not closed.)
WriterEndsOpen(c) ==
    /\ Up
    /\ writer[c] = "run"
    /\ writer' = [writer EXCEPT ![c] = "over"]
    /\ UNCHANGED <<mapVars, clientVars, queue, sendClosed, connClosed, reader, evicting,
                   notice, status, walkVars, fate>>

\* The write pump ends, and closes the connection: a write failed, or the
\* channel is closed and empty.
WriterEnds(c) ==
    /\ Up
    /\ writer[c] = "run"
    /\ writer' = [writer EXCEPT ![c] = "over"]
    /\ connClosed' = [connClosed EXCEPT ![c] = TRUE]
    /\ UNCHANGED <<mapVars, clientVars, queue, sendClosed, reader, evicting,
                   notice, status, walkVars, fate>>

\* "go h.Unregister(client)" of a push that met a full channel.
Evict(c) ==
    /\ Up
    /\ c \in evicting
    /\ evicting' = evicting \ {c}
    /\ Unregister(c)
    /\ UNCHANGED <<clientVars, queue, pumpVars, status, walkVars>>

-----------------------------------------------------------------------------
(* Pushes.                                                                 *)

\* A goroutine outside the hub that is not pushing at the moment.
Idle(p) == todo[p] = {} /\ at[p] = NoClient

\* SendToDevice, called by EnqueueCmd: the connection is read under the lock.
CallDevice(p, d) ==
    /\ Up
    /\ Idle(p)
    /\ pushes < MaxPushes
    /\ pushes' = pushes + 1
    /\ at' = [at EXCEPT ![p] = deviceClients[d]]
    /\ UNCHANGED <<mapVars, clientVars, queue, sendClosed, pumpVars, evicting, status, notice,
                   todo, over, fate>>

\* p ranges over the set of o as long as there is a client left to send to.
RangeOver(p, o) ==
    over' = [over EXCEPT ![p] = IF todo'[p] = {} /\ at'[p] = NoClient THEN NoOwner ELSE o]

\* SendToOwner: the owner's set of connections is read under the lock.
LookupOwner(p, o) ==
    /\ todo' = [todo EXCEPT ![p] = ownerClients[o]]
    /\ UNCHANGED <<mapVars, clientVars, queue, sendClosed, pumpVars, evicting, at, fate>>
    /\ RangeOver(p, o)

\* SendToOwner, called by the read pump of a console to answer a frame (a
\* command's outcome, a pong; replyOwner), or by NotifyOwner.
CallOwner(p, o) ==
    /\ Up
    /\ Idle(p)
    /\ pushes < MaxPushes
    /\ pushes' = pushes + 1
    /\ LookupOwner(p, o)
    /\ UNCHANGED <<status, notice>>

\* OnDeviceOnline / OnDeviceOffline: the status is persisted (a failure is only
\* logged), and then the owner is told with SendToOwner.  The hub never reads
\* the status, so the two are one step.
NoticeRuns(n) ==
    /\ Up
    /\ notice[n] = "due"
    /\ \/ status' = [status EXCEPT ![device[n.client]] = n.status]
       \/ StoreFaults /\ UNCHANGED status
    /\ notice' = [notice EXCEPT ![n] = "told"]
    /\ LookupOwner(n, owner[n.client])
    /\ UNCHANGED pushes

\* The range over the owner's set, outside the lock, yields its next client; a
\* client that left the set meanwhile is not yielded.
Visit(p) ==
    /\ Up
    /\ at[p] = NoClient
    /\ \E c \in todo[p] :
          /\ todo' = [todo EXCEPT ![p] = @ \ {c}]
          /\ at' = [at EXCEPT ![p] = IF c \in ownerClients[over[p]] THEN c ELSE NoClient]
    /\ RangeOver(p, over[p])
    /\ UNCHANGED <<mapVars, clientVars, queue, sendClosed, pumpVars, evicting, status, notice,
                   pushes, fate>>

\* The buffer of c.Send takes another message.
HasRoom(c) == queue[c] < Cap

\* The send that does not block: buffered, or, on a full channel, the client
\* is evicted.
PutOrEvict(c) ==
    \/ /\ HasRoom(c)
       /\ queue' = [queue EXCEPT ![c] = @ + 1]
       /\ UNCHANGED evicting
    \/ /\ ~HasRoom(c)
       /\ evicting' = evicting \cup {c}
       /\ UNCHANGED queue

\* On a closed channel the send panics.  Only SendToDevice may run in an HTTP
\* handler, where the panic is recovered; the other callers end the process.
Send(p) ==
    LET c == at[p]
    IN  /\ Up
        /\ c # NoClient
        /\ at' = [at EXCEPT ![p] = NoClient]
        /\ \/ ~sendClosed[c] /\ PutOrEvict(c) /\ UNCHANGED fate
           \/ /\ sendClosed[c]
              /\ fate' = "sendOnClosed" \/ (over[p] = NoOwner /\ UNCHANGED fate)
              /\ UNCHANGED <<queue, evicting>>
        /\ UNCHANGED <<mapVars, clientVars, sendClosed, pumpVars, status, notice, pushes, todo>>
        /\ RangeOver(p, over[p])

-----------------------------------------------------------------------------
Pumps(c) == ReaderLeaves(c) \/ WriterDrains(c) \/ WriterEnds(c)

Next ==
    \/ \E c \in Links, d \in Devices, o \in Owners \cup {NoOwner} : Register(c, d, o)
    \/ \E c \in Consoles, o \in Owners : RegisterUser(c, o)
    \/ \E c \in Clients : Pumps(c) \/ Evict(c)
    \/ \E p \in Calls, d \in Devices : CallDevice(p, d)
    \/ \E p \in Calls, o \in Owners : CallOwner(p, o)
    \/ \E n \in Notice : NoticeRuns(n)
    \/ \E p \in Pushers : Visit(p) \/ Send(p)

Spec == Init /\ [][Next]_vars

\* Goroutines that can run do run; a closed channel ends the write pump and a
\* closed connection the read pump.  Peers need not ever hang up.
GoroutineFairness ==
    \A c \in Clients :
        /\ WF_vars(sendClosed[c] /\ WriterEnds(c))
        /\ WF_vars(connClosed[c] /\ ReaderLeaves(c))

FairSpec == Spec /\ GoroutineFairness

-----------------------------------------------------------------------------
(* Properties.                                                             *)

\* The three maps of the hub tell the same story: a device connection is in
\* clients exactly when it is its device's one connection, and a user's exactly
\* when it is in its owner's set.
MapsAgree ==
    /\ \A c \in Links : c \in clients <=> \E d \in Devices : deviceClients[d] = c
    /\ \A d \in Devices : deviceClients[d] # NoClient => device[deviceClients[d]] = d
    /\ \A o \in Owners : ownerClients[o] = {c \in Consoles : c \in clients /\ owner[c] = o}

\* A channel is closed in the step its client leaves the hub and at no other
\* time, so a push that finds a client registered finds its channel open.
ClosedWhenLeft ==
    \A c \in Clients : reader[c] # "off" => (c \in clients <=> ~sendClosed[c])

\* No interleaving of a displacement, a read error and an eviction closes a
\* channel twice.
NoDoubleClose == fate # "closeOfClosed"

\* Maps and channels agree at every moment, whatever the order of arrivals,
\* displacements, read errors and evictions.
HubIsConsistent == MapsAgree /\ ClosedWhenLeft /\ NoDoubleClose

\* A device is reported offline only by the step that leaves it without a
\* connection: a displaced connection goes silently.
OfflineNoticeIsDue ==
    [][\A n \in Notice :
          notice[n] = "none" /\ notice'[n] # "none" /\ n.status = "OFFLINE" =>
              \E d \in Devices : deviceClients[d] = n.client /\ deviceClients'[d] = NoClient]_vars

\* A connection that left the hub ends: both its pumps stop, so neither
\* goroutine nor socket leaks (unless the process ends first).
LeaversEnd ==
    \A c \in Clients :
        sendClosed[c] ~> (reader[c] = "over" /\ writer[c] = "over") \/ fate # "up"

\* The map of device connections behaves as the abstract session registry.
Ended == {c \in Links : sendClosed[c]}

Registry == INSTANCE SessionRegistry
            WITH Principals <- Devices, Sessions <- Links, NoSession <- NoClient,
                 live <- deviceClients, ended <- Ended

RegistrySpec == Registry!Spec

-----------------------------------------------------------------------------
(* The inductive invariant behind the safety properties above.             *)

\* A connection has its pumps from the moment it is registered, and a callback
\* is about a registered connection whose owner is known.
ClientsPlaced ==
    /\ \A c \in Clients :
          /\ reader[c] = "off" => c \notin clients /\ ~sendClosed[c]
          /\ reader[c] # "off" => /\ c \in Links => device[c] \in Devices
                                  /\ c \in Consoles => owner[c] \in Owners
    /\ \A n \in Notice :
          notice[n] # "none" => reader[n.client] # "off" /\ owner[n.client] \in Owners

IInv ==
    /\ TypeOK
    /\ ClientsPlaced
    /\ MapsAgree
    /\ ClosedWhenLeft
    /\ NoDoubleClose

-----------------------------------------------------------------------------
(* What the comments and tests of the source say and the code does not keep. *)

\* hub_test.go: pushing to a device that is not (or no longer) connected does
\* not panic.
NoSendOnClosed == fate # "sendOnClosed"

\* hub.go 124-152: pushes run while connections of the same owner come and go.
NoMapRace == fate # "mapRace"

\* A WebSocket device is online from the moment its connection is made: once
\* the callbacks have run, a connected device of a known owner is ONLINE.
ConnectedIsOnline ==
    \A d \in Devices :
        LET c == deviceClients[d]
        IN  /\ c # NoClient
            /\ owner[c] # NoOwner
            /\ \A n \in Notice : notice[n] # "due"
            => status[d] = "ONLINE"

=============================================================================
