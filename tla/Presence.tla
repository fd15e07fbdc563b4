------------------------------ MODULE Presence -------------------------------
(***************************************************************************)
(* Who says that a device is online: the status column of PostgreSQL, the  *)
(* status hash of Redis, and the writers of the two: UpdateStatus, called  *)
(* when a connection comes up or goes down (device_service.go), reports    *)
(* and heartbeats with their debounced flush (device_report_service.go),   *)
(* and the periodic scan of device_offline_syncer.go, which looks for      *)
(* devices that fell silent.  GetDeviceStatus reads the hash through a     *)
(* local cache.                                                            *)
(*                                                                         *)
(* A step is one access to a store, or one look at the connection tables   *)
(* (modelled in Hub and MqttGateway; here a device is linked or not).      *)
(* Time is abstracted to what the scan tells apart: a lastActiveTime is    *)
(* fresh until Age makes it older than the threshold, and the hash goes    *)
(* when its TTL is over.                                                   *)
(***************************************************************************)
EXTENDS Naturals, FiniteSets

CONSTANTS Devices,
          NoDevice,     \* "no device": the scan is not in the middle of one
          MaxFaults,    \* how many store accesses may fail (bound)
          MaxCrashes    \* how often the process may be restarted (bound)

ASSUME PresenceAssumptions ==
    /\ NoDevice \notin Devices
    /\ MaxFaults \in Nat
    /\ MaxCrashes \in Nat

Status == {"ONLINE", "OFFLINE"}

\* The status hash: a status with a fresh or an old lastActiveTime, or no key.
Hashes == [status : Status, fresh : BOOLEAN] \cup {[status |-> "none", fresh |-> FALSE]}
NoHash == [status |-> "none", fresh |-> FALSE]
Now(s) == [status |-> s, fresh |-> TRUE]

Nothing == [d \in Devices |-> "none"]

\* A running UpdateStatus, and the store it writes next.
Updates == [device : Devices, status : Status, store : {"pg", "redis"}]

VARIABLES
    pg,         \* pg[d]    : status column of the device
    redis,      \* redis[d] : status hash of the device
    linked,     \* devices a connection table holds
    announced,  \* linked devices whose connection came online
    updates,    \* UpdateStatus calls under way
    pending,    \* pgUpdatePending
    flushing,   \* devices a running flushPGUpdates still has to write
    scan,       \* phase of syncOnce
    listed,     \* devices of the list the scan still has to ask the checker about
    asked,      \* devices to read the hash of
    silent,     \* devices found offline and not yet written
    at,         \* device the scan is writing
    local,      \* local[d]   : status in the local cache (GetCachedDeviceStatus)
    reading,    \* reading[d] : status a call has read in the hash, to be put there
    faults, crashes,
    \* What the code does not keep.
    steady      \* devices linked ever since the scan began

storeVars == <<pg, redis>>
linkVars == <<linked, announced, updates, steady>>
flushVars == <<pending, flushing>>
scanVars == <<scan, listed, asked, silent, at>>
viewVars == <<local, reading>>
presenceVars == <<storeVars, linkVars, flushVars, scanVars, viewVars, faults, crashes>>

PresenceTypeOK ==
    /\ pg \in [Devices -> Status]
    /\ redis \in [Devices -> Hashes]
    /\ linked \in SUBSET Devices
    /\ announced \in SUBSET linked
    /\ updates \in SUBSET Updates
    /\ pending \in SUBSET Devices
    /\ flushing \in SUBSET Devices
    /\ scan \in {"wait", "check", "read", "mark", "redis", "pg"}
    /\ listed \in SUBSET Devices
    /\ asked \in SUBSET Devices
    /\ silent \in SUBSET Devices
    /\ at \in Devices \cup {NoDevice}
    /\ local \in [Devices -> Status \cup {"none"}]
    /\ reading \in [Devices -> Status \cup {"none"}]
    /\ faults \in 0 .. MaxFaults
    /\ crashes \in 0 .. MaxCrashes
    /\ steady \in SUBSET linked

PresenceInit ==
    /\ pg \in [Devices -> Status]
    /\ redis \in [Devices -> Hashes]
    /\ linked = {}
    /\ announced = {}
    /\ updates = {}
    /\ pending = {}
    /\ flushing = {}
    /\ scan = "wait"
    /\ listed = {}
    /\ asked = {}
    /\ silent = {}
    /\ at = NoDevice
    /\ local = Nothing /\ reading = Nothing
    /\ faults = 0
    /\ crashes = 0
    /\ steady = {}

Faulty == faults < MaxFaults /\ faults' = faults + 1
Sound == UNCHANGED faults

\* The local entry is deleted, then the hash is set.  (A read in between does no more than
\* one that began before both.)
CacheDeviceStatus(d, s) ==
    /\ local' = [local EXCEPT ![d] = "none"]
    /\ \/ redis' = [redis EXCEPT ![d] = Now(s)] /\ Sound
       \/ Faulty /\ UNCHANGED redis
    /\ UNCHANGED reading

-----------------------------------------------------------------------------
(* Connections.                                                            *)

\* A connection is entered in its table ...
Link(d) ==
    /\ d \notin linked
    /\ linked' = linked \cup {d}
    /\ UNCHANGED <<storeVars, announced, updates, steady, flushVars, scanVars, viewVars, faults, crashes>>

\* ... and comes online: at once on the native WebSocket, with its SUBSCRIBE on
\* the MQTT bridge.
Announce(d) ==
    /\ d \in linked \ announced
    /\ announced' = announced \cup {d}
    /\ updates' = updates \cup {[device |-> d, status |-> "ONLINE", store |-> "pg"]}
    /\ UNCHANGED <<storeVars, linked, steady, flushVars, scanVars, viewVars, faults, crashes>>

\* UpdateStatus(ONLINE) of d is still under way.
ComingUp(d) == \E u \in updates : u.device = d /\ u.status = "ONLINE"

\* The connection leaves its table.  An OFFLINE follows if it had come online;
\* the bridge skips it while its ONLINE is still being written.
Unlink(d) ==
    /\ d \in linked
    /\ linked' = linked \ {d}
    /\ announced' = announced \ {d}
    /\ steady' = steady \ {d}
    /\ \/ /\ d \in announced
          /\ updates' = updates \cup {[device |-> d, status |-> "OFFLINE", store |-> "pg"]}
       \/ /\ d \in announced => ComingUp(d)
          /\ UNCHANGED updates
    /\ UNCHANGED <<storeVars, flushVars, scanVars, viewVars, faults, crashes>>

\* UpdateStatus, first store.  Its failure ends the call.
UpdatePG(u) ==
    /\ u \in updates /\ u.store = "pg"
    /\ \/ /\ pg' = [pg EXCEPT ![u.device] = u.status]
          /\ updates' = (updates \ {u}) \cup
                        {[device |-> u.device, status |-> u.status, store |-> "redis"]}
          /\ Sound
       \/ Faulty /\ updates' = updates \ {u} /\ UNCHANGED pg
    /\ UNCHANGED <<redis, linked, announced, steady, flushVars, scanVars, viewVars, crashes>>

\* UpdateStatus, second store.  Its failure is ignored.
UpdateRedis(u) ==
    /\ u \in updates /\ u.store = "redis"
    /\ updates' = updates \ {u}
    /\ CacheDeviceStatus(u.device, u.status)
    /\ UNCHANGED <<pg, linked, announced, steady, flushVars, scanVars, crashes>>

-----------------------------------------------------------------------------
(* Reports and heartbeats.                                                 *)

\* A report or a heartbeat of d.  When Redis fails a report goes on and a
\* heartbeat gives up.
Beat(d) ==
    /\ CacheDeviceStatus(d, "ONLINE")
    /\ \/ pending' = pending \cup {d}
       \/ faults' # faults /\ UNCHANGED pending
    /\ UNCHANGED <<pg, linkVars, flushing, scanVars, crashes>>

\* The timer fires: flushPGUpdates takes what is pending ...
FlushStart ==
    /\ pending # {}
    /\ flushing' = flushing \cup pending
    /\ pending' = {}
    /\ UNCHANGED <<storeVars, linkVars, scanVars, viewVars, faults, crashes>>

\* ... and writes device after device; a failed update is dropped.
FlushWrite(d) ==
    /\ d \in flushing
    /\ flushing' = flushing \ {d}
    /\ \/ pg' = [pg EXCEPT ![d] = "ONLINE"] /\ Sound
       \/ Faulty /\ UNCHANGED pg
    /\ UNCHANGED <<redis, linkVars, pending, scanVars, viewVars, crashes>>

-----------------------------------------------------------------------------
(* Time.                                                                   *)

\* lastActiveTime falls behind the threshold.
Age(d) ==
    /\ redis[d].fresh
    /\ redis' = [redis EXCEPT ![d] = [status |-> redis[d].status, fresh |-> FALSE]]
    /\ UNCHANGED <<pg, linkVars, flushVars, scanVars, viewVars, faults, crashes>>

\* The TTL of the hash (ten minutes, the threshold is two) is over.
Expire(d) ==
    /\ redis[d] # NoHash /\ ~redis[d].fresh
    /\ redis' = [redis EXCEPT ![d] = NoHash]
    /\ UNCHANGED <<pg, linkVars, flushVars, scanVars, viewVars, faults, crashes>>

-----------------------------------------------------------------------------
(* The scan.                                                               *)

\* The scan ends: nothing of it is left.
ScanOver == scan' = "wait" /\ listed' = {} /\ asked' = {} /\ silent' = {} /\ at' = NoDevice

\* ListByStatus; on an error, or without an ONLINE device, the scan is over.
ScanList ==
    /\ scan = "wait"
    /\ \/ /\ listed' = {d \in Devices : pg[d] = "ONLINE"}
          /\ listed' # {}
          /\ scan' = "check"
          /\ steady' = linked
          /\ UNCHANGED <<asked, silent, at>>
          /\ Sound
       \/ Faulty /\ ScanOver /\ UNCHANGED steady
    /\ UNCHANGED <<storeVars, linked, announced, updates, flushVars, viewVars, crashes>>

\* (Mutant of Vouched: only the table of one kind of connection is asked.)
VouchedNever(d) == FALSE

\* isOnlineFn: one of the connection tables holds the device.
Vouched(d) == d \in linked

\* The checker is asked about one device after the other.
ScanCheck(d) ==
    /\ scan = "check"
    /\ d \in listed
    /\ listed' = listed \ {d}
    /\ asked' = IF Vouched(d) THEN asked ELSE asked \cup {d}
    /\ UNCHANGED <<storeVars, linkVars, flushVars, scan, silent, at, viewVars, faults, crashes>>

\* (Mutant of Silent: a device without a hash is left alone.)
SilentIfHash(h) == h # NoHash /\ (h.status = "OFFLINE" \/ ~h.fresh)

\* The verdict on a hash: missing, OFFLINE already, or too old.
Silent(h) == h = NoHash \/ h.status = "OFFLINE" \/ ~h.fresh

\* The pipelined HMGETs; on an error the scan is over.
ScanRead ==
    /\ scan = "check"
    /\ listed = {}
    /\ \/ /\ silent' = {d \in asked : Silent(redis[d])}
          /\ scan' = "mark"
          /\ asked' = {}
          /\ UNCHANGED <<listed, at>>
          /\ Sound
       \/ Faulty /\ ScanOver
    /\ UNCHANGED <<storeVars, linkVars, flushVars, viewVars, crashes>>

\* The next silent device, or the end of the scan.
ScanNext ==
    /\ scan = "mark"
    /\ \/ \E d \in silent : /\ at' = d
                            /\ silent' = silent \ {d}
                            /\ scan' = "redis"
                            /\ UNCHANGED <<listed, asked>>
       \/ silent = {} /\ ScanOver
    /\ UNCHANGED <<storeVars, linkVars, flushVars, viewVars, faults, crashes>>

\* OFFLINE goes to Redis first (its failure is only logged) ...
MarkRedis ==
    /\ scan = "redis"
    /\ CacheDeviceStatus(at, "OFFLINE")
    /\ scan' = "pg"
    /\ UNCHANGED <<pg, linkVars, flushVars, listed, asked, silent, at, crashes>>

\* ... then to PostgreSQL.
MarkPG ==
    /\ scan = "pg"
    /\ \/ pg' = [pg EXCEPT ![at] = "OFFLINE"] /\ Sound
       \/ Faulty /\ UNCHANGED pg
    /\ scan' = "mark"
    /\ at' = NoDevice
    /\ UNCHANGED <<redis, linkVars, flushVars, listed, asked, silent, viewVars, crashes>>

\* The process ends in the middle of whatever it does, and is started again.
Restart ==
    /\ crashes < MaxCrashes
    /\ crashes' = crashes + 1
    /\ linked' = {} /\ announced' = {} /\ updates' = {} /\ steady' = {}
    /\ pending' = {} /\ flushing' = {}
    /\ ScanOver
    /\ local' = Nothing /\ reading' = Nothing
    /\ UNCHANGED <<storeVars, faults>>

-----------------------------------------------------------------------------
(* What the owner is told.                                                 *)

notViewVars == <<storeVars, linkVars, flushVars, scanVars, faults, crashes>>

\* GetCachedDeviceStatus finds nothing in the local cache and a status in the hash ...
ReadHash(d) ==
    /\ local[d] = "none" /\ reading[d] = "none"
    /\ redis[d] # NoHash
    /\ reading' = [reading EXCEPT ![d] = redis[d].status]
    /\ UNCHANGED <<local, notViewVars>>

\* ... and keeps it for five seconds.
FillLocal(d) ==
    /\ reading[d] # "none"
    /\ local' = [local EXCEPT ![d] = reading[d]]
    /\ reading' = [reading EXCEPT ![d] = "none"]
    /\ UNCHANGED notViewVars

ExpireLocal(d) ==
    /\ local[d] # "none"
    /\ local' = [local EXCEPT ![d] = "none"]
    /\ UNCHANGED <<reading, notViewVars>>

-----------------------------------------------------------------------------
Scan ==
    \/ ScanList \/ (\E d \in Devices : ScanCheck(d)) \/ ScanRead \/ ScanNext
    \/ MarkRedis \/ MarkPG

PresenceNext ==
    \/ \E d \in Devices : Link(d) \/ Announce(d) \/ Unlink(d)
    \/ \E u \in updates : UpdatePG(u) \/ UpdateRedis(u)
    \/ \E d \in Devices : Beat(d) \/ FlushWrite(d) \/ Age(d) \/ Expire(d)
    \/ FlushStart
    \/ Scan
    \/ Restart
    \/ \E d \in Devices : ReadHash(d) \/ FillLocal(d) \/ ExpireLocal(d)

PresenceSpec == PresenceInit /\ [][PresenceNext]_presenceVars

\* Time passes, calls under way end, the timer fires and the scan runs; devices
\* may connect, fall silent or report as they like.
PresenceFairSpec ==
    /\ PresenceSpec
    /\ \A d \in Devices : /\ WF_presenceVars(Age(d)) /\ WF_presenceVars(Expire(d))
                          /\ WF_presenceVars(FlushWrite(d))
    /\ WF_presenceVars(FlushStart)
    /\ \A u \in Updates : WF_presenceVars(UpdatePG(u) \/ UpdateRedis(u))
    /\ WF_presenceVars(Scan)
    /\ \A d \in Devices : WF_presenceVars(FillLocal(d)) /\ WF_presenceVars(ExpireLocal(d))

-----------------------------------------------------------------------------
(* Properties.                                                             *)

\* A device that is connected all through a scan, however silent it is, is not
\* put OFFLINE by that scan, nor about to be.
SteadyNotMarked == steady \cap (asked \cup silent \cup {at}) = {}

\* A device that has lost its connection for good and reports no more ends up
\* OFFLINE in PostgreSQL, and neither Redis nor the local cache says ONLINE, whatever
\* reports were still to be flushed, whichever old status a read put into the local
\* cache, whichever writes failed and wherever the process was restarted
\* (UpdateStatus, syncOnce, GetDeviceStatus).
SilentGoesOffline ==
    \A d \in Devices :
        <>[](d \notin linked) /\ <>[][~Beat(d)]_presenceVars =>
            <>[](pg[d] = "OFFLINE" /\ "ONLINE" \notin {redis[d].status, local[d]})

-----------------------------------------------------------------------------
(* The inductive invariant behind SteadyNotMarked.                         *)

\* Between two scans nothing of a scan is left.
ScanIsIdle == scan = "wait" => listed = {} /\ asked = {} /\ silent = {} /\ at = NoDevice

\* The scan knows its device while it writes it, and only then.
ScanHasDevice == scan \in {"redis", "pg"} <=> at # NoDevice

PresenceInv ==
    /\ PresenceTypeOK
    /\ ScanIsIdle
    /\ ScanHasDevice
    /\ SteadyNotMarked

-----------------------------------------------------------------------------
(* What a comment of the source says and the code does not keep.           *)

\* main.go 259: a device whose connection is alive is skipped, so that it is not
\* put OFFLINE by mistake.
ConnectedNotMarked == [][\A d \in linked : scan = "pg" => pg'[d] = pg[d]]_presenceVars

\* redis.go 337 and device_service.go 331: once OFFLINE is in the hash nobody is told ONLINE.
\* A read may have put the old status into the local cache meanwhile.
OfflineIsShown == \A d \in Devices : redis[d].status = "OFFLINE" => local[d] # "ONLINE"

=============================================================================
