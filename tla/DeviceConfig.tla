---------------------------- MODULE DeviceConfig -----------------------------
(***************************************************************************)
(* The configuration of one device: device_config_service.go,              *)
(* thing_model_apply.go and device_config_repo.go.  A request replaces the *)
(* whole configuration (Save) or one part of it (the Apply of the sensors  *)
(* or of the actuators), which is a read, a change and a Save.  A Save     *)
(* writes the row, reads it back for its version, and sends an envelope    *)
(* through the command queue and as a retained MQTT message.  The device   *)
(* reports the envelope it runs.                                           *)
(*                                                                         *)
(* A configuration says which request wrote each of its parts.  A step is  *)
(* one database statement or one call of the downlink.                     *)
(***************************************************************************)
EXTENDS Naturals, FiniteSets

CONSTANTS Requests,     \* Save and Apply requests, each handled once
          Parts,        \* parts of a configuration (keys of its JSON object)
          NoRequest,    \* "nobody": a part that is not there
          MaxDeletes,   \* how often the device may be deleted (bound)
          Faults        \* whether database, queue and broker may fail

ASSUME DeviceConfigAssumptions ==
    /\ NoRequest \notin Requests
    /\ MaxDeletes \in Nat
    /\ Faults \in BOOLEAN

VARIABLES
    row,            \* the row of iot_device_config, or NoRow
    phase,          \* phase[r]   : how far request r is
    payload,        \* payload[r] : the configuration r is to write
    envelope,       \* envelope[r] : what r sends to the device
    queued,         \* envelopes ever handed to EnqueueCmd's queue and pushes
    retained,       \* the retained MQTT message, or NoEnvelope
    registered,     \* the device has a row of its own
    deleting,       \* DeviceService.Delete is between its two deletions
    deletes,        \* deletions begun so far
    \* What the code does not keep.
    writes,         \* requests that wrote the row that is there
    wrote,          \* wrote[r]  : the version r gave the row it wrote
    sets            \* sets[r]   : the parts r was asked to set

handlerVars == <<phase, payload, envelope>>
sentVars == <<queued, retained>>
deviceVars == <<registered, deleting, deletes>>
historyVars == <<writes, wrote, sets>>
vars == <<row, handlerVars, sentVars, deviceVars, historyVars>>

Configs == [Parts -> Requests \cup {NoRequest}]
Empty == [k \in Parts |-> NoRequest]

\* A row; version 0 stands for none.
Rows == [version : Nat, payload : Configs, status : {"pending", "acked"}, reported : Nat]
NoRow == [version |-> 0, payload |-> Empty, status |-> "pending", reported |-> 0]

NoEnvelope == [version |-> 0, config |-> Empty]
Envelopes == [version : Nat, config : Configs]

Phases == {"new",       \* not begun
           "update",    \* about to UPDATE the row
           "insert",    \* there was no row: about to INSERT one
           "retry",     \* the INSERT met a row: about to UPDATE again
           "read",      \* written, about to read the row back
           "enqueue",   \* about to send the envelope with EnqueueCmd
           "publish",   \* about to publish it as a retained message
           "done", "failed"}

TypeOK ==
    /\ row \in Rows
    /\ phase \in [Requests -> Phases]
    /\ payload \in [Requests -> Configs]
    /\ envelope \in [Requests -> Envelopes]
    /\ queued \in SUBSET Envelopes
    /\ retained \in Envelopes
    /\ registered \in BOOLEAN
    /\ deleting \in BOOLEAN
    /\ deletes \in 0 .. MaxDeletes
    /\ writes \in SUBSET Requests
    /\ wrote \in [Requests -> Nat]
    /\ sets \in [Requests -> SUBSET Parts]

Init ==
    /\ row = NoRow
    /\ phase = [r \in Requests |-> "new"]
    /\ payload = [r \in Requests |-> Empty]
    /\ envelope = [r \in Requests |-> NoEnvelope]
    /\ queued = {}
    /\ retained = NoEnvelope
    /\ registered = TRUE
    /\ deleting = FALSE
    /\ deletes = 0
    /\ writes = {}
    /\ wrote = [r \in Requests |-> 0]
    /\ sets = [r \in Requests |-> {}]

-----------------------------------------------------------------------------
(* Save and Apply.                                                         *)

Advance(r, from, to) ==
    /\ phase[r] = from
    /\ phase' = [phase EXCEPT ![r] = to]

\* Save: r sets the whole configuration.
Save(r) ==
    /\ Advance(r, "new", "update")
    /\ payload' = [payload EXCEPT ![r] = [k \in Parts |-> r]]
    /\ sets' = [sets EXCEPT ![r] = Parts]
    /\ UNCHANGED <<row, envelope, sentVars, deviceVars, writes, wrote>>

\* buildConfigWithThingModel: r reads the configuration (none is an empty one) and
\* sets part k of it.
Apply(r, k) ==
    /\ Advance(r, "new", "update")
    /\ payload' = [payload EXCEPT ![r] = [row.payload EXCEPT ![k] = r]]
    /\ sets' = [sets EXCEPT ![r] = {k}]
    /\ UNCHANGED <<row, envelope, sentVars, deviceVars, writes, wrote>>

\* (Mutant of NextVersion: the version is not counted up.)
NextVersionSame == row.version

NextVersion == row.version + 1

\* The UPDATE that sets the payload, resets the status and adds one to the
\* version, all in one statement.
Bump(r) ==
    /\ row' = [version |-> NextVersion, payload |-> payload[r], status |-> "pending",
                reported |-> row.reported]
    /\ writes' = writes \cup {r}
    /\ wrote' = [wrote EXCEPT ![r] = NextVersion]

\* The first attempt; without a row to hit, an INSERT follows.
Update(r) ==
    /\ \/ row # NoRow /\ Advance(r, "update", "read") /\ Bump(r)
       \/ row = NoRow /\ Advance(r, "update", "insert") /\ UNCHANGED <<row, writes, wrote>>
    /\ UNCHANGED <<payload, envelope, sentVars, deviceVars, sets>>

\* The INSERT of version 1.  A constraint may refuse it: the unique index, when
\* another request was first, or the foreign key, when the device is gone.
Insert(r) ==
    /\ \/ /\ row = NoRow /\ registered
          /\ Advance(r, "insert", "read")
          /\ row' = [version |-> 1, payload |-> payload[r], status |-> "pending", reported |-> 0]
          /\ writes' = {r}
          /\ wrote' = [wrote EXCEPT ![r] = 1]
       \/ /\ row # NoRow \/ ~registered
          /\ Advance(r, "insert", "retry")
          /\ UNCHANGED <<row, writes, wrote>>
    /\ UNCHANGED <<payload, envelope, sentVars, deviceVars, sets>>

\* The second attempt to update, which fails if the row is gone again.
Retry(r) ==
    /\ \/ row # NoRow /\ Advance(r, "retry", "read") /\ Bump(r)
       \/ row = NoRow /\ Advance(r, "retry", "failed") /\ UNCHANGED <<row, writes, wrote>>
    /\ UNCHANGED <<payload, envelope, sentVars, deviceVars, sets>>

\* (Mutant of Sent: one version more than the write's.)
SentAfter(r) == [version |-> row.version + 1, config |-> payload[r]]

\* The envelope: the version the row has now, the configuration r wrote.
Sent(r) == [version |-> row.version, config |-> payload[r]]

\* The row is read back: its version, with the configuration of r, is sent.
ReadBack(r) ==
    /\ \/ /\ row # NoRow
          /\ Advance(r, "read", "enqueue")
          /\ envelope' = [envelope EXCEPT ![r] = Sent(r)]
       \/ row = NoRow /\ Advance(r, "read", "failed") /\ UNCHANGED envelope
    /\ UNCHANGED <<row, payload, sentVars, deviceVars, historyVars>>

\* (Mutant of Enqueue: left out.)
EnqueueNot(r) ==
    /\ Advance(r, "enqueue", "publish")
    /\ UNCHANGED <<row, payload, envelope, sentVars, deviceVars, historyVars>>

\* EnqueueCmd.  When it fails the request fails, but the entry may be queued.
Enqueue(r) ==
    /\ \/ Advance(r, "enqueue", "publish") /\ queued' = queued \cup {envelope[r]}
       \/ /\ Faults
          /\ Advance(r, "enqueue", "failed")
          /\ queued' \in {queued, queued \cup {envelope[r]}}
    /\ UNCHANGED <<row, payload, envelope, retained, deviceVars, historyVars>>

\* PublishConfig: the envelope becomes the retained message of the device's
\* topic.  The publisher may be unconnected, time out or be refused; Save only
\* logs that.
Publish(r) ==
    /\ Advance(r, "publish", "done")
    /\ \/ retained' = envelope[r]
       \/ Faults /\ UNCHANGED retained
    /\ UNCHANGED <<row, payload, envelope, queued, deviceVars, historyVars>>

\* A database statement fails and the request with it.
Fail(r) ==
    /\ Faults
    /\ phase[r] \in {"update", "insert", "retry", "read"}
    /\ phase' = [phase EXCEPT ![r] = "failed"]
    /\ UNCHANGED <<row, payload, envelope, sentVars, deviceVars, historyVars>>

-----------------------------------------------------------------------------
(* The device, and its deletion.                                           *)

Acknowledged(e) ==
    [version |-> row.version, payload |-> row.payload, status |-> "acked", reported |-> e.version]

\* handleConfigReport, and the same over HTTP: the device reports an envelope it
\* got on its own topic (so its version is not 0); whatever that version, the
\* row is acknowledged.
Report(e) ==
    /\ e \in queued \/ (e = retained /\ e # NoEnvelope)
    /\ row # NoRow
    /\ row' = Acknowledged(e)
    /\ UNCHANGED <<handlerVars, sentVars, deviceVars, historyVars>>

DropRow == row' = NoRow /\ writes' = {}

\* deleteCascades: the configuration goes first (a failure is only logged) ...
DeleteConfig ==
    /\ registered /\ ~deleting
    /\ deletes < MaxDeletes
    /\ \/ DropRow
       \/ Faults /\ UNCHANGED <<row, writes>>
    /\ deleting' = TRUE
    /\ deletes' = deletes + 1
    /\ UNCHANGED <<handlerVars, sentVars, registered, wrote, sets>>

\* ... then the device, whose foreign key takes a configuration written since;
\* if that fails, the device stays, without its configuration.
DeleteDevice ==
    /\ deleting
    /\ \/ registered' = FALSE /\ DropRow
       \/ Faults /\ UNCHANGED <<registered, row, writes>>
    /\ deleting' = FALSE
    /\ UNCHANGED <<handlerVars, sentVars, deletes, wrote, sets>>

\* The device is registered again.
Reregister ==
    /\ ~registered
    /\ registered' = TRUE
    /\ UNCHANGED <<row, handlerVars, sentVars, deleting, deletes, historyVars>>

-----------------------------------------------------------------------------
Handle(r) ==
    \/ Update(r) \/ Insert(r) \/ Retry(r) \/ ReadBack(r) \/ Enqueue(r) \/ Publish(r)

Next ==
    \/ \E r \in Requests : Save(r) \/ Handle(r) \/ Fail(r)
    \/ \E r \in Requests, k \in Parts : Apply(r, k)
    \/ \E e \in queued \cup {retained} : Report(e)
    \/ DeleteConfig \/ DeleteDevice \/ Reregister

Spec == Init /\ [][Next]_vars

-----------------------------------------------------------------------------
(* Properties.                                                             *)

\* The version counts the writes of the row that is there, and no two writes get
\* the same version: not even two first writes at once, nor one that meets a
\* deletion half-way.
VersionsCountWrites ==
    row # NoRow =>
        /\ row.version = Cardinality(writes)
        /\ \A v \in 1 .. row.version : \E r \in writes : wrote[r] = v

\* What a request sends is at least as new as what it wrote, as long as its write
\* is part of the row.
EnvelopeNotBehind ==
    \A r \in writes : phase[r] \in {"enqueue", "publish", "done"} => envelope[r].version >= wrote[r]

\* The newest version reaches the queue with the configuration that is stored:
\* once the request that wrote it has got past EnqueueCmd, the device can get
\* exactly what the database holds.
LatestIsQueued ==
    \A r \in writes :
        /\ wrote[r] = row.version
        /\ phase[r] \in {"publish", "done"}
        => [version |-> row.version, config |-> row.payload] \in queued

\* The device never reports a version the platform has not reached (unless the
\* device was deleted and started again at version 1).
ReportedNotAhead == deletes = 0 /\ row # NoRow => row.reported <= row.version

-----------------------------------------------------------------------------
(* The inductive invariant behind the safety properties above.             *)

\* Version 0 is no row; a request that still has to write has not written the row.
WritersPlaced ==
    /\ row.version = 0 => row = NoRow
    /\ IsFiniteSet(writes)
    /\ writes # {} => row # NoRow
    /\ \A r \in writes : phase[r] \notin {"new", "update", "insert", "retry"}

\* The row holds what its last writer wrote.
LastWriterWins ==
    \A r \in writes : wrote[r] = row.version => row.payload = payload[r]

\* What a request of the present row sends was read after its own write, with its
\* own configuration.
EnvelopeIsOwn ==
    \A r \in writes :
        /\ phase[r] \in {"enqueue", "publish", "done"} =>
              /\ envelope[r].config = payload[r]
              /\ envelope[r].version \in wrote[r] .. row.version
        /\ phase[r] \in {"publish", "done"} => envelope[r] \in queued

\* Each write of the row that is there got a version of its own.
WritesNumbered ==
    /\ \A r \in writes : wrote[r] \in 1 .. row.version
    /\ \A r, t \in writes : wrote[r] = wrote[t] => r = t

\* Until a device is deleted no envelope is newer than the row.
NoneAhead ==
    deletes = 0 =>
        /\ \A r \in Requests : envelope[r].version <= row.version
        /\ \A e \in queued : e.version <= row.version
        /\ retained.version <= row.version
        /\ registered /\ ~deleting

IInv ==
    /\ TypeOK
    /\ WritersPlaced
    /\ VersionsCountWrites
    /\ WritesNumbered
    /\ LastWriterWins
    /\ EnvelopeIsOwn
    /\ NoneAhead
    /\ ReportedNotAhead

-----------------------------------------------------------------------------
(* What the comments and documents say and the code does not keep.         *)

\* device_config_service.go 77, and API.md 1507 (a device drops a version it has
\* already seen): a version names one configuration.
OneConfigPerVersion ==
    \A e, f \in queued : e.version = f.version => e.config = f.config

\* device_config_service.go 101: the retained message is the newest version; at
\* least when every request has ended well.
RetainedIsLatest ==
    row # NoRow /\ (\A r \in Requests : phase[r] \in {"new", "done"}) =>
        retained.version = row.version

\* device_config_repo.go 45: concurrent writes do not undo each other; a part that
\* only one of the requests was asked to set keeps what that request set.
PartsSurvive ==
    \A r \in writes : \A k \in sets[r] :
        (\A t \in writes \ {r} : k \notin sets[t]) => row.payload[k] = r

\* API.md 293: acked says that the device confirmed the configuration.
AckedIsConfirmed == row # NoRow /\ row.status = "acked" => row.reported = row.version

=============================================================================
