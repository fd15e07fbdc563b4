------------------------------ MODULE ThingModel ------------------------------
(***************************************************************************)
(* The definitions of a device's sensors and actuators (its thing model):  *)
(* device_sensor_service.go, device_actuator_service.go, and the requests  *)
(* and checks of model/sensor_model.go and actuator_model.go.  What the    *)
(* report path and the detail view do with them is module SensorReports.   *)
(*                                                                         *)
(* A definition is a row with columns name and enabled and one JSON column *)
(* for the rest, its body.  Update reads the row, puts the fields of the   *)
(* request into the body and writes the whole body back; name and enabled  *)
(* are written only if sent.  Apply lists the rows, reads the device's     *)
(* configuration, replaces one part of it and saves it (the saving itself  *)
(* is module DeviceConfig, the cache of the list module DeviceCache).      *)
(*                                                                         *)
(* A request body is a function from the keys present to JSON values.      *)
(* Field type goes the way of unit and is left out, so are the lengths of  *)
(* texts and the syntax of identifiers.                                    *)
(***************************************************************************)
EXTENDS Integers, FiniteSets

CONSTANTS Things,     \* identifiers of definitions
          Handlers,   \* goroutines serving Update and Apply, used over and over
          MaxCalls,   \* how many requests there are (bound)
          Creates,    \* Creates[k] : bodies of creation requests of kind k
          Patches,    \* Patches[k] : bodies of update requests of kind k
          Texts,      \* texts: names, units, data types, drivers
          Params,     \* specs of an actuator, an object of any shape
          Numbers,    \* values of min, max, step and the thresholds
          Words,      \* the texts an enum may list
          Null,       \* JSON null
          Malformed,  \* a JSON value of the wrong type
          Braces,     \* the JSON object {}, and specs that are there but empty
          None,       \* a field that is not set (nil)
          NoRow,      \* no such definition
          NoList      \* nothing applied yet

Kinds == {"sensor", "actuator"}
Columns == {"name", "enabled"}
BodyFields(k) ==
    IF k = "sensor" THEN {"dataType", "unit", "specs", "interval"} ELSE {"driver", "specs"}
Fields(k) == Columns \cup BodyFields(k)

DataTypes == {"float", "int", "bool", "text", "enum"}
ActuatorDrivers == {"led", "servo", "speaker"}

\* SensorSpecs: what is nil is None; values is empty if not given, and thMin
\* and thMax are the two thresholds.
Specs == [min : Numbers \cup {None}, max : Numbers \cup {None}, step : Numbers \cup {None},
          maxLen : Numbers \cup {None}, thMin : Numbers \cup {None}, thMax : Numbers \cup {None},
          values : SUBSET Words]

\* What a request may send for a field, if the JSON has the right type, and
\* what may be stored for it.
JsonValues(k, f) ==
    CASE f = "enabled"  -> BOOLEAN
      [] f = "specs"    -> {Braces} \cup (IF k = "sensor" THEN Specs ELSE Params)
      [] f = "interval" -> Numbers
      [] OTHER          -> Texts \cup {""} \cup DataTypes \cup ActuatorDrivers
StoredValues(k, f) == JsonValues(k, f) \cup (IF f \in {"specs", "interval"} THEN {None} ELSE {})

IsBody(k, body) ==
    /\ DOMAIN body = BodyFields(k)
    /\ \A f \in BodyFields(k) : body[f] \in StoredValues(k, f)

ASSUME ThingAssumptions ==
    /\ Numbers \subseteq Int /\ Numbers # {} /\ None \notin Numbers
    /\ MaxCalls \in Nat
    /\ \A k \in Kinds : \A json \in Creates[k] \cup Patches[k] :
          /\ DOMAIN json \subseteq Fields(k)
          /\ \A f \in DOMAIN json : json[f] \in {Null, Malformed} \cup JsonValues(k, f)

VARIABLES
    rows,     \* rows[k][t] : the row of definition t of kind k, or NoRow
    nextId,   \* the id the next row gets
    config,   \* config[k] : the part of the stored configuration for kind k
    phase,    \* phase[h] : where handler h is
    target,   \* target[h] : the kind and the definition h is about
    req,      \* req[h] : the request body, as it was sent
    got,      \* got[h] : the row Update has read
    listed,   \* listed[h] : the list Apply has compiled
    read,     \* read[h] : the configuration Apply has read
    calls,    \* number of requests so far
    edits,    \* ghost: edits[k] counts the changes of kind k
    sent,     \* ghost: sent[k][t][f] is the value last sent for f and stored
    clash     \* ghost: clash[k][t] : an update wrote over what it had not read

rowVars == <<rows, nextId, edits, sent, clash>>
handlerVars == <<phase, target, req, got, listed, read>>
vars == <<rowVars, config, handlerVars, calls>>

-----------------------------------------------------------------------------
(* Requests: decoding and validation.                                      *)

\* The keys of a decoded request that are not nil.  All fields of the request
\* types are pointers (specs and reportInterval: *json.RawMessage), and
\* encoding/json sets a pointer to nil for a JSON null, so null is "not sent".
Decode(json) == [f \in {g \in DOMAIN json : json[g] # Null} |-> json[f]]

\* (Mutant of InRange: the two thresholds are not compared.)
InRangeLoosely(s) ==
    LET Above(a, b) == a # None /\ b # None /\ a > b
    IN  /\ ~Above(s.min, s.max)
        /\ ~Above(s.min, s.thMin)
        /\ ~Above(s.thMax, s.max)
        /\ ~Above(s.thMin, s.max)
        /\ ~Above(s.min, s.thMax)

\* SensorSpecs.Validate, the comparisons in the order of the code.
InRange(s) ==
    LET Above(a, b) == a # None /\ b # None /\ a > b
    IN  /\ ~Above(s.min, s.max)
        /\ ~Above(s.min, s.thMin)
        /\ ~Above(s.thMax, s.max)
        /\ ~Above(s.thMin, s.thMax)
        /\ ~Above(s.thMin, s.max)
        /\ ~Above(s.min, s.thMax)

Positive(n) == n # None => n > 0

\* Validate of the specs of a sensor: nil and {} pass.
SpecsValid(v) ==
    v \in {None, Braces} \/ (v \in Specs /\ InRange(v) /\ Positive(v.step) /\ Positive(v.maxLen))

\* What Validate asks of the fields that are there, for a creation and an
\* update alike.  An actuator's specs may be any object.
FieldValid(k, f, v) ==
    /\ v # Malformed
    /\ f = "dataType" => v \in DataTypes \cup {""}
    /\ f = "interval" => v > 0
    /\ f = "specs" /\ k = "sensor" => SpecsValid(v)
    /\ f = "driver" => v \in ActuatorDrivers

AllValid(k, d) == \A f \in DOMAIN d : FieldValid(k, f, d[f])

\* SensorUpdateRequest.Validate, ActuatorUpdateRequest.Validate: at least one
\* field, and every field valid.
PatchAccepted(k, json) == DOMAIN Decode(json) # {} /\ AllValid(k, Decode(json))

\* The same for a creation, with the fields that binding requires.
CreateAccepted(k, json) ==
    LET d == Decode(json)
    IN  /\ IF k = "sensor" THEN "name" \in DOMAIN d /\ d["name"] # "" ELSE "driver" \in DOMAIN d
        /\ AllValid(k, d)

\* The value of field f of a new definition.
Initial(k, d, f) ==
    LET given == f \in DOMAIN d
    IN  CASE f = "enabled"  -> IF given THEN d[f] ELSE TRUE
          [] f = "dataType" -> IF given /\ d[f] # "" THEN d[f] ELSE "float"
          [] f = "specs"    -> IF given /\ (k = "sensor" \/ d[f] # Braces) THEN d[f] ELSE None
          [] f = "interval" -> IF given THEN d[f] ELSE None
          [] OTHER          -> IF given THEN d[f] ELSE ""

\* The value an update stores for field f: {} clears the specs.
Stored(f, v) == IF f = "specs" /\ v = Braces THEN None ELSE v

\* (Mutant of Merge: fields not sent are reset.)
MergeResets(k, body, d) ==
    [f \in BodyFields(k) |-> IF f \in DOMAIN d THEN Stored(f, d[f]) ELSE None]

\* The body with the fields of the request in it.
Merge(k, body, d) ==
    [f \in BodyFields(k) |-> IF f \in DOMAIN d THEN Stored(f, d[f]) ELSE body[f]]

-----------------------------------------------------------------------------
Row(k, id, d) ==
    [id |-> id, name |-> Initial(k, d, "name"), enabled |-> Initial(k, d, "enabled"),
     body |-> [f \in BodyFields(k) |-> Initial(k, d, f)]]

\* The definitions of a kind.
Defined(k) == {t \in Things : rows[k][t] # NoRow}

\* (Mutant of WireList: definitions that are switched off are left out.)
WireListEnabled(k) ==
    [t \in {u \in Defined(k) : rows[k][u].enabled} |->
        [enabled |-> rows[k][t].enabled, body |-> rows[k][t].body]]

\* The rows of a kind as Apply compiles them: without the name.
WireList(k) ==
    [t \in Defined(k) |-> [enabled |-> rows[k][t].enabled, body |-> rows[k][t].body]]

Init ==
    /\ rows = [k \in Kinds |-> [t \in Things |-> NoRow]]
    /\ nextId = 1
    /\ config = [k \in Kinds |-> NoList]
    /\ phase = [h \in Handlers |-> "idle"]
    /\ target = [h \in Handlers |-> None]
    /\ req = [h \in Handlers |-> None]
    /\ got = [h \in Handlers |-> NoRow]
    /\ listed = [h \in Handlers |-> NoList]
    /\ read = [h \in Handlers |-> NoList]
    /\ calls = 0
    /\ edits = [k \in Kinds |-> 0]
    /\ sent = [k \in Kinds |-> [t \in Things |-> None]]
    /\ clash = [k \in Kinds |-> [t \in Things |-> FALSE]]

\* A request comes in.
Call == calls < MaxCalls /\ calls' = calls + 1

\* Create: one INSERT, refused when (device, kind, id) is there already.
Create(k, t, json) ==
    LET row == Row(k, nextId, Decode(json))
    IN  /\ Call
        /\ CreateAccepted(k, json)
        /\ rows[k][t] = NoRow
        /\ rows' = [rows EXCEPT ![k][t] = row]
        /\ nextId' = nextId + 1
        /\ edits' = [edits EXCEPT ![k] = @ + 1]
        /\ sent' = [sent EXCEPT ![k][t] = [f \in Fields(k) |-> Initial(k, Decode(json), f)]]
        /\ clash' = [clash EXCEPT ![k][t] = FALSE]
        /\ UNCHANGED <<config, handlerVars>>

\* Delete: one DELETE; not found when there is none.
Delete(k, t) ==
    /\ Call
    /\ rows[k][t] # NoRow
    /\ rows' = [rows EXCEPT ![k][t] = NoRow]
    /\ edits' = [edits EXCEPT ![k] = @ + 1]
    /\ sent' = [sent EXCEPT ![k][t] = None]
    /\ UNCHANGED <<nextId, clash, config, handlerVars>>

\* Update: the request is checked and the row is read.
ReadRow(h, k, t, json) ==
    /\ Call
    /\ phase[h] = "idle"
    /\ PatchAccepted(k, json)
    /\ rows[k][t] # NoRow
    /\ phase' = [phase EXCEPT ![h] = "merge"]
    /\ target' = [target EXCEPT ![h] = [kind |-> k, thing |-> t]]
    /\ req' = [req EXCEPT ![h] = json]
    /\ got' = [got EXCEPT ![h] = rows[k][t]]
    /\ UNCHANGED <<rowVars, config, listed, read>>

\* A handler that is through forgets everything.
Done(h) ==
    /\ phase' = [phase EXCEPT ![h] = "idle"]
    /\ target' = [target EXCEPT ![h] = None]
    /\ req' = [req EXCEPT ![h] = None]
    /\ got' = [got EXCEPT ![h] = NoRow]
    /\ listed' = [listed EXCEPT ![h] = NoList]
    /\ read' = [read EXCEPT ![h] = NoList]

\* (Mutant of Written: the columns are taken from the row that was read.)
WrittenWhole(k, d, old, row) ==
    [id      |-> row.id,
     name    |-> IF "name" \in DOMAIN d THEN d["name"] ELSE old.name,
     enabled |-> IF "enabled" \in DOMAIN d THEN d["enabled"] ELSE old.enabled,
     body    |-> Merge(k, old.body, d)]

\* What the UPDATE makes of a row, when old is the row that was read: a column
\* only if it was sent, the body in any case.
Written(k, d, old, row) ==
    [id      |-> row.id,
     name    |-> IF "name" \in DOMAIN d THEN d["name"] ELSE row.name,
     enabled |-> IF "enabled" \in DOMAIN d THEN d["enabled"] ELSE row.enabled,
     body    |-> Merge(k, old.body, d)]

\* The values last sent, once d is stored.
Latest(k, d, before) ==
    [f \in Fields(k) |-> IF f \in DOMAIN d THEN Stored(f, d[f]) ELSE before[f]]

\* The row has been deleted and created again, or its body written, since it was
\* read.
Stale(old, row) == old.id # row.id \/ old.body # row.body

\* ... and the row is written, if it still exists.
WriteRow(h) ==
    LET k == target[h].kind
        t == target[h].thing
        d == Decode(req[h])
        row == rows[k][t]
    IN  /\ phase[h] = "merge"
        /\ Done(h)
        /\ IF row = NoRow
           THEN UNCHANGED rowVars
           ELSE /\ rows' = [rows EXCEPT ![k][t] = Written(k, d, got[h], row)]
                /\ edits' = [edits EXCEPT ![k] = @ + 1]
                /\ sent' = [sent EXCEPT ![k][t] = Latest(k, d, sent[k][t])]
                /\ clash' = [clash EXCEPT ![k][t] = @ \/ Stale(got[h], row)]
                /\ UNCHANGED nextId
        /\ UNCHANGED <<config, calls>>

\* Apply: the rows are listed and compiled ...
List(h, k) ==
    /\ Call
    /\ phase[h] = "idle"
    /\ phase' = [phase EXCEPT ![h] = "list"]
    /\ target' = [target EXCEPT ![h] = [kind |-> k, thing |-> None]]
    /\ listed' = [listed EXCEPT ![h] = [edits |-> edits[k], wires |-> WireList(k)]]
    /\ UNCHANGED <<rowVars, config, req, got, read>>

\* ... the configuration is read ...
ReadConfig(h) ==
    /\ phase[h] = "list"
    /\ phase' = [phase EXCEPT ![h] = "save"]
    /\ read' = [read EXCEPT ![h] = config]
    /\ UNCHANGED <<rowVars, config, target, req, got, listed, calls>>

\* payload[key] = items: the other parts stay.
WithPart(cfg, k, list) == [cfg EXCEPT ![k] = list]

\* ... and saved with the new list in it.
SaveConfig(h) ==
    /\ phase[h] = "save"
    /\ config' = WithPart(read[h], target[h].kind, listed[h])
    /\ Done(h)
    /\ UNCHANGED <<rowVars, calls>>

\* A call to the database fails: the request ends with an error.
Fail(h) ==
    /\ phase[h] # "idle"
    /\ Done(h)
    /\ UNCHANGED <<rowVars, config, calls>>

Next ==
    \/ \E k \in Kinds, t \in Things :
          \/ \E json \in Creates[k] : Create(k, t, json)
          \/ Delete(k, t)
          \/ \E h \in Handlers, json \in Patches[k] : ReadRow(h, k, t, json)
    \/ \E h \in Handlers, k \in Kinds : List(h, k)
    \/ \E h \in Handlers : WriteRow(h) \/ ReadConfig(h) \/ SaveConfig(h) \/ Fail(h)

Spec == Init /\ [][Next]_vars
-----------------------------------------------------------------------------
(* Properties.                                                             *)

IsRow(k, row) ==
    /\ DOMAIN row = {"id", "name", "enabled", "body"}
    /\ row.id \in Nat /\ row.name \in JsonValues(k, "name") /\ row.enabled \in BOOLEAN
    /\ IsBody(k, row.body)

IsPart(k, part) ==
    /\ DOMAIN part = {"edits", "wires"}
    /\ part.edits \in Nat
    /\ DOMAIN part.wires \subseteq Things
    /\ \A t \in DOMAIN part.wires :
          part.wires[t].enabled \in BOOLEAN /\ IsBody(k, part.wires[t].body)

TypeOK ==
    /\ \A k \in Kinds :
          /\ \A t \in Defined(k) : IsRow(k, rows[k][t]) /\ DOMAIN sent[k][t] = Fields(k)
          /\ config[k] # NoList => IsPart(k, config[k])
          /\ edits[k] \in Nat
          /\ clash[k] \in [Things -> BOOLEAN]
    /\ nextId \in Nat
    /\ phase \in [Handlers -> {"idle", "merge", "list", "save"}]
    /\ calls \in 0 .. MaxCalls

\* The range and the thresholds can be completed to min <= thMin <= thMax <=
\* max: no alarm is outside the range and no interval is empty.
Completable(s) ==
    \E a, b, c, d \in Numbers :
        /\ a <= b /\ b <= c /\ c <= d
        /\ s.min \in {None, a} /\ s.thMin \in {None, b}
        /\ s.thMax \in {None, c} /\ s.max \in {None, d}

\* A body the device can be sent.
Sound(k, body) ==
    IF k = "sensor"
    THEN /\ Positive(body["interval"])
         /\ body["specs"] \notin {None, Braces} =>
               /\ Completable(body["specs"])
               /\ Positive(body["specs"].step) /\ Positive(body["specs"].maxLen)
    ELSE body["driver"] \in ActuatorDrivers

\* Whatever requests are made, in any order and at the same time: every stored
\* definition, and every one compiled into the configuration, is sound.  An
\* update checks only what it was sent, and writes what others sent as well.
StoredIsSound ==
    \A k \in Kinds :
        /\ \A t \in Defined(k) : Sound(k, rows[k][t].body)
        /\ config[k] # NoList =>
              \A t \in DOMAIN config[k].wires : Sound(k, config[k].wires[t].body)

\* The value last sent for a field is the one stored.  Of a column always; of a
\* field of the body unless an update wrote over a body it had not read.
LastSentIsKept ==
    \A k \in Kinds : \A t \in Defined(k) :
        /\ rows[k][t].name = sent[k][t]["name"]
        /\ rows[k][t].enabled = sent[k][t]["enabled"]
        /\ ~clash[k][t] => \A f \in BodyFields(k) : rows[k][t].body[f] = sent[k][t][f]

\* A configuration applied after the last change of a kind has exactly the
\* definitions of that kind, those that are switched off included, whichever
\* Apply of the other kind saved it since.
ApplyIsComplete ==
    \A k \in Kinds :
        config[k] # NoList /\ config[k].edits = edits[k] =>
            /\ DOMAIN config[k].wires = Defined(k)
            /\ \A t \in Defined(k) : /\ config[k].wires[t].body = rows[k][t].body
                                     /\ config[k].wires[t].enabled = rows[k][t].enabled

-----------------------------------------------------------------------------
(* Why they hold: what the handlers are holding.                           *)

\* A compiled part is sound, and up to date if nothing has changed since.
PartHolds(k, part) ==
    /\ IsPart(k, part)
    /\ \A t \in DOMAIN part.wires : Sound(k, part.wires[t].body)
    /\ part.edits <= edits[k]
    /\ part.edits = edits[k] =>
          /\ DOMAIN part.wires = Defined(k)
          /\ \A t \in Defined(k) : /\ part.wires[t].body = rows[k][t].body
                                   /\ part.wires[t].enabled = rows[k][t].enabled

ConfigHolds == \A k \in Kinds : config[k] # NoList => PartHolds(k, config[k])

\* Between its read and its write, Update holds an accepted request and a sound
\* row; Apply holds parts, some of which may be out of date.
Merging(h) ==
    LET k == target[h].kind
    IN  /\ k \in Kinds /\ target[h].thing \in Things
        /\ req[h] \in Patches[k] /\ PatchAccepted(k, req[h])
        /\ IsRow(k, got[h]) /\ Sound(k, got[h].body)

HandlerHolds(h) ==
    /\ phase[h] = "merge" => Merging(h)
    /\ phase[h] \in {"list", "save"} =>
          target[h].kind \in Kinds /\ PartHolds(target[h].kind, listed[h])
    /\ phase[h] = "save" =>
          /\ DOMAIN read[h] = Kinds
          /\ \A k \in Kinds : read[h][k] # NoList => PartHolds(k, read[h][k])

Shapes ==
    /\ DOMAIN rows = Kinds /\ DOMAIN config = Kinds /\ DOMAIN edits = Kinds
    /\ DOMAIN sent = Kinds /\ DOMAIN clash = Kinds
    /\ \A k \in Kinds : DOMAIN rows[k] = Things /\ DOMAIN sent[k] = Things
    /\ DOMAIN target = Handlers /\ DOMAIN req = Handlers /\ DOMAIN got = Handlers
    /\ DOMAIN listed = Handlers /\ DOMAIN read = Handlers

IInv == /\ TypeOK /\ Shapes /\ StoredIsSound /\ LastSentIsKept /\ ConfigHolds
        /\ \A h \in Handlers : HandlerHolds(h)

-----------------------------------------------------------------------------
(* What the comments and tests of the source say and the code does not keep. *)

\* sensor_model.go 299: reportInterval null makes the definition inherit the
\* global period again.
NullRestoresInheritance ==
    [][\A h \in Handlers :
          /\ phase[h] = "merge"
          /\ rows' # rows
          /\ target'[h] = None
          /\ "interval" \in DOMAIN req[h] /\ req[h]["interval"] = Null
          => rows'["sensor"][target[h].thing].body["interval"] = None]_vars

\* A field that is not in the request keeps its value ...
UnsentFieldsStay ==
    \A h \in Handlers, f \in UNION {BodyFields(k) : k \in Kinds} :
       LET k == target[h].kind
           t == target[h].thing
       IN  /\ phase[h] = "merge" /\ phase'[h] = "idle"
           /\ t \in Defined(k)
           /\ f \in BodyFields(k) \ DOMAIN Decode(req[h])
           => rows'[k][t].body[f] = rows[k][t].body[f]

\* ... in every step (sensor_model.go 298).
UnsentFieldsKept == [][UnsentFieldsStay]_vars

\* sensor_model.go 354: an empty data type falls back to float.
DataTypeIsKnown ==
    \A t \in Defined("sensor") : rows["sensor"][t].body["dataType"] \in DataTypes

\* sensor_model.go 322: empty specs are left out of what is sent down.
EmptySpecsLeftOut ==
    config["sensor"] # NoList =>
        \A t \in DOMAIN config["sensor"].wires : config["sensor"].wires[t].body["specs"] # Braces

=============================================================================
