--------------------------- MODULE ThingModelProofs ---------------------------
(***************************************************************************)
(* What is true of the stored definitions for any number of requests and   *)
(* handlers and any request bodies; what a lock on the row would add; and  *)
(* what the definitions and the reported values owe each other.            *)
(***************************************************************************)
EXTENDS ThingModel, SensorReports, TLAPS

-----------------------------------------------------------------------------
(* The comparisons of Validate are enough.                                 *)

\* Specs that pass Validate leave no interval empty.
LEMMA InRangeIsEnough ==
    ASSUME NEW s \in Specs, InRange(s)
    PROVE  Completable(s)
<1>1. PICK n \in Numbers : TRUE
  BY ThingAssumptions
<1>2. PICK min \in Numbers \cup {None} : min = s.min
  BY DEF Specs
<1>3. PICK max \in Numbers \cup {None} : max = s.max
  BY DEF Specs
<1>4. PICK thMin \in Numbers \cup {None} : thMin = s.thMin
  BY DEF Specs
<1>5. PICK thMax \in Numbers \cup {None} : thMax = s.thMax
  BY DEF Specs
<1>6. \A p, q \in Numbers : p \in Int /\ (~(p > q) => p <= q)
  BY ThingAssumptions
<1>7. /\ min # None /\ max # None => min <= max
      /\ min # None /\ thMin # None => min <= thMin
      /\ thMax # None /\ max # None => thMax <= max
      /\ thMin # None /\ thMax # None => thMin <= thMax
      /\ thMin # None /\ max # None => thMin <= max
      /\ min # None /\ thMax # None => min <= thMax
  BY <1>2, <1>3, <1>4, <1>5, <1>6 DEF InRange
\* The least of those that are there comes first, the others follow it.
<1> DEFINE a == IF min # None THEN min ELSE IF thMin # None THEN thMin
                ELSE IF thMax # None THEN thMax ELSE IF max # None THEN max ELSE n
           b == IF thMin # None THEN thMin ELSE a
           c == IF thMax # None THEN thMax ELSE b
           d == IF max # None THEN max ELSE c
<1>8. a \in Numbers /\ b \in Numbers /\ c \in Numbers /\ d \in Numbers
  OBVIOUS
<1>9. min \in {None, a} /\ thMin \in {None, b} /\ thMax \in {None, c} /\ max \in {None, d}
  OBVIOUS
<1>10. a <= b /\ b <= c /\ c <= d
  <2>1. a <= b
    BY <1>6, <1>7
  <2>2. b <= c
    BY <1>6, <1>7
  <2>3. c <= d
    BY <1>6, <1>7
  <2> QED
    BY <2>1, <2>2, <2>3
<1> HIDE DEF a, b, c, d
<1> QED
  BY <1>2, <1>3, <1>4, <1>5, <1>8, <1>9, <1>10 DEF Completable

\* The decoded fields of an accepted request have the types of the rows.
LEMMA DecodedIsTyped ==
    ASSUME NEW k \in Kinds, NEW json \in Creates[k] \cup Patches[k],
           AllValid(k, Decode(json)), NEW f \in DOMAIN Decode(json)
    PROVE  /\ f \in Fields(k)
           /\ Decode(json)[f] \in JsonValues(k, f)
           /\ FieldValid(k, f, Decode(json)[f])
<1>1. f \in DOMAIN json /\ json[f] # Null /\ Decode(json)[f] = json[f]
  BY DEF Decode
<1>2. FieldValid(k, f, Decode(json)[f])
  BY DEF AllValid
<1>3. json[f] # Malformed
  BY <1>1, <1>2 DEF FieldValid
<1> QED
  BY <1>1, <1>2, <1>3, ThingAssumptions

\* What a valid value is good for, once it is stored.
ValueSound(k, f, v) ==
    /\ v \in StoredValues(k, f)
    /\ f = "interval" => Positive(v)
    /\ f = "specs" /\ k = "sensor" /\ v \notin {None, Braces} =>
          Completable(v) /\ Positive(v.step) /\ Positive(v.maxLen)
    /\ f = "driver" => v \in ActuatorDrivers

\* A body is sound if its fields are.
LEMMA BodyByFields ==
    ASSUME NEW k \in Kinds, NEW body
    PROVE  IsBody(k, body) /\ Sound(k, body) <=>
              /\ DOMAIN body = BodyFields(k)
              /\ \A f \in BodyFields(k) : ValueSound(k, f, body[f])
<1>1. CASE k = "sensor"
  BY <1>1 DEF IsBody, Sound, ValueSound, BodyFields
<1>2. CASE k = "actuator"
  BY <1>2 DEF IsBody, Sound, ValueSound, BodyFields
<1> QED
  BY <1>1, <1>2 DEF Kinds

\* A value that was sent, typed and valid, is sound when stored.
LEMMA ValidIsSound ==
    ASSUME NEW k \in Kinds, NEW f \in BodyFields(k), NEW v \in JsonValues(k, f),
           FieldValid(k, f, v)
    PROVE  ValueSound(k, f, v) /\ ValueSound(k, f, Stored(f, v))
<1>1. v \in StoredValues(k, f) /\ Stored(f, v) \in StoredValues(k, f)
  BY DEF StoredValues, Stored
<1>2. f = "interval" => Positive(v) /\ Stored(f, v) = v
  BY DEF FieldValid, Positive, Stored
<1>3. f = "driver" => v \in ActuatorDrivers /\ Stored(f, v) = v
  BY DEF FieldValid, Stored
<1>4. ASSUME f = "specs", k = "sensor", v \notin {None, Braces}
      PROVE  Stored(f, v) = v /\ Completable(v) /\ Positive(v.step) /\ Positive(v.maxLen)
  <2>1. v \in Specs /\ InRange(v) /\ Positive(v.step) /\ Positive(v.maxLen)
    BY <1>4 DEF FieldValid, SpecsValid
  <2> QED
    BY <1>4, <2>1, InRangeIsEnough DEF Stored
<1>5. f = "specs" /\ v \in {None, Braces} => Stored(f, v) \in {None, Braces}
  BY DEF Stored
<1> QED
  BY <1>1, <1>2, <1>3, <1>4, <1>5 DEF ValueSound

\* An accepted update leaves a sound body sound, though it checks only what it
\* was sent.
LEMMA MergeIsSound ==
    ASSUME NEW k \in Kinds, NEW json \in Patches[k], PatchAccepted(k, json),
           NEW body, IsBody(k, body), Sound(k, body)
    PROVE  LET new == Merge(k, body, Decode(json)) IN IsBody(k, new) /\ Sound(k, new)
<1> DEFINE d == Decode(json)
           new == Merge(k, body, d)
<1>1. AllValid(k, d) /\ json \in Creates[k] \cup Patches[k]
  BY DEF PatchAccepted
<1>2. DOMAIN new = BodyFields(k)
  BY DEF Merge
<1>3. ASSUME NEW f \in BodyFields(k)
      PROVE  ValueSound(k, f, new[f])
  <2>1. CASE f \in DOMAIN d
    <3>1. d[f] \in JsonValues(k, f) /\ FieldValid(k, f, d[f])
      BY <1>1, <2>1, DecodedIsTyped
    <3>2. new[f] = Stored(f, d[f])
      BY <2>1 DEF Merge
    <3> QED
      BY <3>1, <3>2, ValidIsSound
  <2>2. CASE f \notin DOMAIN d
    <3>1. new[f] = body[f]
      BY <2>2 DEF Merge
    <3> QED
      BY <3>1, BodyByFields
  <2> QED
    BY <2>1, <2>2
<1> QED
  BY <1>2, <1>3, BodyByFields

\* The body of a new definition is sound, with the defaults of Create.
LEMMA CreatedIsSound ==
    ASSUME NEW k \in Kinds, NEW json \in Creates[k], CreateAccepted(k, json), NEW id \in Nat
    PROVE  LET row == Row(k, id, Decode(json)) IN IsRow(k, row) /\ Sound(k, row.body)
<1> DEFINE d == Decode(json)
           row == Row(k, id, d)
<1>1. /\ AllValid(k, d) /\ json \in Creates[k] \cup Patches[k]
      /\ k = "actuator" => "driver" \in DOMAIN d
  BY DEF CreateAccepted, Kinds
<1>2. ASSUME NEW f \in DOMAIN d
      PROVE  f \in Fields(k) /\ d[f] \in JsonValues(k, f) /\ FieldValid(k, f, d[f])
  BY <1>1, DecodedIsTyped
<1>3. Initial(k, d, "name") \in JsonValues(k, "name") /\ Initial(k, d, "enabled") \in BOOLEAN
  BY <1>2 DEF Initial, JsonValues
<1>4. DOMAIN row.body = BodyFields(k)
  BY DEF Row
<1>5. ASSUME NEW f \in BodyFields(k)
      PROVE  ValueSound(k, f, row.body[f])
  <2>1. row.body[f] = Initial(k, d, f) /\ f \notin {"enabled", "name"}
    BY DEF Row, BodyFields
  <2>2. CASE f \in DOMAIN d /\ row.body[f] = d[f]
    BY <1>2, <2>2, ValidIsSound
  <2>3. CASE f \in DOMAIN d /\ row.body[f] # d[f]
    BY <2>1, <2>3 DEF Initial, ValueSound, StoredValues, JsonValues, DataTypes, BodyFields
  <2>4. CASE f \notin DOMAIN d
    BY <1>1, <2>1, <2>4
       DEF Initial, ValueSound, StoredValues, JsonValues, DataTypes, BodyFields, Positive, Kinds
  <2> QED
    BY <2>2, <2>3, <2>4
<1>6. IsBody(k, row.body) /\ Sound(k, row.body)
  BY <1>4, <1>5, BodyByFields
<1> QED
  BY <1>3, <1>6 DEF Row, IsRow

-----------------------------------------------------------------------------
(* The inductive invariant.                                                *)

LEMMA InitIInv == Init => IInv
BY ThingAssumptions
   DEF Init, IInv, TypeOK, Shapes, StoredIsSound, LastSentIsKept, ConfigHolds, HandlerHolds, Defined

\* A compiled part stays what it is when a definition of some kind changes.
LEMMA PartStays ==
    ASSUME TypeOK, NEW k \in Kinds, NEW part, PartHolds(k, part),
           edits[k]' = edits[k] + 1 \/ (edits[k]' = edits[k] /\ rows[k]' = rows[k])
    PROVE  PartHolds(k, part)'
<1>1. edits[k] \in Nat /\ part.edits \in Nat
  BY DEF TypeOK, PartHolds, IsPart
<1>2. CASE edits[k]' = edits[k] + 1
  BY <1>1, <1>2 DEF PartHolds
<1>3. CASE edits[k]' = edits[k] /\ rows[k]' = rows[k]
  BY <1>1, <1>3 DEF PartHolds, Defined
<1> QED
  BY <1>2, <1>3

\* What the configuration and the handlers but g hold survives a change of rows.
LEMMA OthersHold ==
    ASSUME IInv, UNCHANGED config,
           NEW g, \A h \in Handlers : h = g \/ UNCHANGED <<phase[h], target[h], req[h], got[h],
                                                        listed[h], read[h]>>,
           \A k \in Kinds : \/ edits[k]' = edits[k] + 1
                            \/ edits[k]' = edits[k] /\ rows[k]' = rows[k]
    PROVE  ConfigHolds' /\ \A h \in Handlers : h # g => HandlerHolds(h)'
<1>1. TypeOK
  BY DEF IInv
<1>2. \A k \in Kinds : \A part : PartHolds(k, part) => PartHolds(k, part)'
  BY <1>1, PartStays
<1>3. ConfigHolds'
  BY <1>2 DEF IInv, ConfigHolds
<1>4. ASSUME NEW h \in Handlers, h # g
      PROVE  HandlerHolds(h)'
  <2>1. UNCHANGED <<phase[h], target[h], req[h], got[h], listed[h], read[h]>>
    BY <1>4
  <2>2. HandlerHolds(h)
    BY DEF IInv
  <2>3. (phase[h] = "merge" => Merging(h))'
    BY <2>1, <2>2 DEF HandlerHolds, Merging
  <2>4. (phase[h] \in {"list", "save"} =>
            target[h].kind \in Kinds /\ PartHolds(target[h].kind, listed[h]))'
    BY <1>2, <2>1, <2>2 DEF HandlerHolds
  <2>5. (phase[h] = "save" =>
            /\ DOMAIN read[h] = Kinds
            /\ \A k \in Kinds : read[h][k] # NoList => PartHolds(k, read[h][k]))'
    BY <1>2, <2>1, <2>2 DEF HandlerHolds
  <2> QED
    BY <2>3, <2>4, <2>5 DEF HandlerHolds
<1> QED
  BY <1>3, <1>4

\* The parts of the invariant a step of handler g that touches neither rows nor
\* configuration can disturb: what g itself holds.
LEMMA HandlerStep ==
    ASSUME IInv, UNCHANGED <<rowVars, config>>, NEW g \in Handlers,
           \A h \in Handlers : h = g \/ UNCHANGED <<phase[h], target[h], req[h], got[h],
                                                 listed[h], read[h]>>,
           phase' \in [Handlers -> {"idle", "merge", "list", "save"}],
           calls' \in 0 .. MaxCalls,
           DOMAIN target' = Handlers, DOMAIN req' = Handlers, DOMAIN got' = Handlers,
           DOMAIN listed' = Handlers, DOMAIN read' = Handlers,
           HandlerHolds(g)'
    PROVE  IInv'
<1>1. UNCHANGED <<rows, nextId, edits, sent, clash, config>>
  BY DEF rowVars
<1>2. ConfigHolds' /\ \A h \in Handlers : h # g => HandlerHolds(h)'
  BY <1>1, OthersHold
<1>3. TypeOK' /\ Shapes' /\ StoredIsSound' /\ LastSentIsKept'
  BY <1>1 DEF IInv, TypeOK, Shapes, StoredIsSound, LastSentIsKept, Defined
<1> QED
  BY <1>2, <1>3 DEF IInv

LEMMA CreateKeeps ==
    ASSUME IInv, NEW k \in Kinds, NEW t \in Things, NEW json \in Creates[k], Create(k, t, json)
    PROVE  IInv'
<1> DEFINE d == Decode(json)
           row == Row(k, nextId, d)
<1>1. IsRow(k, row) /\ Sound(k, row.body)
  BY CreatedIsSound DEF Create, IInv, TypeOK
<1>2. /\ rows' = [rows EXCEPT ![k][t] = row]
      /\ sent' = [sent EXCEPT ![k][t] = [f \in Fields(k) |-> Initial(k, d, f)]]
      /\ edits' = [edits EXCEPT ![k] = @ + 1]
      /\ clash' = [clash EXCEPT ![k][t] = FALSE]
      /\ nextId' = nextId + 1 /\ calls < MaxCalls /\ calls' = calls + 1
      /\ UNCHANGED <<config, handlerVars>>
  BY DEF Create, Call
<1> HIDE DEF row
<1>3. Shapes'
  BY <1>2 DEF IInv, Shapes, handlerVars
<1>4. \A j \in Kinds, u \in Things :
         (j # k \/ u # t) => UNCHANGED <<rows[j][u], sent[j][u], clash[j][u]>>
  BY <1>2 DEF IInv, Shapes, TypeOK
<1>5. rows'[k][t] = row /\ sent'[k][t] = [f \in Fields(k) |-> Initial(k, d, f)] /\ ~clash'[k][t]
  BY <1>2 DEF IInv, Shapes, TypeOK
<1>6. \A j \in Kinds : \A u \in Defined(j)' : (j # k \/ u # t) => u \in Defined(j)
  BY <1>4 DEF Defined
<1>7. ASSUME NEW j \in Kinds
      PROVE  edits'[j] = edits[j] + 1 \/ (edits'[j] = edits[j] /\ rows'[j] = rows[j])
  <2>1. j = k => edits'[j] = edits[j] + 1
    BY <1>2 DEF IInv, Shapes, TypeOK
  <2>2. j # k => edits'[j] = edits[j] /\ rows'[j] = rows[j]
    BY <1>2 DEF IInv, Shapes, TypeOK
  <2> QED
    BY <2>1, <2>2
<1>8. TypeOK'
  <2>1. ASSUME NEW j \in Kinds, NEW u \in Defined(j)'
        PROVE  IsRow(j, rows'[j][u]) /\ DOMAIN sent'[j][u] = Fields(j)
    <3>1. CASE j = k /\ u = t
      BY <1>1, <1>5, <3>1
    <3>2. CASE j # k \/ u # t
      BY <1>4, <1>6, <3>2 DEF IInv, TypeOK, Defined
    <3> QED
      BY <3>1, <3>2
  <2>2. \A j \in Kinds : edits'[j] \in Nat /\ clash'[j] \in [Things -> BOOLEAN]
    BY <1>2 DEF IInv, Shapes, TypeOK
  <2> QED
    BY <1>2, <2>1, <2>2, ThingAssumptions DEF IInv, TypeOK, handlerVars
<1>9. StoredIsSound'
  <2>1. ASSUME NEW j \in Kinds, NEW u \in Defined(j)'
        PROVE  Sound(j, rows'[j][u].body)
    <3>1. CASE j = k /\ u = t
      BY <1>1, <1>5, <3>1
    <3>2. CASE j # k \/ u # t
      BY <1>4, <1>6, <3>2 DEF IInv, StoredIsSound, Defined
    <3> QED
      BY <3>1, <3>2
  <2> QED
    BY <1>2, <2>1 DEF IInv, StoredIsSound
<1>10. LastSentIsKept'
  <2>1. /\ row.name = Initial(k, d, "name") /\ row.enabled = Initial(k, d, "enabled")
        /\ \A f \in BodyFields(k) : row.body[f] = Initial(k, d, f)
    BY DEF row, Row
  <2>2. \A f \in Fields(k) : sent'[k][t][f] = Initial(k, d, f)
    BY <1>5
  <2>3. ASSUME NEW j \in Kinds, NEW u \in Defined(j)'
        PROVE  /\ rows'[j][u].name = sent'[j][u]["name"]
               /\ rows'[j][u].enabled = sent'[j][u]["enabled"]
               /\ ~clash'[j][u] =>
                     \A f \in BodyFields(j) : rows'[j][u].body[f] = sent'[j][u][f]
    <3>1. CASE j = k /\ u = t
      BY <1>5, <2>1, <2>2, <3>1 DEF Fields, Columns
    <3>2. CASE j # k \/ u # t
      BY <1>4, <1>6, <3>2 DEF IInv, LastSentIsKept, Defined
    <3> QED
      BY <3>1, <3>2
  <2> QED
    BY <2>3 DEF LastSentIsKept
<1>11. ConfigHolds' /\ \A h \in Handlers : HandlerHolds(h)'
  <2>1. UNCHANGED config /\ \A h \in Handlers : UNCHANGED <<phase[h], target[h], req[h], got[h],
                                                          listed[h], read[h]>>
    BY <1>2 DEF handlerVars
  <2>2. PICK g : g \notin Handlers
    BY NoSetContainsEverything
  <2> QED
    BY <1>7, <2>1, <2>2, OthersHold
<1> QED
  BY <1>3, <1>8, <1>9, <1>10, <1>11 DEF IInv

LEMMA DeleteKeeps ==
    ASSUME IInv, NEW k \in Kinds, NEW t \in Things, Delete(k, t)
    PROVE  IInv'
<1> USE DEF Delete, Call
<1>1. Shapes'
  BY DEF IInv, Shapes, handlerVars
<1>2. \A j \in Kinds, u \in Things :
         <<j, u>> # <<k, t>> => UNCHANGED <<rows[j][u], sent[j][u], clash[j][u]>>
  BY DEF IInv, Shapes, TypeOK
<1>3. \A j \in Kinds : \A u \in Defined(j)' : u \in Defined(j) /\ <<j, u>> # <<k, t>>
  BY <1>2 DEF Defined, IInv, Shapes
<1>4. \A j \in Kinds : edits[j]' = edits[j] + 1 \/ (edits[j]' = edits[j] /\ rows[j]' = rows[j])
  BY DEF IInv, Shapes, TypeOK
<1>5. TypeOK'
  <2>1. \A j \in Kinds : \A u \in Defined(j)' :
           IsRow(j, rows'[j][u]) /\ DOMAIN sent'[j][u] = Fields(j)
    BY <1>2, <1>3 DEF IInv, TypeOK, Defined
  <2>2. \A j \in Kinds : edits'[j] \in Nat /\ clash'[j] \in [Things -> BOOLEAN]
    BY DEF IInv, Shapes, TypeOK
  <2> QED
    BY <2>1, <2>2, ThingAssumptions DEF IInv, TypeOK, handlerVars
<1>6. StoredIsSound' /\ LastSentIsKept'
  BY <1>2, <1>3 DEF IInv, StoredIsSound, LastSentIsKept, Defined
<1>7. ConfigHolds' /\ \A h \in Handlers : HandlerHolds(h)'
  <2>1. UNCHANGED config /\ \A h \in Handlers : UNCHANGED <<phase[h], target[h], req[h], got[h],
                                                          listed[h], read[h]>>
    BY DEF handlerVars
  <2>2. PICK g : g \notin Handlers
    BY NoSetContainsEverything
  <2> QED
    BY <1>4, <2>1, <2>2, OthersHold
<1> QED
  BY <1>1, <1>5, <1>6, <1>7 DEF IInv

LEMMA ReadRowKeeps ==
    ASSUME IInv, NEW g \in Handlers, NEW k \in Kinds, NEW t \in Things, NEW json \in Patches[k],
           ReadRow(g, k, t, json)
    PROVE  IInv'
<1>1. IsRow(k, rows[k][t]) /\ Sound(k, rows[k][t].body)
  BY DEF ReadRow, IInv, TypeOK, StoredIsSound, Defined
<1>2. /\ phase'[g] = "merge" /\ target'[g] = [kind |-> k, thing |-> t]
      /\ req'[g] = json /\ got'[g] = rows[k][t] /\ PatchAccepted(k, json)
  BY DEF ReadRow, IInv, TypeOK, Shapes
<1>3. HandlerHolds(g)'
  BY <1>1, <1>2 DEF HandlerHolds, Merging
<1>4. calls' \in 0 .. MaxCalls
  BY ThingAssumptions DEF ReadRow, Call, IInv, TypeOK
<1> QED
  BY <1>3, <1>4, HandlerStep DEF ReadRow, IInv, TypeOK, Shapes

LEMMA ListKeeps ==
    ASSUME IInv, NEW g \in Handlers, NEW k \in Kinds, List(g, k)
    PROVE  IInv'
<1>1. PICK part : part = [edits |-> edits[k], wires |-> WireList(k)]
  OBVIOUS
<1>2. PartHolds(k, part)
  <2>1. DOMAIN part.wires = Defined(k)
    BY <1>1 DEF WireList
  <2>2. \A t \in Defined(k) : /\ part.wires[t].body = rows[k][t].body
                             /\ part.wires[t].enabled = rows[k][t].enabled
                             /\ IsRow(k, rows[k][t]) /\ Sound(k, rows[k][t].body)
    BY <1>1 DEF WireList, IInv, TypeOK, StoredIsSound
  <2>3. edits[k] \in Nat /\ part.edits = edits[k] /\ edits[k] <= edits[k]
    BY <1>1 DEF IInv, TypeOK
  <2>4. IsPart(k, part)
    BY <1>1, <2>1, <2>2, <2>3 DEF IsPart, IsRow, Defined
  <2> QED
    BY <2>1, <2>2, <2>3, <2>4 DEF PartHolds
<1>3. PartHolds(k, part)'
  BY <1>2 DEF PartHolds, Defined, List, rowVars
<1>4. /\ phase'[g] = "list" /\ target'[g] = [kind |-> k, thing |-> None]
      /\ listed'[g] = part
  BY <1>1 DEF List, IInv, TypeOK, Shapes
<1>5. HandlerHolds(g)'
  BY <1>3, <1>4 DEF HandlerHolds
<1>6. calls' \in 0 .. MaxCalls
  BY ThingAssumptions DEF List, Call, IInv, TypeOK
<1> QED
  BY <1>5, <1>6, HandlerStep DEF List, IInv, TypeOK, Shapes

LEMMA ReadConfigKeeps ==
    ASSUME IInv, NEW g \in Handlers, ReadConfig(g)
    PROVE  IInv'
<1>1. /\ phase[g] = "list" /\ phase'[g] = "save" /\ read'[g] = config
      /\ UNCHANGED <<target, listed, rows, edits, calls>>
  BY DEF ReadConfig, IInv, TypeOK, Shapes, rowVars
<1>2. \A k \in Kinds : \A part : PartHolds(k, part) => PartHolds(k, part)'
  BY <1>1 DEF PartHolds, Defined
<1>3. HandlerHolds(g)'
  BY <1>1, <1>2 DEF HandlerHolds, IInv, ConfigHolds, Shapes
<1> QED
  BY <1>1, <1>3, HandlerStep DEF ReadConfig, IInv, TypeOK, Shapes

LEMMA FailKeeps ==
    ASSUME IInv, NEW g \in Handlers, Fail(g)
    PROVE  IInv'
<1>1. HandlerHolds(g)'
  BY DEF Fail, Done, HandlerHolds, IInv, TypeOK
<1> QED
  BY <1>1, HandlerStep DEF Fail, Done, IInv, TypeOK, Shapes

LEMMA SaveConfigKeeps ==
    ASSUME IInv, NEW g \in Handlers, SaveConfig(g)
    PROVE  IInv'
<1>1. /\ phase[g] = "save" /\ UNCHANGED <<rows, nextId, edits, sent, clash, calls>>
      /\ phase'[g] = "idle"
      /\ config' = [read[g] EXCEPT ![target[g].kind] = listed[g]]
  BY DEF SaveConfig, Done, WithPart, IInv, TypeOK, rowVars
<1>2. /\ target[g].kind \in Kinds /\ PartHolds(target[g].kind, listed[g])
      /\ DOMAIN read[g] = Kinds
      /\ \A k \in Kinds : read[g][k] # NoList => PartHolds(k, read[g][k])
  BY <1>1 DEF IInv, HandlerHolds
<1>3. \A k \in Kinds : \A part : PartHolds(k, part) => PartHolds(k, part)'
  BY <1>1 DEF PartHolds, Defined
<1>4. DOMAIN config' = Kinds /\ \A k \in Kinds : config'[k] # NoList => PartHolds(k, config'[k])
  BY <1>1, <1>2
<1>5. ConfigHolds'
  BY <1>3, <1>4 DEF ConfigHolds
<1>6. ASSUME NEW h \in Handlers
      PROVE  HandlerHolds(h)'
  <2>1. CASE h = g
    BY <1>1, <2>1 DEF HandlerHolds
  <2>2. CASE h # g
    <3>1. UNCHANGED <<phase[h], target[h], req[h], got[h], listed[h], read[h]>>
      BY <2>2 DEF SaveConfig, Done, IInv, TypeOK, Shapes
    <3>2. HandlerHolds(h)
      BY DEF IInv
    <3>3. (phase[h] = "merge" => Merging(h))'
      BY <3>1, <3>2 DEF HandlerHolds, Merging
    <3> QED
      BY <1>3, <3>1, <3>2, <3>3 DEF HandlerHolds
  <2> QED
    BY <2>1, <2>2
<1>7. TypeOK'
  BY <1>1, <1>4 DEF SaveConfig, Done, IInv, TypeOK, Defined, PartHolds
<1>8. StoredIsSound'
  BY <1>1, <1>4 DEF IInv, StoredIsSound, Defined, PartHolds
<1>9. Shapes' /\ LastSentIsKept'
  BY <1>1, <1>4 DEF SaveConfig, Done, IInv, Shapes, LastSentIsKept, Defined
<1> QED
  BY <1>5, <1>6, <1>7, <1>8, <1>9 DEF IInv

LEMMA WriteRowKeeps ==
    ASSUME IInv, NEW g \in Handlers, WriteRow(g)
    PROVE  IInv'
<1> DEFINE k == target[g].kind
           t == target[g].thing
           d == Decode(req[g])
           old == got[g]
           row == rows[k][t]
<1>1. /\ phase[g] = "merge" /\ phase'[g] = "idle"
      /\ UNCHANGED <<nextId, config, calls>>
  BY DEF WriteRow, Done, IInv, TypeOK, rowVars
<1>2. /\ k \in Kinds /\ t \in Things /\ req[g] \in Patches[k] /\ PatchAccepted(k, req[g])
      /\ IsRow(k, old) /\ Sound(k, old.body)
  BY <1>1 DEF IInv, HandlerHolds, Merging
<1>3. CASE row = NoRow
  <2>1. HandlerHolds(g)'
    BY <1>1 DEF HandlerHolds
  <2> QED
    BY <1>1, <1>3, <2>1, HandlerStep DEF WriteRow, Done, IInv, TypeOK, Shapes, rowVars
<1>4. CASE row # NoRow
  <2> DEFINE new == Written(k, d, old, row)
             latest == Latest(k, d, sent[k][t])
             stale == clash[k][t] \/ Stale(old, row)
  <2>1. /\ rows' = [rows EXCEPT ![k][t] = new]
        /\ edits' = [edits EXCEPT ![k] = @ + 1]
        /\ sent' = [sent EXCEPT ![k][t] = latest]
        /\ clash' = [clash EXCEPT ![k][t] = stale]
    BY <1>4 DEF WriteRow
  <2>2. /\ new.id = row.id /\ new.body = Merge(k, old.body, d)
        /\ new.name = IF "name" \in DOMAIN d THEN d["name"] ELSE row.name
        /\ new.enabled = IF "enabled" \in DOMAIN d THEN d["enabled"] ELSE row.enabled
        /\ DOMAIN new = {"id", "name", "enabled", "body"}
    BY DEF Written
  <2>3. t \in Defined(k) /\ IsRow(k, row)
    BY <1>2, <1>4 DEF Defined, IInv, TypeOK
  <2>4. /\ \A f \in DOMAIN d : d[f] \in JsonValues(k, f)
        /\ IsBody(k, Merge(k, old.body, d)) /\ Sound(k, Merge(k, old.body, d))
    <3>1. \A f \in DOMAIN d : d[f] \in JsonValues(k, f)
      BY <1>2, DecodedIsTyped DEF PatchAccepted
    <3>2. IsBody(k, old.body)
      BY <1>2 DEF IsRow
    <3> QED
      BY <1>2, <3>1, <3>2, MergeIsSound
  <2>5. /\ DOMAIN latest = Fields(k)
        /\ \A f \in Fields(k) : latest[f] = IF f \in DOMAIN d THEN Stored(f, d[f])
                                          ELSE sent[k][t][f]
    BY Zenon DEF Latest
  <2>6. /\ row.name = sent[k][t]["name"] /\ row.enabled = sent[k][t]["enabled"]
        /\ ~stale => /\ old.body = row.body
                     /\ \A f \in BodyFields(k) : row.body[f] = sent[k][t][f]
    <3>1. /\ row.name = sent[k][t]["name"] /\ row.enabled = sent[k][t]["enabled"]
          /\ ~clash[k][t] => \A f \in BodyFields(k) : row.body[f] = sent[k][t][f]
      BY <1>2, <2>3, Zenon DEF IInv, LastSentIsKept
    <3>2. ~stale => ~clash[k][t] /\ old.body = row.body
      BY DEF Stale
    <3> QED
      BY <3>1, <3>2, Zenon
  <2> HIDE DEF k, t, d, old, row, new, latest, stale
  <2>7. IsRow(k, new) /\ Sound(k, new.body)
    <3>1. new.name \in JsonValues(k, "name")
      BY <2>2, <2>3, <2>4 DEF IsRow
    <3>2. new.enabled \in BOOLEAN
      BY <2>2, <2>3, <2>4 DEF IsRow, JsonValues
    <3> QED
      BY <2>2, <2>3, <2>4, <3>1, <3>2 DEF IsRow
  \* What is written is what was last sent.
  <2>8. /\ new.name = latest["name"] /\ new.enabled = latest["enabled"]
        /\ ~stale => \A f \in BodyFields(k) : new.body[f] = latest[f]
    <3>1. new.name = latest["name"] /\ new.enabled = latest["enabled"]
      BY <2>2, <2>5, <2>6 DEF Fields, Columns, Stored
    <3>2. ASSUME ~stale, NEW f \in BodyFields(k)
          PROVE  new.body[f] = latest[f]
      <4>1. old.body[f] = sent[k][t][f]
        BY <2>6, <3>2
      <4>2. new.body[f] = IF f \in DOMAIN d THEN Stored(f, d[f]) ELSE old.body[f]
        BY <2>2, <3>2 DEF Merge
      <4> QED
        BY <2>5, <4>1, <4>2 DEF Fields
    <3> QED
      BY <3>1, <3>2
  <2>9. \A j \in Kinds, u \in Things :
           (j # k \/ u # t) => UNCHANGED <<rows[j][u], sent[j][u], clash[j][u]>>
    BY <1>2, <2>1 DEF IInv, Shapes, TypeOK
  <2>10. rows'[k][t] = new /\ sent'[k][t] = latest /\ clash'[k][t] = stale
    BY <1>2, <2>1 DEF IInv, Shapes, TypeOK
  <2>11. \A j \in Kinds : \A u \in Defined(j)' : u \in Defined(j)
    BY <2>3, <2>9 DEF Defined
  <2>12. ASSUME NEW j \in Kinds
         PROVE  edits'[j] = edits[j] + 1 \/ (edits'[j] = edits[j] /\ rows'[j] = rows[j])
    <3>1. j = k => edits'[j] = edits[j] + 1
      BY <1>2, <2>1 DEF IInv, Shapes, TypeOK
    <3>2. j # k => edits'[j] = edits[j] /\ rows'[j] = rows[j]
      BY <1>2, <2>1 DEF IInv, Shapes, TypeOK
    <3> QED
      BY <3>1, <3>2
  <2>13. ASSUME NEW j \in Kinds, NEW u \in Defined(j)'
         PROVE  /\ IsRow(j, rows'[j][u]) /\ DOMAIN sent'[j][u] = Fields(j)
                /\ Sound(j, rows'[j][u].body)
                /\ rows'[j][u].name = sent'[j][u]["name"]
                /\ rows'[j][u].enabled = sent'[j][u]["enabled"]
                /\ ~clash'[j][u] =>
                      \A f \in BodyFields(j) : rows'[j][u].body[f] = sent'[j][u][f]
    <3>1. CASE j = k /\ u = t
      BY <2>7, <2>5, <2>8, <2>10, <3>1
    <3>2. CASE j # k \/ u # t
      BY <2>9, <2>11, <3>2 DEF IInv, TypeOK, StoredIsSound, LastSentIsKept, Defined
    <3> QED
      BY <3>1, <3>2
  <2>14. TypeOK'
    <3>1. \A j \in Kinds : edits'[j] \in Nat /\ clash'[j] \in [Things -> BOOLEAN]
      <4>1. stale \in BOOLEAN
        BY <1>2 DEF stale, Stale, IInv, TypeOK
      <4> QED
        BY <1>2, <2>1, <4>1 DEF IInv, Shapes, TypeOK
    <3>2. phase' \in [Handlers -> {"idle", "merge", "list", "save"}]
      BY DEF WriteRow, Done, IInv, TypeOK
    <3> QED
      BY <1>1, <2>13, <3>1, <3>2 DEF IInv, TypeOK
  <2>15. Shapes'
    BY <1>1, <1>2, <2>1 DEF WriteRow, Done, IInv, Shapes
  <2>16. StoredIsSound' /\ LastSentIsKept'
    BY <1>1, <2>13 DEF IInv, StoredIsSound, LastSentIsKept
  <2>17. ConfigHolds' /\ \A h \in Handlers : HandlerHolds(h)'
    <3>1. \A h \in Handlers : h = g \/ UNCHANGED <<phase[h], target[h], req[h], got[h],
                                                listed[h], read[h]>>
      BY DEF WriteRow, Done, IInv, TypeOK, Shapes
    <3>2. ConfigHolds' /\ \A h \in Handlers : h # g => HandlerHolds(h)'
      BY <1>1, <2>12, <3>1, OthersHold
    <3>3. HandlerHolds(g)'
      BY <1>1 DEF HandlerHolds
    <3> QED
      BY <3>2, <3>3
  <2> QED
    BY <2>14, <2>15, <2>16, <2>17 DEF IInv
<1> QED
  BY <1>3, <1>4

LEMMA NextIInv == IInv /\ [Next]_vars => IInv'
<1> SUFFICES ASSUME IInv, [Next]_vars PROVE IInv'
  OBVIOUS
<1>1. CASE UNCHANGED vars
  <2>1. /\ UNCHANGED <<rows, nextId, edits, sent, clash, config, calls>>
        /\ UNCHANGED <<phase, target, req, got, listed, read>>
    BY <1>1 DEF vars, rowVars, handlerVars
  <2>2. TypeOK' /\ Shapes' /\ StoredIsSound' /\ LastSentIsKept' /\ ConfigHolds'
    BY <2>1 DEF IInv, TypeOK, Shapes, StoredIsSound, LastSentIsKept, ConfigHolds, PartHolds, Defined
  <2>3. \A h \in Handlers : HandlerHolds(h)'
    BY <2>1 DEF IInv, HandlerHolds, Merging, PartHolds, Defined
  <2> QED
    BY <2>2, <2>3 DEF IInv
<1>2. ASSUME NEW k \in Kinds, NEW t \in Things, NEW json \in Creates[k], Create(k, t, json)
      PROVE  IInv'
  BY <1>2, CreateKeeps
<1>3. ASSUME NEW k \in Kinds, NEW t \in Things, Delete(k, t)
      PROVE  IInv'
  BY <1>3, DeleteKeeps
<1>4. ASSUME NEW h \in Handlers, NEW k \in Kinds, NEW t \in Things, NEW json \in Patches[k],
             ReadRow(h, k, t, json)
      PROVE  IInv'
  BY <1>4, ReadRowKeeps
<1>5. ASSUME NEW h \in Handlers, NEW k \in Kinds, List(h, k)
      PROVE  IInv'
  BY <1>5, ListKeeps
<1>6. ASSUME NEW h \in Handlers, WriteRow(h) \/ ReadConfig(h) \/ SaveConfig(h) \/ Fail(h)
      PROVE  IInv'
  BY <1>6, WriteRowKeeps, ReadConfigKeeps, SaveConfigKeeps, FailKeeps
<1> QED
  BY <1>1, <1>2, <1>3, <1>4, <1>5, <1>6 DEF Next

THEOREM Invariance == Spec => []IInv
BY InitIInv, NextIInv, PTL DEF Spec

-----------------------------------------------------------------------------

\* Rows, the parts of the configuration and the counters are well typed in every
\* reachable state: nothing a request may contain gets past Validate into them.
THEOREM TypeCorrect == Spec => []TypeOK
<1>1. IInv => TypeOK
  BY DEF IInv
<1> QED
  BY Invariance, <1>1, PTL

\* Every stored definition and every compiled one is sound, for any number of
\* requests in any interleaving: Update checks a request on its own, and that is
\* enough, because no check relates two fields.
THEOREM StoredAlwaysSound == Spec => []StoredIsSound
<1>1. IInv => StoredIsSound
  BY DEF IInv
<1> QED
  BY Invariance, <1>1, PTL

\* Name and enabled never lose an update, the body only to an Update that was
\* reading when another wrote.
THEOREM LastSentAlwaysKept == Spec => []LastSentIsKept
<1>1. IInv => LastSentIsKept
  BY DEF IInv
<1> QED
  BY Invariance, <1>1, PTL

\* A part applied since the last change of its kind is the list of that kind.
THEOREM ApplyAlwaysComplete == Spec => []ApplyIsComplete
<1>1. IInv => ApplyIsComplete
  BY DEF IInv, ConfigHolds, PartHolds, ApplyIsComplete
<1> QED
  BY Invariance, <1>1, PTL

-----------------------------------------------------------------------------
(* What would keep an update from undoing another: a lock on the row, from the read to the write. *)

\* A definition does not change while an update of it is between its two steps.
RowLock ==
    \A h \in Handlers : phase[h] = "merge" /\ phase'[h] = "merge" =>
        rows'[target[h].kind][target[h].thing] = rows[target[h].kind][target[h].thing]

\* What an update has read is the row.
GotIsRow ==
    \A h \in Handlers : phase[h] = "merge" => got[h] = rows[target[h].kind][target[h].thing]

\* Whatever was last sent for a field of the body is stored.
NothingLost ==
    \A k \in Kinds : \A t \in Defined(k), f \in BodyFields(k) : rows[k][t].body[f] = sent[k][t][f]

LockInv == GotIsRow /\ \A k \in Kinds, t \in Things : ~clash[k][t]

\* Of a definition that is locked nothing changes, and a write finds what was read.
LEMMA LockStep ==
    ASSUME IInv, LockInv, [Next /\ RowLock]_vars
    PROVE  LockInv' /\ [UnsentFieldsStay]_vars
<1>d. /\ DOMAIN phase = Handlers /\ DOMAIN got = Handlers /\ DOMAIN target = Handlers
      /\ DOMAIN req = Handlers /\ DOMAIN clash = Kinds
      /\ \A k \in Kinds : clash[k] \in [Things -> BOOLEAN]
      /\ DOMAIN rows = Kinds /\ \A k \in Kinds : DOMAIN rows[k] = Things
    BY DEF IInv, TypeOK, Shapes
<1>1. CASE UNCHANGED vars
    BY <1>1 DEF LockInv, GotIsRow, vars, rowVars, handlerVars
<1>2. ASSUME RowLock, NEW k \in Kinds, NEW t \in Things,
             (\E json \in Creates[k] : Create(k, t, json)) \/ Delete(k, t)
      PROVE  LockInv' /\ UnsentFieldsStay
  <2>1. UNCHANGED <<phase, target, req, got>>
    BY <1>2 DEF Create, Delete, handlerVars
  <2>2. GotIsRow'
    BY <1>2, <2>1 DEF LockInv, GotIsRow, RowLock
  <2>3. clash' = [clash EXCEPT ![k][t] = FALSE] \/ clash' = clash
    BY <1>2 DEF Create, Delete
  <2> QED
    BY <1>d, <2>1, <2>2, <2>3 DEF LockInv, UnsentFieldsStay
<1>3. ASSUME NEW k \in Kinds, NEW t \in Things, NEW h \in Handlers, NEW json \in Patches[k],
             ReadRow(h, k, t, json)
      PROVE  LockInv' /\ UnsentFieldsStay
    BY <1>d, <1>3 DEF ReadRow, rowVars, LockInv, GotIsRow, UnsentFieldsStay
<1>4. ASSUME NEW h \in Handlers, NEW k \in Kinds, List(h, k) PROVE LockInv' /\ UnsentFieldsStay
    BY <1>d, <1>4 DEF List, rowVars, LockInv, GotIsRow, UnsentFieldsStay
<1>5. ASSUME NEW h \in Handlers, ReadConfig(h) \/ SaveConfig(h) \/ Fail(h)
      PROVE  LockInv' /\ UnsentFieldsStay
    BY <1>d, <1>5 DEF ReadConfig, SaveConfig, Fail, Done, rowVars, LockInv, GotIsRow, UnsentFieldsStay
<1>6. ASSUME RowLock, NEW h \in Handlers, WriteRow(h) PROVE LockInv' /\ UnsentFieldsStay
  <2> DEFINE k == target[h].kind
             t == target[h].thing
             d == Decode(req[h])
  <2>1. /\ phase[h] = "merge" /\ k \in Kinds /\ t \in Things /\ got[h] = rows[k][t]
        /\ phase' = [phase EXCEPT ![h] = "idle"]
        /\ \A g \in Handlers \ {h} : UNCHANGED <<target[g], got[g]>>
    BY <1>d, <1>6 DEF WriteRow, Done, IInv, HandlerHolds, Merging, LockInv, GotIsRow
  <2>2. GotIsRow'
    BY <1>d, <1>6, <2>1 DEF LockInv, GotIsRow, RowLock
  <2>3. CASE rows[k][t] = NoRow
    <3>1. UNCHANGED <<rows, clash>>
      BY <1>6, <2>3 DEF WriteRow, rowVars
    <3> QED
      BY <2>1, <2>2, <3>1 DEF LockInv, UnsentFieldsStay
  <2>4. CASE rows[k][t] # NoRow
    <3>1. /\ rows' = [rows EXCEPT ![k][t] = Written(k, d, got[h], rows[k][t])]
          /\ clash' = [clash EXCEPT ![k][t] = @ \/ Stale(got[h], rows[k][t])]
      BY <1>6, <2>4 DEF WriteRow
    <3>2. \A j \in Kinds, u \in Things : ~clash'[j][u]
      BY <1>d, <2>1, <3>1 DEF Stale, LockInv
    <3>3. rows'[k][t].body = Merge(k, rows[k][t].body, d)
      BY <1>d, <2>1, <3>1 DEF Written
    <3>4. \A f \in BodyFields(k) \ DOMAIN d : rows'[k][t].body[f] = rows[k][t].body[f]
      BY <3>3 DEF Merge
    <3>5. \A g \in Handlers : phase[g] = "merge" /\ phase'[g] = "idle" => g = h
      BY <1>d, <2>1
    <3>6. UnsentFieldsStay
      BY <3>4, <3>5 DEF UnsentFieldsStay
    <3> QED
      BY <2>2, <3>2, <3>6 DEF LockInv
  <2> QED
    BY <2>3, <2>4
<1> QED
    BY <1>1, <1>2, <1>3, <1>4, <1>5, <1>6 DEF Next

\* Update of sensors and actuators: if the row were locked from the read to the write, a field that
\* is not in the request would keep its value (the comment at line 298 of sensor_model.go), and what
\* was last sent for a field of the body would be what is stored, for any number of requests.
THEOREM RowLockSuffices ==
    Spec /\ [][RowLock]_vars => UnsentFieldsKept /\ []NothingLost
<1>1. Init => LockInv
  BY DEF Init, LockInv, GotIsRow
<1>2. IInv /\ LockInv /\ [Next]_vars /\ [RowLock]_vars => LockInv' /\ [UnsentFieldsStay]_vars
  BY LockStep
<1>3. IInv /\ LockInv => NothingLost
  BY DEF IInv, LastSentIsKept, LockInv, NothingLost, Defined
<1> QED
  BY <1>1, <1>2, <1>3, Invariance, PTL DEF Spec, UnsentFieldsKept

-----------------------------------------------------------------------------
(* Reported values: SensorReports.                                         *)

\* What is kept of a report is part of it.
LEMMA ValidKeeps ==
    ASSUME NEW defList, NEW values
    PROVE  /\ DOMAIN Valid(defList, values) \subseteq DOMAIN values
           /\ \A n \in DOMAIN Valid(defList, values) :
                 /\ Valid(defList, values)[n] = values[n]
                 /\ \A d \in Meant(defList, n) : values[n] \in Accepted(d.form)
BY DEF Valid

\* A worker that has been given a list holds the same values, or some of them.
LEMMA GivenTyped ==
    ASSUME ReportTypeOK, NEW w \in Workers, NEW defList \in SUBSET Definitions, Given(w, defList)
    PROVE  /\ step' \in [Workers -> Steps] /\ list' \in [Workers -> SUBSET Definitions]
           /\ DOMAIN points' = Workers
           /\ \A v \in Workers : \A n \in DOMAIN points'[v] : points'[v][n] \in Values
<1> USE DEF ReportTypeOK
<1>1. step' \in [Workers -> Steps] /\ list' \in [Workers -> SUBSET Definitions] /\ DOMAIN points' = Workers
  BY DEF Given, Steps
<1>2. ASSUME NEW v \in Workers, NEW n \in DOMAIN points'[v] PROVE points'[v][n] \in Values
  <2>1. CASE points'[v] = points[v]
    BY <1>2, <2>1
  <2>2. CASE v = w /\ points'[w] = Valid(defList, points[w])
    BY <1>2, <2>2, ValidKeeps
  <2>3. QED
    BY <2>1, <2>2 DEF Given
<1>3. QED
  BY <1>1, <1>2

(* A step of the report path and the view keeps the types. *)
LEMMA ReportTypeStep == ASSUME ReportTypeOK, [ReportNext]_reportVars PROVE ReportTypeOK'
<1> USE ReportAssumptions DEF ReportTypeOK, Fault, defVars, workVars
<1>1. ASSUME NEW new \in SUBSET Definitions, Change(new), nextRow' \in Nat PROVE ReportTypeOK'
  BY <1>1 DEF Change
<1>2. ASSUME NEW i \in Ids, NEW form \in Forms, CreateDef(i, form) PROVE ReportTypeOK'
  <2>1. [id |-> i, row |-> nextRow, form |-> form] \in Definitions
    BY DEF Definitions
  <2>2. QED
    BY <1>1, <1>2, <2>1 DEF CreateDef
<1>3. ASSUME NEW d \in defs, DeleteDef(d) PROVE ReportTypeOK'
  BY <1>1, <1>3 DEF DeleteDef
<1>4. ASSUME NEW d \in defs, NEW form \in Forms, UpdateDef(d, form) PROVE ReportTypeOK'
  <2>1. [d EXCEPT !.form = form] \in Definitions
    BY DEF Definitions
  <2>2. QED
    BY <1>1, <1>4, <2>1 DEF UpdateDef
<1>5. CASE Evict
  BY <1>5 DEF Evict
<1>6. CASE CopyExpires
  BY <1>6 DEF CopyExpires
<1>7. CASE RecentExpires
  BY <1>7 DEF RecentExpires, Nothing, NoValues
<1>8. ASSUME NEW w \in Workers, View(w) \/ \E values \in Reports : Report(w, values)
      PROVE  ReportTypeOK'
  <2>1. ASSUME NEW kind \in {"report", "view"}, NEW values, NEW against \in SUBSET Definitions,
               Begin(w, kind, values, against), \A n \in DOMAIN values : values[n] \in Values
        PROVE  ReportTypeOK'
    BY <2>1 DEF Begin, Steps
  <2>2. CASE View(w)
    BY <2>1, <2>2 DEF View
  <2>3. ASSUME NEW values \in Reports, Report(w, values) PROVE ReportTypeOK'
    BY <2>1, <2>3 DEF Report
  <2>4. QED
    BY <1>8, <2>2, <2>3
<1>9. ASSUME NEW w \in Workers, FindCopy(w) \/ Fill(w) \/ ListFails(w) PROVE ReportTypeOK'
  <2>1. PICK defList \in SUBSET Definitions : Given(w, defList)
    BY <1>9 DEF FindCopy, Fill, ListFails
  <2>2. copy' = NoCopy \/ copy' \subseteq Definitions
    BY <1>9 DEF FindCopy, Fill, ListFails
  <2>3. faults' \in 0 .. MaxFaults
    BY <1>9 DEF FindCopy, Fill, ListFails
  <2>4. UNCHANGED <<defVars, task, judged, recent>>
    BY <2>1 DEF Given
  <2>5. QED
    BY <2>1, <2>2, <2>3, <2>4, GivenTyped
<1>10. ASSUME NEW w \in Workers, LoadRows(w) PROVE ReportTypeOK'
  BY <1>10 DEF LoadRows, Steps
<1>11. ASSUME NEW w \in Workers, Store(w) \/ ReportFails(w) \/ Answer(w) PROVE ReportTypeOK'
  <2>1. End(w)
    BY <1>11 DEF Store, ReportFails, Answer
  <2>2. /\ recent'.judged \subseteq Definitions
        /\ \A n \in DOMAIN recent'.points : recent'.points[n] \in Values
    BY <1>11 DEF Store, ReportFails, Answer, Newest
  <2>3. faults' \in 0 .. MaxFaults
    BY <1>11 DEF Store, ReportFails, Answer
  <2>4. QED
    BY <2>1, <2>2, <2>3 DEF End, Steps, NoValues
<1>12. CASE UNCHANGED reportVars
  BY <1>12 DEF reportVars
<1>13. QED
  BY <1>2, <1>3, <1>4, <1>5, <1>6, <1>7, <1>8, <1>9, <1>10, <1>11, <1>12 DEF ReportNext

(* The report path and the view keep the types of what they pass on, for any reports. *)
THEOREM ReportTypeCorrect == ReportSpec => []ReportTypeOK
<1>1. ReportInit => ReportTypeOK
  BY ReportAssumptions DEF ReportInit, ReportTypeOK, Steps, Nothing, NoValues
<1>2. QED
  BY <1>1, ReportTypeStep, PTL DEF ReportSpec

\* Values that have been checked against a list fit the definitions they mean in it.
Checked(values, defList) ==
    \A n \in DOMAIN values : \A d \in Meant(defList, n) : values[n] \in Accepted(d.form)

\* What is about to be stored, is stored, and is about to be shown, has been checked.
ChecksHold ==
    /\ \A w \in Workers :
          /\ step[w] = "ready" /\ task[w] = "report" => Checked(points[w], list[w])
          /\ step[w] # "idle" /\ task[w] = "view" => Checked(points[w], judged[w])
    /\ Checked(recent.points, recent.judged)

(* Every step keeps it. *)
LEMMA ChecksStep ==
    ASSUME ReportTypeOK, ChecksHold, [ReportNext]_reportVars PROVE ChecksHold'
<1> USE DEF ChecksHold, defVars, workVars
<1>0. DOMAIN step = Workers /\ DOMAIN task = Workers /\ DOMAIN list = Workers
      /\ DOMAIN points = Workers /\ DOMAIN judged = Workers
  BY DEF ReportTypeOK
<1>1. ASSUME UNCHANGED <<workVars, recent>> PROVE ChecksHold'
  BY <1>1
<1>2. ASSUME NEW w \in Workers, View(w) \/ \E values \in Reports : Report(w, values)
      PROVE  ChecksHold'
  <2>1. CASE View(w)
    BY <1>0, <2>1 DEF View, Begin
  <2>2. CASE \E values \in Reports : Report(w, values)
    BY <1>0, <2>2 DEF Report, Begin
  <2>3. QED
    BY <1>2, <2>1, <2>2
<1>3. ASSUME NEW w \in Workers, NEW defList, Given(w, defList), step[w] # "idle" PROVE ChecksHold'
  <2>1. Checked(Valid(defList, points[w]), defList)
    BY ValidKeeps DEF Checked
  <2>2. /\ step'[w] = "ready" /\ list'[w] = defList /\ task' = task /\ judged' = judged
        /\ points'[w] = IF task[w] = "report" THEN Valid(defList, points[w]) ELSE points[w]
        /\ UNCHANGED recent
        /\ \A v \in Workers \ {w} : step'[v] = step[v] /\ list'[v] = list[v] /\ points'[v] = points[v]
    BY <1>0, <1>3 DEF Given
  <2>3. step'[w] = "ready" /\ task'[w] = "report" => Checked(points'[w], list'[w])
    BY <2>1, <2>2
  <2>4. step'[w] # "idle" /\ task'[w] = "view" => Checked(points'[w], judged'[w])
    BY <1>3, <2>2
  <2>5. ASSUME NEW v \in Workers \ {w}
        PROVE  /\ step'[v] = "ready" /\ task'[v] = "report" => Checked(points'[v], list'[v])
               /\ step'[v] # "idle" /\ task'[v] = "view" => Checked(points'[v], judged'[v])
    BY <2>2
  <2>6. QED
    BY <2>2, <2>3, <2>4, <2>5
<1>4. ASSUME NEW w \in Workers, FindCopy(w) \/ Fill(w) \/ ListFails(w) PROVE ChecksHold'
  <2>1. step[w] # "idle" /\ \E defList : Given(w, defList)
    BY <1>4 DEF FindCopy, Fill, ListFails
  <2>2. QED
    BY <1>3, <2>1
<1>5. ASSUME NEW w \in Workers, LoadRows(w) PROVE ChecksHold'
  BY <1>0, <1>5 DEF LoadRows
<1>6. ASSUME NEW w \in Workers, Store(w) \/ ReportFails(w) \/ Answer(w) PROVE ChecksHold'
  <2>1. recent' = recent \/ Checked(recent'.points, recent'.judged)
    BY <1>6 DEF Store, ReportFails, Answer, Newest
  <2>2. step'[w] = "idle" /\ task' = task
        /\ \A v \in Workers \ {w} : /\ step'[v] = step[v] /\ list'[v] = list[v]
                                   /\ points'[v] = points[v] /\ judged'[v] = judged[v]
    BY <1>0, <1>6 DEF Store, ReportFails, Answer, End
  <2>3. QED
    BY <2>1, <2>2
<1>7. CASE RecentExpires
  BY <1>7 DEF RecentExpires, Nothing, NoValues, Checked
<1>8. ASSUME NEW new, Change(new) PROVE ChecksHold'
  BY <1>1, <1>8 DEF Change
<1>9. CASE Evict \/ CopyExpires \/ UNCHANGED reportVars
  BY <1>1, <1>9 DEF Evict, CopyExpires, reportVars
<1>10. QED
  BY <1>2, <1>4, <1>5, <1>6, <1>7, <1>8, <1>9 DEF ReportNext, CreateDef, UpdateDef, DeleteDef

(* A value that is shown with a definition it does not fit was checked against no list, or
   against one in which the definition was not there or said something else, or in which another
   had the same name: for any definitions and reports, and however old the lists are. *)
THEOREM MisfitAlwaysExplained == ReportSpec => []MisfitIsExplained
<1>1. ReportInit => ChecksHold
  BY DEF ReportInit, ChecksHold, Checked, Nothing, NoValues
<1>2. ReportTypeOK /\ ChecksHold => MisfitIsExplained
  <2> SUFFICES ASSUME ReportTypeOK, ChecksHold, NEW w \in Workers, NEW d \in list[w],
                      NEW n \in ShownBy(d, points[w]), Misfit(w, d, n), d \in judged[w],
                      Alone(d, n, judged[w])
               PROVE  FALSE
    BY DEF MisfitIsExplained
  <2>1. n \in DOMAIN points[w] /\ Named(d, n)
    BY DEF ShownBy, Named
  <2>2. d.row \in Nat
    BY DEF ReportTypeOK, Definitions
  <2>3. d \in Meant(judged[w], n)
    BY <2>1, <2>2 DEF Meant, Alone
  <2>4. QED
    BY <2>1, <2>3 DEF Misfit, Shows, ChecksHold, Checked
<1>3. QED
  BY <1>1, <1>2, ReportTypeCorrect, ChecksStep, PTL DEF ReportSpec

=============================================================================
