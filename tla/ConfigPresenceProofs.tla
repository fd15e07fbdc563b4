------------------------ MODULE ConfigPresenceProofs -------------------------
(***************************************************************************)
(* Versions and envelopes of a device configuration (DeviceConfig), for    *)
(* any number of requests, parts and deletions, with and without faults;   *)
(* and what more would be true if the requests of a device did not overlap.*)
(*                                                                         *)
(* Then the scan that writes devices OFFLINE (Presence), for any number of *)
(* devices.  The two modules share no variable; each theorem is about the  *)
(* behaviours of one of the two specifications.                            *)
(***************************************************************************)
EXTENDS DeviceConfig, Presence, FiniteSetTheorems, TLAPS

\* The invariant without the two conjuncts that count or enumerate writes.
Core ==
    /\ TypeOK
    /\ WritersPlaced
    /\ WritesNumbered
    /\ LastWriterWins
    /\ EnvelopeIsOwn
    /\ NoneAhead
    /\ ReportedNotAhead

\* The values that stand for nothing are of the right type.
LEMMA NothingTyped == Empty \in Configs /\ NoRow \in Rows /\ NoRow.version = 0 /\ NoRow.reported = 0 /\ NoEnvelope \in Envelopes
<1>1. Empty \in Configs
    BY DEF Empty, Configs
<1> QED
    BY <1>1 DEF NoRow, Rows, NoEnvelope, Envelopes

LEMMA InitIInv == Init => IInv
<1> SUFFICES ASSUME Init PROVE IInv
    OBVIOUS
<1>1. TypeOK
  <2>1. row \in Rows /\ envelope \in [Requests -> Envelopes] /\ retained \in Envelopes
    BY NothingTyped DEF Init
  <2>2. phase \in [Requests -> Phases] /\ payload \in [Requests -> Configs]
    BY NothingTyped DEF Init, Phases
  <2>3. deletes \in 0 .. MaxDeletes
    BY DeviceConfigAssumptions DEF Init
  <2> QED
    BY <2>1, <2>2, <2>3 DEF Init, TypeOK
<1>2. IsFiniteSet(writes)
    BY FS_EmptySet DEF Init
<1> QED
    BY <1>1, <1>2
       DEF Init, IInv, WritersPlaced, VersionsCountWrites, WritesNumbered, LastWriterWins,
           EnvelopeIsOwn, NoneAhead, ReportedNotAhead, NoEnvelope, NoRow

\* The UPDATE of a row that is there keeps it, first attempt or second.
LEMMA BumpKeeps ==
    ASSUME Core, NEW r \in Requests, row # NoRow, phase[r] \in {"update", "retry"}, Bump(r),
           phase' = [phase EXCEPT ![r] = "read"],
           UNCHANGED <<payload, envelope, sentVars, deviceVars, sets>>
    PROVE  Core'
<1>a. row \in Rows /\ row.version \in Nat \ {0}
    BY DEF Core, TypeOK, WritersPlaced, Rows
<1>b. IsFiniteSet(writes \cup {r})
    BY FS_AddElement DEF Core, WritersPlaced
<1>c. r \notin writes
    BY DEF Core, WritersPlaced
<1>1. /\ row' \in Rows
      /\ row' # NoRow
      /\ row'.version = row.version + 1
      /\ row'.payload = payload[r]
      /\ row'.reported = row.reported
  <2>1. row' = [version |-> row.version + 1, payload |-> payload[r], status |-> "pending",
                reported |-> row.reported]
    BY DEF Bump, NextVersion
  <2>2. payload[r] \in Configs
    BY DEF Core, TypeOK
  <2>3. row' \in Rows
    BY <1>a, <2>1, <2>2 DEF Rows
  <2>4. /\ row'.version = row.version + 1
        /\ row'.payload = payload[r]
        /\ row'.reported = row.reported
    BY <1>a, <2>1 DEF Rows
  <2> QED
    BY <1>a, <2>3, <2>4, NothingTyped
<1>2. /\ writes' = writes \cup {r}
      /\ wrote' = [wrote EXCEPT ![r] = row.version + 1]
    BY DEF Bump, NextVersion
<1>3. TypeOK'
    BY <1>a, <1>1, <1>2 DEF Core, TypeOK, Phases, sentVars, deviceVars
<1>4. WritersPlaced'
    BY <1>a, <1>b, <1>c, <1>1, <1>2 DEF Core, TypeOK, WritersPlaced
<1>5. WritesNumbered'
    BY <1>a, <1>c, <1>1, <1>2 DEF Core, TypeOK, WritesNumbered
<1>6. LastWriterWins'
    BY <1>a, <1>c, <1>1, <1>2 DEF Core, TypeOK, WritesNumbered, LastWriterWins
<1>7. EnvelopeIsOwn'
    BY <1>a, <1>c, <1>1, <1>2 DEF Core, TypeOK, EnvelopeIsOwn, sentVars, Envelopes
<1>8. NoneAhead' /\ ReportedNotAhead'
    BY <1>a, <1>1 DEF Core, TypeOK, NoneAhead, ReportedNotAhead, sentVars, deviceVars, Envelopes, Rows
<1> QED
    BY <1>3, <1>4, <1>5, <1>6, <1>7, <1>8 DEF Core

\* Every step keeps the core of the invariant, action by action.
LEMMA NextCore == Core /\ [Next]_vars => Core'
<1> SUFFICES ASSUME Core, [Next]_vars PROVE Core'
    OBVIOUS
<1>b. \A r \in Requests : IsFiniteSet(writes \cup {r}) /\ IsFiniteSet({r})
    BY FS_AddElement, FS_EmptySet, FS_Singleton DEF Core, WritersPlaced
<1>c. IsFiniteSet({})
    BY FS_EmptySet
<1> USE DeviceConfigAssumptions, NothingTyped, <1>b, <1>c
    DEF Core, TypeOK, WritersPlaced, WritesNumbered, LastWriterWins, EnvelopeIsOwn, NoneAhead,
        ReportedNotAhead, Rows, Configs, Envelopes, Phases, Advance,
        handlerVars, sentVars, deviceVars, historyVars
<1>1. ASSUME NEW r \in Requests, Save(r) PROVE Core'
    BY <1>1 DEF Save
<1>2. ASSUME NEW r \in Requests, NEW k \in Parts, Apply(r, k) PROVE Core'
    BY <1>2 DEF Apply
<1>3. ASSUME NEW r \in Requests, Update(r) PROVE Core'
  <2>1. CASE row # NoRow
    BY <1>3, <2>1, BumpKeeps DEF Update
  <2>2. CASE row = NoRow
    BY <1>3, <2>2 DEF Update
  <2> QED
    BY <2>1, <2>2
<1>4. ASSUME NEW r \in Requests, Insert(r) PROVE Core'
  <2>1. CASE row # NoRow \/ ~registered
    <3>1. /\ phase[r] = "insert"
          /\ phase' = [phase EXCEPT ![r] = "retry"]
          /\ UNCHANGED <<row, payload, envelope, sentVars, deviceVars, historyVars>>
      BY <1>4, <2>1 DEF Insert
    <3> QED
      BY <3>1
  <2>2. CASE row = NoRow /\ registered
    <3>1. /\ row' = [version |-> 1, payload |-> payload[r], status |-> "pending", reported |-> 0]
          /\ writes' = {r}
          /\ wrote' = [wrote EXCEPT ![r] = 1]
          /\ phase' = [phase EXCEPT ![r] = "read"]
          /\ UNCHANGED <<payload, envelope, sentVars, deviceVars, sets>>
      BY <1>4, <2>2 DEF Insert
    <3>2. TypeOK'
      <4>1. row' \in Rows
        BY <3>1
      <4>2. wrote' \in [Requests -> Nat] /\ phase' \in [Requests -> Phases] /\ writes' \in SUBSET Requests
        BY <3>1
      <4> HIDE DEF Rows, Phases, Configs, Envelopes
      <4> QED
        BY <3>1, <4>1, <4>2
    <3>5. WritersPlaced'
      <4>1. row'.version = 1 /\ row' # NoRow
        BY <3>1
      <4>2. IsFiniteSet(writes') /\ \A t \in writes' : t = r
        BY <3>1
      <4>3. phase'[r] = "read"
        BY <3>1
      <4> QED
        BY <4>1, <4>2, <4>3 DEF WritersPlaced
    <3>3. WritesNumbered' /\ LastWriterWins' /\ EnvelopeIsOwn'
      BY <3>1
    <3>4. NoneAhead' /\ ReportedNotAhead'
      BY <3>1, <2>2
    <3> QED
      BY <3>2, <3>3, <3>4, <3>5
  <2> QED
    BY <2>1, <2>2
<1>5. ASSUME NEW r \in Requests, Retry(r) PROVE Core'
  <2>1. CASE row # NoRow
    BY <1>5, <2>1, BumpKeeps DEF Retry
  <2>2. CASE row = NoRow
    BY <1>5, <2>2 DEF Retry
  <2> QED
    BY <2>1, <2>2
<1>6. ASSUME NEW r \in Requests, ReadBack(r) PROVE Core'
  <2>1. CASE row = NoRow
    BY <1>6, <2>1 DEF ReadBack, Sent
  <2>2. CASE row # NoRow
    <3>1. /\ phase[r] = "read"
          /\ phase' = [phase EXCEPT ![r] = "enqueue"]
          /\ envelope' = [envelope EXCEPT ![r] = [version |-> row.version, config |-> payload[r]]]
          /\ UNCHANGED <<row, payload, sentVars, deviceVars, historyVars>>
      BY <1>6, <2>2 DEF ReadBack, Sent
    <3>2. TypeOK' /\ WritersPlaced'
      BY <3>1
    <3>3. WritesNumbered' /\ LastWriterWins'
      BY <3>1
    <3>4. EnvelopeIsOwn'
      BY <3>1
    <3>5. NoneAhead' /\ ReportedNotAhead'
      BY <3>1
    <3> QED
      BY <3>2, <3>3, <3>4, <3>5
  <2> QED
    BY <2>1, <2>2
<1>7. ASSUME NEW r \in Requests, Enqueue(r) PROVE Core'
  <2>1. /\ phase[r] = "enqueue"
        /\ phase' = [phase EXCEPT ![r] = "publish"] \/ phase' = [phase EXCEPT ![r] = "failed"]
        /\ queued' = queued \/ queued' = queued \cup {envelope[r]}
        /\ phase'[r] = "publish" => queued' = queued \cup {envelope[r]}
        /\ UNCHANGED <<row, payload, envelope, retained, deviceVars, historyVars>>
    BY <1>7 DEF Enqueue
  <2>2. TypeOK' /\ WritersPlaced'
    <3>1. phase' \in [Requests -> Phases]
      BY <2>1
    <3> HIDE DEF Rows, Configs, Envelopes
    <3>2. queued' \in SUBSET Envelopes
      BY <2>1
    <3> QED
      BY <2>1, <3>1, <3>2
  <2>3. WritesNumbered' /\ LastWriterWins'
    BY <2>1
  <2>4. EnvelopeIsOwn'
    BY <2>1
  <2>5. NoneAhead' /\ ReportedNotAhead'
    BY <2>1
  <2> QED
    BY <2>2, <2>3, <2>4, <2>5
<1>8. ASSUME NEW r \in Requests, Publish(r) PROVE Core'
    BY <1>8 DEF Publish
<1>9. ASSUME NEW r \in Requests, Fail(r) PROVE Core'
    BY <1>9 DEF Fail
<1>10. ASSUME NEW e \in queued \cup {retained}, Report(e) PROVE Core'
    BY <1>10 DEF Report, Acknowledged
<1>11. CASE DeleteConfig
  <2>1. /\ deletes' = deletes + 1 /\ deletes' \in 0 .. MaxDeletes
        /\ deleting' = TRUE
        /\ (row' = NoRow /\ writes' = {}) \/ UNCHANGED <<row, writes>>
        /\ UNCHANGED <<handlerVars, sentVars, registered, wrote, sets>>
    BY <1>11 DEF DeleteConfig, DropRow
  <2>2. TypeOK' /\ WritersPlaced'
    BY <2>1
  <2>3. WritesNumbered' /\ LastWriterWins' /\ EnvelopeIsOwn'
    BY <2>1
  <2>4. NoneAhead' /\ ReportedNotAhead'
    BY <2>1
  <2> QED
    BY <2>2, <2>3, <2>4
<1>12. CASE DeleteDevice
    BY <1>12 DEF DeleteDevice, DropRow
<1>13. CASE Reregister
    BY <1>13 DEF Reregister
<1>14. CASE UNCHANGED vars
    BY <1>14 DEF vars
<1> HIDE DEF Core
<1> QED
    BY <1>1, <1>2, <1>3, <1>4, <1>5, <1>6, <1>7, <1>8, <1>9, <1>10, <1>11, <1>12, <1>13, <1>14
    DEF Next, Handle

\* Every step keeps the count of the writes.
LEMMA NextCounts == Core /\ VersionsCountWrites /\ [Next]_vars => VersionsCountWrites'
<1> SUFFICES ASSUME Core, VersionsCountWrites, [Next]_vars PROVE VersionsCountWrites'
    OBVIOUS
\* An UPDATE adds one to both.
<1>1. ASSUME NEW r \in Requests, row # NoRow, phase[r] \in {"update", "retry"}, Bump(r)
      PROVE  VersionsCountWrites'
  <2>1. /\ IsFiniteSet(writes) /\ r \notin writes /\ writes \subseteq Requests
        /\ row.version \in Nat
        /\ row.version = Cardinality(writes)
        /\ \A v \in 1 .. row.version : \E t \in writes : wrote[t] = v
    BY <1>1 DEF Core, TypeOK, Rows, WritersPlaced, VersionsCountWrites
  <2>2. /\ row'.version = row.version + 1
        /\ writes' = writes \cup {r}
        /\ wrote' = [wrote EXCEPT ![r] = row.version + 1]
    BY <1>1 DEF Bump, NextVersion
  <2>3. Cardinality(writes') = row'.version
    <3>1. IsFiniteSet(writes) /\ r \notin writes
      BY <2>1
    <3>2. Cardinality(writes \cup {r}) = Cardinality(writes) + 1
      BY ONLY <3>1, FS_AddElement
    <3> QED
      BY <3>2, <2>1, <2>2
  <2>4. ASSUME NEW v \in 1 .. row'.version PROVE \E t \in writes' : wrote'[t] = v
    <3>1. CASE v = row.version + 1
      BY <3>1, <2>1, <2>2 DEF Core, TypeOK
    <3>2. CASE v \in 1 .. row.version
      <4>1. PICK t \in writes : wrote[t] = v
        BY <3>2, <2>1
      <4>2. t # r /\ t \in writes' /\ wrote'[t] = v
        BY <4>1, <2>1, <2>2 DEF Core, TypeOK
      <4> QED
        BY <4>2
    <3> QED
      BY <3>1, <3>2, <2>1, <2>2
  <2> QED
    BY <2>3, <2>4 DEF VersionsCountWrites
\* An INSERT starts both at one.
<1>2. ASSUME NEW r \in Requests, row'.version = 1, writes' = {r}, wrote' = [wrote EXCEPT ![r] = 1]
      PROVE  VersionsCountWrites'
  <2>1. Cardinality({r}) = 1
    BY FS_Singleton
  <2>2. wrote'[r] = 1
    BY <1>2 DEF Core, TypeOK
  <2> QED
    BY <1>2, <2>1, <2>2 DEF VersionsCountWrites
<1>3. ASSUME row' = NoRow PROVE VersionsCountWrites'
    BY <1>3 DEF VersionsCountWrites
\* Everything else leaves the version and the writes alone.
<1>4. ASSUME row'.version = row.version, row = NoRow => row' = NoRow, UNCHANGED <<writes, wrote>>
      PROVE  VersionsCountWrites'
    BY <1>4 DEF VersionsCountWrites
<1> DEFINE Same == row'.version = row.version /\ (row = NoRow => row' = NoRow) /\ UNCHANGED <<writes, wrote>>
<1>5. ASSUME NEW r \in Requests, Update(r) \/ Retry(r) PROVE VersionsCountWrites'
  <2>1. CASE row # NoRow
    BY <1>5, <1>1, <2>1 DEF Update, Retry, Advance
  <2>2. CASE row = NoRow
    BY <1>5, <1>4, <2>2 DEF Update, Retry
  <2> QED
    BY <2>1, <2>2
<1>6. ASSUME NEW r \in Requests, Insert(r) PROVE VersionsCountWrites'
  <2>1. CASE row = NoRow /\ registered
    BY <1>6, <1>2, <2>1 DEF Insert
  <2>2. CASE row # NoRow \/ ~registered
    BY <1>6, <1>4, <2>2 DEF Insert
  <2> QED
    BY <2>1, <2>2
<1>7. ASSUME NEW r \in Requests,
             Save(r) \/ (\E k \in Parts : Apply(r, k)) \/ ReadBack(r) \/ Enqueue(r) \/ Publish(r) \/ Fail(r)
      PROVE  Same
    BY <1>7 DEF Save, Apply, ReadBack, Sent, Enqueue, Publish, Fail, historyVars
<1>8. ASSUME NEW e \in queued \cup {retained}, Report(e) PROVE Same
    BY <1>8 DEF Report, Acknowledged, historyVars
<1>9. CASE DeleteConfig \/ DeleteDevice
    BY <1>9, <1>3, <1>4 DEF DeleteConfig, DeleteDevice, DropRow
<1>10. CASE Reregister \/ UNCHANGED vars
    BY <1>10, <1>4 DEF Reregister, vars, historyVars
<1> QED
    BY <1>4, <1>5, <1>6, <1>7, <1>8, <1>9, <1>10 DEF Next, Handle

-----------------------------------------------------------------------------

\* The inductive invariant holds in every reachable state.
THEOREM Invariance == Spec => []IInv
<1>1. IInv <=> Core /\ VersionsCountWrites
    BY DEF IInv, Core
<1> QED
    BY InitIInv, NextCore, NextCounts, <1>1, PTL DEF Spec

\* The state is well typed in every reachable state.
THEOREM TypeCorrect == Spec => []TypeOK
<1>1. IInv => TypeOK
    BY DEF IInv
<1> QED
    BY Invariance, <1>1, PTL

\* Concurrent first and later writes never share a version, and none is skipped.
THEOREM VersionsAreDistinct == Spec => []VersionsCountWrites
<1>1. IInv => VersionsCountWrites
    BY DEF IInv
<1> QED
    BY Invariance, <1>1, PTL

\* No request sends an envelope older than its own write.
THEOREM NoEnvelopeBehind == Spec => []EnvelopeNotBehind
<1>1. IInv => EnvelopeNotBehind
  <2> SUFFICES ASSUME IInv, NEW r \in writes, phase[r] \in {"enqueue", "publish", "done"}
               PROVE  envelope[r].version >= wrote[r]
    BY DEF EnvelopeNotBehind
  <2>1. envelope[r].version \in wrote[r] .. row.version /\ wrote[r] \in Nat /\ row.version \in Nat
    BY DEF IInv, EnvelopeIsOwn, TypeOK, Rows
  <2> QED
    BY <2>1
<1> QED
    BY Invariance, <1>1, PTL

\* Once its writer is past EnqueueCmd, the configuration in the database is in the
\* device's queue, under its version.
THEOREM LatestReachesQueue == Spec => []LatestIsQueued
<1>1. IInv => LatestIsQueued
  <2> SUFFICES ASSUME IInv, NEW r \in writes, wrote[r] = row.version, phase[r] \in {"publish", "done"}
               PROVE  [version |-> row.version, config |-> row.payload] \in queued
    BY DEF LatestIsQueued
  <2>1. /\ envelope[r] \in queued
        /\ envelope[r].config = row.payload
        /\ envelope[r].version = row.version
    BY DEF IInv, TypeOK, Rows, EnvelopeIsOwn, LastWriterWins
  <2>2. envelope[r] \in Envelopes
    BY DEF IInv, TypeOK
  <2>3. envelope[r] = [version |-> row.version, config |-> row.payload]
    BY <2>1, <2>2 DEF Envelopes
  <2> QED
    BY <2>1, <2>3
<1> QED
    BY Invariance, <1>1, PTL

\* Before a deletion the device never reports a version ahead of the row.
THEOREM NoReportAhead == Spec => []ReportedNotAhead
<1>1. IInv => ReportedNotAhead
    BY DEF IInv
<1> QED
    BY Invariance, <1>1, PTL

-----------------------------------------------------------------------------
(* What handling the requests of a device one at a time would guarantee.  The statements at the
   end of DeviceConfig fail only when two requests overlap, or the device is deleted. *)

Busy(r) == phase[r] \notin {"new", "done", "failed"}

OneAtATime == deletes = 0 /\ \A r, q \in Requests : Busy(r) /\ Busy(q) => r = q

\* The row is the one the request under way has written.
RowIsMine ==
    \A r \in Requests : phase[r] \in {"read", "enqueue", "publish"} =>
        r \in writes /\ wrote[r] = row.version

Own(r) == [version |-> wrote[r], config |-> payload[r]]

\* What was sent is the version of a writer with the configuration of that writer.
SentByWriter ==
    /\ \A e \in queued : \E r \in writes : e = Own(r)
    /\ \A r \in Requests : phase[r] \in {"enqueue", "publish"} => envelope[r] = Own(r)

\* A request about to write holds the row, but for what it was asked to set.
ReadIsCurrent ==
    \A r \in Requests : phase[r] \in {"update", "insert", "retry"} =>
        \A k \in Parts \ sets[r] : payload[r][k] = row.payload[k]

SetIsOwn == \A r \in Requests : phase[r] # "new" => \A k \in sets[r] : payload[r][k] = r

\* The retained message is the newest version, or a request will publish that.
RetainedFollows ==
    \/ row = NoRow \/ retained.version = row.version
    \/ \E r \in Requests : phase[r] \in {"read", "enqueue", "publish"}

SerialInv ==
    /\ RowIsMine /\ SentByWriter /\ ReadIsCurrent /\ SetIsOwn /\ PartsSurvive
    /\ ~Faults => RetainedFollows

\* The initial states satisfy it.
LEMMA SerialInit == Init => SerialInv
BY DEF Init, SerialInv, RowIsMine, SentByWriter, ReadIsCurrent, SetIsOwn, PartsSurvive,
       RetainedFollows

\* A write keeps it: the writer holds the row of before, and nobody else is under way.
LEMMA SerialWrite ==
    ASSUME Core, Core', OneAtATime, SerialInv, NEW r \in Requests,
           phase[r] \in {"update", "insert", "retry"}, phase' = [phase EXCEPT ![r] = "read"],
           row'.payload = payload[r], row' # NoRow, writes' = writes \cup {r},
           wrote' = [wrote EXCEPT ![r] = row'.version],
           UNCHANGED <<payload, envelope, sentVars, deviceVars, sets>>
    PROVE  SerialInv'
<1>1. /\ \A q \in Requests \ {r} : ~Busy(q) /\ phase'[q] = phase[q] /\ wrote'[q] = wrote[q]
      /\ phase'[r] = "read" /\ wrote'[r] = row'.version /\ r \notin writes
    BY DEF OneAtATime, Busy, Core, TypeOK, WritersPlaced
<1>2. RowIsMine'
    BY <1>1 DEF RowIsMine, Busy
<1>3. SentByWriter'
  <2>1. \A q \in writes : Own(q)' = Own(q)
    BY <1>1 DEF Own, Core, WritersPlaced, TypeOK
  <2>2. \A e \in queued' : \E q \in writes' : e = Own(q)'
    BY <2>1 DEF SerialInv, SentByWriter, sentVars
  <2>3. \A q \in Requests : phase'[q] \notin {"enqueue", "publish"}
    BY <1>1 DEF Busy
  <2> QED
    BY <2>2, <2>3 DEF SentByWriter
<1>4. ReadIsCurrent' /\ (~Faults => RetainedFollows')
    BY <1>1 DEF ReadIsCurrent, RetainedFollows, Busy
<1>5. SetIsOwn'
    BY <1>1 DEF SerialInv, SetIsOwn
<1>6. PartsSurvive'
  <2> SUFFICES ASSUME NEW w \in writes', NEW k \in sets[w],
                      \A t \in writes' \ {w} : k \notin sets[t]
               PROVE  row'.payload[k] = w
    BY DEF PartsSurvive
  <2>1. CASE w = r
    BY <2>1 DEF SerialInv, SetIsOwn
  <2>2. CASE w # r
    <3>1. w \in writes /\ k \in Parts \ sets[r]
      BY <1>1, <2>2 DEF Core, TypeOK
    <3>2. row.payload[k] = w
      BY <3>1 DEF SerialInv, PartsSurvive
    <3> QED
      BY <3>1, <3>2 DEF SerialInv, ReadIsCurrent
  <2> QED
    BY <2>1, <2>2
<1> QED
    BY <1>2, <1>3, <1>4, <1>5, <1>6 DEF SerialInv

\* A step that writes no row and hands out no envelope keeps it, if a request that begins
\* has the row it read and one that ends leaves nothing to publish.
LEMMA SerialRest ==
    ASSUME Core, SerialInv, row'.version = row.version, row'.payload = row.payload,
           row = NoRow <=> row' = NoRow, UNCHANGED <<writes, wrote, payload, envelope, sets>>,
           \A e \in queued' \ queued : \E q \in writes : e = Own(q),
           \A q \in Requests : phase'[q] # "new" => phase[q] # "new",
           \A q \in Requests : phase'[q] \in {"read", "enqueue", "publish"} =>
                                   phase[q] \in {"read", "enqueue", "publish"},
           \A q \in Requests : phase'[q] \in {"enqueue", "publish"} => phase[q] \in {"enqueue", "publish"},
           \A q \in Requests : phase'[q] \in {"update", "insert", "retry"} =>
                                   phase[q] \in {"update", "insert", "retry"},
           ~Faults => RetainedFollows'
    PROVE  SerialInv'
<1>0. \A q : Own(q)' = Own(q)
    BY DEF Own
<1>1. RowIsMine' /\ SetIsOwn'
    BY DEF SerialInv, RowIsMine, SetIsOwn
<1>2. SentByWriter'
    BY <1>0 DEF SerialInv, SentByWriter
<1>3. ReadIsCurrent' /\ PartsSurvive'
    BY DEF SerialInv, ReadIsCurrent, PartsSurvive
<1> QED
    BY <1>1, <1>2, <1>3 DEF SerialInv

\* Every step keeps it, action by action.
LEMMA SerialStep ==
    ASSUME Core, Core', OneAtATime, OneAtATime', SerialInv, [Next]_vars
    PROVE  SerialInv'
<1>t. /\ phase \in [Requests -> Phases] /\ payload \in [Requests -> Configs]
      /\ envelope \in [Requests -> Envelopes] /\ sets \in [Requests -> SUBSET Parts]
      /\ row \in Rows /\ wrote \in [Requests -> Nat] /\ retained \in Envelopes
    BY DEF Core, TypeOK
<1>d. deletes = 0 /\ deletes' = 0 /\ registered /\ ~deleting
    BY DEF OneAtATime, Core, NoneAhead
<1>r. RetainedFollows \/ Faults
    BY DEF SerialInv
\* A request that begins: nobody else is under way.
<1>b. ASSUME NEW r \in Requests, phase[r] = "new", phase' = [phase EXCEPT ![r] = "update"],
             NEW p \in Configs, NEW s \in SUBSET Parts,
             payload' = [payload EXCEPT ![r] = p], sets' = [sets EXCEPT ![r] = s],
             \A k \in s : p[k] = r, \A k \in Parts \ s : p[k] = row.payload[k],
             UNCHANGED <<row, envelope, sentVars, deviceVars, writes, wrote>>
      PROVE  SerialInv'
  <2>1. /\ phase'[r] = "update" /\ payload'[r] = p /\ sets'[r] = s
        /\ \A q \in Requests \ {r} : phase'[q] = phase[q] /\ payload'[q] = payload[q] /\ sets'[q] = sets[q]
    BY <1>t, <1>b
  <2>2. r \notin writes /\ writes \subseteq Requests
    BY <1>b DEF Core, TypeOK, WritersPlaced
  <2>3. \A q \in Requests \ {r} : Own(q)' = Own(q)
    BY <1>b, <2>1 DEF Own
  <2>4. RowIsMine' /\ SetIsOwn'
    BY <1>b, <2>1 DEF SerialInv, RowIsMine, SetIsOwn
  <2>5. SentByWriter'
    BY <1>b, <2>1, <2>2, <2>3 DEF SerialInv, SentByWriter, sentVars
  <2>6. ReadIsCurrent'
    BY <1>b, <2>1 DEF SerialInv, ReadIsCurrent
  <2>7. PartsSurvive'
    BY <1>b, <2>1, <2>2 DEF SerialInv, PartsSurvive
  <2>8. ~Faults => RetainedFollows'
    BY <1>b, <1>r, <2>1 DEF RetainedFollows, sentVars
  <2> QED
    BY <2>4, <2>5, <2>6, <2>7, <2>8 DEF SerialInv
<1>1. ASSUME NEW r \in Requests, Save(r) PROVE SerialInv'
  <2>1. [k \in Parts |-> r] \in Configs
    BY DEF Configs
  <2> QED
    BY <1>1, <1>b, <2>1 DEF Save, Advance
<1>2. ASSUME NEW r \in Requests, NEW k \in Parts, Apply(r, k) PROVE SerialInv'
  <2> DEFINE p == [row.payload EXCEPT ![k] = r]
  <2>1. /\ p \in Configs /\ {k} \in SUBSET Parts
        /\ \A j \in {k} : p[j] = r
        /\ \A j \in Parts \ {k} : p[j] = row.payload[j]
    BY <1>t DEF Rows, Configs
  <2>2. /\ phase[r] = "new" /\ phase' = [phase EXCEPT ![r] = "update"]
        /\ payload' = [payload EXCEPT ![r] = p] /\ sets' = [sets EXCEPT ![r] = {k}]
        /\ UNCHANGED <<row, envelope, sentVars, deviceVars, writes, wrote>>
    BY <1>2 DEF Apply, Advance
  <2> HIDE DEF p
  <2> QED
    BY <1>b, <2>1, <2>2
<1>w. ASSUME NEW r \in Requests, phase[r] \in {"update", "retry"}, row # NoRow, Bump(r),
             phase' = [phase EXCEPT ![r] = "read"],
             UNCHANGED <<payload, envelope, sentVars, deviceVars, sets>>
      PROVE  SerialInv'
  <2>1. /\ row'.payload = payload[r] /\ row'.version = row.version + 1
        /\ writes' = writes \cup {r} /\ wrote' = [wrote EXCEPT ![r] = row'.version]
    BY <1>w DEF Bump, NextVersion
  <2>2. row' # NoRow
    BY <1>t, <2>1 DEF NoRow, Rows
  <2> QED
    BY <1>w, <2>1, <2>2, SerialWrite
\* Nothing is written, or a request gives up: what is there stays, and the row of before.
<1>3. ASSUME NEW r \in Requests, Update(r) \/ Retry(r) PROVE SerialInv'
  <2>1. CASE row # NoRow
    BY <1>3, <1>w, <2>1 DEF Update, Retry, Advance
  <2>2. CASE row = NoRow
    <3>1. /\ UNCHANGED <<row, writes, wrote, payload, envelope, sets, queued>>
          /\ \A q \in Requests : q # r => phase'[q] = phase[q]
          /\ phase[r] \in {"update", "retry"} /\ phase'[r] \in {"insert", "failed"}
      BY <1>t, <1>3, <2>2 DEF Update, Retry, Advance, sentVars
    <3>2. RetainedFollows'
      BY <2>2, <3>1 DEF RetainedFollows
    <3> QED
      BY <3>1, <3>2, SerialRest
  <2> QED
    BY <2>1, <2>2
<1>4. ASSUME NEW r \in Requests, Insert(r) PROVE SerialInv'
  <2>1. CASE row = NoRow
    <3>1. /\ phase[r] = "insert" /\ phase' = [phase EXCEPT ![r] = "read"]
          /\ row'.payload = payload[r] /\ row'.version = 1 /\ writes' = {r}
          /\ wrote' = [wrote EXCEPT ![r] = 1]
          /\ UNCHANGED <<payload, envelope, sentVars, deviceVars, sets>>
      BY <1>4, <1>d, <2>1 DEF Insert, Advance
    <3>2. writes = {} /\ row' # NoRow
      BY <2>1, <3>1 DEF Core, WritersPlaced, NoRow
    <3> QED
      BY <3>1, <3>2, SerialWrite
  <2>2. CASE row # NoRow
    <3>1. /\ UNCHANGED <<row, writes, wrote, payload, envelope, sets, queued, retained>>
          /\ \A q \in Requests : q # r => phase'[q] = phase[q]
          /\ phase[r] = "insert" /\ phase'[r] = "retry"
      BY <1>t, <1>4, <2>2 DEF Insert, Advance, sentVars
    <3>2. ~Faults => RetainedFollows'
      BY <1>r, <3>1 DEF RetainedFollows
    <3> QED
      BY <3>1, <3>2, SerialRest
  <2> QED
    BY <2>1, <2>2
<1>5. ASSUME NEW r \in Requests, ReadBack(r) PROVE SerialInv'
  <2>1. phase[r] = "read" /\ r \in writes /\ wrote[r] = row.version /\ row # NoRow
    BY <1>5 DEF ReadBack, Advance, SerialInv, RowIsMine, Core, WritersPlaced
  <2>2. /\ phase' = [phase EXCEPT ![r] = "enqueue"]
        /\ envelope' = [envelope EXCEPT ![r] = Own(r)]
        /\ UNCHANGED <<row, payload, queued, retained, writes, wrote, sets>>
    BY <1>5, <2>1 DEF ReadBack, Advance, Sent, Own, sentVars, historyVars
  <2>3. /\ phase'[r] = "enqueue" /\ envelope'[r] = Own(r)
        /\ \A q \in Requests \ {r} : phase'[q] = phase[q] /\ envelope'[q] = envelope[q]
    BY <1>t, <2>2
  <2>4. \A q : Own(q)' = Own(q)
    BY <2>2 DEF Own
  <2>5. RowIsMine' /\ SetIsOwn'
    BY <2>1, <2>2, <2>3 DEF SerialInv, RowIsMine, SetIsOwn
  <2>6. SentByWriter'
    BY <2>2, <2>3, <2>4 DEF SerialInv, SentByWriter
  <2>7. ReadIsCurrent' /\ PartsSurvive' /\ RetainedFollows'
    BY <2>2, <2>3 DEF SerialInv, ReadIsCurrent, PartsSurvive, RetainedFollows
  <2> QED
    BY <2>5, <2>6, <2>7 DEF SerialInv
<1>6. ASSUME NEW r \in Requests, Enqueue(r) PROVE SerialInv'
  <2>1. /\ UNCHANGED <<row, writes, wrote, payload, envelope, sets, retained>>
        /\ queued' \subseteq queued \cup {envelope[r]}
        /\ \A q \in Requests : q # r => phase'[q] = phase[q]
        /\ phase[r] = "enqueue" /\ phase'[r] \in {"publish", "failed"}
        /\ ~Faults => phase'[r] = "publish"
    BY <1>t, <1>6 DEF Enqueue, Advance, historyVars
  <2>2. r \in writes /\ envelope[r] = Own(r)
    BY <2>1 DEF SerialInv, RowIsMine, SentByWriter
  <2>3. ~Faults => RetainedFollows'
    BY <2>1 DEF RetainedFollows
  <2> QED
    BY <2>1, <2>2, <2>3, SerialRest
<1>7. ASSUME NEW r \in Requests, Publish(r) PROVE SerialInv'
  <2>1. /\ UNCHANGED <<row, writes, wrote, payload, envelope, sets, queued>>
        /\ \A q \in Requests : q # r => phase'[q] = phase[q]
        /\ phase[r] = "publish" /\ phase'[r] = "done"
        /\ ~Faults => retained' = envelope[r]
    BY <1>t, <1>7 DEF Publish, Advance, historyVars
  <2>2. wrote[r] = row.version /\ envelope[r] = Own(r)
    BY <2>1 DEF SerialInv, RowIsMine, SentByWriter
  <2>3. ~Faults => RetainedFollows'
    BY <2>1, <2>2 DEF RetainedFollows, Own
  <2> QED
    BY <2>1, <2>3, SerialRest
<1>8. ASSUME NEW r \in Requests, Fail(r) PROVE SerialInv'
  <2>1. /\ Faults /\ UNCHANGED <<row, writes, wrote, payload, envelope, sets, queued>>
        /\ \A q \in Requests : q # r => phase'[q] = phase[q]
        /\ phase[r] # "new" /\ phase'[r] = "failed"
    BY <1>t, <1>8 DEF Fail, sentVars, historyVars
  <2> QED
    BY <2>1, SerialRest
\* A report acknowledges the row, whose version and configuration stay.
<1>9. ASSUME NEW e \in queued \cup {retained}, Report(e) PROVE SerialInv'
  <2>1. /\ row'.version = row.version /\ row'.payload = row.payload /\ row # NoRow
        /\ UNCHANGED <<writes, wrote, payload, envelope, sets, queued, retained, phase>>
    BY <1>9 DEF Report, Acknowledged, handlerVars, sentVars, historyVars
  <2>2. row' # NoRow
    BY <2>1 DEF Core, WritersPlaced, NoRow
  <2>3. ~Faults => RetainedFollows'
    BY <1>r, <2>1 DEF RetainedFollows
  <2> QED
    BY <2>1, <2>2, <2>3, SerialRest
<1>10. CASE DeleteConfig \/ DeleteDevice \/ Reregister
    BY <1>d, <1>10 DEF DeleteConfig, DeleteDevice, Reregister
<1>11. CASE UNCHANGED vars
  <2>1. UNCHANGED <<row, writes, wrote, payload, envelope, sets, queued, retained, phase>>
    BY <1>11 DEF vars, handlerVars, sentVars, historyVars
  <2>2. ~Faults => RetainedFollows'
    BY <1>r, <2>1 DEF RetainedFollows
  <2> QED
    BY <2>1, <2>2, SerialRest
<1> QED
    BY <1>1, <1>2, <1>3, <1>4, <1>5, <1>6, <1>7, <1>8, <1>9, <1>10, <1>11 DEF Next, Handle

\* Nothing is undone: a version names one configuration, a part that only one request set
\* keeps what it set, and, if nothing fails, the retained message is the newest version once
\* the requests have ended.
NothingUndone == OneConfigPerVersion /\ PartsSurvive /\ (~Faults => RetainedIsLatest)

\* Save and Apply: if the requests of a device were handled one at a time, by a lock held from
\* the read of the configuration to its publication, and the device is not deleted, a version
\* would name one configuration (service line 77), no part would be undone (repository line 45),
\* and without failures the retained message would be the latest (service line 101): for any
\* number of requests and parts.
THEOREM OneAtATimeSuffices == Spec /\ []OneAtATime => []NothingUndone
<1>1. Core /\ SerialInv => NothingUndone
  <2> SUFFICES ASSUME Core, SerialInv PROVE NothingUndone
    OBVIOUS
  <2>1. OneConfigPerVersion
    BY DEF SerialInv, SentByWriter, Own, Core, WritesNumbered, OneConfigPerVersion
  <2>2. ~Faults => RetainedIsLatest
    BY DEF SerialInv, RetainedFollows, RetainedIsLatest
  <2> QED
    BY <2>1, <2>2 DEF SerialInv, NothingUndone
<1>2. Init => Core
    BY InitIInv DEF IInv, Core
<1> QED
    BY <1>1, <1>2, SerialInit, SerialStep, NextCore, PTL DEF Spec

-----------------------------------------------------------------------------
(* The scan for devices that fell silent (Presence): nobody who is connected is its victim.  By
   induction with PresenceInv. *)

\* The initial states satisfy the inductive invariant.
LEMMA PresenceInitInv == PresenceInit => PresenceInv
BY PresenceAssumptions
   DEF PresenceInit, PresenceInv, PresenceTypeOK, ScanIsIdle, ScanHasDevice, SteadyNotMarked,
       Status, Hashes, Updates, Nothing

\* What is written to Redis is a hash: a status just set, an older one, or none.
LEMMA HashTypes ==
    /\ \A s \in Status : Now(s) \in Hashes
    /\ \A h \in Hashes : h.fresh => [status |-> h.status, fresh |-> FALSE] \in Hashes
    /\ NoHash \in Hashes
BY DEF Now, Hashes, Status, NoHash

\* CacheDeviceStatus keeps the types of what it writes.
LEMMA CacheDeviceStatusType ==
    ASSUME PresenceTypeOK, NEW d \in Devices, NEW s \in Status, CacheDeviceStatus(d, s)
    PROVE  /\ redis' \in [Devices -> Hashes] /\ faults' \in 0 .. MaxFaults
           /\ local' \in [Devices -> Status \cup {"none"}]
           /\ UNCHANGED reading
<1>1. Now(s) \in Hashes
    BY HashTypes
<1> QED
    BY <1>1, PresenceAssumptions DEF PresenceTypeOK, CacheDeviceStatus, Faulty, Sound

\* Every step keeps the inductive invariant, action by action.
LEMMA PresenceStep == PresenceInv /\ [PresenceNext]_presenceVars => PresenceInv'
<1> SUFFICES ASSUME PresenceInv, [PresenceNext]_presenceVars PROVE PresenceInv'
    OBVIOUS
<1> USE PresenceAssumptions
    DEF PresenceInv, PresenceTypeOK, ScanIsIdle, ScanHasDevice, SteadyNotMarked, Updates,
        storeVars, linkVars, flushVars, scanVars, viewVars, Faulty, Sound
<1>1. ASSUME NEW d \in Devices, Link(d) PROVE PresenceInv'
    BY <1>1 DEF Link
<1>2. ASSUME NEW d \in Devices, Announce(d) PROVE PresenceInv'
    BY <1>2 DEF Announce, Status
<1>3. ASSUME NEW d \in Devices, Unlink(d) PROVE PresenceInv'
    BY <1>3 DEF Unlink, Status
<1>4. ASSUME NEW u \in updates, UpdatePG(u) PROVE PresenceInv'
    BY <1>4 DEF UpdatePG, Status
<1>5. ASSUME NEW u \in updates, UpdateRedis(u) PROVE PresenceInv'
  <2>1. u.device \in Devices /\ u.status \in Status
    OBVIOUS
  <2>2. CacheDeviceStatus(u.device, u.status)
    BY <1>5 DEF UpdateRedis
  <2>3. /\ redis' \in [Devices -> Hashes] /\ faults' \in 0 .. MaxFaults
        /\ local' \in [Devices -> Status \cup {"none"}]
        /\ UNCHANGED reading
    BY <2>1, <2>2, CacheDeviceStatusType
  <2> QED
    BY <1>5, <2>3 DEF UpdateRedis
<1>6. ASSUME NEW d \in Devices, Beat(d) PROVE PresenceInv'
  <2>1. /\ redis' \in [Devices -> Hashes] /\ faults' \in 0 .. MaxFaults
        /\ local' \in [Devices -> Status \cup {"none"}]
        /\ UNCHANGED reading
    BY <1>6, CacheDeviceStatusType DEF Beat, Status
  <2> QED
    BY <1>6, <2>1 DEF Beat
<1>7. ASSUME NEW d \in Devices, FlushWrite(d) PROVE PresenceInv'
    BY <1>7 DEF FlushWrite, Status
<1>8. ASSUME NEW d \in Devices, Age(d) PROVE PresenceInv'
    BY <1>8, HashTypes DEF Age
<1>9. ASSUME NEW d \in Devices, Expire(d) PROVE PresenceInv'
    BY <1>9, HashTypes DEF Expire
<1>10. CASE FlushStart
    BY <1>10 DEF FlushStart
\* A scan that begins has neither asked about a device nor found one silent.
<1>11. CASE ScanList
    BY <1>11 DEF ScanList, ScanOver
\* A device the checker does not vouch for is not linked now, hence not steady.
<1>12. ASSUME NEW d \in Devices, ScanCheck(d) PROVE PresenceInv'
    BY <1>12 DEF ScanCheck, Vouched
<1>13. CASE ScanRead
    BY <1>13 DEF ScanRead, ScanOver
<1>14. CASE ScanNext
    BY <1>14 DEF ScanNext, ScanOver
<1>15. CASE MarkRedis
  <2>1. at \in Devices
    BY <1>15 DEF MarkRedis
  <2>2. /\ redis' \in [Devices -> Hashes] /\ faults' \in 0 .. MaxFaults
        /\ local' \in [Devices -> Status \cup {"none"}]
        /\ UNCHANGED reading
    BY <1>15, <2>1, CacheDeviceStatusType DEF MarkRedis, Status
  <2> QED
    BY <1>15, <2>1, <2>2 DEF MarkRedis
<1>16. CASE MarkPG
    BY <1>16 DEF MarkPG, Status
<1>17. CASE Restart
    BY <1>17 DEF Restart, ScanOver, Nothing
<1>18. CASE UNCHANGED presenceVars
    BY <1>18 DEF presenceVars
\* A status read from the hash is one, since the hash was there.
<1>19. ASSUME NEW d \in Devices, ReadHash(d) PROVE PresenceInv'
  <2>1. redis[d].status \in Status
    BY <1>19 DEF ReadHash, Hashes, NoHash
  <2> QED
    BY <1>19, <2>1 DEF ReadHash, notViewVars
<1>20. ASSUME NEW d \in Devices, FillLocal(d) PROVE PresenceInv'
    BY <1>20 DEF FillLocal, notViewVars
<1>21. ASSUME NEW d \in Devices, ExpireLocal(d) PROVE PresenceInv'
    BY <1>21 DEF ExpireLocal, notViewVars
<1> HIDE DEF PresenceInv
<1> QED
    BY <1>1, <1>2, <1>3, <1>4, <1>5, <1>6, <1>7, <1>8, <1>9, <1>10, <1>11, <1>12, <1>13, <1>14,
       <1>15, <1>16, <1>17, <1>18, <1>19, <1>20, <1>21
    DEF PresenceNext, Scan

\* The inductive invariant holds in every reachable state.
THEOREM PresenceInvariance ==
    PresenceSpec => []PresenceInv
BY PresenceInitInv, PresenceStep, PTL DEF PresenceSpec

\* Every variable keeps its type.
THEOREM PresenceTypeCorrect ==
    PresenceSpec => []PresenceTypeOK
<1>1. PresenceInv => PresenceTypeOK
    BY DEF PresenceInv
<1> QED
    BY <1>1, PresenceInvariance, PTL

\* syncOnce: a device that stays connected all through a scan is not put OFFLINE
\* by it.
THEOREM NoConnectedVictim ==
    PresenceSpec => []SteadyNotMarked
<1>1. PresenceInv => SteadyNotMarked
    BY DEF PresenceInv
<1> QED
    BY <1>1, PresenceInvariance, PTL

=============================================================================
