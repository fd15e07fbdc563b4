-------------------------- MODULE GatewayCacheProofs --------------------------
(***************************************************************************)
(* The safety of the MQTT gateway's registries, for any number of devices, *)
(* users, connections and tokens, and with or without store failures.      *)
(*                                                                         *)
(* Then the two-level cache (DeviceCache), for any number of instances,    *)
(* readers and writers, and what would keep it true.  The two modules      *)
(* share no variable; each theorem is about one specification.             *)
(***************************************************************************)
EXTENDS MqttGateway, DeviceCache, TLAPS

\* The initial states satisfy the inductive invariant.
LEMMA InitIInv == Init => IInv
<1> SUFFICES ASSUME Init PROVE IInv
    OBVIOUS
<1>1. TypeOK
    BY GatewayAssumptions
       DEF Init, TypeOK, Principals, Status, HandlerPhases, PumpPhases, Tokens, NoToken
<1>2. PhasesAgree /\ RegisteredIsHeld /\ OneLiveBridge
    BY GatewayAssumptions
       DEF Init, PhasesAgree, RegisteredIsHeld, OneLiveBridge, PumpEnded, Principals, IsUser
<1>3. TokenIsBacked /\ OfflineWriterWasCurrent
    BY GatewayAssumptions DEF Init, TokenIsBacked, OfflineWriterWasCurrent, Principals, Tokens
<1> QED
    BY <1>1, <1>2, <1>3 DEF IInv

\* Every step keeps the inductive invariant, action by action.
LEMMA NextIInv == IInv /\ [Next]_vars => IInv'
<1> SUFFICES ASSUME IInv, [Next]_vars PROVE IInv'
    OBVIOUS
<1> USE GatewayAssumptions
    DEF IInv, TypeOK, PhasesAgree, RegisteredIsHeld, OneLiveBridge, OfflineWriterWasCurrent,
        TokenIsBacked, Principals, Status, HandlerPhases, PumpPhases, PumpEnded, IsUser,
        connVars, storeVars, reportVars
<1>1. ASSUME NEW c \in Conns, NEW d \in Devices, AcceptDevice(c, d) PROVE IInv'
    BY <1>1 DEF AcceptDevice, RegisterDeviceToken
<1>2. ASSUME NEW c \in Conns, NEW u \in Users, AcceptUser(c, u) PROVE IInv'
    BY <1>2 DEF AcceptUser
<1>3. ASSUME NEW c \in Conns, RegisterConn(c) PROVE IInv'
  \* The entry of the principal now names c; an older connection is closed.
  <2>1. /\ conns' = [conns EXCEPT ![principal[c]] = c]
        /\ principal[c] \in Principals
        /\ handler' = [handler EXCEPT ![c] = "pumping"]
    BY <1>3 DEF RegisterConn, Entered
  <2>2. RegisteredIsHeld'
    BY <1>3, <2>1 DEF RegisterConn, Entered
  <2>3. ASSUME NEW k \in Conns, handler'[k] = "pumping", ~closed'[k]
        PROVE  conns'[principal'[k]] = k
    <3>1. CASE k = c
        BY <1>3, <2>1, <3>1 DEF RegisterConn, Entered
    <3>2. CASE k # c
        BY <1>3, <2>1, <2>3, <3>2 DEF RegisterConn, Kicked, Entered
    <3> QED
        BY <3>1, <3>2
  <2>4. TypeOK' /\ PhasesAgree' /\ OfflineWriterWasCurrent' /\ TokenIsBacked'
    BY <1>3 DEF RegisterConn, Kicked, Entered
  <2> QED
    BY <2>2, <2>3, <2>4
<1>4. ASSUME NEW c \in Conns, WsPumpStops(c) PROVE IInv'
    BY <1>4 DEF WsPumpStops
<1>5. ASSUME NEW c \in Conns, ReadSubscribe(c) PROVE IInv'
    BY <1>5 DEF ReadSubscribe
<1>6. ASSUME NEW c \in Conns, NEW d \in Devices, ReadPublish(c, d) PROVE IInv'
    BY <1>6 DEF ReadPublish, ReportOf, Report
<1>7. ASSUME NEW c \in Conns, OnlinePG(c) PROVE IInv'
    BY <1>7 DEF OnlinePG
<1>8. ASSUME NEW c \in Conns, OnlineRedis(c) PROVE IInv'
    BY <1>8 DEF OnlineRedis
<1>9. ASSUME NEW c \in Conns, OnlineFlag(c) PROVE IInv'
    BY <1>9 DEF OnlineFlag
<1>10. ASSUME NEW c \in Conns, OnlineTell(c) PROVE IInv'
    BY <1>10 DEF OnlineTell
<1>11. ASSUME NEW c \in Conns, TcpPumpStops(c) PROVE IInv'
    BY <1>11 DEF TcpPumpStops
<1>12. ASSUME NEW c \in Conns, Detach(c) PROVE IInv'
  \* One pump is over, so c is closed; only its own entry can be removed.
  <2>1. closed[c]
    BY <1>12 DEF Detach
  <2>2. RegisteredIsHeld' /\ OneLiveBridge'
    BY <1>12, <2>1 DEF Detach, IsCurrent
  <2>3. OfflineWriterWasCurrent'
    BY <1>12, <2>1 DEF Detach, IsCurrent
  <2>4. TypeOK' /\ PhasesAgree' /\ TokenIsBacked'
    BY <1>12, <2>1 DEF Detach
  <2> QED
    BY <2>2, <2>3, <2>4
<1>13. ASSUME NEW c \in Conns, CheckOnline(c) PROVE IInv'
    BY <1>13 DEF CheckOnline, AfterDetach
<1>14. ASSUME NEW c \in Conns, OfflinePG(c) PROVE IInv'
    BY <1>14 DEF OfflinePG
<1>15. ASSUME NEW c \in Conns, OfflineRedis(c) PROVE IInv'
    BY <1>15 DEF OfflineRedis
<1>16. ASSUME NEW c \in Conns, OfflineTell(c) PROVE IInv'
    BY <1>16 DEF OfflineTell
<1>17. ASSUME NEW c \in Conns, UnregisterDeviceToken(c) PROVE IInv'
  <2>1. ASSUME NEW d \in Devices, deviceTokens'[d] # NoToken
        PROVE  \E k \in Conns : /\ principal'[k] = d
                                 /\ token'[k] = deviceTokens'[d]
                                 /\ handler'[k] \notin {"idle", "gone"}
    \* A record that is left is not c's, so another connection backs it.
    <3>1. PICK k \in Conns : /\ principal[k] = d
                             /\ token[k] = deviceTokens[d]
                             /\ handler[k] \notin {"idle", "gone"}
        BY <1>17, <2>1 DEF UnregisterDeviceToken, Forgotten
    <3>2. k # c
        BY <1>17, <2>1, <3>1 DEF UnregisterDeviceToken, Forgotten
    <3> QED
        BY <1>17, <2>1, <3>1, <3>2 DEF UnregisterDeviceToken, Forgotten
  <2>2. TypeOK' /\ PhasesAgree' /\ RegisteredIsHeld' /\ OneLiveBridge' /\ OfflineWriterWasCurrent'
    BY <1>17 DEF UnregisterDeviceToken, Forgotten
  <2> QED
    BY <2>1, <2>2
<1>18. ASSUME NEW r \in reports, ReportStatus(r) PROVE IInv'
    BY <1>18 DEF ReportStatus, Report
<1>19. CASE FlushStart
    BY <1>19 DEF FlushStart
<1>20. ASSUME NEW d \in Devices, FlushWrite(d) PROVE IInv'
    BY <1>20 DEF FlushWrite
<1>21. ASSUME NEW d \in Devices, RotateToken(d) PROVE IInv'
    BY <1>21 DEF RotateToken, Tokens, NoToken
<1>22. CASE UNCHANGED vars
    BY <1>22 DEF vars
<1>23. ASSUME NEW c \in Conns, WsPump(c) PROVE IInv'
    BY <1>4, <1>5, <1>6, <1>7, <1>8, <1>9, <1>10, <1>23, Zenon DEF WsPump
<1>24. ASSUME NEW c \in Conns, Finish(c) PROVE IInv'
    BY <1>12, <1>13, <1>14, <1>15, <1>16, <1>17, <1>24, Zenon DEF Finish
<1> QED
    BY <1>1, <1>2, <1>3, <1>11, <1>18, <1>19, <1>20, <1>21, <1>22, <1>23, <1>24, Zenon DEF Next

\* The inductive invariant holds in every reachable state.
THEOREM Invariance == Spec => []IInv
BY InitIInv, NextIInv, PTL DEF Spec

-----------------------------------------------------------------------------

\* The state of the gateway is well typed in every reachable state.
THEOREM TypeCorrect == Spec => []TypeOK
<1>1. IInv => TypeOK
    BY DEF IInv
<1> QED
    BY Invariance, <1>1, PTL

\* IsConnected vouches only for connections whose cleanup is still to come, and
\* however many reconnects overlap, one principal has one open bridge.
THEOREM RegistryIsTrue == Spec => []RegistryMatchesBridges
<1>1. IInv => RegistryMatchesBridges
    BY DEF IInv, RegistryMatchesBridges
<1> QED
    BY Invariance, <1>1, PTL

\* The token registry holds no token of a connection that is gone.
THEOREM NoLeakedToken == Spec => []TokenIsBacked
<1>1. IInv => TokenIsBacked
    BY DEF IInv
<1> QED
    BY Invariance, <1>1, PTL

\* Only the handler that took its connection out of the registry, after the
\* device came online over it, writes OFFLINE.
THEOREM OfflineOnlyFromCurrent == Spec => []OfflineWriterWasCurrent
<1>1. IInv => OfflineWriterWasCurrent
    BY DEF IInv
<1> QED
    BY Invariance, <1>1, PTL

-----------------------------------------------------------------------------
(* The gateway implements the abstract session registry.                   *)

\* Nothing is registered, and nothing is over, at the start.
LEMMA RegistryInit == Init => Registry!Init
BY DEF Init, Registry!Init, Ended

\* A step that leaves the registry alone and moves no handler across the
\* registration is a stutter of the session registry.
LEMMA RegistryStutter ==
    ASSUME IInv, UNCHANGED <<conns, principal>>,
           \A c \in Conns : handler'[c] \in {"idle", "bridged"} <=> handler[c] \in {"idle", "bridged"}
    PROVE  UNCHANGED <<conns, Ended>>
BY DEF Ended

\* A registration opens a session, a detachment of the registered connection
\* ends one, and every other step is a stutter.
LEMMA RegistryStep == IInv /\ [Next]_vars => [Registry!Next]_<<conns, Ended>>
<1> SUFFICES ASSUME IInv, [Next]_vars PROVE [Registry!Next]_<<conns, Ended>>
    OBVIOUS
<1> USE GatewayAssumptions
    DEF IInv, TypeOK, PhasesAgree, RegisteredIsHeld, Principals, PumpEnded, IsUser,
        connVars, storeVars, reportVars
<1>1. ASSUME NEW c \in Conns, RegisterConn(c) PROVE Registry!Next
  <2>1. /\ principal[c] \in Principals
        /\ c \notin Ended
        /\ \A q \in Principals : conns[q] # c
    BY <1>1 DEF RegisterConn, Entered, Ended
  <2>2. Ended' = Ended \cup ({conns[principal[c]]} \ {NoConn})
    BY <1>1, <2>1 DEF RegisterConn, Entered, Ended
  <2>3. Registry!Open(principal[c], c)
    BY <1>1, <2>1, <2>2 DEF RegisterConn, Entered, Registry!Open
  <2> QED
    BY <2>1, <2>3 DEF Registry!Next
<1>2. ASSUME NEW c \in Conns, Detach(c) PROVE [Registry!Next]_<<conns, Ended>>
  <2>1. CASE IsCurrent(c)
    <3>1. principal[c] \in Principals
        BY <1>2 DEF Detach
    <3>2. Ended' = Ended \cup {c}
        BY <1>2, <2>1, <3>1 DEF Detach, IsCurrent, Ended
    <3>3. Registry!End(principal[c], c)
        BY <1>2, <2>1, <3>1, <3>2 DEF Detach, IsCurrent, Registry!End
    <3> QED
        BY <3>1, <3>3 DEF Registry!Next
  <2>2. CASE ~IsCurrent(c)
    BY <1>2, <2>2, RegistryStutter DEF Detach
  <2> QED
    BY <2>1, <2>2
<1>3. ASSUME NEW c \in Conns, NEW p \in Principals, AcceptDevice(c, p) \/ AcceptUser(c, p)
      PROVE  UNCHANGED <<conns, Ended>>
    BY <1>3 DEF AcceptDevice, AcceptUser, Ended
<1>4. ASSUME NEW c \in Conns, WsPump(c) \/ TcpPumpStops(c) PROVE UNCHANGED <<conns, Ended>>
    BY <1>4, RegistryStutter
    DEF WsPump, WsPumpStops, ReadSubscribe, ReadPublish, ReportOf, OnlinePG, OnlineRedis, OnlineFlag,
        OnlineTell, TcpPumpStops
<1>5. ASSUME NEW c \in Conns,
             \/ CheckOnline(c) \/ OfflinePG(c) \/ OfflineRedis(c) \/ OfflineTell(c)
             \/ UnregisterDeviceToken(c)
      PROVE  UNCHANGED <<conns, Ended>>
    BY <1>5, RegistryStutter
    DEF CheckOnline, AfterDetach, OfflinePG, OfflineRedis, OfflineTell, UnregisterDeviceToken
<1>6. CASE \/ \E r \in reports : ReportStatus(r)
           \/ FlushStart
           \/ \E d \in Devices : FlushWrite(d) \/ RotateToken(d)
           \/ UNCHANGED vars
    BY <1>6, RegistryStutter DEF ReportStatus, FlushStart, FlushWrite, RotateToken, vars
<1> QED
    BY <1>1, <1>2, <1>3, <1>4, <1>5, <1>6 DEF Next, Finish

\* Every behaviour of the gateway is one of the abstract session registry:
\* one live session per principal, and an ended session never returns.
THEOREM ImplementsRegistry == Spec => RegistrySpec
BY RegistryInit, RegistryStep, Invariance, PTL
DEF Spec, RegistrySpec, Registry!Spec, Registry!srVars

-----------------------------------------------------------------------------
(* The two-level cache: DeviceCache.                                       *)

\* What is assumed of the constants, with entries as the cache has them.
LEMMA CacheBounds ==
    /\ Instances \cap Readers = {} /\ Instances \cap Writers = {} /\ Readers \cap Writers = {}
    /\ Kinds \subseteq {"row", "list", "defs"}
    /\ Nowhere \notin Instances
    /\ NoEntry \notin Entry
    /\ MaxFaults \in Nat
BY CacheAssumptions DEF Entry

\* Every variable of the cache keeps its type.
LEMMA CacheTypeInit == ASSUME CacheInit PROVE CacheTypeOK
<1> USE CacheBounds DEF CacheInit, Calls, ReaderPhases, LoadPhases, WriterPhases
<1>1. /\ phase \in [Calls -> ReaderPhases \cup LoadPhases \cup WriterPhases]
      /\ \A r \in Readers : phase[r] \in ReaderPhases
      /\ \A w \in Writers : phase[w] \in WriterPhases
      /\ \A i \in Instances : phase[i] \in LoadPhases
  OBVIOUS
<1>2. /\ where \in [Calls -> Instances \cup {Nowhere}]
      /\ held \in [Calls -> Nat] /\ late \in [Calls -> BOOLEAN]
  OBVIOUS
<1>3. orphaned \in BOOLEAN
  OBVIOUS
<1> QED
  BY <1>1, <1>2, <1>3 DEF CacheTypeOK

\* Who waits for a load is known to the load, and a load is under way only for those.
NobodyForgotten ==
    /\ \A r \in Readers : phase[r] = "wait" => r \in waiting[where[r]]
    /\ \A i \in Instances : waiting[i] # {} <=> phase[i] # "off"

\* A call under way runs in an instance, and a load in its own; the readers that a load knows of
\* wait for it in its instance, and nobody else waits.
WaitInv ==
    /\ \A r \in Readers : phase[r] # "idle" => where[r] \in Instances
    /\ \A i \in Instances : where[i] = i
    /\ \A i \in Instances : \A r \in waiting[i] : phase[r] = "wait" /\ where[r] = i
    /\ NobodyForgotten

LEMMA CacheTypeStep ==
    ASSUME CacheTypeOK, WaitInv, [CacheNext]_systemVars
    PROVE  CacheTypeOK'
<1> USE CacheBounds DEF rowVars, cacheVars, callVars
<1>t. /\ kind \in Kinds /\ row \in Nat /\ changes \in Nat
      /\ l2 \in Entry \cup {NoEntry} /\ neg \in Entry \cup {NoEntry}
      /\ l1 \in [Instances -> Entry \cup {NoEntry}]
      /\ inbox \in [Instances -> Nat] /\ waiting \in [Instances -> SUBSET Readers]
      /\ where \in [Calls -> Instances \cup {Nowhere}]
      /\ held \in [Calls -> Nat] /\ late \in [Calls -> BOOLEAN] /\ faults \in 0 .. MaxFaults
  BY DEF CacheTypeOK
<1>p. /\ phase \in [Calls -> ReaderPhases \cup LoadPhases \cup WriterPhases]
      /\ \A r \in Readers : phase[r] \in ReaderPhases
      /\ \A w \in Writers : phase[w] \in WriterPhases
      /\ \A i \in Instances : phase[i] \in LoadPhases
  BY DEF CacheTypeOK
<1>c. Readers \subseteq Calls /\ Writers \subseteq Calls /\ Instances \subseteq Calls
  BY DEF Calls
<1>e. /\ \A v \in Nat, l \in BOOLEAN : [value |-> v, late |-> l] \in Entry
      /\ \A x \in Entry : x.value \in Nat /\ x.late \in BOOLEAN
  BY DEF Entry
<1>f. Fault => faults' \in 0 .. MaxFaults
  BY <1>t DEF Fault
<1>o. \* Only what has a value in hand can be overtaken.
      /\ \A w : OvertakeAll(w) => late' \in [Calls -> BOOLEAN]
      /\ \A i : Overtake(i) => late' \in [Calls -> BOOLEAN]
  <2>1. ASSUME NEW w, OvertakeAll(w) PROVE late' \in [Calls -> BOOLEAN]
    BY <1>t, <2>1, Zenon DEF OvertakeAll, Holding
  <2>2. ASSUME NEW i, Overtake(i) PROVE late' \in [Calls -> BOOLEAN]
    BY <1>t, <2>2, Zenon DEF Overtake, Holding
  <2> QED
    BY <2>1, <2>2
<1>k. ASSUME NEW p \in Calls, NEW v \in Nat, NEW l \in BOOLEAN, Take(p, v, l)
      PROVE  held' \in [Calls -> Nat] /\ late' \in [Calls -> BOOLEAN]
  BY <1>t, <1>k DEF Take
\* The phase of a reader, of a load, of a writer.
<1> DEFINE PhaseOK(f) ==
        /\ f \in [Calls -> ReaderPhases \cup LoadPhases \cup WriterPhases]
        /\ \A r \in Readers : f[r] \in ReaderPhases
        /\ \A w \in Writers : f[w] \in WriterPhases
        /\ \A i \in Instances : f[i] \in LoadPhases
<1>r. ASSUME NEW r \in Readers, NEW from, NEW to \in ReaderPhases, Goto(r, from, to) PROVE PhaseOK(phase')
  BY <1>p, <1>c, <1>r, CacheBounds DEF Goto
<1>w. ASSUME NEW w \in Writers, NEW from, NEW to \in WriterPhases, Goto(w, from, to) PROVE PhaseOK(phase')
  BY <1>p, <1>c, <1>w, CacheBounds DEF Goto
<1>i. ASSUME NEW i \in Instances, NEW from, NEW to \in LoadPhases, Goto(i, from, to) PROVE PhaseOK(phase')
  BY <1>p, <1>c, <1>i, CacheBounds DEF Goto
<1>d. ASSUME NEW i \in Instances, NEW v \in Nat, NEW l \in BOOLEAN, Deliver(i, v, l)
      PROVE  /\ PhaseOK(phase') /\ held' \in [Calls -> Nat] /\ late' \in [Calls -> BOOLEAN]
             /\ waiting' \in [Instances -> SUBSET Readers]
  <2>1. PhaseOK(phase')
    BY <1>p, <1>c, <1>t, <1>d, CacheBounds DEF Deliver, ReaderPhases, LoadPhases
  <2>2. held' \in [Calls -> Nat]
    BY <1>t, <1>d DEF Deliver
  <2>3. late' \in [Calls -> BOOLEAN]
    BY <1>t, <1>d DEF Deliver
  <2>4. waiting' \in [Instances -> SUBSET Readers]
    BY <1>t, <1>d DEF Deliver
  <2> QED
    BY <2>1, <2>2, <2>3, <2>4
<1>u. ASSUME NEW i \in Instances, Refuse(i)
      PROVE  /\ PhaseOK(phase') /\ held' \in [Calls -> Nat] /\ late' \in [Calls -> BOOLEAN]
             /\ waiting' \in [Instances -> SUBSET Readers] /\ where' \in [Calls -> Instances \cup {Nowhere}]
  <2>1. PhaseOK(phase')
    BY <1>p, <1>c, <1>t, <1>u, CacheBounds DEF Refuse, ReaderPhases, LoadPhases
  <2>2. held' \in [Calls -> Nat] /\ late' \in [Calls -> BOOLEAN]
    BY <1>c, <1>k, <1>u DEF Refuse
  <2>3. waiting' \in [Instances -> SUBSET Readers] /\ where' \in [Calls -> Instances \cup {Nowhere}]
    BY <1>t, <1>u DEF Refuse
  <2> QED
    BY <2>1, <2>2, <2>3
<1>l. ASSUME NEW p \in Calls, Fill(p) PROVE l1' \in [Instances -> Entry \cup {NoEntry}]
  BY <1>t, <1>e, <1>l DEF Fill
<1>b. orphaned' \in BOOLEAN
  <2>1. orphaned \in BOOLEAN
    BY DEF CacheTypeOK
  <2>2. orphaned' \in {orphaned, FALSE, TRUE}
    BY DEF CacheNext, Read, GetL2, CheckNeg, FillL1, Join, Miss, LoadStep, Recheck, Load, Store, NegSet,
           NegLocal, Invalidate, Reread, SetL2, DelL2, DeleteLocal, Publish, Register, Update, Delete,
           DeleteDevice, Commit, Receive, Lose, ExpireL1, Restart, ExpireL2, ExpireNeg, systemVars
  <2> QED
    BY <2>1, <2>2
<1>g. ASSUME kind' \in Kinds, row' \in Nat, changes' \in Nat,
             l2' \in Entry \cup {NoEntry}, neg' \in Entry \cup {NoEntry},
             l1' \in [Instances -> Entry \cup {NoEntry}],
             inbox' \in [Instances -> Nat], waiting' \in [Instances -> SUBSET Readers],
             PhaseOK(phase'), where' \in [Calls -> Instances \cup {Nowhere}],
             held' \in [Calls -> Nat], late' \in [Calls -> BOOLEAN], faults' \in 0 .. MaxFaults
      PROVE  CacheTypeOK'
  BY <1>b, <1>g DEF CacheTypeOK
<1>q. PhaseOK(phase)
  BY <1>p
<1> HIDE DEF PhaseOK
<1>1. ASSUME NEW r \in Readers, NEW i \in Instances, Miss(r, i) PROVE CacheTypeOK'
  <2>1. PhaseOK(phase') /\ where' \in [Calls -> Instances \cup {Nowhere}]
    BY <1>t, <1>c, <1>r, <1>1 DEF Miss, ReaderPhases
  <2> QED
    BY <1>t, <1>g, <1>1, <2>1 DEF Miss
<1>2. ASSUME NEW r \in Readers, GetL2(r) PROVE CacheTypeOK'
  <2>1. PhaseOK(phase') /\ held' \in [Calls -> Nat] /\ late' \in [Calls -> BOOLEAN]
        /\ faults' \in 0 .. MaxFaults
    <3>1. CASE l2 # NoEntry /\ Goto(r, "get", "fill") /\ Take(r, l2.value, l2.late) /\ UNCHANGED faults
      <4>1. PhaseOK(phase')
        BY <1>r, <3>1 DEF ReaderPhases
      <4> QED
        BY <1>t, <1>c, <1>e, <1>k, <3>1, <4>1
    <3>2. CASE \/ Goto(r, "get", "exists") /\ Take(r, 0, FALSE) /\ UNCHANGED faults
               \/ Fault /\ Goto(r, "get", "join") /\ Take(r, 0, FALSE)
      <4>1. PhaseOK(phase')
        BY <1>r, <3>2 DEF ReaderPhases
      <4> QED
        BY <1>t, <1>c, <1>f, <1>k, <3>2, <4>1
    <3> QED
      BY <1>2, <3>1, <3>2 DEF GetL2
  <2> QED
    BY <1>t, <1>g, <1>2, <2>1 DEF GetL2
<1>3. ASSUME NEW r \in Readers, CheckNeg(r) PROVE CacheTypeOK'
  <2>1. PhaseOK(phase') /\ held' \in [Calls -> Nat] /\ late' \in [Calls -> BOOLEAN]
        /\ faults' \in 0 .. MaxFaults
    <3>1. CASE /\ neg # NoEntry /\ Goto(r, "exists", "fillNeg") /\ Take(r, 0, late[r] \/ neg.late)
               /\ UNCHANGED faults
      <4>1. PhaseOK(phase')
        BY <1>r, <3>1 DEF ReaderPhases
      <4>2. (late[r] \/ neg.late) \in BOOLEAN
        BY <1>t, <1>c, <1>e, <3>1
      <4> QED
        BY <1>t, <1>c, <1>k, <3>1, <4>1, <4>2
    <3>2. CASE /\ UNCHANGED faults \/ Fault
               /\ Goto(r, "exists", "join") /\ Take(r, 0, FALSE)
      <4>1. PhaseOK(phase')
        BY <1>r, <3>2 DEF ReaderPhases
      <4> QED
        BY <1>t, <1>c, <1>f, <1>k, <3>2, <4>1
    <3> QED
      BY <1>3, <3>1, <3>2 DEF CheckNeg
  <2> QED
    BY <1>t, <1>g, <1>3, <2>1 DEF CheckNeg
<1>4. ASSUME NEW r \in Readers, FillL1(r) PROVE CacheTypeOK'
  <2>1. PhaseOK(phase')
    BY <1>r, <1>4 DEF FillL1, ReaderPhases
  <2>2. held' \in [Calls -> Nat] /\ late' \in [Calls -> BOOLEAN]
    BY <1>c, <1>k, <1>4 DEF FillL1
  <2>3. l1' \in [Instances -> Entry \cup {NoEntry}] /\ where' \in [Calls -> Instances \cup {Nowhere}]
    BY <1>t, <1>c, <1>l, <1>4 DEF FillL1
  <2> QED
    BY <1>t, <1>g, <1>4, <2>1, <2>2, <2>3 DEF FillL1
<1>5. ASSUME NEW r \in Readers, Join(r) PROVE CacheTypeOK'
  <2>1. PhaseOK(phase')
    <3>1. PICK i \in Instances : i = where[r]
      BY <1>5 DEF Join, WaitInv
    <3>2. phase' = [phase EXCEPT ![r] = "wait", ![i] = IF phase[i] = "off" THEN "recheck" ELSE phase[i]]
      BY <1>5, <3>1, CacheBounds DEF Join
    <3> QED
      BY <1>p, <1>c, <3>2, CacheBounds DEF ReaderPhases, LoadPhases, PhaseOK
  <2>2. waiting' \in [Instances -> SUBSET Readers]
    BY <1>t, <1>5 DEF Join
  <2> QED
    BY <1>t, <1>g, <1>5, <2>1, <2>2 DEF Join
<1>6. ASSUME NEW i \in Instances, Recheck(i) PROVE CacheTypeOK'
  <2>1. CASE l2 # NoEntry /\ Deliver(i, l2.value, l2.late) /\ UNCHANGED faults
    <3>1. l2.value \in Nat /\ l2.late \in BOOLEAN
      BY <1>t, <1>e, <2>1
    <3> QED
      BY <1>t, <1>d, <1>g, <1>6, <2>1, <3>1 DEF Recheck
  <2>2. CASE UNCHANGED faults \/ Fault
    <3>1. CASE Goto(i, "recheck", "load") /\ UNCHANGED <<waiting, held, late>>
      <4>1. PhaseOK(phase')
        BY <1>i, <3>1 DEF LoadPhases
      <4> QED
        BY <1>t, <1>f, <1>g, <1>6, <2>2, <3>1, <4>1 DEF Recheck
    <3> QED
      BY <1>6, <2>1, <3>1 DEF Recheck
  <2> QED
    BY <1>6, <2>1, <2>2 DEF Recheck
<1>7. ASSUME NEW i \in Instances, Load(i) PROVE CacheTypeOK'
  <2>1. CASE /\ Goto(i, "load", IF row = 0 /\ kind = "row" THEN "negset" ELSE "store")
             /\ Take(i, row, FALSE) /\ UNCHANGED <<waiting, where, faults>>
    <3>1. PhaseOK(phase')
      BY <1>i, <2>1 DEF LoadPhases
    <3>2. held' \in [Calls -> Nat] /\ late' \in [Calls -> BOOLEAN]
      BY <1>t, <1>c, <1>k, <2>1
    <3> QED
      BY <1>t, <1>g, <1>7, <2>1, <3>1, <3>2 DEF Load
  <2>2. CASE Fault /\ Refuse(i)
    BY <1>t, <1>f, <1>g, <1>u, <1>7, <2>2 DEF Load
  <2> QED
    BY <1>7, <2>1, <2>2 DEF Load
<1>8. ASSUME NEW i \in Instances, Store(i) PROVE CacheTypeOK'
  <2>1. held[i] \in Nat /\ late[i] \in BOOLEAN
    BY <1>t, <1>c
  <2>2. l2' \in Entry \cup {NoEntry} /\ faults' \in 0 .. MaxFaults
    BY <1>t, <1>e, <1>f, <1>8, <2>1 DEF Store
  <2> QED
    BY <1>t, <1>d, <1>g, <1>8, <2>1, <2>2 DEF Store
<1>9. ASSUME NEW i \in Instances, NegSet(i) PROVE CacheTypeOK'
  <2>1. PhaseOK(phase')
    BY <1>i, <1>9 DEF NegSet, LoadPhases
  <2>2. neg' \in Entry \cup {NoEntry} /\ faults' \in 0 .. MaxFaults
    BY <1>t, <1>c, <1>e, <1>f, <1>9 DEF NegSet
  <2> QED
    BY <1>t, <1>g, <1>9, <2>1, <2>2 DEF NegSet
<1>10. ASSUME NEW i \in Instances, NegLocal(i) PROVE CacheTypeOK'
  <2>1. l1' \in [Instances -> Entry \cup {NoEntry}]
    BY <1>c, <1>l, <1>10 DEF NegLocal
  <2> QED
    BY <1>t, <1>g, <1>u, <1>10, <2>1 DEF NegLocal
<1>11. ASSUME NEW w \in Writers, NEW i \in Instances,
              Register(w, i) \/ Update(w, i) \/ Delete(w, i)
       PROVE  CacheTypeOK'
  <2>1. PICK v \in Nat, to \in {"reread", "clear"} : Commit(w, i, v, to)
    <3>1. changes + 1 \in Nat /\ 0 \in Nat
      BY <1>t
    <3>2. \E v \in {0, changes + 1}, to \in {"reread", "clear"} : Commit(w, i, v, to)
      BY <1>11 DEF Register, Update, Delete
    <3> QED
      BY <3>1, <3>2
  <2>2. PhaseOK(phase')
    BY <1>w, <2>1 DEF Commit, WriterPhases
  <2>3. where' \in [Calls -> Instances \cup {Nowhere}]
    BY <1>t, <1>c, <2>1 DEF Commit
  <2> QED
    BY <1>t, <1>g, <2>1, <2>2, <2>3 DEF Commit
<1>21. ASSUME NEW w \in Writers, DeleteDevice(w) PROVE CacheTypeOK'
  <2>1. PhaseOK(phase')
    BY <1>w, <1>21 DEF DeleteDevice, WriterPhases
  <2> QED
    BY <1>t, <1>g, <1>21, <2>1 DEF DeleteDevice
<1>12. ASSUME NEW w \in Writers, Reread(w) PROVE CacheTypeOK'
  <2>1. PhaseOK(phase')
    BY <1>w, <1>12 DEF Reread, WriterPhases
  <2>2. held' \in [Calls -> Nat] /\ late' \in [Calls -> BOOLEAN]
    BY <1>t, <1>c, <1>k, <1>12 DEF Reread
  <2> QED
    BY <1>t, <1>f, <1>g, <1>12, <2>1, <2>2 DEF Reread
<1>13. ASSUME NEW w \in Writers, SetL2(w) PROVE CacheTypeOK'
  <2>1. PhaseOK(phase')
    BY <1>w, <1>13 DEF SetL2, WriterPhases
  <2>2. l2' \in Entry \cup {NoEntry}
    BY <1>t, <1>c, <1>e, <1>13 DEF SetL2
  <2>3. held' \in [Calls -> Nat] /\ late' \in [Calls -> BOOLEAN] /\ faults' \in 0 .. MaxFaults
    BY <1>t, <1>f, <1>o, <1>13 DEF SetL2
  <2> QED
    BY <1>t, <1>g, <1>13, <2>1, <2>2, <2>3 DEF SetL2
<1>14. ASSUME NEW w \in Writers, DelL2(w) PROVE CacheTypeOK'
  <2>1. PhaseOK(phase')
    BY <1>w, <1>14 DEF DelL2, WriterPhases
  <2>2. l2' \in Entry \cup {NoEntry} /\ late' \in [Calls -> BOOLEAN] /\ faults' \in 0 .. MaxFaults
    BY <1>t, <1>f, <1>o, <1>14 DEF DelL2
  <2> QED
    BY <1>t, <1>g, <1>14, <2>1, <2>2 DEF DelL2
<1>15. ASSUME NEW w \in Writers, DeleteLocal(w) PROVE CacheTypeOK'
  <2>1. PhaseOK(phase')
    BY <1>w, <1>15 DEF DeleteLocal, WriterPhases
  <2>2. l1' \in [Instances -> Entry \cup {NoEntry}] /\ late' \in [Calls -> BOOLEAN]
    BY <1>t, <1>o, <1>15 DEF DeleteLocal
  <2> QED
    BY <1>t, <1>g, <1>15, <2>1, <2>2 DEF DeleteLocal
<1>16. ASSUME NEW w \in Writers, Publish(w) PROVE CacheTypeOK'
  <2>1. PhaseOK(phase')
    BY <1>w, <1>16 DEF Publish, WriterPhases
  <2>2. inbox' \in [Instances -> Nat] /\ where' \in [Calls -> Instances \cup {Nowhere}]
        /\ faults' \in 0 .. MaxFaults
    BY <1>t, <1>c, <1>f, <1>16 DEF Publish, Announce
  <2> QED
    BY <1>t, <1>g, <1>16, <2>1, <2>2 DEF Publish
<1>17. ASSUME NEW i \in Instances, Receive(i) \/ Lose(i) PROVE CacheTypeOK'
  <2>1. inbox' \in [Instances -> Nat]
    <3>1. inbox[i] \in Nat /\ inbox[i] > 0 /\ inbox' = [inbox EXCEPT ![i] = inbox[i] - 1]
      BY <1>t, <1>17 DEF Receive, Lose
    <3> QED
      BY <1>t, <3>1
  <2>2. l1' \in [Instances -> Entry \cup {NoEntry}] /\ late' \in [Calls -> BOOLEAN]
        /\ faults' \in 0 .. MaxFaults
    BY <1>t, <1>f, <1>o, <1>17 DEF Receive, Lose
  <2>3. UNCHANGED <<kind, row, changes, orphaned, l2, neg, waiting, phase, where, held>>
    BY <1>17 DEF Receive, Lose
  <2> QED
    BY <1>t, <1>q, <1>g, <2>1, <2>2, <2>3
<1>18. ASSUME NEW i \in Instances, ExpireL1(i) PROVE CacheTypeOK'
  <2>1. l1' \in [Instances -> Entry \cup {NoEntry}]
    BY <1>t, <1>18 DEF ExpireL1
  <2> QED
    BY <1>t, <1>q, <1>g, <1>18, <2>1 DEF ExpireL1
<1>19. ASSUME NEW i \in Instances, Restart(i) PROVE CacheTypeOK'
  <2>1. PhaseOK(phase')
    <3> DEFINE after(p) == IF where[p] # i THEN phase[p]
                           ELSE IF p \in Readers THEN "idle" ELSE IF p \in Writers THEN "gone" ELSE "off"
    <3>1. phase' = [p \in Calls |-> after(p)]
      BY <1>19 DEF Restart
    <3>2. ASSUME NEW p \in Readers PROVE after(p) \in ReaderPhases
      BY <1>p, CacheBounds DEF ReaderPhases
    <3>3. ASSUME NEW p \in Writers PROVE after(p) \in WriterPhases
      <4>1. p \notin Readers
        BY CacheBounds
      <4> QED
        BY <1>p, <4>1 DEF WriterPhases
    <3>4. ASSUME NEW p \in Instances PROVE after(p) \in LoadPhases
      <4>1. p \notin Readers /\ p \notin Writers
        BY CacheBounds
      <4> QED
        BY <1>p, <4>1 DEF LoadPhases
    <3> HIDE DEF after
    <3>5. \A p \in Calls : after(p) \in ReaderPhases \cup LoadPhases \cup WriterPhases
      BY <3>2, <3>3, <3>4 DEF Calls
    <3> QED
      BY <1>c, <3>1, <3>2, <3>3, <3>4, <3>5 DEF PhaseOK
  <2>2. l1' \in [Instances -> Entry \cup {NoEntry}] /\ inbox' \in [Instances -> Nat]
        /\ waiting' \in [Instances -> SUBSET Readers] /\ faults' \in 0 .. MaxFaults
    BY <1>t, <1>f, <1>19 DEF Restart
  <2>3. held' \in [Calls -> Nat] /\ where' \in [Calls -> Instances \cup {Nowhere}]
    BY <1>t, <1>19 DEF Restart
  <2>4. late' \in [Calls -> BOOLEAN]
    BY <1>t, <1>19, Zenon DEF Restart
  <2> QED
    BY <1>t, <1>g, <1>19, <2>1, <2>2, <2>3, <2>4 DEF Restart
<1>20. CASE ExpireL2 \/ ExpireNeg \/ UNCHANGED systemVars
  <2>1. /\ l2' \in {l2, NoEntry} /\ neg' \in {neg, NoEntry}
        /\ UNCHANGED <<kind, row, changes, orphaned, l1, inbox, waiting, phase, where, held, late, faults>>
    BY <1>20 DEF ExpireL2, GoneFromL2, ExpireNeg, systemVars
  <2> QED
    BY <1>t, <1>q, <1>g, <2>1
<1> QED
  BY <1>1, <1>2, <1>3, <1>4, <1>5, <1>6, <1>7, <1>8, <1>9, <1>10, <1>11, <1>12, <1>13, <1>14, <1>15,
     <1>16, <1>17, <1>18, <1>19, <1>20, <1>21
  DEF CacheNext, Read, LoadStep, Invalidate

LEMMA WaitInit == ASSUME CacheInit PROVE WaitInv
BY CacheBounds DEF CacheInit, WaitInv, NobodyForgotten, Calls

\* Every step keeps who waits for what.
LEMMA WaitStep ==
    ASSUME CacheTypeOK, WaitInv, [CacheNext]_systemVars
    PROVE  WaitInv'
<1> USE DEF rowVars, cacheVars, callVars
<1>t. /\ waiting \in [Instances -> SUBSET Readers]
      /\ phase \in [Calls -> ReaderPhases \cup LoadPhases \cup WriterPhases]
      /\ where \in [Calls -> Instances \cup {Nowhere}]
  BY DEF CacheTypeOK
<1>c. Readers \subseteq Calls /\ Writers \subseteq Calls /\ Instances \subseteq Calls
  BY DEF Calls
<1>d. /\ \A i \in Instances : i \notin Readers /\ i \notin Writers /\ i # Nowhere
      /\ \A w \in Writers : w \notin Readers
  BY CacheBounds
<1>z. /\ \A r \in Readers : phase[r] # "idle" => where[r] \in Instances
      /\ \A i \in Instances : where[i] = i
      /\ \A i \in Instances : \A r \in waiting[i] : r \in Readers /\ phase[r] = "wait" /\ where[r] = i
      /\ \A r \in Readers : phase[r] = "wait" => r \in waiting[where[r]]
      /\ \A i \in Instances : waiting[i] # {} <=> phase[i] # "off"
  BY <1>t DEF WaitInv, NobodyForgotten
<1>g. ASSUME /\ \A r \in Readers : phase'[r] # "idle" => where'[r] \in Instances
             /\ \A i \in Instances : where'[i] = i
             /\ \A i \in Instances : \A r \in waiting'[i] : phase'[r] = "wait" /\ where'[r] = i
             /\ \A r \in Readers : phase'[r] = "wait" => r \in waiting'[where'[r]]
             /\ \A i \in Instances : waiting'[i] # {} <=> phase'[i] # "off"
      PROVE  WaitInv'
  BY <1>g DEF WaitInv, NobodyForgotten
\* Nobody begins or ends waiting.
<1>n. ASSUME waiting' = waiting,
             \A r \in Readers : /\ phase'[r] = "wait" <=> phase[r] = "wait"
                                /\ phase'[r] # "idle" => where'[r] \in Instances
                                /\ phase[r] = "wait" => where'[r] = where[r],
             \A i \in Instances : where'[i] = i /\ (phase'[i] = "off" <=> phase[i] = "off")
      PROVE  WaitInv'
  BY <1>z, <1>g, <1>n
\* A writer goes on.
<1>w. ASSUME NEW w \in Writers, NEW from, NEW to, Goto(w, from, to), waiting' = waiting,
             NEW x, where' = where \/ where' = [where EXCEPT ![w] = x]
      PROVE  WaitInv'
  <2>1. \A p \in Readers \cup Instances : phase'[p] = phase[p] /\ where'[p] = where[p]
    BY <1>t, <1>c, <1>d, <1>w DEF Goto
  <2> QED
    BY <1>z, <1>n, <1>w, <2>1
\* A reader goes on.
<1>r. ASSUME NEW r \in Readers, NEW from, NEW to, Goto(r, from, to), waiting' = waiting, where' = where,
             from \notin {"wait", "idle"}, to \notin {"wait", "idle"}
      PROVE  WaitInv'
  <2>1. /\ \A p \in Readers \cup Instances : p # r => phase'[p] = phase[p]
        /\ phase[r] = from /\ phase'[r] = to
    BY <1>t, <1>c, <1>r DEF Goto
  <2> QED
    BY <1>d, <1>z, <1>n, <1>r, <2>1
\* A load goes on.
<1>l. ASSUME NEW i \in Instances, NEW from, NEW to, Goto(i, from, to), waiting' = waiting, where' = where,
             from # "off", to # "off"
      PROVE  WaitInv'
  <2>1. /\ \A p \in Readers \cup Instances : p # i => phase'[p] = phase[p]
        /\ phase[i] = from /\ phase'[i] = to
    BY <1>t, <1>c, <1>l DEF Goto
  <2> QED
    BY <1>d, <1>z, <1>n, <1>l, <2>1
\* A load ends, and with it the wait of everybody it knows of.
<1>e. ASSUME NEW i \in Instances, NEW to, to \in {"fill", "idle"},
             \A p \in Readers \cup Instances :
                 phase'[p] = IF p \in waiting[i] THEN to ELSE IF p = i THEN "off" ELSE phase[p],
             \A p \in Readers \cup Instances :
                 where'[p] = IF p \in waiting[i] /\ to = "idle" THEN Nowhere ELSE where[p],
             waiting' = [waiting EXCEPT ![i] = {}]
      PROVE  WaitInv'
  <2>1. \A j \in Instances : waiting'[j] = IF j = i THEN {} ELSE waiting[j]
    BY <1>t, <1>e
  <2>2. \A j \in Instances : /\ j \notin waiting[i] /\ where'[j] = j
                             /\ phase'[j] = IF j = i THEN "off" ELSE phase[j]
    BY <1>d, <1>z, <1>e
  <2>3. \A r \in Readers : r # i
    BY <1>d
  <2>4. \A r \in Readers : phase'[r] # "idle" => where'[r] \in Instances
    BY <1>z, <1>e, <2>3
  <2>5. ASSUME NEW j \in Instances, NEW r \in waiting'[j] PROVE phase'[r] = "wait" /\ where'[r] = j
    <3>1. j # i /\ r \in waiting[j] /\ r \in Readers /\ phase[r] = "wait" /\ where[r] = j
      BY <1>z, <2>1, <2>5
    <3>2. r \notin waiting[i]
      BY <1>z, <3>1
    <3> QED
      BY <1>e, <2>3, <3>1, <3>2
  <2>6. ASSUME NEW r \in Readers, phase'[r] = "wait" PROVE r \in waiting'[where'[r]]
    <3>1. r \notin waiting[i] /\ phase[r] = "wait" /\ where'[r] = where[r]
      BY <1>e, <2>3, <2>6
    <3>2. where[r] \in Instances /\ r \in waiting[where[r]] /\ where[r] # i
      BY <1>z, <3>1
    <3> QED
      BY <2>1, <3>1, <3>2
  <2>7. \A j \in Instances : waiting'[j] # {} <=> phase'[j] # "off"
    BY <1>z, <2>1, <2>2
  <2> QED
    BY <1>g, <2>2, <2>4, <2>5, <2>6, <2>7
<1>v. ASSUME NEW i \in Instances, NEW v, NEW l, Deliver(i, v, l), where' = where PROVE WaitInv'
  <2>1. \A p \in Readers \cup Instances :
            phase'[p] = IF p \in waiting[i] THEN "fill" ELSE IF p = i THEN "off" ELSE phase[p]
    BY <1>c, <1>v DEF Deliver
  <2>2. waiting' = [waiting EXCEPT ![i] = {}]
    BY <1>v DEF Deliver
  <2> QED
    BY <1>e, <1>v, <2>1, <2>2
<1>u. ASSUME NEW i \in Instances, Refuse(i) PROVE WaitInv'
  <2>1. \A p \in Readers \cup Instances :
            /\ phase'[p] = IF p \in waiting[i] THEN "idle" ELSE IF p = i THEN "off" ELSE phase[p]
            /\ where'[p] = IF p \in waiting[i] THEN Nowhere ELSE where[p]
    BY <1>c, <1>u DEF Refuse
  <2>2. waiting' = [waiting EXCEPT ![i] = {}]
    BY <1>u DEF Refuse
  <2> QED
    BY <1>e, <2>1, <2>2
<1>1. ASSUME NEW r \in Readers, NEW i \in Instances, Miss(r, i) PROVE WaitInv'
  <2>1. /\ phase[r] = "idle" /\ phase' = [phase EXCEPT ![r] = "get"]
        /\ where' = [where EXCEPT ![r] = i] /\ waiting' = waiting
    BY <1>1 DEF Miss, Goto
  <2>2. /\ \A p \in Readers \cup Instances : p # r => phase'[p] = phase[p] /\ where'[p] = where[p]
        /\ phase'[r] = "get" /\ where'[r] = i
    BY <1>t, <1>c, <2>1
  <2> QED
    BY <1>d, <1>z, <1>n, <2>1, <2>2
<1>2. ASSUME NEW r \in Readers, GetL2(r) \/ CheckNeg(r) PROVE WaitInv'
  <2>1. /\ \E from \in {"get", "exists"}, to \in {"fill", "exists", "join", "fillNeg"} : Goto(r, from, to)
        /\ waiting' = waiting /\ where' = where
    BY <1>2 DEF GetL2, CheckNeg
  <2> QED
    BY <1>r, <2>1
<1>3. ASSUME NEW r \in Readers, FillL1(r) PROVE WaitInv'
  <2>1. /\ phase[r] # "wait" /\ phase' = [phase EXCEPT ![r] = "idle"]
        /\ where' = [where EXCEPT ![r] = Nowhere] /\ waiting' = waiting
    BY <1>3 DEF FillL1, Goto
  <2>2. /\ \A p \in Readers \cup Instances : p # r => phase'[p] = phase[p] /\ where'[p] = where[p]
        /\ phase'[r] = "idle"
    BY <1>t, <1>c, <2>1
  <2> QED
    BY <1>d, <1>z, <1>n, <2>1, <2>2
<1>4. ASSUME NEW r \in Readers, Join(r) PROVE WaitInv'
  <2>1. PICK i \in Instances : i = where[r]
    BY <1>4, <1>z DEF Join
  <2>2. /\ phase[r] = "join" /\ where' = where
        /\ waiting' = [waiting EXCEPT ![i] = waiting[i] \cup {r}]
        /\ phase' = [phase EXCEPT ![r] = "wait", ![i] = IF phase[i] = "off" THEN "recheck" ELSE phase[i]]
    BY <1>4, <1>d, <2>1 DEF Join
  <2>3. /\ \A p \in Readers : phase'[p] = IF p = r THEN "wait" ELSE phase[p]
        /\ \A j \in Instances : phase'[j] = IF j = i /\ phase[i] = "off" THEN "recheck" ELSE phase[j]
        /\ \A j \in Instances : waiting'[j] = IF j = i THEN waiting[i] \cup {r} ELSE waiting[j]
    BY <1>t, <1>c, <1>d, <2>2
  <2>4. \A p \in Readers : phase'[p] # "idle" => where'[p] \in Instances
    BY <1>z, <2>1, <2>2, <2>3
  <2>5. ASSUME NEW j \in Instances, NEW p \in waiting'[j] PROVE phase'[p] = "wait" /\ where'[p] = j
    <3>1. CASE p = r /\ j = i
      BY <2>1, <2>2, <2>3, <3>1
    <3>2. CASE p \in waiting[j]
      <4>1. p \in Readers /\ phase[p] = "wait" /\ where[p] = j
        BY <1>z, <3>2
      <4> QED
        BY <2>2, <2>3, <4>1
    <3> QED
      BY <2>3, <2>5, <3>1, <3>2
  <2>6. \A p \in Readers : phase'[p] = "wait" => p \in waiting'[where'[p]]
    BY <1>z, <2>1, <2>2, <2>3
  <2>7. ASSUME NEW j \in Instances PROVE waiting'[j] # {} <=> phase'[j] # "off"
    BY <1>z, <2>3
  <2> QED
    BY <1>z, <1>g, <2>2, <2>4, <2>5, <2>6, <2>7
<1>5. ASSUME NEW i \in Instances, Recheck(i) \/ Load(i) \/ Store(i) \/ NegSet(i) \/ NegLocal(i)
      PROVE  WaitInv'
  <2>1. \/ \E v, l : Deliver(i, v, l) /\ where' = where
        \/ Refuse(i)
        \/ /\ \E from \in {"recheck", "load", "negset"}, to \in {"load", "store", "negset", "neglocal"} :
                  Goto(i, from, to)
           /\ waiting' = waiting /\ where' = where
    BY <1>5 DEF Recheck, Load, Store, NegSet, NegLocal
  <2> QED
    BY <1>l, <1>v, <1>u, <2>1
<1>6. ASSUME NEW w \in Writers, NEW i \in Instances, Register(w, i) \/ Update(w, i) \/ Delete(w, i)
      PROVE  WaitInv'
  <2>1. \E from, to : Goto(w, from, to) /\ waiting' = waiting /\ where' = [where EXCEPT ![w] = i]
    BY <1>6 DEF Register, Update, Delete, Commit
  <2> QED
    BY <1>w, <2>1
<1>7. ASSUME NEW w \in Writers, Invalidate(w) \/ DeleteDevice(w) PROVE WaitInv'
  <2>1. \E from, to : /\ Goto(w, from, to) /\ waiting' = waiting
                      /\ where' = where \/ where' = [where EXCEPT ![w] = Nowhere]
    BY <1>7 DEF Invalidate, Reread, SetL2, DelL2, DeleteLocal, Publish, DeleteDevice
  <2> QED
    BY <1>w, <2>1
<1>8. ASSUME NEW i \in Instances, Restart(i) PROVE WaitInv'
  <2>1. /\ \A p \in Readers : phase'[p] = IF where[p] = i THEN "idle" ELSE phase[p]
        /\ \A j \in Instances : phase'[j] = IF j = i THEN "off" ELSE phase[j]
        /\ \A j \in Instances : waiting'[j] = IF j = i THEN {} ELSE waiting[j]
    <3>1. \A p \in Calls :
              phase'[p] = IF where[p] # i THEN phase[p]
                          ELSE IF p \in Readers THEN "idle" ELSE IF p \in Writers THEN "gone" ELSE "off"
      BY <1>8 DEF Restart
    <3>2. ASSUME NEW j \in Instances PROVE phase'[j] = IF j = i THEN "off" ELSE phase[j]
      BY <1>c, <1>d, <1>z, <3>1
    <3>3. ASSUME NEW p \in Readers PROVE phase'[p] = IF where[p] = i THEN "idle" ELSE phase[p]
      BY <1>c, <3>1
    <3>4. waiting' = [waiting EXCEPT ![i] = {}]
      BY <1>8 DEF Restart
    <3> QED
      BY <1>t, <3>2, <3>3, <3>4
  <2>2. \A p \in Readers \cup Instances : where'[p] = IF p # i /\ where[p] = i THEN Nowhere ELSE where[p]
    BY <1>c, <1>8 DEF Restart
  <2>3. \A j \in Instances : where'[j] = j
    BY <1>z, <2>2
  <2>4. \A r \in Readers : r # i /\ (where[r] # i => where'[r] = where[r])
    BY <1>d, <2>2
  <2> QED
    BY <1>z, <1>g, <2>1, <2>3, <2>4
<1>9. CASE \/ \E i \in Instances : Receive(i) \/ Lose(i) \/ ExpireL1(i)
           \/ ExpireL2 \/ ExpireNeg \/ UNCHANGED systemVars
  <2>1. UNCHANGED <<waiting, phase, where>>
    BY <1>9 DEF Receive, Lose, ExpireL1, ExpireL2, ExpireNeg, systemVars
  <2> QED
    BY <1>z, <1>n, <2>1
<1> QED
  BY <1>1, <1>2, <1>3, <1>4, <1>5, <1>6, <1>7, <1>8, <1>9 DEF CacheNext, Read, LoadStep

\* Every variable of the cache keeps its type.
THEOREM CacheTypeCorrect ==
    CacheSpec => [](CacheTypeOK /\ WaitInv)
<1>1. CacheInit => CacheTypeOK /\ WaitInv
  BY CacheTypeInit, WaitInit
<1>2. (CacheTypeOK /\ WaitInv) /\ [CacheNext]_systemVars => (CacheTypeOK /\ WaitInv)'
  BY CacheTypeStep, WaitStep
<1> QED
  BY <1>1, <1>2, PTL DEF CacheSpec

-----------------------------------------------------------------------------
(* Why a cache holds something other than the row. *)

\* Only rows have negative entries.  What deletes a row deletes it for good, and a list is not set.
RowInv ==
    /\ changes # 0
    /\ kind # "row" => neg = NoEntry /\ \A i \in Instances : phase[i] # "negset"
    /\ kind = "row" => \A w \in Writers : phase[w] \in {"clear", "del"} => row = 0 /\ changes # 1
    /\ \A i \in Instances : phase[i] = "negset" => held[i] = 0

LEMMA RowInit == ASSUME CacheInit PROVE RowInv
<1>1. /\ \A i \in Instances : phase[i] = "off"
      /\ \A w \in Writers : phase[w] = "new"
  BY CacheBounds DEF CacheInit, Calls
<1> QED
  BY <1>1 DEF CacheInit, RowInv

LEMMA RowStep ==
    ASSUME CacheTypeOK, WaitInv, RowInv, [CacheNext]_systemVars
    PROVE  RowInv'
<1> USE DEF rowVars, cacheVars, callVars
<1>t. /\ kind \in {"row", "list", "defs"} /\ row \in Nat /\ changes \in Nat
      /\ phase \in [Calls -> ReaderPhases \cup LoadPhases \cup WriterPhases]
      /\ held \in [Calls -> Nat] /\ waiting \in [Instances -> SUBSET Readers]
  BY CacheBounds DEF CacheTypeOK
<1>c. Readers \subseteq Calls /\ Writers \subseteq Calls /\ Instances \subseteq Calls
  BY DEF Calls
<1>d. /\ \A i \in Instances : i \notin Readers /\ i \notin Writers
      /\ \A w \in Writers : w \notin Readers /\ w \notin Instances
  BY CacheBounds
<1>z. /\ changes # 0
      /\ kind # "row" => neg = NoEntry /\ \A i \in Instances : phase[i] # "negset"
      /\ kind = "row" => \A w \in Writers : phase[w] \in {"clear", "del"} => row = 0 /\ changes # 1
      /\ \A i \in Instances : phase[i] = "negset" => held[i] = 0
  BY DEF RowInv
\* The change and the negative entry stay, no writer gets to clear, no load to its negative entry.
<1>n. ASSUME UNCHANGED <<kind, row, changes, orphaned>>, neg' = neg \/ neg' = NoEntry \/ kind = "row",
             \A w \in Writers : phase'[w] \in {"clear", "del"} => phase[w] \in {"clear", "del"} \/ kind # "row",
             \A i \in Instances : phase'[i] = "negset" =>
                 held'[i] = 0 /\ (phase[i] = "negset" \/ kind = "row")
      PROVE  RowInv'
  BY <1>t, <1>z, <1>n DEF RowInv
<1>1. ASSUME NEW w \in Writers,
             DeleteDevice(w) \/ \E i \in Instances : Register(w, i) \/ Update(w, i) \/ Delete(w, i)
      PROVE  RowInv'
  <2>1. PICK to \in {"reread", "clear", "done"} :
            /\ kind' = kind /\ neg' = neg /\ held' = held /\ changes' = changes + 1
            /\ phase' = [phase EXCEPT ![w] = to]
            /\ row' \in {0, changes + 1}
            /\ kind = "row" => ~(row = 0 /\ changes # 1)
            /\ kind = "row" /\ to = "clear" => row' = 0
    <3>1. CASE DeleteDevice(w)
      BY <1>t, <3>1 DEF DeleteDevice, Goto
    <3>2. CASE \E i \in Instances : Register(w, i)
      BY <1>t, <3>2 DEF Register, Commit, Goto
    <3>3. CASE \E i \in Instances : Update(w, i) \/ Delete(w, i)
      BY <1>t, <3>3 DEF Update, Delete, Commit, Goto
    <3> QED
      BY <1>1, <3>1, <3>2, <3>3
  <2>2. /\ \A x \in Writers : phase'[x] = IF x = w THEN to ELSE phase[x]
        /\ \A j \in Instances : phase'[j] = phase[j]
    BY <1>t, <1>c, <1>d, <2>1
  <2>3. changes' # 0 /\ changes' # 1
    BY <1>t, <1>z, <2>1
  <2> QED
    BY <1>t, <1>z, <2>1, <2>2, <2>3 DEF RowInv
<1>2. ASSUME NEW w \in Writers, Invalidate(w) PROVE RowInv'
  <2>1. /\ UNCHANGED <<kind, row, changes, orphaned, neg>>
        /\ \E to : /\ phase' = [phase EXCEPT ![w] = to]
                   /\ to \in {"clear", "del"} => phase[w] \in {"clear", "del"} \/ kind # "row"
        /\ held' = held \/ \E v : held' = [held EXCEPT ![w] = v]
    BY <1>2 DEF Invalidate, Reread, SetL2, DelL2, DeleteLocal, Publish, Goto, Take
  <2>2. /\ \A x \in Writers :
               phase'[x] \in {"clear", "del"} => phase[x] \in {"clear", "del"} \/ kind # "row"
        /\ \A j \in Instances : phase'[j] = phase[j] /\ held'[j] = held[j]
    BY <1>t, <1>c, <1>d, <2>1
  <2> QED
    BY <1>z, <1>n, <2>1, <2>2
<1>3. ASSUME NEW r \in Readers, Read(r) \/ \E i \in Instances : Miss(r, i) PROVE RowInv'
  <2>1. UNCHANGED <<kind, row, changes, orphaned, neg>>
    BY <1>3 DEF Read, GetL2, CheckNeg, FillL1, Join, Miss
  <2>2. /\ \A x \in Writers : phase'[x] = phase[x]
        /\ \A j \in Instances : phase'[j] = phase[j] \/ phase'[j] = "recheck"
        /\ \A j \in Instances : held'[j] = held[j]
    <3>1. CASE Join(r)
      <4>1. PICK i \in Instances : i = where[r]
        BY <3>1 DEF WaitInv, Join
      <4>2. held' = held
            /\ phase' = [phase EXCEPT ![r] = "wait", ![i] = IF phase[i] = "off" THEN "recheck" ELSE phase[i]]
        BY <1>d, <3>1, <4>1 DEF Join
      <4> QED
        BY <1>t, <1>c, <1>d, <4>2
    <3>2. CASE ~Join(r)
      <4>1. /\ \E to : phase' = [phase EXCEPT ![r] = to]
            /\ held' = held \/ \E v : held' = [held EXCEPT ![r] = v]
        BY <1>3, <3>2 DEF Read, GetL2, CheckNeg, FillL1, Miss, Goto, Take
      <4> QED
        BY <1>t, <1>c, <1>d, <4>1
    <3> QED
      BY <3>1, <3>2
  <2> QED
    BY <1>z, <1>n, <2>1, <2>2
<1>4. ASSUME NEW i \in Instances, LoadStep(i) PROVE RowInv'
  <2>1. UNCHANGED <<kind, row, changes, orphaned>> /\ (neg' = neg \/ phase[i] = "negset")
    BY <1>4 DEF LoadStep, Recheck, Load, Store, NegSet, NegLocal, Goto
  <2>2. /\ \A x \in Writers : phase'[x] = phase[x]
        /\ \A j \in Instances : phase'[j] = "negset" =>
               held'[j] = 0 /\ (phase[j] = "negset" \/ kind = "row")
    <3>1. CASE \E v, l : Deliver(i, v, l)
      <4>1. PICK v, l : Deliver(i, v, l)
        BY <3>1
      <4>2. \A x \in Writers \cup Instances : x \notin waiting[i]
        BY <1>t, <1>d
      <4>3. \A x \in Writers \cup Instances :
                /\ phase'[x] = IF x = i THEN "off" ELSE phase[x]
                /\ x # i => held'[x] = held[x]
        BY <1>c, <4>1, <4>2 DEF Deliver
      <4> QED
        BY <1>d, <1>z, <4>3
    <3>2. CASE Refuse(i)
      <4>1. \A x \in Writers \cup Instances : x \notin waiting[i]
        BY <1>t, <1>d
      <4>2. \A x \in Writers \cup Instances :
                /\ phase'[x] = IF x = i THEN "off" ELSE phase[x]
                /\ x # i => held'[x] = held[x]
        BY <1>c, <1>t, <3>2, <4>1 DEF Refuse, Take
      <4> QED
        BY <1>d, <1>z, <4>2
    <3>3. CASE \E to : /\ phase' = [phase EXCEPT ![i] = to]
                       /\ to = "negset" => row = 0 /\ kind = "row" /\ held' = [held EXCEPT ![i] = row]
                       /\ held' = held \/ held' = [held EXCEPT ![i] = row]
      BY <1>t, <1>c, <1>d, <1>z, <3>3
    <3> QED
      BY <1>4, <3>1, <3>2, <3>3
      DEF LoadStep, Recheck, Load, Store, NegSet, NegLocal, Goto, Take
  <2>3. neg' = neg \/ kind = "row"
    BY <1>t, <1>z, <2>1
  <2> QED
    BY <1>n, <2>1, <2>2, <2>3
<1>5. ASSUME NEW i \in Instances, Restart(i) PROVE RowInv'
  <2>1. /\ \A p \in Calls :
              /\ phase'[p] = IF where[p] # i THEN phase[p]
                             ELSE IF p \in Readers THEN "idle" ELSE IF p \in Writers THEN "gone" ELSE "off"
              /\ held'[p] = IF where[p] = i THEN 0 ELSE held[p]
        /\ UNCHANGED <<kind, row, changes, orphaned, neg>>
    BY <1>5 DEF Restart
  <2>2. /\ \A x \in Writers : phase'[x] = "gone" \/ phase'[x] = phase[x]
        /\ \A j \in Instances : phase'[j] = "off" \/ (phase'[j] = phase[j] /\ held'[j] \in {0, held[j]})
    BY <1>c, <1>d, <2>1
  <2> QED
    BY <1>z, <1>n, <2>1, <2>2
<1>6. CASE \/ \E i \in Instances : Receive(i) \/ Lose(i) \/ ExpireL1(i)
           \/ ExpireL2 \/ ExpireNeg \/ UNCHANGED systemVars
  <2>1. UNCHANGED <<kind, row, changes, orphaned, phase, held>> /\ neg' \in {neg, NoEntry}
    BY <1>6 DEF Receive, Lose, ExpireL1, ExpireL2, ExpireNeg, systemVars
  <2> QED
    BY <1>z, <1>n, <2>1
<1> QED
  BY <1>1, <1>2, <1>3, <1>4, <1>5, <1>6 DEF CacheNext

\* A change whose effect on Redis is still to come, of a writer other than w or of any.
OtherPending(w) == \E x \in Writers \ {w} : L2Pending(x)
AnyPending == \E x \in Writers : L2Pending(x)

\* While nothing failed, and no device took its definitions along: what a cache holds, and what a call is about to put into it, is the row;
\* or an invalidation overtook it; or one that will reach that cache is still to come.  A negative
\* entry that is neither is hidden behind an entry in Redis.
StaleInv ==
    faults = 0 /\ ~orphaned =>
        /\ l2 # NoEntry /\ l2.value # row => l2.late \/ AnyPending
        /\ \A i \in Instances : l1[i] # NoEntry /\ l1[i].value # row => l1[i].late \/ L1Pending(i)
        /\ \A w \in Writers : phase[w] = "set" /\ held[w] # row => late[w] \/ OtherPending(w)
        /\ \A i \in Instances :
               /\ phase[i] \in {"store", "negset"} /\ held[i] # row => late[i] \/ AnyPending
               /\ phase[i] = "neglocal" /\ held[i] # row => late[i] \/ L1Pending(i)
        /\ \A r \in Readers, i \in Instances :
               where[r] = i /\ phase[r] \in {"fill", "fillNeg"} /\ held[r] # row =>
                   late[r] \/ L1Pending(i)
        /\ neg # NoEntry /\ ~neg.late /\ row # 0 =>
               /\ l2 # NoEntry \/ AnyPending
               /\ \A r \in Readers : phase[r] = "exists" => late[r] \/ AnyPending

LEMMA StaleInit == ASSUME CacheInit PROVE StaleInv
<1>1. /\ \A w \in Writers : phase[w] = "new"
      /\ \A i \in Instances : phase[i] = "off" /\ l1[i] = NoEntry
      /\ \A r \in Readers : phase[r] = "idle"
      /\ l2 = NoEntry /\ neg = NoEntry
  BY CacheBounds DEF CacheInit, Calls
<1> QED
  BY <1>1 DEF StaleInv

LEMMA StaleStep ==
    ASSUME CacheTypeOK, CacheTypeOK', WaitInv, RowInv, StaleInv, [CacheNext]_systemVars
    PROVE  StaleInv'
<1> SUFFICES ASSUME faults' = 0, ~orphaned' PROVE StaleInv'
  BY DEF StaleInv
<1> USE DEF rowVars, cacheVars, callVars
<1>t. /\ kind \in {"row", "list", "defs"} /\ row \in Nat /\ changes \in Nat
      /\ phase \in [Calls -> ReaderPhases \cup LoadPhases \cup WriterPhases]
      /\ held \in [Calls -> Nat] /\ late \in [Calls -> BOOLEAN]
      /\ where \in [Calls -> Instances \cup {Nowhere}]
      /\ waiting \in [Instances -> SUBSET Readers] /\ inbox \in [Instances -> Nat]
      /\ l1 \in [Instances -> Entry \cup {NoEntry}]
  BY CacheBounds DEF CacheTypeOK
<1>f. ~Fault
  BY DEF Fault, CacheTypeOK
<1>c. Readers \subseteq Calls /\ Writers \subseteq Calls /\ Instances \subseteq Calls
  BY DEF Calls
<1>d. /\ \A i \in Instances : i \notin Readers /\ i \notin Writers
      /\ \A w \in Writers : w \notin Readers /\ w \notin Instances
      /\ \A r \in Readers : r \notin Instances /\ r \notin Writers
  BY CacheBounds
<1>y. /\ \A r \in Readers : phase[r] # "idle" => where[r] \in Instances
      /\ \A i \in Instances : where[i] = i
      /\ \A i \in Instances : \A r \in waiting[i] : r \in Readers /\ phase[r] = "wait" /\ where[r] = i
  BY <1>t DEF WaitInv
<1>x. \A v \in Nat, l \in BOOLEAN : [value |-> v, late |-> l] # NoEntry
  <2>1. \A v \in Nat, l \in BOOLEAN : [value |-> v, late |-> l] \in Entry
    BY DEF Entry
  <2> QED
    BY <2>1, CacheBounds
<1> DEFINE L1Right(i) == l1[i] # NoEntry /\ l1[i].value # row => l1[i].late \/ L1Pending(i)
           SetRight(w) == phase[w] = "set" /\ held[w] # row => late[w] \/ OtherPending(w)
           LoadRight(i) == /\ phase[i] \in {"store", "negset"} /\ held[i] # row => late[i] \/ AnyPending
                           /\ phase[i] = "neglocal" /\ held[i] # row => late[i] \/ L1Pending(i)
           ReadRight(r, i) == where[r] = i /\ phase[r] \in {"fill", "fillNeg"} /\ held[r] # row =>
                                  late[r] \/ L1Pending(i)
           NegRight == neg # NoEntry /\ ~neg.late /\ row # 0 =>
                           /\ l2 # NoEntry \/ AnyPending
                           /\ \A r \in Readers : phase[r] = "exists" => late[r] \/ AnyPending
<1>g. ASSUME /\ l2' # NoEntry /\ l2'.value # row' => l2'.late \/ AnyPending'
             /\ \A i \in Instances : L1Right(i)'
             /\ \A w \in Writers : SetRight(w)'
             /\ \A i \in Instances : LoadRight(i)'
             /\ \A r \in Readers, i \in Instances : ReadRight(r, i)'
             /\ NegRight'
      PROVE  StaleInv'
  BY <1>g DEF StaleInv
<1>p. /\ AnyPending => \A i \in Instances : L1Pending(i)
      /\ AnyPending' => \A i \in Instances : L1Pending(i)'
      /\ \A w \in Writers : OtherPending(w) => AnyPending
      /\ \A w \in Writers : OtherPending(w)' => AnyPending'
  BY DEF AnyPending, OtherPending, L1Pending
\* A change is made: whatever was right may be old now, and the change has still to be told.
<1>1. ASSUME NEW w \in Writers, NEW i \in Instances, Register(w, i) \/ Update(w, i) \/ Delete(w, i)
      PROVE  StaleInv'
  <2>1. PICK to \in {"reread", "clear"} :
            /\ phase[w] = "new" /\ phase' = [phase EXCEPT ![w] = to]
            /\ where' = [where EXCEPT ![w] = i]
            /\ to = "reread" => row' # 0
    BY <1>t, <1>1 DEF Register, Update, Delete, Commit, Goto
  <2>2. L2Pending(w)'
    BY <1>t, <1>c, <2>1 DEF L2Pending
  <2>3. AnyPending'
    BY <2>2 DEF AnyPending
  <2>4. \A x \in Writers : phase'[x] = "set" => OtherPending(x)'
    <3>1. phase'[w] # "set"
      BY <1>t, <1>c, <2>1
    <3> QED
      BY <2>2, <3>1 DEF OtherPending
  <2> QED
    BY <1>g, <1>p, <2>3, <2>4
<1>h. (\E w \in Writers, i \in Instances : Register(w, i) \/ Update(w, i) \/ Delete(w, i)) \/ ~orphaned
  BY DEF CacheNext, Read, GetL2, CheckNeg, FillL1, Join, Miss, LoadStep, Recheck, Load, Store, NegSet,
         NegLocal, Invalidate, Reread, SetL2, DelL2, DeleteLocal, Publish, DeleteDevice,
         Receive, Lose, ExpireL1, Restart, ExpireL2, ExpireNeg, systemVars
<1> SUFFICES ASSUME ~orphaned PROVE StaleInv'
  BY <1>1, <1>h
<1>z. ASSUME faults = 0
      PROVE  /\ l2 # NoEntry /\ l2.value # row => l2.late \/ AnyPending
             /\ \A i \in Instances : L1Right(i)
             /\ \A w \in Writers : SetRight(w)
             /\ \A i \in Instances : LoadRight(i)
             /\ \A r \in Readers, i \in Instances : ReadRight(r, i)
             /\ NegRight
  BY <1>z DEF StaleInv
\* What is still to come is what it was.
<1>s. ASSUME row' = row, inbox' = inbox,
             \A x \in Writers :
                 /\ L2Pending(x)' <=> L2Pending(x)
                 /\ phase'[x] \in {"local", "publish"} <=> phase[x] \in {"local", "publish"}
      PROVE  /\ AnyPending' <=> AnyPending
             /\ \A w \in Writers : OtherPending(w)' <=> OtherPending(w)
             /\ \A i \in Instances : L1Pending(i)' <=> L1Pending(i)
  <2>1. AnyPending' <=> AnyPending
    BY <1>s DEF AnyPending
  <2>2. \A w \in Writers : OtherPending(w)' <=> OtherPending(w)
    BY <1>s DEF OtherPending
  <2>3. \A i \in Instances : L1Pending(i)' <=> L1Pending(i)
    BY <1>s DEF L1Pending
  <2> QED
    BY <2>1, <2>2, <2>3
<1>a. ASSUME row' = row, inbox' = inbox, \A x \in Writers : phase'[x] = phase[x]
      PROVE  /\ AnyPending' <=> AnyPending
             /\ \A w \in Writers : OtherPending(w)' <=> OtherPending(w)
             /\ \A i \in Instances : L1Pending(i)' <=> L1Pending(i)
  <2>1. \A x \in Writers : L2Pending(x)' <=> L2Pending(x)
    BY <1>a DEF L2Pending
  <2> QED
    BY <1>s, <1>a, <2>1
\* A reader goes on with a value, and nothing else happens.
<1>2. ASSUME NEW r \in Readers, GetL2(r) \/ CheckNeg(r) \/ Join(r) \/ \E i \in Instances : Miss(r, i)
      PROVE  StaleInv'
  <2>1. /\ UNCHANGED <<kind, row, changes, orphaned, l2, neg, l1, inbox>> /\ faults = 0
        /\ \A x \in Writers : phase'[x] = phase[x] /\ held'[x] = held[x] /\ late'[x] = late[x]
        /\ \A x \in Readers : x # r =>
               phase'[x] = phase[x] /\ held'[x] = held[x] /\ late'[x] = late[x] /\ where'[x] = where[x]
        /\ \A j \in Instances : /\ phase'[j] = phase[j] \/ phase'[j] = "recheck"
                                /\ held'[j] = held[j] /\ late'[j] = late[j]
    <3>1. CASE Join(r)
      <4>1. PICK i \in Instances : i = where[r]
        BY <1>y, <3>1 DEF Join
      <4>2. /\ UNCHANGED <<kind, row, changes, orphaned, l2, neg, l1, inbox, held, late, where, faults>>
            /\ phase' = [phase EXCEPT ![r] = "wait", ![i] = IF phase[i] = "off" THEN "recheck" ELSE phase[i]]
        BY <1>d, <3>1, <4>1 DEF Join
      <4> QED
        BY <1>t, <1>c, <1>d, <4>2
    <3>2. CASE ~Join(r)
      <4>1. /\ \E to : phase' = [phase EXCEPT ![r] = to]
            /\ held' = held \/ \E v : held' = [held EXCEPT ![r] = v]
            /\ late' = late \/ \E v : late' = [late EXCEPT ![r] = v]
            /\ where' = where \/ \E i : where' = [where EXCEPT ![r] = i]
            /\ UNCHANGED <<kind, row, changes, orphaned, l2, neg, l1, inbox, faults>>
        BY <1>2, <1>f, <3>2 DEF GetL2, CheckNeg, Miss, Goto, Take
      <4> QED
        BY <1>t, <1>c, <1>d, <4>1
    <3> QED
      BY <3>1, <3>2
  <2>2. /\ AnyPending' <=> AnyPending
        /\ \A w \in Writers : OtherPending(w)' <=> OtherPending(w)
        /\ \A i \in Instances : L1Pending(i)' <=> L1Pending(i)
    BY <1>a, <2>1
  \* What r has in its hands now.
  <2>3. /\ phase'[r] \in {"fill", "fillNeg"} /\ held'[r] # row => late'[r] \/ AnyPending
        /\ neg # NoEntry /\ ~neg.late /\ row # 0 /\ phase'[r] = "exists" => AnyPending
    <3>1. CASE GetL2(r)
      <4>1. \/ phase'[r] = "fill" /\ l2 # NoEntry /\ held'[r] = l2.value /\ late'[r] = l2.late
            \/ phase'[r] = "exists" /\ l2 = NoEntry
            \/ phase'[r] = "join"
        BY <1>t, <1>c, <3>1 DEF GetL2, Goto, Take
      <4> QED
        BY <1>z, <2>1, <4>1
    <3>2. CASE CheckNeg(r)
      <4>1. /\ phase[r] = "exists"
            /\ \/ phase'[r] = "fillNeg" /\ neg # NoEntry /\ held'[r] = 0 /\ late'[r] = (late[r] \/ neg.late)
               \/ phase'[r] = "join"
        <5>1. \/ /\ neg # NoEntry /\ Goto(r, "exists", "fillNeg")
                 /\ held' = [held EXCEPT ![r] = 0] /\ late' = [late EXCEPT ![r] = late[r] \/ neg.late]
              \/ Goto(r, "exists", "join")
          BY <3>2 DEF CheckNeg, Take
        <5>2. \A to : Goto(r, "exists", to) => phase[r] = "exists" /\ phase'[r] = to
          BY <1>t, <1>c DEF Goto
        <5>3. CASE /\ neg # NoEntry /\ Goto(r, "exists", "fillNeg")
                   /\ held' = [held EXCEPT ![r] = 0] /\ late' = [late EXCEPT ![r] = late[r] \/ neg.late]
          <6>1. held'[r] = 0
            BY <1>t, <1>c, <5>3
          <6>2. late'[r] = (late[r] \/ neg.late)
            BY <1>t, <1>c, <5>3, Zenon
          <6> QED
            BY <5>2, <5>3, <6>1, <6>2
        <5> QED
          BY <5>1, <5>2, <5>3
      <4>2. neg # NoEntry /\ row # 0 => neg.late \/ late[r] \/ AnyPending
        BY <1>z, <2>1, <4>1
      <4> QED
        BY <4>1, <4>2
    <3>3. CASE Join(r) \/ \E i \in Instances : Miss(r, i)
      <4>1. phase'[r] \in {"wait", "get", "recheck", "off"}
        <5>1. CASE Join(r)
          <6>1. PICK i \in Instances : i = where[r]
            BY <1>y, <5>1 DEF Join
          <6>2. phase' = [phase EXCEPT ![r] = "wait", ![i] = IF phase[i] = "off" THEN "recheck" ELSE phase[i]]
            BY <1>d, <5>1, <6>1 DEF Join
          <6> QED
            BY <1>t, <1>c, <1>d, <6>2
        <5>2. CASE \E i \in Instances : Miss(r, i)
          BY <1>t, <1>c, <5>2 DEF Miss, Goto
        <5> QED
          BY <3>3, <5>1, <5>2
      <4> QED
        BY <4>1
    <3> QED
      BY <1>2, <3>1, <3>2, <3>3
  <2>4. \A i \in Instances : L1Right(i)' /\ LoadRight(i)'
    BY <1>z, <2>1, <2>2
  <2>5. \A w \in Writers : SetRight(w)'
    BY <1>z, <2>1, <2>2
  <2>6. ASSUME NEW x \in Readers, NEW i \in Instances PROVE ReadRight(x, i)'
    <3>1. CASE x = r
      BY <1>p, <2>1, <2>2, <2>3, <3>1
    <3>2. CASE x # r
      <4>1. ReadRight(x, i)
        BY <1>z, <2>1
      <4>2. phase'[x] = phase[x] /\ held'[x] = held[x] /\ late'[x] = late[x] /\ where'[x] = where[x]
        BY <2>1, <3>2
      <4> QED
        BY <2>1, <2>2, <4>1, <4>2
    <3> QED
      BY <3>1, <3>2
  <2>7. NegRight'
    <3>1. ASSUME NEW x \in Readers, neg # NoEntry, ~neg.late, row # 0, phase'[x] = "exists"
          PROVE  late'[x] \/ AnyPending
      <4>1. CASE x = r
        BY <2>3, <3>1, <4>1
      <4>2. CASE x # r
        BY <1>z, <2>1, <3>1, <4>2
      <4> QED
        BY <4>1, <4>2
    <3> QED
      BY <1>z, <2>1, <2>2, <3>1
  <2> QED
    BY <1>g, <1>z, <2>1, <2>2, <2>4, <2>5, <2>6, <2>7
\* A reader puts what it has into the local cache of its instance.
<1>3. ASSUME NEW r \in Readers, FillL1(r) PROVE StaleInv'
  <2>1. PICK i \in Instances : i = where[r]
    BY <1>y, <1>3 DEF FillL1, Goto
  <2>2. /\ phase[r] \in {"fill", "fillNeg"} /\ phase' = [phase EXCEPT ![r] = "idle"]
        /\ l1' = [l1 EXCEPT ![i] = [value |-> held[r], late |-> late[r]]]
        /\ held' = [held EXCEPT ![r] = 0] /\ late' = [late EXCEPT ![r] = FALSE]
        /\ where' = [where EXCEPT ![r] = Nowhere]
        /\ UNCHANGED <<row, l2, neg, inbox, faults>>
    BY <1>3, <2>1 DEF FillL1, Fill, Goto, Take
  <2>3. /\ \A x \in Calls : x # r => phase'[x] = phase[x] /\ held'[x] = held[x]
                                       /\ late'[x] = late[x] /\ where'[x] = where[x]
        /\ phase'[r] = "idle"
        /\ \A j \in Instances : l1'[j] = IF j = i THEN [value |-> held[r], late |-> late[r]] ELSE l1[j]
    BY <1>t, <1>c, <2>2
  <2>4. /\ AnyPending' <=> AnyPending
        /\ \A w \in Writers : OtherPending(w)' <=> OtherPending(w)
        /\ \A j \in Instances : L1Pending(j)' <=> L1Pending(j)
    BY <1>a, <1>c, <1>d, <2>2, <2>3
  <2>5. ASSUME NEW j \in Instances PROVE L1Right(j)'
    <3>1. CASE j = i
      BY <1>z, <2>1, <2>2, <2>3, <2>4, <3>1
    <3>2. CASE j # i
      BY <1>z, <2>2, <2>3, <2>4, <3>2
    <3> QED
      BY <3>1, <3>2
  <2>6. \A w \in Writers : SetRight(w)'
    BY <1>z, <1>c, <1>d, <2>2, <2>3, <2>4
  <2>7. \A j \in Instances : LoadRight(j)'
    BY <1>z, <1>c, <1>d, <2>2, <2>3, <2>4
  <2>8. \A x \in Readers, j \in Instances : ReadRight(x, j)'
    BY <1>z, <1>c, <2>2, <2>3, <2>4
  <2>9. NegRight'
    BY <1>z, <1>c, <2>2, <2>3, <2>4
  <2> QED
    BY <1>g, <1>z, <2>2, <2>4, <2>5, <2>6, <2>7, <2>8, <2>9
\* A load ends with a value that is right, and everybody who waits for it has it.
<1>v. ASSUME NEW i \in Instances, NEW v \in Nat, NEW l \in BOOLEAN, Deliver(i, v, l), faults = 0,
             UNCHANGED <<row, neg, l1, inbox, where>>,
             v # row => l \/ AnyPending,
             l2' = l2 \/ l2' = [value |-> v, late |-> l]
      PROVE  StaleInv'
  <2>1. /\ \A x \in Calls : x \notin waiting[i] /\ x # i =>
               phase'[x] = phase[x] /\ held'[x] = held[x] /\ late'[x] = late[x]
        /\ \A x \in waiting[i] : phase'[x] = "fill" /\ held'[x] = v /\ late'[x] = l
    BY <1>t, <1>c, <1>v DEF Deliver
  <2>2. /\ \A x \in Writers : phase'[x] = phase[x] /\ held'[x] = held[x] /\ late'[x] = late[x]
        /\ \A j \in Instances : j # i =>
               phase'[j] = phase[j] /\ held'[j] = held[j] /\ late'[j] = late[j]
    BY <1>t, <1>c, <1>d, <2>1
  <2>3. phase'[i] = "off"
    BY <1>t, <1>c, <1>d, <1>v DEF Deliver
  <2>4. /\ AnyPending' <=> AnyPending
        /\ \A w \in Writers : OtherPending(w)' <=> OtherPending(w)
        /\ \A j \in Instances : L1Pending(j)' <=> L1Pending(j)
    BY <1>a, <1>v, <2>2
  <2>5. l2' # NoEntry /\ l2'.value # row => l2'.late \/ AnyPending
    BY <1>z, <1>v
  <2>6. \A j \in Instances : L1Right(j)'
    BY <1>z, <1>v, <2>4
  <2>7. \A w \in Writers : SetRight(w)'
    BY <1>z, <1>v, <2>2, <2>4
  <2>8. ASSUME NEW j \in Instances PROVE LoadRight(j)'
    <3>1. CASE j = i
      BY <2>3, <3>1
    <3>2. CASE j # i
      BY <1>z, <1>v, <2>2, <2>4, <3>2
    <3> QED
      BY <3>1, <3>2
  <2>9. ASSUME NEW x \in Readers, NEW j \in Instances PROVE ReadRight(x, j)'
    <3>1. CASE x \in waiting[i]
      <4>1. held'[x] # row => late'[x] \/ L1Pending(j)
        BY <1>p, <1>v, <2>1, <3>1
      <4> QED
        BY <1>v, <2>4, <4>1
    <3>2. CASE x \notin waiting[i]
      <4>1. phase'[x] = phase[x] /\ held'[x] = held[x] /\ late'[x] = late[x] /\ where'[x] = where[x]
        BY <1>c, <1>d, <1>v, <2>1, <3>2
      <4>2. ReadRight(x, j)
        BY <1>z, <1>v
      <4> QED
        BY <1>v, <2>4, <4>1, <4>2
    <3> QED
      BY <3>1, <3>2
  <2>10. NegRight'
    <3>1. ASSUME NEW x \in Readers, phase'[x] = "exists" PROVE phase[x] = "exists" /\ late'[x] = late[x]
      BY <1>c, <1>d, <2>1, <3>1
    <3>2. l2' # NoEntry \/ l2' = l2
      BY <1>v, <1>x
    <3> QED
      BY <1>z, <1>v, <2>4, <3>1, <3>2
  <2> QED
    BY <1>g, <1>v, <2>4, <2>5, <2>6, <2>7, <2>8, <2>9, <2>10
\* A load takes its next step, and has what is right.
<1>l. ASSUME NEW i \in Instances, faults = 0,
             UNCHANGED <<row, l2, inbox>>,
             \A x \in Writers : phase'[x] = phase[x] /\ held'[x] = held[x] /\ late'[x] = late[x],
             \A x \in Readers : phase'[x] = "idle"
                 \/ (phase'[x] = phase[x] /\ held'[x] = held[x] /\ late'[x] = late[x] /\ where'[x] = where[x]),
             \A j \in Instances : j # i =>
                 phase'[j] = phase[j] /\ held'[j] = held[j] /\ late'[j] = late[j] /\ l1'[j] = l1[j],
             phase'[i] \in {"store", "negset"} /\ held'[i] # row => late'[i] \/ AnyPending,
             phase'[i] = "neglocal" /\ held'[i] # row => late'[i] \/ L1Pending(i),
             l1'[i] # NoEntry /\ l1'[i].value # row => l1'[i].late \/ L1Pending(i),
             neg' = neg \/ (neg' # NoEntry /\ ~neg'.late /\ row # 0 => AnyPending)
      PROVE  StaleInv'
  <2>1. /\ AnyPending' <=> AnyPending
        /\ \A w \in Writers : OtherPending(w)' <=> OtherPending(w)
        /\ \A j \in Instances : L1Pending(j)' <=> L1Pending(j)
    BY <1>a, <1>l
  <2>2. ASSUME NEW j \in Instances PROVE L1Right(j)' /\ LoadRight(j)'
    <3>1. CASE j = i
      BY <1>l, <2>1, <3>1
    <3>2. CASE j # i
      BY <1>z, <1>l, <2>1, <3>2
    <3> QED
      BY <3>1, <3>2
  <2>3. \A w \in Writers : SetRight(w)'
    BY <1>z, <1>l, <2>1
  <2>4. \A x \in Readers, j \in Instances : ReadRight(x, j)'
    BY <1>z, <1>l, <2>1
  <2>5. NegRight'
    BY <1>z, <1>l, <2>1
  <2> QED
    BY <1>g, <1>z, <1>l, <2>1, <2>2, <2>3, <2>4, <2>5
<1>4. ASSUME NEW i \in Instances, Recheck(i) \/ Store(i) PROVE StaleInv'
  <2>1. CASE \E v \in Nat, l \in BOOLEAN : Deliver(i, v, l)
                 /\ (v # row => l \/ AnyPending) /\ (l2' = l2 \/ l2' = [value |-> v, late |-> l])
    <3>1. UNCHANGED <<row, neg, l1, inbox, where, faults>>
      BY <1>4, <1>f DEF Recheck, Store
    <3>2. faults = 0
      BY <3>1
    <3> QED
      BY <1>v, <2>1, <3>1, <3>2
  <2>2. CASE Recheck(i) /\ l2 # NoEntry /\ Deliver(i, l2.value, l2.late)
    <3>1. l2.value \in Nat /\ l2.late \in BOOLEAN /\ l2' = l2 /\ faults = 0
      BY <2>2, <1>f DEF CacheTypeOK, Entry, Recheck
    <3> QED
      BY <1>z, <2>1, <2>2, <3>1
  <2>3. CASE Store(i)
    <3>1. /\ held[i] \in Nat /\ late[i] \in BOOLEAN /\ Deliver(i, held[i], late[i])
          /\ l2' = [value |-> held[i], late |-> late[i]] /\ phase[i] = "store" /\ faults = 0
      BY <1>t, <1>c, <2>3, <1>f DEF Store
    <3>2. held[i] # row => late[i] \/ AnyPending
      BY <1>z, <3>1
    <3> QED
      BY <2>1, <3>1, <3>2
  <2>4. CASE Recheck(i) /\ Goto(i, "recheck", "load") /\ UNCHANGED <<waiting, held, late>>
    <3>1. /\ UNCHANGED <<row, l2, neg, l1, inbox, where, held, late, faults>>
          /\ phase' = [phase EXCEPT ![i] = "load"]
      BY <1>f, <2>4 DEF Recheck, Goto
    <3>2. /\ \A x \in Calls : x # i => phase'[x] = phase[x]
          /\ phase'[i] = "load"
      BY <1>t, <1>c, <3>1
    <3> QED
      BY <1>l, <1>z, <1>c, <1>d, <3>1, <3>2
  <2> QED
    BY <1>4, <1>f, <2>2, <2>3, <2>4 DEF Recheck
<1>5. ASSUME NEW i \in Instances, Load(i) \/ NegSet(i) PROVE StaleInv'
  <2>1. PICK to \in {"store", "negset", "neglocal"} :
            /\ phase' = [phase EXCEPT ![i] = to]
            /\ UNCHANGED <<row, l2, l1, inbox, where>> /\ faults = 0
    BY <1>5, <1>f DEF Load, NegSet, Goto
  <2>2. /\ \A x \in Calls : x # i => phase'[x] = phase[x] /\ held'[x] = held[x] /\ late'[x] = late[x]
        /\ phase'[i] = to
    <3>1. /\ held' = held \/ held' = [held EXCEPT ![i] = row]
          /\ late' = late \/ late' = [late EXCEPT ![i] = FALSE]
      BY <1>5, <1>f DEF Load, NegSet, Take
    <3> QED
      BY <1>t, <1>c, <2>1, <3>1
  <2>3. CASE Load(i)
    <3>1. held'[i] = row /\ neg' = neg /\ to # "neglocal"
      <4>1. /\ held' = [held EXCEPT ![i] = row] /\ neg' = neg
            /\ phase' = [phase EXCEPT ![i] = IF row = 0 /\ kind = "row" THEN "negset" ELSE "store"]
        BY <1>f, <2>3 DEF Load, Take, Goto
      <4> QED
        BY <1>t, <1>c, <2>2, <4>1
    <3> QED
      BY <1>l, <1>z, <1>c, <1>d, <2>1, <2>2, <3>1
  <2>4. CASE NegSet(i)
    <3>1. /\ phase[i] = "negset" /\ held' = held /\ late' = late
          /\ neg' = [value |-> 0, late |-> late[i]]
          /\ phase' = [phase EXCEPT ![i] = "neglocal"]
      BY <1>f, <2>4 DEF NegSet, Goto
    <3>2. held[i] = 0 /\ (held[i] # row => late[i] \/ AnyPending) /\ neg'.late = late[i] /\ to = "neglocal"
      BY <1>z, <1>t, <1>c, <2>1, <2>2, <3>1 DEF RowInv
    <3> QED
      BY <1>l, <1>z, <1>p, <1>c, <1>d, <2>1, <2>2, <3>1, <3>2
  <2> QED
    BY <1>5, <2>3, <2>4
<1>6. ASSUME NEW i \in Instances, NegLocal(i) PROVE StaleInv'
  <2>1. /\ phase[i] = "neglocal" /\ where[i] = i
        /\ UNCHANGED <<row, l2, neg, inbox>> /\ faults = 0
        /\ l1' = [l1 EXCEPT ![i] = [value |-> held[i], late |-> late[i]]]
        /\ Refuse(i)
    BY <1>6, <1>y DEF NegLocal, Fill
  <2>2. \A x \in Calls : phase'[x] = IF x \in waiting[i] THEN "idle" ELSE IF x = i THEN "off" ELSE phase[x]
    BY <2>1 DEF Refuse
  <2>3. \A x \in Calls :
            /\ x # i => held'[x] = held[x] /\ late'[x] = late[x]
            /\ where'[x] = IF x \in waiting[i] THEN Nowhere ELSE where[x]
    BY <1>t, <1>c, <2>1 DEF Refuse, Take
  <2>4. \A x \in Writers \cup Instances : x \notin waiting[i]
    BY <1>t, <1>d
  <2>5. /\ \A j \in Instances : j # i => l1'[j] = l1[j]
        /\ l1'[i].value = held[i] /\ l1'[i].late = late[i]
    BY <1>t, <2>1
  <2>6. held[i] # row => late[i] \/ L1Pending(i)
    BY <1>z, <2>1
  <2>7. phase'[i] = "off"
    BY <1>c, <2>2, <2>4
  <2>8. \A x \in Readers : phase'[x] = "idle"
           \/ (phase'[x] = phase[x] /\ held'[x] = held[x] /\ late'[x] = late[x] /\ where'[x] = where[x])
    BY <1>c, <1>d, <2>2, <2>3
  <2>9. /\ \A x \in Writers : phase'[x] = phase[x] /\ held'[x] = held[x] /\ late'[x] = late[x]
        /\ \A j \in Instances : j # i => phase'[j] = phase[j] /\ held'[j] = held[j] /\ late'[j] = late[j]
    BY <1>c, <1>d, <2>2, <2>3, <2>4
  <2> QED
    BY <1>l, <2>1, <2>5, <2>6, <2>7, <2>8, <2>9
\* Entries go, invalidations come or go, and what is in hand stays where it was or is overtaken.
<1>o. ASSUME faults = 0, UNCHANGED row, l2' = l2 \/ (l2' = NoEntry /\ neg = NoEntry), neg' = neg \/ neg' = NoEntry,
             \A j \in Instances : l1'[j] \in {l1[j], NoEntry},
             \A x \in Readers \cup Instances : phase'[x] = phase[x] /\ held'[x] = held[x] /\ (late[x] => late'[x]),
             \A x \in Readers : where'[x] = where[x],
             \A x \in Writers : phase'[x] = "set" => \/ held'[x] = row
                                                     \/ phase[x] = "set" /\ held'[x] = held[x] /\ (late[x] => late'[x]),
             AnyPending => AnyPending',
             \A x \in Writers : OtherPending(x) => OtherPending(x)',
             \A j \in Instances : L1Pending(j) => L1Pending(j)' \/ l1'[j] = NoEntry,
             \A j \in Instances : L1Pending(j) =>
                 L1Pending(j)' \/ \A x \in Calls : where[x] = j /\ Holding(x) => late'[x]
      PROVE  StaleInv'
  <2>1. \A j \in Instances : phase'[j] = phase[j] /\ held'[j] = held[j] /\ (late[j] => late'[j])
    BY <1>c, <1>d, <1>o
  <2>2. \A x \in Readers : phase'[x] = phase[x] /\ held'[x] = held[x] /\ (late[x] => late'[x]) /\ where'[x] = where[x]
    BY <1>c, <1>d, <1>o
  <2>3. \A j \in Instances : L1Right(j)'
    BY <1>z, <1>o
  <2>4. \A w \in Writers : SetRight(w)'
    BY <1>z, <1>c, <1>o
  <2>5. ASSUME NEW j \in Instances PROVE LoadRight(j)'
    <3>1. phase[j] = "neglocal" => Holding(j) /\ where[j] = j
      BY <1>y DEF Holding
    <3>2. phase'[j] = "neglocal" /\ held'[j] # row => late'[j] \/ L1Pending(j)'
      BY <1>z, <1>c, <1>o, <2>1, <3>1
    <3>3. phase'[j] \in {"store", "negset"} /\ held'[j] # row => late'[j] \/ AnyPending'
      BY <1>z, <1>o, <2>1
    <3> QED
      BY <1>o, <3>2, <3>3
  <2>6. ASSUME NEW x \in Readers, NEW j \in Instances PROVE ReadRight(x, j)'
    <3>1. phase[x] \in {"fill", "fillNeg"} => Holding(x)
      BY DEF Holding
    <3> QED
      BY <1>z, <1>c, <1>o, <2>2, <3>1
  <2>7. NegRight'
    BY <1>z, <1>o, <2>2
  <2> QED
    BY <1>g, <1>z, <1>o, <2>3, <2>4, <2>5, <2>6, <2>7
<1>7. CASE ExpireL2 \/ ExpireNeg \/ (\E i \in Instances : ExpireL1(i)) \/ UNCHANGED systemVars
  <2>1. /\ UNCHANGED <<row, inbox, phase, held, late, where>> /\ faults = 0
        /\ l2' = l2 \/ (l2' = NoEntry /\ neg = NoEntry)
        /\ neg' = neg \/ neg' = NoEntry
        /\ l1' = l1 \/ \E i \in Instances : l1' = [l1 EXCEPT ![i] = NoEntry]
    BY <1>7 DEF ExpireL2, GoneFromL2, ExpireNeg, ExpireL1, systemVars
  <2>2. /\ AnyPending' <=> AnyPending
        /\ \A w \in Writers : OtherPending(w)' <=> OtherPending(w)
        /\ \A j \in Instances : L1Pending(j)' <=> L1Pending(j)
    BY <1>a, <2>1
  <2>3. \A j \in Instances : l1'[j] \in {l1[j], NoEntry}
    BY <1>t, <2>1
  <2> QED
    BY <1>o, <2>1, <2>2, <2>3
\* The message of a change arrives.
<1>8. ASSUME NEW i \in Instances, Receive(i) PROVE StaleInv'
  <2>1. /\ UNCHANGED <<row, l2, neg, phase, held, where>> /\ faults = 0
        /\ inbox' = [inbox EXCEPT ![i] = inbox[i] - 1]
        /\ l1' = [l1 EXCEPT ![i] = NoEntry]
        /\ Overtake(i)
    BY <1>8 DEF Receive
  <2>2. \A x \in Calls : late'[x] = (late[x] \/ (where[x] = i /\ Holding(x)))
    BY <2>1, Zenon DEF Overtake
  <2>3. \A j \in Instances : l1'[j] = IF j = i THEN NoEntry ELSE l1[j]
    BY <1>t, <2>1
  <2>4. \A j \in Instances : inbox'[j] = IF j = i THEN inbox[i] - 1 ELSE inbox[j]
    BY <1>t, <2>1
  <2>5. \A x \in Writers : L2Pending(x)' <=> L2Pending(x)
    BY <2>1 DEF L2Pending
  <2>6. /\ AnyPending => AnyPending'
        /\ \A x \in Writers : OtherPending(x) => OtherPending(x)'
    BY <2>5 DEF AnyPending, OtherPending
  <2>7. \A j \in Instances : j # i => (L1Pending(j) => L1Pending(j)')
    BY <2>1, <2>4, <2>5 DEF L1Pending
  <2>8. /\ \A x \in Calls : late[x] => late'[x]
        /\ \A x \in Calls : where[x] = i /\ Holding(x) => late'[x]
    BY <2>2, Zenon
  <2>9. \A j \in Instances : L1Pending(j) => L1Pending(j)' \/ l1'[j] = NoEntry
    BY <2>3, <2>7
  <2>10. \A j \in Instances : L1Pending(j) =>
             L1Pending(j)' \/ \A x \in Calls : where[x] = j /\ Holding(x) => late'[x]
    BY <2>7, <2>8
  <2> QED
    BY <1>o, <1>c, <2>1, <2>3, <2>6, <2>8, <2>9, <2>10
\* A writer takes a step that does not concern Redis.
<1>9. ASSUME NEW w \in Writers, Reread(w) \/ DeleteLocal(w) \/ Publish(w) PROVE StaleInv'
  <2>1. /\ UNCHANGED <<row, l2, neg>> /\ faults = 0
        /\ \E to : phase' = [phase EXCEPT ![w] = to]
        /\ held' = held \/ held' = [held EXCEPT ![w] = row]
        /\ where' = where \/ where' = [where EXCEPT ![w] = Nowhere]
        /\ l1' = l1 \/ l1' = [l1 EXCEPT ![where[w]] = NoEntry]
        /\ late' = late \/ late' = [late EXCEPT ![w] = FALSE] \/ Overtake(where[w])
    BY <1>9, <1>f DEF Reread, DeleteLocal, Publish, Goto, Take
  <2>2. \A x \in Calls : x # w =>
            phase'[x] = phase[x] /\ held'[x] = held[x] /\ where'[x] = where[x]
    BY <1>t, <2>1
  <2>3. \A x \in Calls : x # w => (late[x] => late'[x])
    <3>1. CASE Overtake(where[w])
      BY <3>1, Zenon DEF Overtake
    <3>2. CASE ~Overtake(where[w])
      BY <1>t, <2>1, <3>2
    <3> QED
      BY <3>1, <3>2
  <2>4. \A j \in Instances : l1'[j] \in {l1[j], NoEntry}
    BY <1>t, <2>1
  <2>5. phase'[w] = "set" => held'[w] = row
    BY <1>t, <1>c, <1>9, <1>f DEF Reread, DeleteLocal, Publish, Goto, Take
  <2>6. L2Pending(w)' <=> L2Pending(w)
    BY <1>t, <1>c, <1>9, <1>f DEF Reread, DeleteLocal, Publish, Goto, Take, L2Pending
  <2>7. \A x \in Writers : L2Pending(x)' <=> L2Pending(x)
    BY <1>c, <2>1, <2>2, <2>6 DEF L2Pending
  <2>8. /\ AnyPending => AnyPending'
        /\ \A x \in Writers : OtherPending(x) => OtherPending(x)'
    BY <2>7 DEF AnyPending, OtherPending
  <2>9. \A j \in Instances : L1Pending(j) => L1Pending(j)'
    <3>1. CASE Publish(w)
      <4>1. \A j \in Instances : inbox'[j] = inbox[j] + 1
        BY <1>f, <3>1 DEF Publish, Announce
      <4> QED
        BY <1>t, <4>1 DEF L1Pending
    <3>2. CASE Reread(w) \/ DeleteLocal(w)
      <4>1. inbox' = inbox /\ (phase[w] \in {"local", "publish"} => phase'[w] = "publish")
        BY <1>t, <1>c, <1>f, <3>2 DEF Reread, DeleteLocal, Goto
      <4> QED
        BY <1>c, <2>2, <2>7, <4>1 DEF L1Pending
    <3> QED
      BY <1>9, <3>1, <3>2
  <2>10. \A x \in Writers : x # w /\ phase'[x] = "set" =>
             phase[x] = "set" /\ held'[x] = held[x] /\ (late[x] => late'[x])
    BY <1>c, <2>2, <2>3
  <2>11. /\ \A x \in Readers \cup Instances : phase'[x] = phase[x] /\ held'[x] = held[x] /\ (late[x] => late'[x])
         /\ \A x \in Readers : where'[x] = where[x]
    BY <1>c, <1>d, <2>2, <2>3
  <2> QED
    BY <1>o, <2>1, <2>4, <2>5, <2>8, <2>9, <2>10, <2>11
\* A writer changes what Redis has: whatever anybody has in hand is overtaken, and the local caches
\* have still to be told.
<1>10. ASSUME NEW w \in Writers, SetL2(w) \/ DelL2(w) PROVE StaleInv'
  <2>1. /\ UNCHANGED <<row, neg, l1, inbox, where>> /\ faults = 0
        /\ \E to \in {"local", "publish"} : phase' = [phase EXCEPT ![w] = to]
        /\ OvertakeAll(w)
    BY <1>10, <1>f DEF SetL2, DelL2, Goto
  <2>2. /\ \A x \in Calls : x # w => phase'[x] = phase[x]
        /\ phase'[w] \in {"local", "publish"}
    BY <1>t, <1>c, <2>1
  <2>3. \A x \in Calls : x # w /\ Holding(x) => late'[x]
    BY <2>1, Zenon DEF OvertakeAll
  <2>4. \A j \in Instances : L1Pending(j)'
    BY <2>2 DEF L1Pending
  <2>5. OtherPending(w) => AnyPending'
    BY <1>c, <2>1, <2>2 DEF OtherPending, AnyPending, L2Pending
  <2>6. l2' # NoEntry /\ l2'.value # row => l2'.late \/ AnyPending'
    <3>1. CASE SetL2(w)
      <4>1. /\ phase[w] = "set" /\ l2' = [value |-> held[w], late |-> late[w]]
        BY <1>f, <3>1 DEF SetL2, Goto
      <4> QED
        BY <1>z, <2>1, <2>5, <4>1
    <3>2. CASE DelL2(w)
      BY <1>f, <3>2 DEF DelL2
    <3> QED
      BY <1>10, <3>1, <3>2
  <2>7. ASSUME NEW x \in Writers PROVE SetRight(x)'
    BY <1>c, <2>2, <2>3 DEF Holding
  <2>8. \A j \in Instances : LoadRight(j)'
    BY <1>c, <1>d, <2>2, <2>3, <2>4 DEF Holding
  <2>9. NegRight'
    <3>1. \A x \in Readers : phase'[x] = "exists" => late'[x]
      BY <1>c, <1>d, <2>2, <2>3 DEF Holding
    <3>2. CASE SetL2(w)
      <4>1. held[w] \in Nat /\ late[w] \in BOOLEAN /\ l2' = [value |-> held[w], late |-> late[w]]
        BY <1>t, <1>c, <1>f, <3>2 DEF SetL2
      <4> QED
        BY <1>x, <3>1, <4>1
    <3>3. CASE DelL2(w)
      <4>1. neg = NoEntry \/ row = 0
        BY <1>t, <1>f, <3>3 DEF DelL2, Goto, RowInv
      <4> QED
        BY <2>1, <4>1
    <3> QED
      BY <1>10, <3>2, <3>3
  <2> QED
    BY <1>g, <2>1, <2>4, <2>6, <2>7, <2>8, <2>9
<1>11. ~(\E i \in Instances : Lose(i) \/ Restart(i)) /\ ~\E w \in Writers : DeleteDevice(w)
  BY <1>f DEF Lose, Restart, DeleteDevice
<1> QED
  BY <1>1, <1>2, <1>3, <1>4, <1>5, <1>6, <1>7, <1>8, <1>9, <1>10, <1>11
  DEF CacheNext, Read, LoadStep, Invalidate

\* While nothing failed, and no device was deleted with its definitions, a cache holds something other
\* than the row only if an invalidation is still on its way, or the call that put it there had been
\* overtaken by one (redis.go, the write-through and the evictions of the services): there is no
\* other way to read what is old.
THEOREM StaleIsAlwaysExplained ==
    CacheSpec => []StaleIsExplained
<1> DEFINE Inv == CacheTypeOK /\ WaitInv /\ RowInv /\ StaleInv
<1>1. CacheInit => Inv
  BY CacheTypeInit, WaitInit, RowInit, StaleInit
<1>2. Inv /\ [CacheNext]_systemVars => Inv'
  <2> SUFFICES ASSUME Inv, [CacheNext]_systemVars PROVE Inv'
    OBVIOUS
  <2>1. CacheTypeOK' /\ WaitInv'
    BY CacheTypeStep, WaitStep
  <2>2. RowInv'
    BY RowStep
  <2>3. StaleInv'
    BY <2>1, StaleStep
  <2> QED
    BY <2>1, <2>2, <2>3
<1>3. Inv => StaleIsExplained
  BY DEF StaleInv, StaleIsExplained, StaleHasReason, AnyPending
<1> QED
  BY <1>1, <1>2, <1>3, PTL DEF CacheSpec

-----------------------------------------------------------------------------
(* What would keep the caches true.  Nothing fails, and a change reaches a cache only while    *)
(* nobody else has a value in hand: what a lock on the key would do, held by a reader from its *)
(* GET to its entry in L1, by a writer from the row to the last message.                       *)

Unovertaken ==
    /\ faults = 0
    /\ \A w \in Writers :
          /\ phase[w] \in {"set", "del"} => \A p \in Calls \ {w} : ~Holding(p)
          /\ phase[w] \in {"local", "clear"} =>
                \A p \in Calls : where[p] = where[w] => ~Holding(p)
    /\ \A i \in Instances : inbox[i] > 0 => \A p \in Calls : where[p] = i => ~Holding(p)

\* No value was overtaken, wherever it is.
PunctualInv ==
    /\ l2 # NoEntry => ~l2.late
    /\ neg # NoEntry => ~neg.late
    /\ \A i \in Instances : l1[i] # NoEntry => ~l1[i].late
    /\ \A p \in Calls : ~late[p]

LEMMA PunctualStep ==
    ASSUME CacheTypeOK, CacheTypeOK', Unovertaken, Unovertaken', PunctualInv, [CacheNext]_systemVars
    PROVE  PunctualInv'
<1> USE DEF PunctualInv, Goto, Take
<1>t. /\ late \in [Calls -> BOOLEAN] /\ held \in [Calls -> Nat]
      /\ l1 \in [Instances -> Entry \cup {NoEntry}] /\ inbox \in [Instances -> Nat]
      /\ where \in [Calls -> Instances \cup {Nowhere}]
      /\ Readers \subseteq Calls /\ Writers \subseteq Calls /\ Instances \subseteq Calls
      /\ waiting \in [Instances -> SUBSET Readers]
    BY DEF CacheTypeOK, Calls
<1>n. NoEntry \notin Entry
    BY CacheAssumptions DEF Entry
<1>1. ASSUME NEW r \in Readers, Read(r) \/ \E i \in Instances : Miss(r, i) PROVE PunctualInv'
    BY <1>1, <1>t DEF Read, GetL2, CheckNeg, FillL1, Fill, Join, Miss, rowVars, cacheVars
<1>2. ASSUME NEW i \in Instances, LoadStep(i) PROVE PunctualInv'
  <2>1. CASE Recheck(i)
    BY <1>t, <1>n, <2>1 DEF Recheck, Deliver, rowVars, cacheVars, CacheTypeOK
  <2>2. CASE Load(i)
    BY <1>t, <2>2 DEF Load, Refuse, rowVars, cacheVars
  <2>3. CASE Store(i)
    BY <1>t, <2>3 DEF Store, Deliver
  <2>4. CASE NegSet(i)
    BY <1>t, <2>4 DEF NegSet
  <2>5. CASE NegLocal(i)
    BY <1>t, <2>5 DEF NegLocal, Fill, Refuse
  <2> QED
    BY <1>2, <2>1, <2>2, <2>3, <2>4, <2>5 DEF LoadStep
<1>3. ASSUME NEW w \in Writers,
             DeleteDevice(w) \/ \E i \in Instances : Register(w, i) \/ Update(w, i) \/ Delete(w, i)
      PROVE  PunctualInv'
  <2>1. UNCHANGED <<l2, neg, l1, late>>
    BY <1>3 DEF Register, Update, Delete, DeleteDevice, Commit, cacheVars
  <2> QED
    BY <1>t, <2>1
<1>4. ASSUME NEW w \in Writers, Invalidate(w) PROVE PunctualInv'
  <2>1. CASE Reread(w) \/ Publish(w)
    BY <1>t, <2>1 DEF Reread, Publish, rowVars, cacheVars
  <2>2. CASE SetL2(w) \/ DelL2(w)
    BY <1>t, <2>2 DEF SetL2, DelL2, OvertakeAll, Unovertaken
  <2>3. CASE DeleteLocal(w)
    BY <1>t, <2>3 DEF DeleteLocal, Overtake, Unovertaken
  <2> QED
    BY <1>4, <2>1, <2>2, <2>3 DEF Invalidate
<1>5. ASSUME NEW i \in Instances, Receive(i) PROVE PunctualInv'
    BY <1>t, <1>5 DEF Receive, Overtake, Unovertaken
<1>6. ASSUME NEW i \in Instances, Lose(i) \/ ExpireL1(i) PROVE PunctualInv'
    BY <1>t, <1>6 DEF Lose, ExpireL1, rowVars, cacheVars, callVars
<1>7. ASSUME NEW i \in Instances, Restart(i) PROVE PunctualInv'
    BY <1>7 DEF Restart, Fault, Unovertaken
<1>8. CASE ExpireL2 \/ ExpireNeg \/ UNCHANGED systemVars
    BY <1>t, <1>8 DEF ExpireL2, ExpireNeg, GoneFromL2, systemVars, rowVars, cacheVars, callVars
<1> QED
    BY <1>1, <1>2, <1>3, <1>4, <1>5, <1>6, <1>7, <1>8 DEF CacheNext

\* CacheDevice and evictKey: if no change overtook a value that somebody has in hand, and nothing
\* failed, then once the writers are through and their messages received, no cache would hold an
\* old value (the comment at line 295 of redis.go), for any number of instances and calls: of a list
\* of definitions as long as its device is not deleted, which evicts nothing.
THEOREM UnovertakenSuffices ==
    CacheSpec /\ []Unovertaken => []NoOldValueAfterWrite
<1>1. CacheInit => PunctualInv
  BY DEF CacheInit, PunctualInv
<1>2. CacheTypeOK /\ CacheTypeOK' /\ Unovertaken /\ Unovertaken' /\ PunctualInv
        /\ [CacheNext]_systemVars => PunctualInv'
  BY PunctualStep
<1>3. CacheTypeOK /\ StaleIsExplained /\ Unovertaken /\ PunctualInv => NoOldValueAfterWrite
  BY DEF CacheTypeOK, StaleIsExplained, StaleHasReason, Unovertaken, PunctualInv, NoOldValueAfterWrite, L2Pending,
         L1Pending, Current
<1> QED
  BY <1>1, <1>2, <1>3, CacheTypeCorrect, StaleIsAlwaysExplained, PTL DEF CacheSpec

=============================================================================
