-------------------------- MODULE HubAccountsProofs --------------------------
(***************************************************************************)
(* The safety of the WebSocket hub's maps and channels, for any number of  *)
(* devices, owners, connections and pushes and any channel capacity; and   *)
(* what would keep the process up and the status true.                     *)
(*                                                                         *)
(* Then the tokens and the status of a user (Accounts), for any number of  *)
(* requests and any limit of logins; and what more would be true if the    *)
(* requests of an account did not overlap.  The two modules share no       *)
(* variable; each theorem is about the behaviours of one specification.    *)
(***************************************************************************)
EXTENDS Hub, Accounts, TLAPS

\* The initial states satisfy the inductive invariant.
LEMMA InitIInv == Init => IInv
BY HubAssumptions
   DEF Init, IInv, TypeOK, MapsAgree, ClosedWhenLeft, NoDoubleClose, ClientsPlaced, Clients,
       Pushers, Notice, Fates

\* Unregister keeps the invariant, whoever calls it: the read pump that ends or
\* the eviction of a client whose channel was full.
LEMMA UnregisterKeeps ==
    ASSUME IInv, NEW c \in Clients, Unregister(c),
           UNCHANGED <<clientVars, queue, writer, status, walkVars>>,
           evicting' \in SUBSET Clients,
           connClosed' \in [Clients -> BOOLEAN],
           reader' \in [Clients -> {"off", "run", "over"}],
           \A k \in Clients : reader'[k] = "off" <=> reader[k] = "off"
    PROVE  IInv'
<1> USE HubAssumptions
    DEF IInv, TypeOK, ClientsPlaced, MapsAgree, ClosedWhenLeft, NoDoubleClose, Clients, Pushers,
        Notice, Fates, clientVars, mapVars, walkVars
<1>1. CASE c \notin clients
  <2>1. UNCHANGED <<clients, deviceClients, ownerClients, sendClosed, notice, fate>>
    BY <1>1 DEF Unregister, UnregisterLink, Registered, UnregisterConsole
  <2>2. TypeOK' /\ ClientsPlaced'
    BY <2>1
  <2>3. MapsAgree' /\ ClosedWhenLeft' /\ NoDoubleClose'
    BY <2>1
  <2> QED
    BY <2>2, <2>3
<1>2. CASE c \in clients /\ c \in Links
  \* It is the one connection of its device, and its channel is open.
  <2>1. /\ reader[c] # "off"
        /\ ~sendClosed[c]
        /\ device[c] \in Devices
        /\ deviceClients[device[c]] = c
    BY <1>2
  <2>2. /\ clients' = clients \ {c}
        /\ sendClosed' = [sendClosed EXCEPT ![c] = TRUE]
        /\ fate' = fate
        /\ deviceClients' = [deviceClients EXCEPT ![device[c]] = NoClient]
        /\ ownerClients' = ownerClients
        /\ Notify(c, owner[c], "OFFLINE")
    BY <1>2, <2>1 DEF Unregister, UnregisterLink, Registered, IsItsDevices, CloseSend, Displace
  <2>3. TypeOK' /\ ClientsPlaced'
    BY <1>2, <2>1, <2>2 DEF Notify
  <2>4. MapsAgree'
    BY <1>2, <2>1, <2>2
  <2>5. ClosedWhenLeft' /\ NoDoubleClose'
    BY <1>2, <2>1, <2>2
  <2> QED
    BY <2>3, <2>4, <2>5
<1>3. CASE c \in clients /\ c \in Consoles
  <2>1. /\ reader[c] # "off"
        /\ ~sendClosed[c]
        /\ owner[c] \in Owners
    BY <1>3
  <2>2. /\ clients' = clients \ {c}
        /\ sendClosed' = [sendClosed EXCEPT ![c] = TRUE]
        /\ ownerClients' = [ownerClients EXCEPT ![owner[c]] = @ \ {c}]
        /\ fate' \in {fate, "mapRace"}
        /\ UNCHANGED <<deviceClients, notice>>
    BY <1>3, <2>1 DEF Unregister, UnregisterConsole, Registered, WriteOwnerSet
  <2>3. TypeOK' /\ ClientsPlaced'
    BY <1>3, <2>1, <2>2
  <2>4. MapsAgree'
    BY <1>3, <2>1, <2>2
  <2>5. ClosedWhenLeft' /\ NoDoubleClose'
    BY <1>3, <2>1, <2>2
  <2> QED
    BY <2>3, <2>4, <2>5
<1> QED
    BY <1>1, <1>2, <1>3

\* Every step keeps the inductive invariant, action by action.
LEMMA NextIInv == IInv /\ [Next]_vars => IInv'
<1> SUFFICES ASSUME IInv, [Next]_vars PROVE IInv'
    OBVIOUS
<1> USE HubAssumptions
    DEF IInv, TypeOK, ClientsPlaced, MapsAgree, ClosedWhenLeft, NoDoubleClose, Clients, Pushers,
        Notice, Fates, Up, mapVars, clientVars, pumpVars, walkVars
<1>1. ASSUME NEW c \in Links, NEW d \in Devices, NEW o \in Owners \cup {NoOwner}, Register(c, d, o) PROVE IInv'
  \* An older connection of d is in clients, so its channel is still open.
  <2>1. /\ c \notin clients
        /\ deviceClients[d] # NoClient => ~sendClosed[deviceClients[d]]
    BY <1>1 DEF Register
  <2>2. /\ fate' = fate
        /\ sendClosed' = IF deviceClients[d] = NoClient THEN sendClosed
                         ELSE [sendClosed EXCEPT ![deviceClients[d]] = TRUE]
    BY <1>1, <2>1 DEF Register, CloseSend, Displace
  <2>3. TypeOK'
    BY <1>1, <2>2 DEF Register, Notify
  <2>4. ClientsPlaced'
    BY <1>1, <2>1, <2>2 DEF Register, Notify
  <2>5. MapsAgree'
    BY <1>1, <2>1 DEF Register
  <2>6. ClosedWhenLeft' /\ NoDoubleClose'
    BY <1>1, <2>1, <2>2 DEF Register
  <2> QED
    BY <2>3, <2>4, <2>5, <2>6
<1>2. ASSUME NEW c \in Consoles, NEW o \in Owners, RegisterUser(c, o) PROVE IInv'
    BY <1>2 DEF RegisterUser, WriteOwnerSet
<1>3. ASSUME NEW c \in Clients, ReaderLeaves(c) PROVE IInv'
    BY <1>3, UnregisterKeeps DEF ReaderLeaves
<1>4. ASSUME NEW c \in Clients, WriterDrains(c) PROVE IInv'
    BY <1>4 DEF WriterDrains
<1>5. ASSUME NEW c \in Clients, WriterEnds(c) PROVE IInv'
    BY <1>5 DEF WriterEnds
<1>6. ASSUME NEW c \in Clients, Evict(c) PROVE IInv'
    BY <1>6, UnregisterKeeps DEF Evict
<1>7. ASSUME NEW p \in Calls, NEW d \in Devices, CallDevice(p, d) PROVE IInv'
    BY <1>7 DEF CallDevice
<1>8. ASSUME NEW p \in Calls, NEW o \in Owners, CallOwner(p, o) PROVE IInv'
    BY <1>8 DEF CallOwner, LookupOwner, RangeOver
<1>9. ASSUME NEW n \in Notice, NoticeRuns(n) PROVE IInv'
  <2>1. TypeOK'
    BY <1>9 DEF NoticeRuns, LookupOwner, RangeOver
  <2>2. ClientsPlaced' /\ MapsAgree' /\ ClosedWhenLeft' /\ NoDoubleClose'
    BY <1>9 DEF NoticeRuns, LookupOwner
  <2> QED
    BY <2>1, <2>2
<1>10. ASSUME NEW p \in Pushers, Visit(p) PROVE IInv'
    BY <1>10 DEF Visit, RangeOver
<1>11. ASSUME NEW p \in Pushers, Send(p) PROVE IInv'
  <2>1. TypeOK'
    BY <1>11 DEF Send, PutOrEvict, HasRoom, RangeOver
  <2>2. ClientsPlaced' /\ MapsAgree' /\ ClosedWhenLeft' /\ NoDoubleClose'
    BY <1>11 DEF Send
  <2> QED
    BY <2>1, <2>2
<1>12. CASE UNCHANGED vars
    BY <1>12 DEF vars
<1> QED
    BY <1>1, <1>2, <1>3, <1>4, <1>5, <1>6, <1>7, <1>8, <1>9, <1>10, <1>11, <1>12
    DEF Next, Pumps

\* The inductive invariant holds in every reachable state.
THEOREM Invariance == Spec => []IInv
BY InitIInv, NextIInv, PTL DEF Spec

-----------------------------------------------------------------------------

\* The state of the hub is well typed in every reachable state.
THEOREM TypeCorrect == Spec => []TypeOK
<1>1. IInv => TypeOK
    BY DEF IInv
<1> QED
    BY Invariance, <1>1, PTL

\* clients, deviceClients and ownerClients never disagree, the channel of a
\* registered client is open, that of one that left is closed, and none is ever
\* closed twice.
THEOREM AlwaysConsistent == Spec => []HubIsConsistent
<1>1. IInv => HubIsConsistent
    BY DEF IInv, HubIsConsistent
<1> QED
    BY Invariance, <1>1, PTL

-----------------------------------------------------------------------------
(* Displacement and departure.                                             *)

\* Unregister of a registered device connection leaves its device without one,
\* closes its channel, and touches no other device and no other channel.
LEMMA UnregisterEnds ==
    ASSUME IInv, NEW c \in Clients, Unregister(c), UNCHANGED clientVars
    PROVE  \/ UNCHANGED <<deviceClients, Ended>>
           \/ \E d \in Devices : /\ c \in Links
                                 /\ deviceClients[d] = c
                                 /\ deviceClients' = [deviceClients EXCEPT ![d] = NoClient]
                                 /\ Ended' = Ended \cup {c}
<1> USE HubAssumptions
    DEF IInv, TypeOK, ClientsPlaced, MapsAgree, ClosedWhenLeft, Clients, mapVars, Ended
<1>1. CASE c \notin clients
    BY <1>1 DEF Unregister, UnregisterLink, Registered, IsItsDevices, UnregisterConsole, Registered
<1>2. CASE c \in clients /\ c \in Links
  <2>1. device[c] \in Devices /\ deviceClients[device[c]] = c
    BY <1>2
  <2>2. /\ deviceClients' = [deviceClients EXCEPT ![device[c]] = NoClient]
        /\ sendClosed' = [sendClosed EXCEPT ![c] = TRUE]
    BY <1>2, <2>1 DEF Unregister, UnregisterLink, Registered, IsItsDevices, CloseSend, Displace
  <2>3. Ended' = Ended \cup {c}
    BY <1>2, <2>2
  <2> QED
    BY Zenon, <1>2, <2>1, <2>2, <2>3
<1>3. CASE c \in clients /\ c \in Consoles
    BY <1>3 DEF Unregister, UnregisterConsole, Registered
<1> QED
    BY <1>1, <1>2, <1>3

\* A registration opens a session and an Unregister of the device's connection
\* ends one; every other step is a stutter of the session registry.
LEMMA RegistryStep == IInv /\ [Next]_vars => [Registry!Next]_<<deviceClients, Ended>>
<1> SUFFICES ASSUME IInv, [Next]_vars PROVE [Registry!Next]_<<deviceClients, Ended>>
    OBVIOUS
<1>1. ASSUME NEW c \in Links, NEW d \in Devices, NEW o \in Owners \cup {NoOwner}, Register(c, d, o)
      PROVE  Registry!Next
  <2> USE HubAssumptions DEF IInv, TypeOK, ClientsPlaced, MapsAgree, ClosedWhenLeft, Clients, Ended
  <2>1. c \notin Ended /\ \A q \in Devices : deviceClients[q] # c
    BY <1>1 DEF Register
  <2>2. Ended' = Ended \cup ({deviceClients[d]} \ {NoClient})
    BY <1>1 DEF Register, CloseSend, Displace
  <2>3. Registry!Open(d, c)
    BY <1>1, <2>1, <2>2 DEF Register, Registry!Open
  <2> QED
    BY <2>3 DEF Registry!Next
<1>2. ASSUME NEW c \in Clients, ReaderLeaves(c) \/ Evict(c)
      PROVE  [Registry!Next]_<<deviceClients, Ended>>
  <2>1. Unregister(c) /\ UNCHANGED clientVars
    BY <1>2 DEF ReaderLeaves, Evict
  <2>2. CASE UNCHANGED <<deviceClients, Ended>>
    BY <2>2
  <2>3. ASSUME NEW d \in Devices, c \in Links, deviceClients[d] = c,
               deviceClients' = [deviceClients EXCEPT ![d] = NoClient],
               Ended' = Ended \cup {c}
        PROVE  Registry!Next
    BY <2>3 DEF Registry!Next, Registry!End
  <2> QED
    BY <2>1, <2>2, <2>3, UnregisterEnds
<1>3. ASSUME NEW c \in Clients, WriterDrains(c) \/ WriterEnds(c)
      PROVE  UNCHANGED <<deviceClients, Ended>>
    BY <1>3 DEF WriterDrains, WriterEnds, mapVars, Ended
<1>4. ASSUME NEW c \in Consoles, NEW o \in Owners, RegisterUser(c, o)
      PROVE  UNCHANGED <<deviceClients, Ended>>
    BY <1>4 DEF RegisterUser, Ended
<1>5. ASSUME NEW p \in Pushers, NEW d, NEW o,
             \/ CallDevice(p, d) \/ CallOwner(p, o) \/ NoticeRuns(p)
             \/ Visit(p) \/ Send(p)
      PROVE  UNCHANGED <<deviceClients, Ended>>
    BY <1>5 DEF CallDevice, CallOwner, NoticeRuns, LookupOwner, Visit, Send,
                mapVars, Ended
<1>6. CASE UNCHANGED vars
    BY <1>6 DEF vars, mapVars, Ended
<1> QED
    BY <1>1, <1>2, <1>3, <1>4, <1>5, <1>6 DEF Next, Pumps, Pushers

\* The map of device connections is an implementation of the session registry.
THEOREM ImplementsRegistry == Spec => RegistrySpec
<1>1. Init => Registry!Init
    BY DEF Init, Registry!Init, Ended, Clients
<1> QED
    BY <1>1, RegistryStep, Invariance, PTL DEF Spec, RegistrySpec, Registry!Spec, Registry!srVars

\* A step that starts an OFFLINE callback leaves the device unconnected.
LEMMA OfflineStep ==
    IInv /\ [Next]_vars =>
        [\A n \in Notice :
            notice[n] = "none" /\ notice'[n] # "none" /\ n.status = "OFFLINE" =>
                \E d \in Devices : deviceClients[d] = n.client /\ deviceClients'[d] = NoClient]_vars
<1> SUFFICES ASSUME IInv, Next, NEW n \in Notice,
                    notice[n] = "none", notice'[n] # "none", n.status = "OFFLINE"
             PROVE  \E d \in Devices : deviceClients[d] = n.client /\ deviceClients'[d] = NoClient
    OBVIOUS
<1> USE HubAssumptions DEF IInv, TypeOK, Pushers, Notice
<1>1. ASSUME NEW c \in Clients, ReaderLeaves(c) \/ Evict(c)
      PROVE  \E d \in Devices : deviceClients[d] = n.client /\ deviceClients'[d] = NoClient
  <2>1. Unregister(c)
    BY <1>1 DEF ReaderLeaves, Evict
  <2>2. /\ c \in Links /\ c = n.client /\ c \in clients
        /\ deviceClients[device[c]] = c
        /\ deviceClients' = [deviceClients EXCEPT ![device[c]] = NoClient]
    BY <2>1 DEF Unregister, UnregisterLink, Registered, IsItsDevices, UnregisterConsole, Registered, Notify, mapVars
  <2>3. device[c] \in Devices
    BY <2>2 DEF ClientsPlaced, Clients
  <2> QED
    BY <2>2, <2>3
<1>2. ASSUME NEW c \in Links, NEW d \in Devices, NEW o \in Owners \cup {NoOwner}, Register(c, d, o)
      PROVE  FALSE
    BY <1>2 DEF Register, Notify
<1>3. ASSUME NEW c \in Clients, WriterDrains(c) \/ WriterEnds(c)
      PROVE  FALSE
    BY <1>3 DEF WriterDrains, WriterEnds
<1>4. ASSUME NEW c \in Consoles, NEW o \in Owners, RegisterUser(c, o)
      PROVE  FALSE
    BY <1>4 DEF RegisterUser
<1>5. ASSUME NEW p \in Calls, NEW d, NEW o, CallDevice(p, d) \/ CallOwner(p, o)
      PROVE  FALSE
    BY <1>5 DEF CallDevice, CallOwner, LookupOwner, RangeOver
<1>6. ASSUME NEW p \in Notice, NoticeRuns(p)
      PROVE  FALSE
    BY <1>6 DEF NoticeRuns, LookupOwner, RangeOver
<1>7. ASSUME NEW p \in Pushers, Visit(p) \/ Send(p)
      PROVE  FALSE
    BY <1>7 DEF Visit, Send
<1> HIDE DEF IInv, TypeOK, Pushers, Notice
<1> QED
    BY <1>1, <1>2, <1>3, <1>4, <1>5, <1>6, <1>7 DEF Next, Pumps

\* A displaced connection never reports its device offline.
THEOREM DisplacedIsSilent == Spec => OfflineNoticeIsDue
BY OfflineStep, Invariance, PTL DEF Spec, OfflineNoticeIsDue

-----------------------------------------------------------------------------
(* What would keep the hub up.  NoSendOnClosed and NoMapRace fail only because a push looks a map
   up under the lock and uses what it found after the unlock. *)

UnderWay == \E p \in Pushers : ~Idle(p)

\* The maps stand still while a push is under way, as they would if it held the lock to its end.
MapsHeld == [][UnderWay => UNCHANGED mapVars]_vars

\* Whom a push is about to send to is registered, and a push ranges over a set only while it
\* has somebody left to visit.
WalkInv ==
    /\ fate = "up"
    /\ \A p \in Pushers : /\ at[p] # NoClient => at[p] \in clients
                          /\ over[p] # NoOwner => ~Idle(p)
                          /\ todo[p] # {} => over[p] # NoOwner

\* The initial states satisfy it.
LEMMA WalkInit == Init => WalkInv
BY DEF Init, WalkInv

\* A step that is no push and leaves the process up keeps it: it changes the maps only when
\* nobody walks.
LEMMA WalkRest ==
    ASSUME WalkInv, UnderWay => UNCHANGED clients, UNCHANGED walkVars, fate' = fate
    PROVE  WalkInv'
BY DEF WalkInv, UnderWay, Idle, walkVars

\* A write to the set of an owner while nobody ranges over it does not end the process.
LEMMA NobodyRanges ==
    ASSUME WalkInv, ~UnderWay, NEW o \in Owners, WriteOwnerSet(o)
    PROVE  fate' = fate
BY HubAssumptions DEF WalkInv, UnderWay, WriteOwnerSet, Iterated

\* Unregister closes an open channel, and writes an owner's set only when nobody ranges over it.
LEMMA UnregisterQuiet ==
    ASSUME IInv, WalkInv, UnderWay => UNCHANGED clients, NEW c \in Clients, Unregister(c)
    PROVE  fate' = fate
<1> USE DEF IInv, TypeOK, ClientsPlaced, ClosedWhenLeft
<1>1. CASE c \notin clients
    BY <1>1 DEF Unregister, UnregisterLink, UnregisterConsole, Registered
<1>2. CASE c \in clients /\ c \in Links
    BY <1>2, HubAssumptions DEF Unregister, UnregisterLink, UnregisterConsole, Registered, CloseSend, Clients
<1>3. CASE c \in clients /\ c \in Consoles
  <2>1. /\ ~sendClosed[c] /\ owner[c] \in Owners
        /\ clients' = clients \ {c} /\ WriteOwnerSet(owner[c])
    BY <1>3, HubAssumptions DEF Unregister, UnregisterConsole, Registered
  <2>2. ~UnderWay
    BY <1>3, <2>1
  <2> QED
    BY <2>1, <2>2, NobodyRanges
<1> QED
    BY <1>1, <1>2, <1>3 DEF Clients

\* A push that reads the set of an owner has registered clients to visit, if any.
LEMMA LookupKeeps ==
    ASSUME IInv, WalkInv, NEW p \in Pushers, NEW o \in Owners, LookupOwner(p, o)
    PROVE  WalkInv'
<1>1. /\ todo' = [todo EXCEPT ![p] = ownerClients[o]] /\ UNCHANGED <<clients, at, fate>>
      /\ over' = [over EXCEPT ![p] = IF todo'[p] = {} /\ at'[p] = NoClient THEN NoOwner ELSE o]
    BY DEF LookupOwner, RangeOver, mapVars
<1> QED
    BY <1>1, HubAssumptions DEF WalkInv, Idle, IInv, TypeOK

\* Every step keeps it.
LEMMA WalkStep ==
    ASSUME IInv, WalkInv, [Next]_vars, UnderWay => UNCHANGED mapVars
    PROVE  WalkInv'
<1>h. UnderWay => UNCHANGED clients
    BY DEF mapVars
<1>t. /\ at \in [Pushers -> Clients \cup {NoClient}] /\ over \in [Pushers -> Owners \cup {NoOwner}]
      /\ todo \in [Pushers -> SUBSET Consoles] /\ sendClosed \in [Clients -> BOOLEAN]
    BY DEF IInv, TypeOK
<1>1. ASSUME NEW c \in Links, NEW d \in Devices, NEW o \in Owners \cup {NoOwner}, Register(c, d, o)
      PROVE  WalkInv'
  <2>1. fate' = fate
    BY <1>1, HubAssumptions
       DEF IInv, TypeOK, ClientsPlaced, MapsAgree, ClosedWhenLeft, Clients, Register, Displace, CloseSend
  <2> QED
    BY <1>h, <1>1, <2>1, WalkRest DEF Register
<1>2. ASSUME NEW c \in Consoles, NEW o \in Owners, RegisterUser(c, o) PROVE WalkInv'
  <2>1. c \notin clients /\ clients' = clients \cup {c} /\ WriteOwnerSet(o) /\ UNCHANGED walkVars
    BY <1>2 DEF RegisterUser, IInv, ClientsPlaced, Clients
  <2>2. ~UnderWay
    BY <1>h, <2>1
  <2> QED
    BY <1>h, <2>1, <2>2, NobodyRanges, WalkRest
<1>3. ASSUME NEW c \in Clients, ReaderLeaves(c) \/ Evict(c) PROVE WalkInv'
  <2>1. Unregister(c) /\ UNCHANGED walkVars
    BY <1>3 DEF ReaderLeaves, Evict
  <2> QED
    BY <1>h, <2>1, UnregisterQuiet, WalkRest
<1>4. ASSUME NEW c \in Clients, WriterDrains(c) \/ WriterEnds(c) PROVE WalkInv'
    BY <1>h, <1>4, WalkRest DEF WriterDrains, WriterEnds
\* What the map of devices holds is registered.
<1>5. ASSUME NEW p \in Calls, NEW d \in Devices, CallDevice(p, d) PROVE WalkInv'
  <2>1. deviceClients[d] # NoClient => deviceClients[d] \in clients
    BY DEF IInv, TypeOK, MapsAgree
  <2>2. p \in Pushers /\ Idle(p) /\ at' = [at EXCEPT ![p] = deviceClients[d]]
        /\ UNCHANGED <<clients, todo, over, fate>>
    BY <1>5 DEF CallDevice, Pushers, mapVars
  <2> QED
    BY <1>t, <2>1, <2>2 DEF WalkInv, Idle
<1>6. ASSUME NEW p \in Calls, NEW o \in Owners, CallOwner(p, o) PROVE WalkInv'
    BY <1>6, LookupKeeps DEF CallOwner, Pushers
<1>7. ASSUME NEW n \in Notice, NoticeRuns(n) PROVE WalkInv'
  <2>1. owner[n.client] \in Owners
    BY <1>7 DEF NoticeRuns, IInv, ClientsPlaced
  <2> QED
    BY <1>7, <2>1, LookupKeeps DEF NoticeRuns, Pushers
\* A client that is visited is in the owner's set, hence registered.
<1>8. ASSUME NEW p \in Pushers, Visit(p) PROVE WalkInv'
  <2>1. PICK c \in todo[p] :
            /\ todo' = [todo EXCEPT ![p] = @ \ {c}]
            /\ at' = [at EXCEPT ![p] = IF c \in ownerClients[over[p]] THEN c ELSE NoClient]
    BY <1>8 DEF Visit
  <2>2. over[p] \in Owners
    BY <1>t, <2>1 DEF WalkInv
  <2>3. at'[p] # NoClient => at'[p] \in clients
    BY <1>t, <2>1, <2>2 DEF IInv, MapsAgree
  <2>4. /\ over' = [over EXCEPT ![p] = IF todo'[p] = {} /\ at'[p] = NoClient THEN NoOwner ELSE over[p]]
        /\ UNCHANGED <<clients, fate>>
    BY <1>8 DEF Visit, RangeOver, mapVars
  <2> QED
    BY <1>t, <2>1, <2>2, <2>3, <2>4, HubAssumptions DEF WalkInv, Idle
\* A client that is sent to is registered, hence its channel open.
<1>9. ASSUME NEW p \in Pushers, Send(p) PROVE WalkInv'
  <2>1. at[p] # NoClient /\ at[p] \in clients
    BY <1>9 DEF Send, WalkInv
  <2>2. ~sendClosed[at[p]]
    BY <1>t, <2>1 DEF IInv, ClientsPlaced, ClosedWhenLeft
  <2>3. /\ at' = [at EXCEPT ![p] = NoClient]
        /\ over' = [over EXCEPT ![p] = IF todo'[p] = {} /\ at'[p] = NoClient THEN NoOwner ELSE over[p]]
        /\ UNCHANGED <<clients, todo, fate>>
    BY <1>9, <2>2 DEF Send, RangeOver, mapVars
  <2> QED
    BY <1>t, <2>3 DEF WalkInv, Idle
<1>10. CASE UNCHANGED vars
    BY <1>10, <1>h, WalkRest DEF vars, mapVars, walkVars
<1> QED
    BY <1>1, <1>2, <1>3, <1>4, <1>5, <1>6, <1>7, <1>8, <1>9, <1>10 DEF Next, Pumps

\* SendToDevice, SendToOwner: if a push kept the hub's lock until it has sent, none would send
\* on a closed channel or range over a set that changes; whoever comes, leaves, is displaced or
\* evicted, nothing in the hub would end the process.
THEOREM LockedPushesSuffice == Spec /\ MapsHeld => [](fate = "up")
<1>1. WalkInv => fate = "up"
    BY DEF WalkInv
<1>2. IInv /\ WalkInv /\ [Next]_vars /\ [UnderWay => UNCHANGED mapVars]_vars => WalkInv'
  <2> SUFFICES ASSUME IInv, WalkInv, [Next]_vars, [UnderWay => UNCHANGED mapVars]_vars PROVE WalkInv'
    OBVIOUS
  <2>1. UnderWay => UNCHANGED mapVars
    BY DEF vars, mapVars
  <2> QED
    BY <2>1, WalkStep
<1> QED
    BY <1>1, <1>2, WalkInit, Invariance, PTL DEF Spec, MapsHeld

-----------------------------------------------------------------------------
(* What would keep the status true.  ConnectedIsOnline fails only because two callbacks about a
   device are under way at once, or because a status is not persisted. *)

Due(n, d) == notice[n] = "due" /\ device[n.client] = d

\* The callbacks about a device run one after the other, as they would in a queue or under the lock.
OneNotice == \A d \in Devices, n, m \in Notice : Due(n, d) /\ Due(m, d) => n = m

\* A connected device of a known owner is ONLINE and nothing is about to change that, or it is
\* about to be.
Shown(d) ==
    LET c == deviceClients[d]
    IN  c # NoClient /\ owner[c] # NoOwner =>
          \/ Due([client |-> c, status |-> "ONLINE"], d)
          \/ status[d] = "ONLINE" /\ \A n \in Notice : ~Due(n, d)

ShownInv == \A d \in Devices : Shown(d)

\* A step that changes neither connections nor callbacks keeps it.
LEMMA ShownRest ==
    ASSUME ShownInv, UNCHANGED <<deviceClients, device, owner, status, notice>>
    PROVE  ShownInv'
BY DEF ShownInv, Shown, Due

\* So does the end of a connection: the device is not connected any more, or all is as it was.
LEMMA ShownUnregister ==
    ASSUME IInv, ShownInv, UNCHANGED <<device, owner, status>>, NEW c \in Clients, Unregister(c)
    PROVE  ShownInv'
<1>1. CASE UNCHANGED <<deviceClients, notice>>
    BY <1>1, ShownRest
<1>2. CASE c \in Links /\ ~UNCHANGED <<deviceClients, notice>>
  <2>1. /\ c \in clients /\ deviceClients[device[c]] = c
        /\ deviceClients' = [deviceClients EXCEPT ![device[c]] = NoClient]
        /\ Notify(c, owner[c], "OFFLINE")
    <3>1. UnregisterLink(c)
      BY <1>2, HubAssumptions DEF Unregister
    <3>2. c \in clients
      BY <1>2, <3>1 DEF UnregisterLink, Registered, mapVars
    <3>3. IsItsDevices(c)
      BY <1>2, <3>1, <3>2 DEF UnregisterLink, Registered
    <3> QED
      BY <3>1, <3>2, <3>3 DEF UnregisterLink, Registered, IsItsDevices
  <2>2. ASSUME NEW d \in Devices PROVE Shown(d)'
    <3>1. CASE d = device[c]
      BY <2>1, <3>1 DEF IInv, TypeOK, Shown
    <3>2. CASE d # device[c]
      <4>1. deviceClients'[d] = deviceClients[d]
        BY <2>1, <3>2 DEF IInv, TypeOK
      <4>2. \A n \in Notice : device[n.client] = d => notice'[n] = notice[n]
        BY <2>1, <3>2 DEF Notify, IInv, TypeOK
      <4>3. \A n \in Notice : Due(n, d)' <=> Due(n, d)
        BY <4>2 DEF Due
      <4>4. deviceClients[d] # NoClient => [client |-> deviceClients[d], status |-> "ONLINE"] \in Notice
        BY DEF IInv, TypeOK, Notice
      <4> QED
        BY <4>1, <4>3, <4>4 DEF ShownInv, Shown
    <3> QED
      BY <3>1, <3>2
  <2> QED
    BY <2>2 DEF ShownInv
<1>3. CASE c \in Consoles /\ ~UNCHANGED <<deviceClients, notice>>
    BY <1>3, HubAssumptions DEF Unregister, UnregisterConsole, UnregisterLink, mapVars
<1> QED
    BY <1>1, <1>2, <1>3 DEF Clients

\* A connection is made: its callback is the only one about the device.
LEMMA ShownRegister ==
    ASSUME IInv, ShownInv, NEW c \in Links, NEW d \in Devices, NEW o \in Owners \cup {NoOwner},
           Register(c, d, o)
    PROVE  ShownInv'
<1>1. /\ reader[c] = "off" /\ c \in Clients
      /\ device' = [device EXCEPT ![c] = d] /\ owner' = [owner EXCEPT ![c] = o]
      /\ deviceClients' = [deviceClients EXCEPT ![d] = c]
      /\ Notify(c, o, "ONLINE") /\ status' = status
    BY DEF Register, Clients
\* There was no callback about it before, and it was nobody's connection.
<1>2. /\ \A n \in Notice : n.client = c => notice[n] = "none"
      /\ \A e \in Devices : deviceClients[e] # c
    BY <1>1 DEF IInv, TypeOK, ClientsPlaced, MapsAgree, Notice
<1>3. Shown(d)'
  <2>1. deviceClients'[d] = c /\ owner'[c] = o /\ device'[c] = d
    BY <1>1 DEF IInv, TypeOK
  <2>2. [client |-> c, status |-> "ONLINE"] \in Notice
    BY DEF Notice
  <2>3. o # NoOwner => notice'[[client |-> c, status |-> "ONLINE"]] = "due"
    BY <1>1, <2>2 DEF Notify, IInv, TypeOK
  <2> QED
    BY <2>1, <2>3 DEF Shown, Due
<1>4. ASSUME NEW e \in Devices, e # d PROVE Shown(e)'
  <2>1. deviceClients'[e] = deviceClients[e] /\ deviceClients[e] # c
    BY <1>1, <1>2, <1>4 DEF IInv, TypeOK
  <2>2. \A n \in Notice : Due(n, e)' <=> Due(n, e)
    <3>1. ASSUME NEW n \in Notice, n.client = c PROVE ~Due(n, e) /\ ~Due(n, e)'
      BY <1>1, <1>2, <1>4, <3>1 DEF Due, IInv, TypeOK
    <3>2. ASSUME NEW n \in Notice, n.client # c PROVE Due(n, e)' <=> Due(n, e)
      <4>1. notice'[n] = notice[n]
        BY <1>1, <3>2 DEF Notify, IInv, TypeOK
      <4>2. device'[n.client] = device[n.client]
        BY <1>1, <3>2 DEF IInv, TypeOK
      <4> QED
        BY <4>1, <4>2 DEF Due
    <3> QED
      BY <3>1, <3>2
  <2>3. deviceClients[e] # NoClient =>
           /\ [client |-> deviceClients[e], status |-> "ONLINE"] \in Notice
           /\ owner'[deviceClients[e]] = owner[deviceClients[e]]
    BY <1>1, <2>1 DEF IInv, TypeOK, Notice
  <2> QED
    BY <1>1, <2>1, <2>2, <2>3 DEF ShownInv, Shown
<1> QED
    BY <1>3, <1>4 DEF ShownInv

\* A callback runs, the only one about its device: it was the one that says ONLINE if the device
\* is connected.
LEMMA ShownNotice ==
    ASSUME IInv, ~StoreFaults, OneNotice, ShownInv, NEW n \in Notice, NoticeRuns(n)
    PROVE  ShownInv'
<1>1. /\ notice[n] = "due" /\ notice' = [notice EXCEPT ![n] = "told"]
      /\ status' = [status EXCEPT ![device[n.client]] = n.status]
      /\ UNCHANGED <<deviceClients, device, owner>>
    BY DEF NoticeRuns, LookupOwner, mapVars, clientVars
<1>2. ASSUME NEW d \in Devices PROVE Shown(d)'
  <2> SUFFICES ASSUME deviceClients[d] # NoClient, owner[deviceClients[d]] # NoOwner
               PROVE  Shown(d)'
    BY <1>1 DEF Shown
  <2> DEFINE on == [client |-> deviceClients[d], status |-> "ONLINE"]
  <2>1. on \in Notice /\ on.status = "ONLINE"
    BY DEF IInv, TypeOK, Notice
  <2>2. \A m \in Notice : Due(m, d)' <=> Due(m, d) /\ m # n
    BY <1>1 DEF Due, IInv, TypeOK
  <2>3. CASE device[n.client] = d
    <3>1. Due(n, d) /\ \A m \in Notice : Due(m, d) => m = n
      BY <1>1, <2>3 DEF Due, OneNotice
    <3>2. n = on
      BY <2>1, <3>1 DEF ShownInv, Shown
    <3>3. status'[d] = "ONLINE"
      BY <1>1, <2>1, <2>3, <3>2 DEF IInv, TypeOK
    <3> QED
      BY <2>2, <3>1, <3>3 DEF Shown
  <2>4. CASE device[n.client] # d
    <3>1. ~Due(n, d) /\ status'[d] = status[d]
      BY <1>1, <2>4 DEF Due, IInv, TypeOK
    <3> QED
      BY <1>1, <2>1, <2>2, <3>1 DEF ShownInv, Shown
  <2> QED
    BY <2>3, <2>4
<1> QED
    BY <1>2 DEF ShownInv

LEMMA ShownStep ==
    ASSUME IInv, ~StoreFaults, OneNotice, ShownInv, [Next]_vars PROVE ShownInv'
<1>1. ASSUME NEW c \in Links, NEW d \in Devices, NEW o \in Owners \cup {NoOwner}, Register(c, d, o)
      PROVE  ShownInv'
    BY <1>1, ShownRegister
<1>2. ASSUME NEW c \in Consoles, NEW o \in Owners, RegisterUser(c, o) PROVE ShownInv'
  \* A console is no device's connection.
  <2>1. /\ UNCHANGED <<deviceClients, device, status, notice>> /\ owner' = [owner EXCEPT ![c] = o]
    BY <1>2 DEF RegisterUser
  <2>2. \A d \in Devices : deviceClients[d] # NoClient => owner'[deviceClients[d]] = owner[deviceClients[d]]
    BY <2>1, HubAssumptions DEF IInv, TypeOK, Clients
  <2> QED
    BY <2>1, <2>2 DEF ShownInv, Shown, Due
<1>3. ASSUME NEW c \in Clients, ReaderLeaves(c) \/ Evict(c) PROVE ShownInv'
    BY <1>3, ShownUnregister DEF ReaderLeaves, Evict, clientVars
<1>4. ASSUME NEW n \in Notice, NoticeRuns(n) PROVE ShownInv'
    BY <1>4, ShownNotice
<1>5. ASSUME NEW c \in Clients, WriterDrains(c) \/ WriterEnds(c) PROVE ShownInv'
    BY <1>5, ShownRest DEF WriterDrains, WriterEnds, mapVars, clientVars
<1>6. ASSUME NEW p \in Calls,
             (\E d \in Devices : CallDevice(p, d)) \/ (\E o \in Owners : CallOwner(p, o))
      PROVE  ShownInv'
    BY <1>6, ShownRest DEF CallDevice, CallOwner, LookupOwner, mapVars, clientVars
<1>7. ASSUME NEW p \in Pushers, Visit(p) \/ Send(p) PROVE ShownInv'
    BY <1>7, ShownRest DEF Visit, Send, mapVars, clientVars
<1>8. CASE UNCHANGED vars
    BY <1>8, ShownRest DEF vars, mapVars, clientVars
<1> QED
    BY <1>1, <1>2, <1>3, <1>4, <1>5, <1>6, <1>7, <1>8 DEF Next, Pumps

\* OnDeviceOnline, OnDeviceOffline: if the callbacks about a device ran one after the other, and
\* their writes worked, a connected device of a known owner would be ONLINE once they have run,
\* whatever connections displaced it and however often it came and went.
THEOREM OneNoticeSuffices ==
    ASSUME ~StoreFaults
    PROVE  Spec /\ []OneNotice => []ConnectedIsOnline
<1>1. Init => ShownInv
    BY DEF Init, ShownInv, Shown
<1>2. IInv /\ OneNotice /\ ShownInv /\ [Next]_vars => ShownInv'
    BY ShownStep
<1>3. IInv /\ ShownInv => ConnectedIsOnline
  <2> SUFFICES ASSUME IInv, ShownInv, NEW d \in Devices, deviceClients[d] # NoClient,
                      owner[deviceClients[d]] # NoOwner, \A n \in Notice : notice[n] # "due"
               PROVE  status[d] = "ONLINE"
    BY DEF ConnectedIsOnline
  <2>1. [client |-> deviceClients[d], status |-> "ONLINE"] \in Notice
    BY DEF IInv, TypeOK, Notice
  <2> QED
    BY <2>1 DEF ShownInv, Shown, Due
<1> QED
    BY <1>1, <1>2, <1>3, Invariance, PTL DEF Spec

-----------------------------------------------------------------------------
(* The tokens of a user, and the status of the account: Accounts.          *)

(* A step of an account keeps the types. *)
LEMMA AccountTypeStep ==
    ASSUME AccountTypeOK, [AccountNext]_accountVars PROVE AccountTypeOK'
<1> USE AccountAssumptions
    DEF AccountTypeOK, Phases, Holding, Statuses, None, Goto, End, Fault,
            tokenVars, requestVars, deletionVars, changeVars
<1>1. ASSUME NEW r \in Requests, ReadAccount(r) \/ LoadRow(r) PROVE AccountTypeOK'
  BY <1>1 DEF ReadAccount, LoadRow
<1>2. ASSUME NEW r \in Requests, Issue(r) PROVE AccountTypeOK'
  <2>1. tokens' \subseteq Requests /\ listed' \subseteq tokens' /\ key' \in [Requests -> Keys \cup {None}]
    <3>1. CASE UNCHANGED tokenVars
      BY <3>1
    <3>2. CASE \E k \in Keys, out \in Surplus :
                  /\ tokens' = (tokens \ out) \cup {r}
                  /\ listed' = (listed \ (out \cup EntryOf(k))) \cup {r}
                  /\ key' = [key EXCEPT ![r] = k]
      BY <3>2
    <3>3. QED
      BY <1>2, <3>1, <3>2 DEF Issue
  <2>2. excused' \subseteq Requests /\ phase' \in [Requests -> Phases] /\ faults' \in 0 .. MaxFaults
    BY <1>2 DEF Issue
  <2>3. QED
    BY <1>2, <2>1, <2>2 DEF Issue
<1>3. ASSUME NEW r \in Requests, Save(r) PROVE AccountTypeOK'
  BY <1>3 DEF Save
<1>4. ASSUME NEW r \in Requests, NEW admin \in BOOLEAN, NEW s \in Statuses \cup {None},
             Admit(r, admin, s)
      PROVE  AccountTypeOK'
  BY <1>4 DEF Admit
<1>5. ASSUME NEW r \in Requests, ReadCopy(r) \/ Fill(r) \/ Answer(r) PROVE AccountTypeOK'
  BY <1>5 DEF ReadCopy, Fill, Answer, Changing
<1>6. ASSUME NEW r \in Requests, Write(r) PROVE AccountTypeOK'
  <2>1. /\ row' \in Statuses \cup {None} /\ said' \in Statuses
        /\ overlapped' \in BOOLEAN /\ firm' \in BOOLEAN
    BY <1>6 DEF Write, Changing, SomeoneHolds
  <2>2. QED
    BY <1>6, <2>1 DEF Write
<1>7. ASSUME NEW r \in Requests, EvictUserCache(r) PROVE AccountTypeOK'
  <2>1. /\ UNCHANGED <<row, tokens, listed, key, base, want, leaving, deleting, said, overlapped, excused>>
        /\ phase' \in [Requests -> Phases]
    BY <1>7 DEF EvictUserCache
  <2>2. copy' \in Statuses \cup {None} /\ faults' \in 0 .. MaxFaults
    BY <1>7 DEF EvictUserCache, Drop
  <2>3. firm' \in BOOLEAN
    BY <1>7 DEF EvictUserCache
  <2>4. QED
    BY <2>1, <2>2, <2>3
<1>8. ASSUME NEW r \in Requests, ListTokens(r) PROVE AccountTypeOK'
  BY <1>8 DEF ListTokens, ToLeave
<1>9. ASSUME NEW r \in Requests, NEW t \in leaving, LogOut(r, t) PROVE AccountTypeOK'
  BY <1>9 DEF LogOut, Revoke, EntryOf
<1>10. ASSUME NEW r \in Requests, DeleteRow(r) PROVE AccountTypeOK'
  <2>1. UNCHANGED <<copy, tokens, listed, key, base, want, leaving, said, overlapped, firm, excused>>
    BY <1>10 DEF DeleteRow
  <2>2. /\ row' \in Statuses \cup {None} /\ phase' \in [Requests -> Phases]
        /\ faults' \in 0 .. MaxFaults
    BY <1>10 DEF DeleteRow
  <2>3. deleting' \in BOOLEAN
    BY <1>10 DEF DeleteRow
  <2>4. QED
    BY <2>1, <2>2, <2>3
<1>11. ASSUME NEW t \in tokens, TokenEnds(t) PROVE AccountTypeOK'
  BY <1>11 DEF TokenEnds, Revoke, EntryOf
<1>12. CASE CopyExpires
  BY <1>12 DEF CopyExpires
<1>13. CASE UNCHANGED accountVars
  BY <1>13 DEF accountVars
<1>14. QED
  BY <1>1, <1>2, <1>3, <1>4, <1>5, <1>6, <1>7, <1>8, <1>9, <1>10, <1>11, <1>12, <1>13 DEF AccountNext

(* Every variable of an account keeps its type, whatever the limit of logins. *)
THEOREM AccountTypeCorrect == AccountSpec => []AccountTypeOK
<1>1. AccountInit => AccountTypeOK
  <2>1. 0 \in 0 .. MaxFaults
    BY AccountAssumptions
  <2>2. QED
    BY <2>1 DEF AccountInit, AccountTypeOK, Phases, Holding, Statuses, None
<1>2. AccountTypeOK /\ [AccountNext]_accountVars => AccountTypeOK'
  BY AccountTypeStep
<1>3. QED
  BY <1>1, <1>2, PTL DEF AccountSpec

\* A request has a device key once its login is through, and a token that the list does not
\* name has lost its entry to another login with the same key.
KeysAreKnown ==
    /\ \A t \in tokens : key[t] # None
    /\ \A r \in Requests : phase[r] \in {"idle", "issue"} => key[r] = None

ListIsCurrent == \A t \in tokens \ listed : Shared(t)

ListInv == KeysAreKnown /\ ListIsCurrent

\* What is known of a token's device key stays known.
SharedStays == \A t \in tokens : Shared(t) => Shared(t)'

(* Every step of an account keeps it. *)
LEMMA ListStep ==
    ASSUME AccountTypeOK, ListInv, [AccountNext]_accountVars PROVE ListInv' /\ SharedStays
<1> USE DEF ListInv, KeysAreKnown, ListIsCurrent, Shared, SharedStays
<1>0. /\ phase \in [Requests -> Phases] /\ key \in [Requests -> Keys \cup {None}]
      /\ tokens \subseteq Requests /\ listed \subseteq tokens
  BY DEF AccountTypeOK
<1>1. ASSUME UNCHANGED tokenVars,
             \A q \in Requests : phase'[q] \in {"idle", "issue"} => phase[q] \in {"idle", "issue"}
      PROVE  ListInv' /\ SharedStays
  BY <1>1 DEF tokenVars
<1>2. ASSUME NEW r \in Requests,
             \/ ReadAccount(r) \/ LoadRow(r) \/ Save(r) \/ Write(r) \/ ReadCopy(r) \/ Fill(r)
             \/ Answer(r) \/ EvictUserCache(r) \/ ListTokens(r) \/ DeleteRow(r)
             \/ \E admin \in BOOLEAN, s \in Statuses \cup {None} : Admit(r, admin, s)
      PROVE  ListInv' /\ SharedStays
  <2>1. UNCHANGED tokenVars
    BY <1>2 DEF ReadAccount, LoadRow, Save, Write, ReadCopy, Fill, Answer, EvictUserCache,
                ListTokens, DeleteRow, Admit, tokenVars
  <2>2. \E to \in Phases : /\ (phase' = [phase EXCEPT ![r] = to]) \/ UNCHANGED phase
                           /\ phase[r] \in {"idle", "issue"} \/ to \notin {"idle", "issue"}
    BY <1>2 DEF ReadAccount, LoadRow, Save, Write, ReadCopy, Fill, Answer, EvictUserCache,
                ListTokens, DeleteRow, Admit, Goto, End, Phases, Holding
  <2>3. \A q \in Requests : phase'[q] \in {"idle", "issue"} => phase[q] \in {"idle", "issue"}
    BY <1>0, <2>2
  <2>4. QED
    BY <1>1, <2>1, <2>3
\* The entry of the new token's device key is the new token's.
<1>3. ASSUME NEW r \in Requests, Issue(r) PROVE ListInv' /\ SharedStays
  <2>0. phase[r] = "issue" /\ key[r] = None
    BY <1>3 DEF Issue
  <2>1. CASE End(r) /\ UNCHANGED tokenVars
    BY <1>0, <1>1, <2>0, <2>1 DEF End
  <2>2. ASSUME NEW k \in Keys, NEW out \in Surplus,
               tokens' = (tokens \ out) \cup {r},
               listed' = (listed \ (out \cup EntryOf(k))) \cup {r},
               key' = [key EXCEPT ![r] = k],
               phase' = [phase EXCEPT ![r] = "save"]
        PROVE  ListInv' /\ SharedStays
    <3>0. k # None
      BY AccountAssumptions
    <3>1. SharedStays
      BY <1>0, <2>0, <2>2
    <3>2. KeysAreKnown'
      BY <1>0, <2>0, <2>2, <3>0
    <3>3. ASSUME NEW t \in tokens', t \notin listed' PROVE Shared(t)'
      <4>1. t \in tokens /\ t # r /\ t \notin out
        BY <2>2, <3>3
      <4>2. CASE t \in listed
        <5>1. key[t] = k
          BY <2>2, <3>3, <4>1, <4>2 DEF EntryOf
        <5>2. key'[r] = k /\ key'[t] = k
          BY <1>0, <2>2, <4>1, <5>1
        <5>3. QED
          BY <4>1, <5>2
      <4>3. QED
        BY <3>1, <4>1, <4>2
    <3>4. QED
      BY <3>1, <3>2, <3>3
  <2>3. QED
    BY <1>3, <2>1, <2>2 DEF Issue
\* A token that ends takes the entry of its key with it: the one there now had the same key.
<1>4. ASSUME NEW t \in tokens, NEW entries \in SUBSET EntryOf(key[t]),
             Revoke(t, entries), UNCHANGED phase
      PROVE  ListInv' /\ SharedStays
  BY <1>0, <1>4 DEF Revoke, EntryOf
<1>5. ASSUME NEW t \in tokens, TokenEnds(t) PROVE ListInv' /\ SharedStays
  <2>1. UNCHANGED phase
    BY <1>5 DEF TokenEnds, requestVars
  <2>2. Revoke(t, EntryOf(key[t])) \/ Revoke(t, {t} \cap listed)
    BY <1>5 DEF TokenEnds, Revoke
  <2>3. {t} \cap listed \subseteq EntryOf(key[t])
    BY DEF EntryOf
  <2>4. QED
    BY <1>4, <2>1, <2>2, <2>3
<1>6. ASSUME NEW r \in Requests, NEW t \in leaving, LogOut(r, t) PROVE ListInv' /\ SharedStays
  <2>1. UNCHANGED phase
    BY <1>6 DEF LogOut, requestVars
  <2>2. \/ UNCHANGED tokenVars
        \/ t \in tokens /\ Revoke(t, EntryOf(key[t]))
    BY <1>6 DEF LogOut, Revoke, tokenVars
  <2>3. QED
    BY <1>1, <1>4, <2>1, <2>2
<1>7. CASE CopyExpires \/ UNCHANGED accountVars
  BY <1>1, <1>7 DEF CopyExpires, accountVars, requestVars
<1>8. QED
  BY <1>2, <1>3, <1>5, <1>6, <1>7 DEF AccountNext

\* At most one deletion is at work; what it has not logged out yet, or need not, covers
\* every valid token, and there is nothing left to log out when it removes the row.
OneDeletion ==
    \A r \in Requests : phase[r] = "logout" =>
        deleting /\ \A q \in Requests : phase[q] = "logout" => q = r

TokensCovered == deleting => \A t \in tokens \ (leaving \cup excused) : Shared(t)

RowGoesLast == row = None => deleting /\ leaving = {} /\ \A q \in Requests : phase[q] # "logout"

\* What a request holds, and what is cached, was read of a row: writing it back makes none.
HoldersHaveRead == \A r \in Requests : phase[r] \in Holding => base[r] # None

LogoutInv == OneDeletion /\ TokensCovered /\ RowGoesLast /\ HoldersHaveRead

(* Every step of an account keeps it. *)
LEMMA LogoutStep ==
    ASSUME AccountTypeOK, ListInv, LogoutInv, [AccountNext]_accountVars PROVE LogoutInv'
<1> USE DEF LogoutInv, OneDeletion, TokensCovered, RowGoesLast, HoldersHaveRead, Holding, Goto,
            End, Fault, tokenVars, requestVars, deletionVars, changeVars
<1>s. \A t \in tokens : Shared(t) => Shared(t)'
  BY ListStep DEF SharedStays
<1>0. phase \in [Requests -> Phases] /\ base \in [Requests -> Statuses \cup {None}]
  BY DEF AccountTypeOK
<1>1. ASSUME UNCHANGED <<row, tokens, leaving, deleting, excused>>,
             \A q \in Requests : phase'[q] = "logout" => phase[q] = "logout",
             \A q \in Requests : phase'[q] \in Holding => base'[q] # None
      PROVE  LogoutInv'
  BY <1>1, <1>s
<1>2. ASSUME NEW r \in Requests, ReadAccount(r) \/ LoadRow(r) PROVE LogoutInv'
  <2>1. CASE ReadAccount(r)
    BY <1>0, <1>1, <2>1 DEF ReadAccount, None
  <2>2. CASE LoadRow(r)
    BY <1>0, <1>1, <2>2 DEF LoadRow
  <2>3. QED
    BY <1>2, <2>1, <2>2
<1>3. ASSUME NEW r \in Requests, Issue(r) PROVE LogoutInv'
  <2>1. /\ \A q \in Requests : phase'[q] = "logout" => phase[q] = "logout"
        /\ UNCHANGED <<row, leaving, deleting>>
    BY <1>0, <1>3 DEF Issue
  <2>0. HoldersHaveRead'
    BY <1>0, <1>3 DEF Issue
  <2>2. TokensCovered'
    <3>1. deleting => \/ tokens' \subseteq tokens \cup {r} /\ excused' = excused \cup {r}
                      \/ UNCHANGED <<tokens, excused>>
      BY <1>3 DEF Issue, Surplus
    <3>2. QED
      BY <1>s, <2>1, <3>1
  <2>3. QED
    BY <2>0, <2>1, <2>2
<1>4. ASSUME NEW r \in Requests, Save(r) \/ Write(r) PROVE LogoutInv'
  <2>1. /\ \A q \in Requests : phase'[q] = "logout" => phase[q] = "logout"
        /\ UNCHANGED <<tokens, leaving, deleting, excused>>
    BY <1>0, <1>4 DEF Save, Write
  <2>2. row' = None => row = None
    <3>1. CASE Save(r)
      BY <1>0, <3>1 DEF Save
    <3>2. CASE Write(r)
      BY <1>0, <3>2 DEF Write
    <3>3. QED
      BY <1>4, <3>1, <3>2
  <2>3. HoldersHaveRead'
    BY <1>0, <1>4 DEF Save, Write
  <2>4. QED
    BY <1>s, <2>1, <2>2, <2>3
<1>5. ASSUME NEW r \in Requests, NEW admin \in BOOLEAN, NEW s \in Statuses \cup {None},
             Admit(r, admin, s)
      PROVE  LogoutInv'
  BY <1>0, <1>1, <1>5 DEF Admit
<1>6. ASSUME NEW r \in Requests, ReadCopy(r) \/ Fill(r) \/ Answer(r) \/ EvictUserCache(r)
      PROVE  LogoutInv'
  <2>1. CASE ReadCopy(r)
    BY <1>0, <1>1, <2>1 DEF ReadCopy
  <2>2. CASE Fill(r) \/ Answer(r)
    BY <1>0, <1>1, <2>2 DEF Fill, Answer
  <2>3. CASE EvictUserCache(r)
    BY <1>0, <1>1, <2>3 DEF EvictUserCache
  <2>4. QED
    BY <1>6, <2>1, <2>2, <2>3
<1>7. ASSUME NEW r \in Requests, ListTokens(r) PROVE LogoutInv'
  <2>1. TokensCovered'
    <3>1. UNCHANGED tokens /\ (leaving' = listed \/ excused' = tokens)
      BY <1>7 DEF ListTokens, ToLeave
    <3>2. QED
      BY <1>s, <3>1 DEF ListInv, ListIsCurrent
  <2>2. OneDeletion' /\ RowGoesLast' /\ HoldersHaveRead'
    BY <1>0, <1>7 DEF ListTokens
  <2>3. QED
    BY <2>1, <2>2
<1>8. ASSUME NEW r \in Requests, NEW t \in leaving, LogOut(r, t) PROVE LogoutInv'
  <2>1. TokensCovered'
    <3>1. UNCHANGED deleting /\ leaving' = leaving \ {t}
      BY <1>8 DEF LogOut
    <3>2. \/ tokens' = tokens \ {t} /\ UNCHANGED excused
          \/ tokens' = tokens /\ excused' = excused \cup {t}
      BY <1>8 DEF LogOut, Revoke
    <3>3. QED
      BY <1>s, <3>1, <3>2
  <2>2. OneDeletion' /\ RowGoesLast' /\ HoldersHaveRead'
    BY <1>8 DEF LogOut
  <2>3. QED
    BY <2>1, <2>2
<1>9. ASSUME NEW r \in Requests, DeleteRow(r) PROVE LogoutInv'
  <2>1. TokensCovered'
    BY <1>s, <1>9 DEF DeleteRow
  <2>2. OneDeletion' /\ RowGoesLast' /\ HoldersHaveRead'
    BY <1>0, <1>9 DEF DeleteRow
  <2>3. QED
    BY <2>1, <2>2
<1>10. CASE (\E t \in tokens : TokenEnds(t)) \/ CopyExpires
  <2>1. tokens' \subseteq tokens /\ UNCHANGED <<row, phase, base, leaving, deleting, excused>>
    BY <1>10 DEF TokenEnds, CopyExpires, Revoke
  <2>2. QED
    BY <1>s, <2>1
<1>11. CASE UNCHANGED accountVars
  BY <1>s, <1>11 DEF accountVars
<1>12. QED
  BY <1>2, <1>3, <1>4, <1>5, <1>6, <1>7, <1>8, <1>9, <1>10, <1>11 DEF AccountNext

LEMMA LogoutAlways == AccountSpec => [](ListInv /\ LogoutInv)
<1>1. AccountInit => ListInv /\ LogoutInv
  BY DEF AccountInit, ListInv, KeysAreKnown, ListIsCurrent, LogoutInv, OneDeletion, TokensCovered,
         RowGoesLast, HoldersHaveRead, Holding, None
<1>2. AccountTypeOK /\ ListInv /\ LogoutInv /\ [AccountNext]_accountVars => ListInv' /\ LogoutInv'
  BY ListStep, LogoutStep
<1>3. QED
  BY <1>1, <1>2, AccountTypeCorrect, PTL DEF AccountSpec

(* Delete: when the row of a user is gone, every token that is still valid was issued after
   the tokens were listed, or its listing or logout failed, or shared its device key with
   another login: for any number of requests and of device keys. *)
THEOREM LeftTokenAlwaysExplained == AccountSpec => []LeftTokenIsExplained
<1>1. LogoutInv => LeftTokenIsExplained
  BY DEF LogoutInv, TokensCovered, RowGoesLast, LeftTokenIsExplained
<1>2. QED
  BY <1>1, LogoutAlways, PTL

\* An administrator's change is in force once it is written, unless another request was
\* half-way then, or read a copy from before while the eviction was to come.
InForce == firm \/ (~overlapped /\ Changing)

\* Whoever holds a status holds that one ...
HoldersKnow ==
    InForce /\ row # None => row = said /\ \A q \in Requests : phase[q] \in Holding => base[q] = said

\* ... and so does the cached copy, after the eviction.
CopyKnows == firm /\ row # None => copy \in {None, said}

SettledInv == HoldersKnow /\ CopyKnows

(* Every step of an account keeps it. *)
LEMMA SettledStep == ASSUME AccountTypeOK, SettledInv, [AccountNext]_accountVars PROVE SettledInv'
<1> USE DEF Goto, End, Fault, requestVars, deletionVars, changeVars
<1>0. /\ phase \in [Requests -> Phases] /\ base \in [Requests -> Statuses \cup {None}]
      /\ want \in [Requests -> Statuses \cup {None}]
      /\ firm \in BOOLEAN /\ overlapped \in BOOLEAN
  BY DEF AccountTypeOK
\* A step that writes no change neither makes one come into force.
<1>1. ASSUME \A q \in Requests : phase'[q] = "evict" /\ want'[q] # None
                                 => phase[q] = "evict" /\ want[q] # None
      PROVE  Changing' => Changing
  BY <1>1 DEF Changing
<1>2. ASSUME UNCHANGED <<said, overlapped, firm>>, Changing' => Changing,
             row' # None => row # None,
             InForce /\ row' # None => row' = said /\ \A q \in Requests : phase'[q] \in Holding => base'[q] = said,
             firm /\ row' # None => copy' \in {None, said}
      PROVE  SettledInv'
  BY <1>2 DEF SettledInv, HoldersKnow, CopyKnows, InForce
<1>3. ASSUME NEW r \in Requests, ReadAccount(r) \/ LoadRow(r) PROVE SettledInv'
  <2>1. UNCHANGED <<said, overlapped, firm, row, copy, want>>
    BY <1>3 DEF ReadAccount, LoadRow
  <2>2. /\ \A q \in Requests : phase'[q] = "evict" => phase[q] = "evict"
        /\ \A q \in Requests : phase'[q] \in Holding =>
               IF q = r THEN base'[q] = row ELSE phase[q] \in Holding /\ base'[q] = base[q]
    <3>1. CASE ReadAccount(r)
      BY <1>0, <3>1 DEF ReadAccount, Holding
    <3>2. CASE LoadRow(r)
      BY <1>0, <3>2 DEF LoadRow, Holding
    <3>3. QED
      BY <1>3, <3>1, <3>2
  <2>3. Changing' => Changing
    BY <1>1, <2>1, <2>2
  <2>4. QED
    BY <1>2, <2>1, <2>2, <2>3 DEF SettledInv, HoldersKnow, CopyKnows
<1>4. ASSUME NEW r \in Requests, Issue(r) \/ Fill(r) \/ Answer(r) PROVE SettledInv'
  <2>1. UNCHANGED <<said, overlapped, firm, row, base, want>>
    BY <1>4 DEF Issue, Fill, Answer
  <2>2. \A q \in Requests : /\ phase'[q] = "evict" => phase[q] = "evict"
                            /\ phase'[q] \in Holding => phase[q] \in Holding
    BY <1>0, <1>4 DEF Issue, Fill, Answer, Holding
  <2>3. copy' = copy \/ (copy' = base[r] /\ phase[r] \in Holding)
    BY <1>4 DEF Issue, Fill, Answer, Holding
  <2>4. Changing' => Changing
    BY <1>1, <2>1, <2>2
  <2>5. firm /\ row # None => copy' \in {None, said}
    BY <2>3 DEF SettledInv, HoldersKnow, CopyKnows, InForce
  <2>6. QED
    BY <1>2, <2>1, <2>2, <2>4, <2>5 DEF SettledInv, HoldersKnow
<1>5. ASSUME NEW r \in Requests, Save(r) PROVE SettledInv'
  <2>1. UNCHANGED <<said, overlapped, firm, copy, base, want>>
    BY <1>5 DEF Save
  <2>2. \A q \in Requests : /\ phase'[q] = "evict" => phase[q] = "evict"
                            /\ phase'[q] \in Holding => phase[q] \in Holding
    BY <1>0, <1>5 DEF Save, Holding
  <2>3. row' = row \/ (row # None /\ row' = base[r] /\ phase[r] \in Holding)
    BY <1>5 DEF Save, Holding
  <2>4. Changing' => Changing
    BY <1>1, <2>1, <2>2
  <2>5. InForce /\ row' # None => row' = said
    BY <2>3 DEF SettledInv, HoldersKnow
  <2>6. QED
    BY <1>2, <2>1, <2>2, <2>3, <2>4, <2>5 DEF SettledInv, HoldersKnow, CopyKnows
<1>6. ASSUME NEW r \in Requests, NEW admin \in BOOLEAN, NEW s \in Statuses \cup {None},
             Admit(r, admin, s)
      PROVE  SettledInv'
  <2>1. UNCHANGED <<said, overlapped, firm, row, copy, base>>
    BY <1>6 DEF Admit
  <2>2. \A q \in Requests : /\ phase'[q] = "evict" => phase[q] = "evict" /\ want'[q] = want[q]
                            /\ phase'[q] \in Holding => phase[q] \in Holding
    BY <1>0, <1>6 DEF Admit, Holding
  <2>3. Changing' => Changing
    BY <1>1, <2>2
  <2>4. QED
    BY <1>2, <2>1, <2>2, <2>3 DEF SettledInv, HoldersKnow, CopyKnows
\* What is read from the cache while a change is to be evicted may be old: it overlaps.
<1>7. ASSUME NEW r \in Requests, ReadCopy(r) PROVE SettledInv'
  <2>1. /\ UNCHANGED <<said, firm, row, copy, want>> /\ copy # None
        /\ overlapped' = (overlapped \/ Changing)
    BY <1>7 DEF ReadCopy
  <2>2. \A q \in Requests :
            /\ phase'[q] = "evict" => phase[q] = "evict"
            /\ phase'[q] \in Holding =>
                   IF q = r THEN base'[q] = copy ELSE phase[q] \in Holding /\ base'[q] = base[q]
    BY <1>0, <1>7 DEF ReadCopy, Holding
  <2>3. Changing' => Changing
    BY <1>1, <2>1, <2>2
  <2>4. InForce' => firm
    BY <2>1, <2>3, Zenon DEF InForce
  <2>5. firm /\ row # None => row = said /\ copy = said
                                /\ \A q \in Requests : phase[q] \in Holding => base[q] = said
    BY <2>1 DEF SettledInv, HoldersKnow, CopyKnows, InForce
  <2>6. HoldersKnow'
    BY <2>1, <2>2, <2>4, <2>5 DEF HoldersKnow
  <2>7. CopyKnows'
    BY <2>1 DEF SettledInv, CopyKnows
  <2>8. QED
    BY <2>6, <2>7 DEF SettledInv
<1>8. ASSUME NEW r \in Requests, Write(r) PROVE SettledInv'
  <2>1. /\ row # None /\ row' = (IF want[r] = None THEN base[r] ELSE want[r])
        /\ phase[r] = "write" /\ phase' = [phase EXCEPT ![r] = "evict"]
        /\ UNCHANGED <<copy, base, want>>
    BY <1>8 DEF Write
  <2>2. CASE want[r] = None
    <3>1. UNCHANGED <<said, overlapped, firm>>
      BY <1>8, <2>2 DEF Write
    <3>2. Changing' => Changing
      BY <1>0, <1>1, <2>1, <2>2
    <3>3. \A q \in Requests : phase'[q] \in Holding => phase[q] \in Holding
      BY <1>0, <2>1 DEF Holding
    <3>4. InForce => row' = said
      BY <2>1, <2>2 DEF SettledInv, HoldersKnow, Holding
    <3>5. QED
      BY <1>2, <2>1, <3>1, <3>2, <3>3, <3>4 DEF SettledInv, HoldersKnow, CopyKnows
  <2>3. CASE want[r] # None
    <3>1. /\ said' = want[r] /\ row' = said' /\ firm' = FALSE
          /\ overlapped' = (Changing \/ SomeoneHolds(r))
      BY <1>8, <2>1, <2>3 DEF Write
    <3>2. SomeoneHolds(r) => overlapped'
      BY <3>1, Zenon
    <3>3. InForce' => ~SomeoneHolds(r)
      BY <3>1, <3>2, Zenon DEF InForce
    <3>4. \A q \in Requests : phase'[q] \in Holding => q # r /\ phase[q] \in Holding
      BY <1>0, <2>1 DEF Holding
    <3>5. QED
      BY <3>1, <3>3, <3>4 DEF SettledInv, HoldersKnow, CopyKnows, SomeoneHolds
  <2>4. QED
    BY <2>2, <2>3
\* The eviction makes a change firm that is in force already.
<1>9. ASSUME NEW r \in Requests, EvictUserCache(r) PROVE SettledInv'
  <2>1. /\ UNCHANGED <<row, base, want, said, overlapped>> /\ phase[r] = "evict"
        /\ phase' = [phase EXCEPT ![r] = "done"]
    BY <1>9 DEF EvictUserCache
  <2>2. \/ copy' = None /\ firm' = (firm \/ (want[r] # None /\ ~overlapped))
        \/ UNCHANGED <<copy, firm>>
    BY <1>9 DEF EvictUserCache, Drop
  <2>3. Changing' => Changing
    BY <1>0, <1>1, <2>1
  <2>4. want[r] # None => Changing
    BY <2>1 DEF Changing
  <2>5. firm' => firm \/ (want[r] # None /\ ~overlapped)
    BY <2>2, Zenon
  <2>6. InForce' => InForce
    BY <2>1, <2>3, <2>4, <2>5, Zenon DEF InForce
  <2>7. \A q \in Requests : phase'[q] \in Holding => phase[q] \in Holding
    BY <1>0, <2>1 DEF Holding
  <2>8. HoldersKnow'
    BY <2>1, <2>6, <2>7 DEF SettledInv, HoldersKnow
  <2>9. CopyKnows'
    BY <2>1, <2>2 DEF SettledInv, CopyKnows
  <2>10. QED
    BY <2>8, <2>9 DEF SettledInv
<1>10. ASSUME NEW r \in Requests, ListTokens(r) \/ (\E t \in leaving : LogOut(r, t)) \/ DeleteRow(r)
       PROVE  SettledInv'
  <2>1. /\ UNCHANGED <<copy, base, want, said, overlapped, firm>>
        /\ row' = row \/ row' = None
    BY <1>10 DEF ListTokens, LogOut, DeleteRow
  <2>2. \A q \in Requests : phase'[q] \in Holding => phase[q] \in Holding
    BY <1>0, <1>10 DEF ListTokens, LogOut, DeleteRow, Holding
  <2>3. row' # None => \A q \in Requests : phase'[q] = "evict" => phase[q] = "evict"
    <3>1. CASE ListTokens(r) \/ \E t \in leaving : LogOut(r, t)
      BY <1>0, <3>1 DEF ListTokens, LogOut
    <3>2. CASE DeleteRow(r)
      BY <1>0, <3>2 DEF DeleteRow
    <3>3. QED
      BY <1>10, <3>1, <3>2
  <2>4. CASE row' = None
    BY <2>4 DEF SettledInv, HoldersKnow, CopyKnows
  <2>5. CASE row' # None
    <3>1. Changing' => Changing
      BY <1>1, <2>1, <2>3, <2>5
    <3>2. QED
      BY <1>2, <2>1, <2>2, <2>5, <3>1 DEF SettledInv, HoldersKnow, CopyKnows
  <2>6. QED
    BY <2>4, <2>5
<1>11. CASE (\E t \in tokens : TokenEnds(t)) \/ CopyExpires \/ UNCHANGED accountVars
  <2>1. /\ UNCHANGED <<row, phase, base, want, said, overlapped, firm>>
        /\ copy' = copy \/ copy' = None
    BY <1>11 DEF TokenEnds, CopyExpires, accountVars
  <2>2. Changing' => Changing
    BY <1>1, <2>1
  <2>3. QED
    BY <1>2, <2>1, <2>2 DEF SettledInv, HoldersKnow, CopyKnows
<1>12. QED
  BY <1>3, <1>4, <1>5, <1>6, <1>7, <1>8, <1>9, <1>10, <1>11 DEF AccountNext

(* Update and Login: a status an administrator sets while nobody is half-way with the account,
   and whose eviction works, stays until an administrator sets another: for any number of
   requests. *)
THEOREM FirmChangeAlwaysStays ==
    AccountSpec => []FirmChangeStays
<1>1. AccountInit => SettledInv
  BY DEF AccountInit, SettledInv, HoldersKnow, CopyKnows, None, Holding
<1>2. AccountTypeOK /\ SettledInv /\ [AccountNext]_accountVars => SettledInv'
  BY SettledStep
<1>3. SettledInv => FirmChangeStays
  BY DEF SettledInv, HoldersKnow, InForce, FirmChangeStays
<1>4. AccountSpec => []AccountTypeOK
  BY AccountTypeCorrect
<1>5. QED
  BY <1>1, <1>2, <1>3, <1>4, PTL DEF AccountSpec

-----------------------------------------------------------------------------
(* What handling the requests of an account one at a time would guarantee, while nothing fails.  A
   failed eviction is enough to break it: the copy that stays is what the next edit writes back. *)

Midway(r) == phase[r] \notin {"idle", "done"}

Undisturbed == faults = 0 /\ \A r, q \in Requests : Midway(r) /\ Midway(q) => r = q

\* What a request holds is the row.
HeldIsRow == \A r \in Requests : phase[r] \in Holding => base[r] = row

\* So is the copy, unless it is about to be evicted.
CopyIsRow == copy \in {None, row} \/ \E r \in Requests : phase[r] = "evict"

\* A deletion that has begun has removed the row, or is at it.
DeletionAtWork == deleting => row = None \/ \E r \in Requests : phase[r] = "logout"

AloneInv == HeldIsRow /\ CopyIsRow /\ DeletionAtWork /\ excused = {}

\* The status changes in the step of a request that sets it.
ChangedByAdmin ==
    row' # row /\ row' # None => \E r \in Requests : want[r] = row' /\ phase[r] = "write"

LEMMA AloneInit == AccountInit => AloneInv
BY DEF AccountInit, AloneInv, HeldIsRow, CopyIsRow, DeletionAtWork, Holding, None

\* Every step keeps it, and none but the write of a set status changes the status.
LEMMA AloneStep ==
    ASSUME AccountTypeOK, Undisturbed, Undisturbed', LogoutInv, AloneInv, [AccountNext]_accountVars
    PROVE  AloneInv' /\ ChangedByAdmin
<1>t. /\ phase \in [Requests -> Phases] /\ base \in [Requests -> Statuses \cup {None}]
      /\ want \in [Requests -> Statuses \cup {None}]
    BY DEF AccountTypeOK
<1>f. ~Fault
    BY DEF Undisturbed, Fault
<1> USE DEF AloneInv, HeldIsRow, CopyIsRow, DeletionAtWork, ChangedByAdmin, Holding, Goto, End,
            requestVars, deletionVars, changeVars
\* Nobody else is half-way.
<1>a. ASSUME NEW r \in Requests, phase[r] \notin {"idle", "done"} \/ phase'[r] \notin {"idle", "done"},
             \A q \in Requests \ {r} : phase'[q] = phase[q]
      PROVE  \A q \in Requests \ {r} : phase[q] \in {"idle", "done"}
    BY <1>a DEF Undisturbed, Midway
<1>1. ASSUME NEW r \in Requests, ReadAccount(r) PROVE AloneInv' /\ ChangedByAdmin
    BY <1>t, <1>1 DEF ReadAccount
\* A token is issued to a user whose row is there, so that no deletion is at work.
<1>2. ASSUME NEW r \in Requests, Issue(r) PROVE AloneInv' /\ ChangedByAdmin
  <2>1. /\ phase[r] = "issue" /\ phase' = [phase EXCEPT ![r] = "save"]
        /\ excused' = IF deleting THEN excused \cup {r} ELSE excused
        /\ UNCHANGED <<row, copy, base, deleting>>
    BY <1>f, <1>2 DEF Issue
  <2>2. \A q \in Requests \ {r} : phase[q] \in {"idle", "done"}
    BY <1>a, <1>t, <2>1
  <2>3. row # None
    BY <2>1 DEF LogoutInv, HoldersHaveRead
  <2>4. ~deleting
    BY <2>1, <2>2, <2>3
  <2> QED
    BY <1>t, <2>1, <2>4
<1>3. ASSUME NEW r \in Requests, Save(r) PROVE AloneInv' /\ ChangedByAdmin
  <2>1. /\ phase[r] = "save" /\ phase' = [phase EXCEPT ![r] = "done"]
        /\ row' = (IF row = None THEN None ELSE base[r])
        /\ UNCHANGED <<copy, base, deleting, excused>>
    BY <1>f, <1>3 DEF Save
  <2>2. row' = row
    BY <2>1
  <2> QED
    BY <1>t, <2>1, <2>2
<1>4. ASSUME NEW r \in Requests, NEW admin \in BOOLEAN, NEW s \in Statuses \cup {None},
             Admit(r, admin, s)
      PROVE  AloneInv' /\ ChangedByAdmin
    BY <1>t, <1>4 DEF Admit
<1>5. ASSUME NEW r \in Requests, ReadCopy(r) \/ LoadRow(r) PROVE AloneInv' /\ ChangedByAdmin
  <2>1. /\ phase[r] = "read" /\ \A q \in Requests \ {r} : phase'[q] = phase[q]
        /\ phase'[r] \in {"write", "done", "fill"} /\ base' = [base EXCEPT ![r] = base'[r]]
        /\ (base'[r] = copy /\ copy # None) \/ base'[r] = row
        /\ UNCHANGED <<row, copy, deleting, excused>>
    BY <1>t, <1>5 DEF ReadCopy, LoadRow
  <2>2. \A q \in Requests \ {r} : phase[q] \in {"idle", "done"}
    BY <1>a, <2>1
  <2>3. base'[r] = row
    BY <2>1, <2>2
  <2> QED
    BY <1>t, <2>1, <2>2, <2>3
<1>6. ASSUME NEW r \in Requests, Fill(r) \/ Answer(r) PROVE AloneInv' /\ ChangedByAdmin
    BY <1>t, <1>6 DEF Fill, Answer
<1>7. ASSUME NEW r \in Requests, Write(r) PROVE AloneInv' /\ ChangedByAdmin
  <2>1. /\ phase[r] = "write" /\ phase' = [phase EXCEPT ![r] = "evict"] /\ row # None
        /\ row' = (IF want[r] = None THEN base[r] ELSE want[r])
        /\ UNCHANGED <<copy, base, deleting, excused>>
    BY <1>7 DEF Write
  <2>2. \A q \in Requests \ {r} : phase[q] \in {"idle", "done"}
    BY <1>a, <1>t, <2>1
  <2>3. ~deleting
    BY <2>1, <2>2
  <2> QED
    BY <1>t, <2>1, <2>2, <2>3
<1>8. ASSUME NEW r \in Requests, EvictUserCache(r) PROVE AloneInv' /\ ChangedByAdmin
    BY <1>f, <1>t, <1>8 DEF EvictUserCache, Drop
<1>9. ASSUME NEW r \in Requests, ListTokens(r) PROVE AloneInv' /\ ChangedByAdmin
    BY <1>f, <1>t, <1>9 DEF ListTokens
<1>10. ASSUME NEW r \in Requests, NEW t \in leaving, LogOut(r, t) PROVE AloneInv' /\ ChangedByAdmin
    BY <1>f, <1>t, <1>10 DEF LogOut
<1>11. ASSUME NEW r \in Requests, DeleteRow(r) PROVE AloneInv' /\ ChangedByAdmin
  <2>1. /\ phase[r] = "logout" /\ phase' = [phase EXCEPT ![r] = "evict"] /\ row' = None
        /\ UNCHANGED <<copy, base, deleting, excused>>
    BY <1>f, <1>11 DEF DeleteRow
  <2>2. \A q \in Requests \ {r} : phase[q] \in {"idle", "done"}
    BY <1>a, <1>t, <2>1
  <2> QED
    BY <1>t, <2>1, <2>2
<1>12. CASE CopyExpires \/ (\E t \in tokens : TokenEnds(t)) \/ UNCHANGED accountVars
    BY <1>12 DEF CopyExpires, TokenEnds, Revoke, accountVars
<1> QED
    BY <1>1, <1>2, <1>3, <1>4, <1>5, <1>6, <1>7, <1>8, <1>9, <1>10, <1>11, <1>12 DEF AccountNext

\* No valid token shares its device key with another login.
KeysApart == \A t \in tokens : ~Shared(t)

\* Update, Login and Delete: if the requests of an account were handled one at a time, and
\* nothing failed, only an administrator's request would change the status; and if besides every
\* login had a device key of its own, no token would outlive its user: the two statements of the
\* comments, for any number of requests.  Without the second condition a token whose list entry
\* a later login took stays valid, one request at a time or not.
THEOREM OneRequestSuffices ==
    AccountSpec /\ []Undisturbed
        => OnlyAdminsChangeStatus /\ ([]KeysApart => []NoTokenWithoutUser)
<1>1. AccountTypeOK /\ LogoutInv /\ Undisturbed /\ Undisturbed' /\ AloneInv /\ [AccountNext]_accountVars
        => AloneInv' /\ [ChangedByAdmin]_accountVars
  BY AloneStep
<1>2. [ChangedByAdmin]_accountVars
        <=> [row' # row /\ row' # None =>
                \E r \in Requests : want[r] = row' /\ phase[r] = "write"]_accountVars
  BY DEF ChangedByAdmin
<1>3. LeftTokenIsExplained /\ AloneInv /\ KeysApart => NoTokenWithoutUser
  BY DEF LeftTokenIsExplained, AloneInv, NoTokenWithoutUser, KeysApart
<1>4. QED
  BY <1>1, <1>2, <1>3, AloneInit, AccountTypeCorrect, LogoutAlways, LeftTokenAlwaysExplained, PTL
  DEF AccountSpec, OnlyAdminsChangeStatus

=============================================================================
