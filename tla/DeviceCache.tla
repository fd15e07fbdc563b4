----------------------------- MODULE DeviceCache -----------------------------
(***************************************************************************)
(* The two-level cache of pkg/cache/redis.go, for one key: a local cache   *)
(* (L1) in every instance of the server, Redis (L2) behind them, negative  *)
(* entries, single flight, and invalidation by publish and subscribe.      *)
(*                                                                         *)
(* Three kinds of keys go through it.  "row": a device, or its absence,    *)
(* which device_service.go writes through.  "list": the devices of a user, *)
(* which every change of one of them evicts.  "defs": the sensors, or the  *)
(* actuators, of a device, which every change of a definition evicts, but  *)
(* not the deletion of the device, which takes them along.  An empty list  *)
(* is a value like any other.                                              *)
(*                                                                         *)
(* A value is the number of the change that made it; 0 stands for a row    *)
(* that is not there (an empty list).  Every call to Redis or the database *)
(* is a step of its own.  How long entries live is left open, except that  *)
(* negative entries are gone long before others expire.                    *)
(***************************************************************************)
EXTENDS Naturals, FiniteSets

CONSTANTS Instances,    \* instances of the server; the load an instance has under
                        \* way (sg.Do runs one per key) goes by the instance's name
          Readers,      \* calls of GetOrLoad that may be under way (bound)
          Writers,      \* calls of Register, Update and Delete, each used once (bound)
          Kinds,        \* which of "row", "list" and "defs" the key may be
          NoEntry,      \* what a cache without an entry holds
          Nowhere,      \* where a call runs that is not under way
          MaxFaults     \* calls that fail, messages lost, instances restarted (bound)

ASSUME CacheAssumptions ==
    /\ IsFiniteSet(Instances) /\ IsFiniteSet(Readers) /\ IsFiniteSet(Writers)
    /\ Instances \cap Readers = {} /\ Instances \cap Writers = {} /\ Readers \cap Writers = {}
    /\ Kinds \subseteq {"row", "list", "defs"}
    /\ Nowhere \notin Instances
    /\ NoEntry \notin [value : Nat, late : BOOLEAN]
    /\ MaxFaults \in Nat

VARIABLES
    kind,       \* what kind of key this is
    row,        \* the value in the database
    changes,    \* number of changes so far
    orphaned,   \* whether the last change was the deletion of the device of a "defs" key
    l2,         \* the entry in Redis
    neg,        \* the negative entry in Redis (a key of its own)
    l1,         \* l1[i]      : the entry in the local cache of i
    inbox,      \* inbox[i]   : invalidations published, that i did not get yet
    waiting,    \* waiting[i] : readers that wait for the load of i
    phase,      \* phase[p]   : how far reader, writer or load p is
    where,      \* where[p]   : the instance p runs in
    held,       \* held[p]    : the value p has in its hands
    late,       \* late[p]    : an invalidation came after p got it
    faults      \* failures so far

rowVars == <<kind, row, changes, orphaned>>
cacheVars == <<l2, neg, l1>>
callVars == <<waiting, phase, where, held, late>>
systemVars == <<rowVars, cacheVars, inbox, callVars, faults>>

Calls == Readers \cup Writers \cup Instances

Entry == [value : Nat, late : BOOLEAN]

ReaderPhases == {"idle",    \* not called, or answered
                 "get",     \* not in L1; about to GET
                 "exists",  \* not in L2; about to look for the negative key
                 "fillNeg", \* about to put a negative entry in L1
                 "join",    \* about to start or join the load
                 "wait",    \* waits for the load
                 "fill"}    \* about to put the value in L1

LoadPhases == {"off", "recheck", "load", "store", "negset", "neglocal"}

WriterPhases == {"new",
                 "reread",  \* the change is in the database, about to read it back
                 "set",     \* about to SET (CacheDevice)
                 "local",   \* L2 is done, about to delete the entry in L1
                 "clear",   \* about to delete the entry in L1 (evictKey)
                 "del",     \* L1 is done, about to DEL
                 "publish",
                 "done",
                 "gone"}    \* did not get to the end

CacheTypeOK ==
    /\ kind \in Kinds
    /\ row \in Nat
    /\ changes \in Nat
    /\ orphaned \in BOOLEAN
    /\ l2 \in Entry \cup {NoEntry}
    /\ neg \in Entry \cup {NoEntry}
    /\ l1 \in [Instances -> Entry \cup {NoEntry}]
    /\ inbox \in [Instances -> Nat]
    /\ waiting \in [Instances -> SUBSET Readers]
    /\ phase \in [Calls -> ReaderPhases \cup LoadPhases \cup WriterPhases]
    /\ \A r \in Readers : phase[r] \in ReaderPhases
    /\ \A w \in Writers : phase[w] \in WriterPhases
    /\ \A i \in Instances : phase[i] \in LoadPhases
    /\ where \in [Calls -> Instances \cup {Nowhere}]
    /\ held \in [Calls -> Nat]
    /\ late \in [Calls -> BOOLEAN]
    /\ faults \in 0 .. MaxFaults

\* The row may be there or not; nothing is cached.
CacheInit ==
    /\ kind \in Kinds
    /\ row \in {0, 1}
    /\ changes = 1
    /\ orphaned = FALSE
    /\ l2 = NoEntry
    /\ neg = NoEntry
    /\ l1 = [i \in Instances |-> NoEntry]
    /\ inbox = [i \in Instances |-> 0]
    /\ waiting = [i \in Instances |-> {}]
    /\ phase = [p \in Calls |-> IF p \in Readers THEN "idle"
                                ELSE IF p \in Writers THEN "new" ELSE "off"]
    /\ where = [p \in Calls |-> IF p \in Instances THEN p ELSE Nowhere]
    /\ held = [p \in Calls |-> 0]
    /\ late = [p \in Calls |-> FALSE]
    /\ faults = 0

\* A call fails, or an answer or a message is lost.
Fault == faults < MaxFaults /\ faults' = faults + 1

-----------------------------------------------------------------------------
(* Who has a value in hand, and what an invalidation does to it.           *)

Holding(p) == phase[p] \in {"exists", "fillNeg", "fill", "store", "negset", "neglocal", "set"}

\* Redis got another entry, or lost the one it had, by the will of writer w, which
\* has nothing in hand afterwards.
OvertakeAll(w) == late' = [p \in Calls |-> p # w /\ (late[p] \/ Holding(p))]

\* The entry of i was deleted.
Overtake(i) == late' = [p \in Calls |-> late[p] \/ (where[p] = i /\ Holding(p))]

Goto(p, from, to) == phase[p] = from /\ phase' = [phase EXCEPT ![p] = to]

\* p goes on with value v.
Take(p, v, l) ==
    /\ held' = [held EXCEPT ![p] = v]
    /\ late' = [late EXCEPT ![p] = l]

-----------------------------------------------------------------------------
(* GetOrLoad.                                                              *)

\* A call comes in at i.  If it finds an entry in L1, it is answered at once.
Miss(r, i) ==
    /\ l1[i] = NoEntry
    /\ Goto(r, "idle", "get")
    /\ where' = [where EXCEPT ![r] = i]
    /\ UNCHANGED <<rowVars, cacheVars, inbox, waiting, held, late, faults>>

\* GET.  When Redis fails, the call goes on without it.
GetL2(r) ==
    /\ \/ /\ l2 # NoEntry
          /\ Goto(r, "get", "fill")
          /\ Take(r, l2.value, l2.late)
          /\ UNCHANGED faults
       \/ /\ l2 = NoEntry
          /\ Goto(r, "get", "exists")
          /\ Take(r, 0, FALSE)
          /\ UNCHANGED faults
       \/ Fault /\ Goto(r, "get", "join") /\ Take(r, 0, FALSE)
    /\ UNCHANGED <<rowVars, cacheVars, inbox, waiting, where>>

\* EXISTS of the negative key.
CheckNeg(r) ==
    /\ \/ /\ neg # NoEntry
          /\ Goto(r, "exists", "fillNeg")
          /\ Take(r, 0, late[r] \/ neg.late)
          /\ UNCHANGED faults
       \/ /\ (neg = NoEntry /\ UNCHANGED faults) \/ Fault
          /\ Goto(r, "exists", "join")
          /\ Take(r, 0, FALSE)
    /\ UNCHANGED <<rowVars, cacheVars, inbox, waiting, where>>

\* An entry made by p, in the local cache of the instance p runs in.
Fill(p) == l1' = [l1 EXCEPT ![where[p]] = [value |-> held[p], late |-> late[p]]]

\* The reader is answered, and its value, or the absence, is in L1.
FillL1(r) ==
    /\ Goto(r, "fill", "idle") \/ Goto(r, "fillNeg", "idle")
    /\ Fill(r)
    /\ Take(r, 0, FALSE)
    /\ where' = [where EXCEPT ![r] = Nowhere]
    /\ UNCHANGED <<rowVars, l2, neg, inbox, waiting, faults>>

\* sg.Do: the first reader of an instance starts a load, the others wait for it.
Join(r) ==
    LET i == where[r]
    IN  /\ phase[r] = "join"
        /\ waiting' = [waiting EXCEPT ![i] = @ \cup {r}]
        /\ phase' = [phase EXCEPT ![r] = "wait", ![i] = IF @ = "off" THEN "recheck" ELSE @]
        /\ UNCHANGED <<rowVars, cacheVars, inbox, where, held, late, faults>>

-----------------------------------------------------------------------------
(* The load.                                                               *)

\* The load ends, and every reader that waits for it has its value.
Deliver(i, v, l) ==
    /\ phase' = [p \in Calls |-> IF p \in waiting[i] THEN "fill" ELSE IF p = i THEN "off" ELSE phase[p]]
    /\ held' = [p \in Calls |-> IF p \in waiting[i] THEN v ELSE IF p = i THEN 0 ELSE held[p]]
    /\ late' = [p \in Calls |-> IF p \in waiting[i] THEN l ELSE IF p = i THEN FALSE ELSE late[p]]
    /\ waiting' = [waiting EXCEPT ![i] = {}]

\* The load ends without a value, and so do the calls that wait for it.
Refuse(i) ==
    /\ phase' = [p \in Calls |-> IF p \in waiting[i] THEN "idle" ELSE IF p = i THEN "off" ELSE phase[p]]
    /\ where' = [p \in Calls |-> IF p \in waiting[i] THEN Nowhere ELSE where[p]]
    /\ Take(i, 0, FALSE)
    /\ waiting' = [waiting EXCEPT ![i] = {}]

\* The second look at L2.
Recheck(i) ==
    /\ phase[i] = "recheck"
    /\ \/ l2 # NoEntry /\ Deliver(i, l2.value, l2.late) /\ UNCHANGED faults
       \/ /\ (l2 = NoEntry /\ UNCHANGED faults) \/ Fault
          /\ Goto(i, "recheck", "load")
          /\ UNCHANGED <<waiting, held, late>>
    /\ UNCHANGED <<rowVars, cacheVars, inbox, where>>

\* The loader reads the database; its error is everyone's.
Load(i) ==
    /\ phase[i] = "load"
    /\ \/ /\ Goto(i, "load", IF row = 0 /\ kind = "row" THEN "negset" ELSE "store")
          /\ Take(i, row, FALSE)
          /\ UNCHANGED <<waiting, where, faults>>
       \/ Fault /\ Refuse(i)
    /\ UNCHANGED <<rowVars, cacheVars, inbox>>

\* SET, whose failure nobody looks at, and the readers go on.
Store(i) ==
    /\ phase[i] = "store"
    /\ \/ l2' = [value |-> held[i], late |-> late[i]] /\ UNCHANGED faults
       \/ Fault /\ UNCHANGED l2
    /\ Deliver(i, held[i], late[i])
    /\ UNCHANGED <<rowVars, neg, l1, inbox, where>>

\* There is no such row: a negative key in Redis ...
NegSet(i) ==
    /\ Goto(i, "negset", "neglocal")
    /\ \/ neg' = [value |-> 0, late |-> late[i]] /\ UNCHANGED faults
       \/ Fault /\ UNCHANGED neg
    /\ UNCHANGED <<rowVars, l2, l1, inbox, waiting, where, held, late>>

\* ... and a negative entry in L1, for the readers to come.
NegLocal(i) ==
    /\ phase[i] = "neglocal"
    /\ Fill(i)
    /\ Refuse(i)
    /\ UNCHANGED <<rowVars, l2, neg, inbox, faults>>

-----------------------------------------------------------------------------
(* Writers.                                                                *)

\* The database makes change number changes + 1 on behalf of w, in instance i.
Commit(w, i, v, to) ==
    /\ Goto(w, "new", to)
    /\ row' = v
    /\ changes' = changes + 1
    /\ orphaned' = FALSE
    /\ where' = [where EXCEPT ![w] = i]
    /\ UNCHANGED <<kind, cacheVars, inbox, waiting, held, late, faults>>

\* A row, or an entry of a list, is created.  The identifier of a device is drawn
\* at random and taken never to be drawn again.
Register(w, i) ==
    /\ kind = "row" => row = 0 /\ changes = 1
    /\ Commit(w, i, changes + 1, IF kind = "row" THEN "reread" ELSE "clear")

Update(w, i) == row # 0 /\ Commit(w, i, changes + 1, "reread")

\* The row, or an entry of a list, the last or not, is deleted.
Delete(w, i) ==
    /\ row # 0
    /\ \E v \in {0, changes + 1} : (kind = "row" => v = 0) /\ Commit(w, i, v, "clear")

\* The device is deleted, and its definitions with it: deleteCascades removes them
\* and no cache of them is evicted.  (The device itself may outlive a failure of
\* its own deletion, and definitions may be created again.)
DeleteDevice(w) ==
    /\ kind = "defs"
    /\ row # 0
    /\ Goto(w, "new", "done")
    /\ row' = 0
    /\ changes' = changes + 1
    /\ orphaned' = TRUE
    /\ UNCHANGED <<kind, cacheVars, inbox, waiting, where, held, late, faults>>

\* The row is read back; if it cannot be, the caches are left as they are.
Reread(w) ==
    /\ \/ /\ row # 0
          /\ \/ kind = "row" /\ Goto(w, "reread", "set") /\ Take(w, row, FALSE)
             \/ kind # "row" /\ Goto(w, "reread", "clear") /\ UNCHANGED <<held, late>>
          /\ UNCHANGED faults
       \/ /\ (row = 0 /\ UNCHANGED faults) \/ Fault
          /\ Goto(w, "reread", "gone")
          /\ UNCHANGED <<held, late>>
    /\ UNCHANGED <<rowVars, cacheVars, inbox, waiting, where>>

\* CacheDevice sets L2 ...
SetL2(w) ==
    /\ \/ /\ Goto(w, "set", "local")
          /\ l2' = [value |-> held[w], late |-> late[w]]
          /\ OvertakeAll(w)
          /\ UNCHANGED faults
       \/ Fault /\ Goto(w, "set", "gone") /\ UNCHANGED <<l2, late>>
    /\ held' = [held EXCEPT ![w] = 0]
    /\ UNCHANGED <<rowVars, neg, l1, inbox, waiting, where>>

\* evictKey deletes the key in L2 ...
DelL2(w) ==
    /\ \/ /\ Goto(w, "del", "publish")
          /\ l2' = NoEntry
          /\ OvertakeAll(w)
          /\ UNCHANGED faults
       \/ Fault /\ Goto(w, "del", "gone") /\ UNCHANGED <<l2, late>>
    /\ UNCHANGED <<rowVars, neg, l1, inbox, waiting, where, held>>

\* ... after it deleted the entry in L1 of its own instance; CacheDevice does so
\* after it set L2.
DeleteLocal(w) ==
    /\ Goto(w, "local", "publish") \/ Goto(w, "clear", "del")
    /\ l1' = [l1 EXCEPT ![where[w]] = NoEntry]
    /\ Overtake(where[w])
    /\ UNCHANGED <<rowVars, l2, neg, inbox, waiting, where, held, faults>>

\* (Mutant of Announce: nobody is told.)
AnnounceNot == UNCHANGED inbox

\* Every instance, the publisher's too, gets the message.
Announce == inbox' = [i \in Instances |-> inbox[i] + 1]

Publish(w) ==
    /\ \/ Goto(w, "publish", "done") /\ Announce /\ UNCHANGED faults
       \/ Fault /\ Goto(w, "publish", "gone") /\ UNCHANGED inbox
    /\ where' = [where EXCEPT ![w] = Nowhere]
    /\ UNCHANGED <<rowVars, cacheVars, waiting, held, late>>

-----------------------------------------------------------------------------
(* What happens to caches by themselves.                                   *)

\* SubscribeInvalidate.
Receive(i) ==
    /\ inbox[i] > 0
    /\ inbox' = [inbox EXCEPT ![i] = @ - 1]
    /\ l1' = [l1 EXCEPT ![i] = NoEntry]
    /\ Overtake(i)
    /\ UNCHANGED <<rowVars, l2, neg, waiting, phase, where, held, faults>>

\* A message published while the subscription is down.
Lose(i) ==
    /\ inbox[i] > 0
    /\ Fault
    /\ inbox' = [inbox EXCEPT ![i] = @ - 1]
    /\ UNCHANGED <<rowVars, cacheVars, callVars>>

ExpireL1(i) ==
    /\ l1[i] # NoEntry
    /\ l1' = [l1 EXCEPT ![i] = NoEntry]
    /\ UNCHANGED <<rowVars, l2, neg, inbox, callVars, faults>>

\* (Mutant of GoneFromL2: the key was set without a time to live.)
StaysInL2 == UNCHANGED l2

GoneFromL2 == l2' = NoEntry

\* An entry lives for minutes, a negative key for seconds, and the load that makes
\* such a key does not take longer: of the two, the key goes first.
ExpireL2 ==
    /\ l2 # NoEntry
    /\ neg = NoEntry
    /\ GoneFromL2
    /\ UNCHANGED <<rowVars, neg, l1, inbox, callVars, faults>>

ExpireNeg ==
    /\ neg # NoEntry
    /\ neg' = NoEntry
    /\ UNCHANGED <<rowVars, l2, l1, inbox, callVars, faults>>

\* An instance restarts: its local cache and everything that runs in it is gone.
Restart(i) ==
    /\ Fault
    /\ l1' = [l1 EXCEPT ![i] = NoEntry]
    /\ inbox' = [inbox EXCEPT ![i] = 0]
    /\ waiting' = [waiting EXCEPT ![i] = {}]
    /\ phase' = [p \in Calls |->
                    IF where[p] # i THEN phase[p]
                    ELSE IF p \in Readers THEN "idle" ELSE IF p \in Writers THEN "gone" ELSE "off"]
    /\ held' = [p \in Calls |-> IF where[p] = i THEN 0 ELSE held[p]]
    /\ late' = [p \in Calls |-> where[p] # i /\ late[p]]
    /\ where' = [p \in Calls |-> IF p # i /\ where[p] = i THEN Nowhere ELSE where[p]]
    /\ UNCHANGED <<rowVars, l2, neg>>

-----------------------------------------------------------------------------
Read(r) == GetL2(r) \/ CheckNeg(r) \/ FillL1(r) \/ Join(r)
LoadStep(i) == Recheck(i) \/ Load(i) \/ Store(i) \/ NegSet(i) \/ NegLocal(i)
Invalidate(w) == Reread(w) \/ SetL2(w) \/ DelL2(w) \/ DeleteLocal(w) \/ Publish(w)

CacheNext ==
    \/ \E r \in Readers : Read(r) \/ \E i \in Instances : Miss(r, i)
    \/ \E w \in Writers : Invalidate(w) \/ DeleteDevice(w) \/ \E i \in Instances : Register(w, i) \/ Update(w, i) \/ Delete(w, i)
    \/ \E i \in Instances : LoadStep(i) \/ Receive(i) \/ Lose(i) \/ ExpireL1(i) \/ Restart(i)
    \/ ExpireL2 \/ ExpireNeg

CacheSpec == CacheInit /\ [][CacheNext]_systemVars

\* Calls under way go on, and entries do not live for ever.
CacheFairSpec ==
    /\ CacheSpec
    /\ \A r \in Readers : WF_systemVars(Read(r))
    /\ \A w \in Writers : WF_systemVars(Invalidate(w))
    /\ \A i \in Instances : /\ WF_systemVars(LoadStep(i)) /\ WF_systemVars(Receive(i))
                            /\ WF_systemVars(ExpireL1(i))
    /\ WF_systemVars(ExpireL2) /\ WF_systemVars(ExpireNeg)

-----------------------------------------------------------------------------
(* Properties.                                                             *)

\* A change whose effect on Redis is still to come.  (A writer that will find the
\* row gone leaves that to the one who deleted it.)
L2Pending(w) == phase[w] \in {"set", "clear", "del"} \/ (phase[w] = "reread" /\ row # 0)

\* A change whose effect on the local cache of i is still to come.
L1Pending(i) ==
    \/ inbox[i] > 0
    \/ \E w \in Writers : L2Pending(w) \/ phase[w] \in {"local", "publish"}

\* What a cache holds other than what the database has, it has for one of two
\* reasons: an invalidation is still on its way to it, or the call that put it
\* there had been overtaken by one.
StaleHasReason ==
    /\ l2 # NoEntry /\ l2.value # row => l2.late \/ \E w \in Writers : L2Pending(w)
    /\ \A i \in Instances :
          l1[i] # NoEntry /\ l1[i].value # row => l1[i].late \/ L1Pending(i)

\* So it is, unless a call failed, or the device of a list of definitions was
\* deleted and they were not changed since.
StaleIsExplained == faults = 0 /\ ~orphaned => StaleHasReason

\* Whatever failed or was overtaken, once the changes are over all caches come to
\* hold what the database has, or nothing, and no device stays unknown.
Current(e) == e # NoEntry => e.value = row

CachesConverge ==
    <>[](Current(l2) /\ Current(neg) /\ \A i \in Instances : Current(l1[i]))

-----------------------------------------------------------------------------
(* What the comments of the source say and the code does not keep.         *)

\* device_service.go 229: the deletion of a device evicts all caches concerned.
\* Those of its sensors and actuators are not evicted: they keep the definitions
\* of a device that is gone, though nothing failed and nothing is on its way.
EveryChangeEvicts == faults = 0 => StaleHasReason

\* redis.go 295: once CacheDevice is through, and has told everyone, no reader hits
\* the old value.
NoOldValueAfterWrite ==
    ~orphaned /\ (\A w \in Writers : phase[w] \in {"new", "done"}) /\ (\A i \in Instances : inbox[i] = 0)
        => Current(l2) /\ \A i \in Instances : Current(l1[i])

=============================================================================
