----------------------------- MODULE DeviceTokens -----------------------------
(***************************************************************************)
(* The token of one device: how it is issued and shared (Register and      *)
(* GetDeviceToken of internal/service/device_service.go), how a request    *)
(* that carries it is let in (internal/middleware/auth.go, the report      *)
(* service and its local caches), and the two ways it may end: the daily   *)
(* cleanup of devices that were silent too long, and the deletion of the   *)
(* device, which leaves the token as it is.                                *)
(*                                                                         *)
(* Time passes in ticks.  Whatever is under way may take Slow of them.     *)
(* Sa-Token is external: one token at a time, the same one for everybody   *)
(* who logs the device in (IsShare), valid until it is logged out.         *)
(***************************************************************************)
EXTENDS Naturals, FiniteSets

CONSTANTS Calls,      \* requests that may be under way (bound); a call is used again
          MaxTokens,  \* bound on the tokens issued
          AuthTTL,    \* deviceAuthCacheTTL, in ticks
          KnownTTL,   \* life of the report service's "dev:" entries
          CopyTTL,    \* life of the row in the two-level cache
          Debounce,   \* pgDebounceInterval
          Inactive,   \* DeviceTokenInactiveTTL
          Slow,       \* ticks a step of a call may be late
          MaxFaults   \* bound on the calls that fail and the restarts

ASSUME TokenAssumptions ==
    /\ IsFiniteSet(Calls)
    /\ {MaxTokens, AuthTTL, KnownTTL, CopyTTL, Debounce, Inactive} \subseteq Nat \ {0}
    /\ {Slow, MaxFaults} \subseteq Nat
    /\ Debounce + Slow < Inactive

Tokens == 1 .. MaxTokens

CallPhases == {"idle",      \* not called, or answered
               "login",     \* GetDeviceToken has found the row, about to log in
               "register",  \* Register has made the row, about to log in
               "reread",    \* about to read the row again
               "warm",      \* has read it, about to cache it
               "store",     \* not in deviceAuthCache, about to ask Sa-Token
               "remember",  \* about to write deviceAuthCache
               "admitted",  \* about to see whether the device exists
               "fill",      \* has read the row, about to cache it
               "mark",      \* the device exists, about to write the "dev:" entry
               "accept"}    \* about to write the report or heartbeat

VARIABLES
    row,       \* the device's row is there
    silence,   \* ticks since last_active_time, or created_at if null; 0 without a row
    token,     \* the valid token, 0 if there is none
    issued,    \* tokens issued so far
    auth,      \* auth[t] : ticks the entry of t in deviceAuthCache has to live
    known,     \* ticks the "dev:" entry of the report service has to live
    copy,      \* ticks the cached row has to live
    pending,   \* pgUpdatePending has the device
    timer,     \* ticks the flush has been waiting
    flushing,  \* flushPGUpdates has taken it out and is about to write
    cleanup,   \* CleanupInactiveDeviceTokens: "off", "listed" (about to log out)
    deleting,  \* "unborn", then Delete: "off", "row" (found), "evict" (row is gone), "done"
    phase,     \* phase[c] : where call c is
    with,      \* with[c]  : the token it carries, until it is let in
    age,       \* age[c]   : ticks since c's last step
    faults,    \* writes that failed
    dead,      \* dead[t]  : ticks since t was logged out
    lenient,   \* a call was admitted with a token dead for too long
    gone,      \* ticks since the row was deleted
    unheard,   \* ticks since a report or heartbeat was accepted
    unwritten, \* an accepted one will not show in the row: a write failed
    returned,  \* ticks since a report ended a long silence
    deserved   \* a device the cleanup listed was silent, or just back,
               \* or a write of last_active_time had failed

callVars == <<phase, with, age>>
cacheVars == <<auth, known, copy>>
flushVars == <<silence, pending, timer, flushing, unwritten>>
tokenVars == <<token, issued, dead>>
ghostVars == <<lenient, gone, unheard, returned>>
ownerVars == <<row, cleanup, deleting, deserved>>
vars == <<callVars, cacheVars, flushVars, tokenVars, ownerVars, ghostVars, faults>>

\* An entry made in one tick is last read TTL - 1 ticks later.
\* How long a token that was logged out may still be accepted.
Grace == Slow + (AuthTTL - 1)

\* How long a report may still be accepted after the row is gone: the row may have been read
\* before and copied Slow later, the copy read when it ends and noted Slow later, and so on.
Farewell == Slow + (CopyTTL - 1) + Slow + (KnownTTL - 1) + Slow

\* What an accepted report may take to reach the row.
Lag == Debounce + Slow

TypeOK ==
    /\ row \in BOOLEAN /\ silence \in 0 .. Inactive
    /\ token \in Tokens \cup {0} /\ issued \in 0 .. MaxTokens
    /\ auth \in [Tokens -> 0 .. AuthTTL]
    /\ known \in 0 .. KnownTTL /\ copy \in 0 .. CopyTTL
    /\ pending \in BOOLEAN /\ timer \in 0 .. Debounce + Slow /\ flushing \in BOOLEAN
    /\ cleanup \in {"off", "listed"} /\ deleting \in {"unborn", "off", "row", "evict", "done"}
    /\ phase \in [Calls -> CallPhases] /\ with \in [Calls -> Tokens \cup {0}]
    /\ age \in [Calls -> 0 .. Slow]
    /\ faults \in 0 .. MaxFaults
    /\ dead \in [Tokens -> 0 .. Grace + 1] /\ lenient \in BOOLEAN
    /\ gone \in 0 .. Farewell + 1
    /\ unheard \in 0 .. Inactive /\ returned \in 0 .. Lag + 1
    /\ unwritten \in BOOLEAN /\ deserved \in BOOLEAN

\* The device is not registered yet.
Init ==
    /\ row = FALSE /\ silence = 0
    /\ token = 0 /\ issued = 0
    /\ auth = [t \in Tokens |-> 0] /\ known = 0 /\ copy = 0
    /\ pending = FALSE /\ timer = 0 /\ flushing = FALSE
    /\ cleanup = "off" /\ deleting = "unborn"
    /\ phase = [c \in Calls |-> "idle"] /\ with = [c \in Calls |-> 0]
    /\ age = [c \in Calls |-> 0] /\ lenient = FALSE /\ gone = 0
    /\ faults = 0
    /\ dead = [t \in Tokens |-> 0]
    /\ unheard = 0 /\ returned = Lag + 1 /\ unwritten = FALSE /\ deserved = TRUE

Fault == faults < MaxFaults /\ faults' = faults + 1

\* c goes on; an idle call carries nothing.
Goto(c, from, to) ==
    /\ phase[c] = from
    /\ phase' = [phase EXCEPT ![c] = to]
    /\ with' = [with EXCEPT ![c] = IF to = "idle" THEN 0 ELSE @]
    /\ age' = [age EXCEPT ![c] = 0]

-----------------------------------------------------------------------------
(* Issuing.                                                                *)

\* Register makes the row (whose id nobody had) ...
Register(c) ==
    /\ deleting = "unborn"
    /\ row' = TRUE /\ deleting' = "off"
    /\ Goto(c, "idle", "register")
    /\ UNCHANGED <<cleanup, deserved, cacheVars, flushVars, tokenVars, ghostVars, faults>>

\* ... and GetDeviceToken finds it.
FindRow(c) ==
    /\ row
    /\ Goto(c, "idle", "login")
    /\ UNCHANGED <<cacheVars, flushVars, tokenVars, ownerVars, ghostVars, faults>>

\* deviceMgr.Login: the token there is, or a new one.  The row may be gone by now.
Login(c) ==
    /\ \/ Goto(c, "login", "idle") \/ Goto(c, "register", "reread")
    /\ IF token # 0 \/ issued = MaxTokens
          THEN UNCHANGED <<token, issued>>
          ELSE issued' = issued + 1 /\ token' = issued'
    /\ UNCHANGED <<cacheVars, flushVars, dead, ownerVars, ghostVars, faults>>

\* Register reads the row it has made and caches it.
Reread(c) ==
    /\ Goto(c, "reread", IF row THEN "warm" ELSE "idle")
    /\ UNCHANGED <<cacheVars, flushVars, tokenVars, ownerVars, ghostVars, faults>>

Warm(c) ==
    /\ Goto(c, "warm", "idle")
    /\ copy' = CopyTTL
    /\ UNCHANGED <<auth, known, flushVars, tokenVars, ownerVars, ghostVars, faults>>

-----------------------------------------------------------------------------
(* Letting a request in.                                                   *)

\* c is let in with token t; it is noted if t has been dead for too long.
Admit(c, t) ==
    /\ phase' = [phase EXCEPT ![c] = "admitted"]
    /\ with' = [with EXCEPT ![c] = 0]
    /\ age' = [age EXCEPT ![c] = 0]
    /\ lenient' = (lenient \/ dead[t] > Grace)

\* (Mutant of Hit: an entry that is used lives on.)
HitSliding(t) == auth[t] > 0 /\ auth' = [auth EXCEPT ![t] = AuthTTL]

\* getCachedDeviceID finds the token.
Hit(t) == auth[t] > 0 /\ UNCHANGED auth

\* DeviceAuthMiddleware, for a request that carries a token issued some time ago.
CheckLocal(c, t) ==
    /\ phase[c] = "idle"
    /\ Hit(t)
    /\ Admit(c, t)
    /\ UNCHANGED <<known, copy, flushVars, tokenVars, ownerVars, gone, unheard, returned, faults>>

MissLocal(c, t) ==
    /\ phase[c] = "idle"
    /\ auth[t] = 0
    /\ phase' = [phase EXCEPT ![c] = "store"]
    /\ with' = [with EXCEPT ![c] = t]
    /\ age' = [age EXCEPT ![c] = 0]
    /\ UNCHANGED <<cacheVars, flushVars, tokenVars, ownerVars, ghostVars, faults>>

\* GetLoginID.
CheckStore(c) ==
    /\ Goto(c, "store", IF with[c] = token THEN "remember" ELSE "idle")
    /\ UNCHANGED <<cacheVars, flushVars, tokenVars, ownerVars, ghostVars, faults>>

\* setCachedDeviceID.
Remember(c) ==
    /\ phase[c] = "remember"
    /\ auth' = [auth EXCEPT ![with[c]] = AuthTTL]
    /\ Admit(c, with[c])
    /\ UNCHANGED <<known, copy, flushVars, tokenVars, ownerVars, gone, unheard, returned, faults>>

\* ReportStatus and Heartbeat, for what comes over UDP, WebSocket or MQTT: Sa-Token is asked
\* every time ...
CheckAlways(c) ==
    /\ phase[c] = "idle"
    /\ token # 0
    /\ Admit(c, token)
    /\ UNCHANGED <<cacheVars, flushVars, tokenVars, ownerVars, gone, unheard, returned, faults>>

\* ... unless the datagram names no token, or the gateway has none for the device.
CheckNothing(c) ==
    /\ Goto(c, "idle", "admitted")
    /\ UNCHANGED <<cacheVars, flushVars, tokenVars, ownerVars, ghostVars, faults>>

-----------------------------------------------------------------------------
(* Reports and heartbeats.                                                 *)

\* (Mutant of Known: an entry that is used lives on.)
KnownSliding == known > 0 /\ known' = KnownTTL

\* The local "dev:" entry of the report service is there.
Known == known > 0 /\ UNCHANGED known

LookLocally(c) ==
    /\ Goto(c, "admitted", "accept")
    /\ Known
    /\ UNCHANGED <<auth, copy, flushVars, tokenVars, ownerVars, ghostVars, faults>>

\* GetByDeviceID: the cached row, or the row.
LookUp(c) ==
    /\ known = 0
    /\ Goto(c, "admitted", IF copy > 0 THEN "mark" ELSE IF row THEN "fill" ELSE "idle")
    /\ UNCHANGED <<cacheVars, flushVars, tokenVars, ownerVars, ghostVars, faults>>

Fill(c) ==
    /\ Goto(c, "fill", "mark")
    /\ copy' = CopyTTL
    /\ UNCHANGED <<auth, known, flushVars, tokenVars, ownerVars, ghostVars, faults>>

Mark(c) ==
    /\ Goto(c, "mark", "accept")
    /\ known' = KnownTTL
    /\ UNCHANGED <<auth, copy, flushVars, tokenVars, ownerVars, ghostVars, faults>>

\* (Mutant of Schedule: every report makes the flush wait afresh.)
ScheduleAfresh == pending' = TRUE /\ timer' = 0

\* schedulePGUpdate.
Schedule == pending' = TRUE /\ UNCHANGED timer

\* FastReportWrite or CacheDeviceStatus, and schedulePGUpdate.
Accept(c) ==
    /\ Goto(c, "accept", "idle")
    /\ Schedule
    /\ unheard' = 0
    /\ returned' = IF row /\ unheard + Lag >= Inactive THEN 0 ELSE returned
    /\ UNCHANGED <<lenient, gone, silence, flushing, unwritten, cacheVars, tokenVars,
                   ownerVars, faults>>

\* What a call asks of PostgreSQL, Redis or Sa-Token fails, and the call with it; Register
\* leaves the device behind, without a token or without a cached row.
Fails(c) ==
    /\ phase[c] \in {"login", "register", "reread", "store", "admitted", "accept"}
    /\ Goto(c, phase[c], "idle")
    /\ Fault
    /\ UNCHANGED <<cacheVars, flushVars, tokenVars, ownerVars, ghostVars>>

\* flushPGUpdates takes the map ...
FlushTake ==
    /\ pending /\ timer >= Debounce
    /\ pending' = FALSE /\ timer' = 0 /\ flushing' = TRUE
    /\ UNCHANGED <<silence, unwritten, callVars, cacheVars, tokenVars, ownerVars, ghostVars,
                   faults>>

\* ... and writes last_active_time, to a row that may be gone; a failure is not repeated.
FlushWrite ==
    /\ flushing
    /\ flushing' = FALSE
    /\ \/ silence' = (IF row THEN 0 ELSE silence) /\ unwritten' = FALSE /\ UNCHANGED faults
       \/ Fault /\ unwritten' = row /\ UNCHANGED silence
    /\ UNCHANGED <<pending, timer, callVars, cacheVars, tokenVars, ownerVars, ghostVars>>

-----------------------------------------------------------------------------
(* The ends of a token and of a device.                                    *)

\* last_active_time, or created_at, is before the cutoff.
Overdue == silence = Inactive

\* CleanupInactiveDeviceTokens lists the devices ...
ListInactive ==
    /\ cleanup = "off"
    /\ row /\ Overdue
    /\ cleanup' = "listed"
    /\ deserved' = (unheard + Lag >= Inactive \/ returned <= Lag \/ unwritten)
    /\ UNCHANGED <<row, deleting, callVars, cacheVars, flushVars, tokenVars, ghostVars, faults>>

\* ... and logs each of them out, whatever it did meanwhile; or the logout fails.
Logout ==
    /\ cleanup = "listed"
    /\ cleanup' = "off" /\ deserved' = TRUE
    /\ \/ token' = 0 /\ UNCHANGED faults
       \/ Fault /\ UNCHANGED token
    /\ UNCHANGED <<row, deleting, callVars, cacheVars, flushVars, issued, dead, ghostVars>>

\* Delete: the row is found, deleted with what belongs to it, and its cached copy evicted.
FindForDelete ==
    /\ deleting = "off" /\ row
    /\ deleting' = "row"
    /\ UNCHANGED <<row, cleanup, deserved, callVars, cacheVars, flushVars, tokenVars, ghostVars,
                   faults>>

DeleteRow ==
    /\ deleting = "row"
    /\ \/ /\ row' = FALSE /\ deleting' = "evict"
          /\ silence' = 0 /\ unheard' = 0 /\ returned' = 0 /\ unwritten' = FALSE
          /\ UNCHANGED faults
       \/ /\ Fault /\ deleting' = "off"
          /\ UNCHANGED <<row, silence, unheard, returned, unwritten>>
    /\ UNCHANGED <<cleanup, deserved, callVars, cacheVars, pending, timer, flushing, lenient,
                   gone, tokenVars>>

\* EvictDeviceCache, whose error is dropped; the "dev:" entry and the token are left alone.
Evict ==
    /\ deleting = "evict"
    /\ deleting' = "done"
    /\ \/ copy' = 0 /\ UNCHANGED faults
       \/ Fault /\ UNCHANGED copy
    /\ UNCHANGED <<row, cleanup, deserved, callVars, auth, known, flushVars, tokenVars, ghostVars>>

-----------------------------------------------------------------------------
Less(n) == IF n = 0 THEN 0 ELSE n - 1
More(n, most) == IF n = most THEN most ELSE n + 1

Busy(c) == phase[c] # "idle"

\* A tick, unless something under way is already late.
Tick ==
    /\ \A c \in Calls : Busy(c) => age[c] < Slow
    /\ timer < Debounce + Slow
    /\ ~flushing
    /\ age' = [c \in Calls |-> IF Busy(c) THEN age[c] + 1 ELSE 0]
    /\ timer' = IF pending THEN timer + 1 ELSE 0
    /\ auth' = [t \in Tokens |-> Less(auth[t])]
    /\ known' = Less(known) /\ copy' = Less(copy)
    /\ IF row THEN /\ silence' = More(silence, Inactive)
                   /\ unheard' = More(unheard, Inactive) /\ returned' = More(returned, Lag + 1)
                   /\ UNCHANGED gone
              ELSE /\ gone' = IF deleting = "unborn" THEN 0 ELSE More(gone, Farewell + 1)
                   /\ UNCHANGED <<silence, unheard, returned>>
    /\ dead' = [t \in Tokens |-> IF t <= issued /\ t # token
                                 THEN More(dead[t], Grace + 1) ELSE 0]
    /\ UNCHANGED <<phase, with, lenient, pending, flushing, unwritten, token, issued,
                   ownerVars, faults>>

\* The process restarts: its local caches, its calls and the flush to come are gone.
Restart ==
    /\ Fault
    /\ auth' = [t \in Tokens |-> 0] /\ known' = 0
    /\ phase' = [c \in Calls |-> "idle"] /\ with' = [c \in Calls |-> 0]
    /\ age' = [c \in Calls |-> 0]
    /\ pending' = FALSE /\ timer' = 0 /\ flushing' = FALSE
    /\ unwritten' = (row /\ (unwritten \/ pending \/ flushing))
    /\ cleanup' = "off" /\ deserved' = TRUE
    /\ deleting' = IF row THEN "off" ELSE IF deleting = "evict" THEN "done" ELSE deleting
    /\ UNCHANGED <<row, silence, copy, tokenVars, ghostVars>>

Step(c) == \/ Login(c) \/ Reread(c) \/ Warm(c) \/ CheckStore(c) \/ Remember(c)
           \/ LookLocally(c) \/ LookUp(c) \/ Fill(c) \/ Mark(c) \/ Accept(c) \/ Fails(c)
Arrive(c) == \/ Register(c) \/ FindRow(c) \/ CheckAlways(c) \/ CheckNothing(c)
             \/ \E t \in 1 .. issued : CheckLocal(c, t) \/ MissLocal(c, t)

Next ==
    \/ \E c \in Calls : Step(c) \/ Arrive(c)
    \/ FlushTake \/ FlushWrite
    \/ ListInactive \/ Logout
    \/ FindForDelete \/ DeleteRow \/ Evict
    \/ Tick \/ Restart

Spec == Init /\ [][Next]_vars

-----------------------------------------------------------------------------
(* Properties.                                                             *)

(* A token that was logged out is refused once the entry made for it and the call that made
   it are over: no call is let in with a token dead for longer than Grace, however
   often it is used (getCachedDeviceID, setCachedDeviceID). *)
RevokedIsRefused == ~lenient

(* Only a device nobody has heard of for the whole period is listed for the cleanup, but for
   the time an accepted report takes to reach the row, or after a write that failed
   (reportStatusFast, schedulePGUpdate, flushPGUpdates, ListInactiveBefore). *)
ListedWasSilent == deserved

(* Although its token stays valid and copies of its row may be made while it is deleted, a
   deleted device is not accepted for longer than Farewell, however often it reports (the
   local entries of reportStatusFast, GetByDeviceID, and an eviction that fails or is late). *)
DeletedIsForgotten == gone > Farewell => \A c \in Calls : phase[c] # "accept"

-----------------------------------------------------------------------------
(* What the documents say and the code does not keep.                      *)

\* README.md 195: only a device that was silent loses its token.  It may have come back
\* between the listing and the logout.
CleanedIsSilent == [][cleanup = "listed" /\ token # 0 /\ token' = 0 => unheard > Slow]_vars

\* device_service.go 229: deleting a device leaves nothing of it behind.
NothingLeft == deleting = "done" => token = 0

=============================================================================
