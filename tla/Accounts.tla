------------------------------- MODULE Accounts -------------------------------
(***************************************************************************)
(* One user account: its row, the cached copy of it, and the tokens of     *)
(* its logins (internal/service/user_service.go and                        *)
(* internal/controller/user_controller.go).  A login, an edit and a        *)
(* deletion each take several steps; each of them reads first and writes   *)
(* what it read, changed or not, later.                                    *)
(*                                                                         *)
(* Of the row only the status is kept, the one field that only an          *)
(* administrator may change.  Sa-Token is external; a token is named by    *)
(* the login that got it.  Its list of the tokens of a user has one entry  *)
(* for each device key, account:<loginID>:<device>, and every login writes *)
(* a token of its own there (IsShare(false)): the token the entry named    *)
(* before stays valid, and is not listed any more.  The two levels of the  *)
(* cache are one here: what they do to each other is the subject of        *)
(* DeviceCache.                                                            *)
(***************************************************************************)
EXTENDS Naturals, FiniteSets

CONSTANTS Requests,   \* requests, each carried out once (bound)
          Keys,       \* the device keys of logins, "default" among them
          MaxLogins,  \* MaxLoginCount
          MaxFaults   \* bound on the steps that fail

None == "none"

ASSUME AccountAssumptions ==
    /\ IsFiniteSet(Requests) /\ Keys # {} /\ None \notin Keys
    /\ MaxLogins \in Nat \ {0} /\ MaxFaults \in Nat

Statuses == {"ACTIVE", "DISABLED"}

\* Phases in which a request holds what it has read of the row.
Holding == {"issue", "save", "fill", "write"}
Phases == Holding \cup {"idle", "read", "evict", "logout", "done"}

VARIABLES
    row,      \* the status in the row, None if there is no row
    copy,     \* the status in the cached copy, None if there is no copy
    tokens,   \* the logins whose token is valid
    listed,   \* those of them the list of Sa-Token names
    key,      \* key[r] : the device key r logged in with, None before
    phase,    \* phase[r] : where request r is
    base,     \* base[r]  : the status r has read
    want,     \* want[r]  : the status r sets, None if it sets none
    leaving,  \* the tokens a deletion has listed and not logged out yet
    deleting, \* a deletion has listed the tokens (bound: one deletion at a time)
    faults,   \* steps that failed
    said,     \* the last status an administrator has set
    overlapped, \* that change met another request half-way
    firm,     \* that change is through, cache and all, and met none
    excused   \* tokens issued after the listing, or whose logout failed

tokenVars == <<tokens, listed, key>>
requestVars == <<phase, base, want>>
deletionVars == <<leaving, deleting>>
changeVars == <<said, overlapped, firm>>
accountVars == <<row, copy, tokenVars, requestVars, deletionVars, faults, changeVars, excused>>

AccountTypeOK ==
    /\ row \in Statuses \cup {None} /\ copy \in Statuses \cup {None}
    /\ tokens \subseteq Requests /\ listed \subseteq tokens /\ excused \subseteq Requests
    /\ key \in [Requests -> Keys \cup {None}]
    /\ phase \in [Requests -> Phases]
    /\ base \in [Requests -> Statuses \cup {None}]
    /\ want \in [Requests -> Statuses \cup {None}]
    /\ leaving \subseteq Requests /\ deleting \in BOOLEAN
    /\ faults \in 0 .. MaxFaults
    /\ said \in Statuses /\ overlapped \in BOOLEAN /\ firm \in BOOLEAN

\* The account as Register leaves it.
AccountInit ==
    /\ row = "ACTIVE" /\ copy = None
    /\ tokens = {} /\ listed = {} /\ key = [r \in Requests |-> None]
    /\ phase = [r \in Requests |-> "idle"]
    /\ base = [r \in Requests |-> None] /\ want = [r \in Requests |-> None]
    /\ leaving = {} /\ deleting = FALSE
    /\ faults = 0
    /\ said = "ACTIVE" /\ overlapped = FALSE /\ firm = TRUE
    /\ excused = {}

Fault == faults < MaxFaults /\ faults' = faults + 1

Goto(r, from, to) == phase[r] = from /\ phase' = [phase EXCEPT ![r] = to]
End(r) == phase' = [phase EXCEPT ![r] = "done"]

\* Another request holds what it read of the row.
SomeoneHolds(r) == \E q \in Requests \ {r} : phase[q] \in Holding

\* An administrator's change is written, and the copy not evicted yet.
Changing == \E q \in Requests : phase[q] = "evict" /\ want[q] # None

-----------------------------------------------------------------------------
(* Login.                                                                  *)

\* GetByAccount and the checks; a disabled account is refused.
ReadAccount(r) ==
    /\ Goto(r, "idle", IF row = "ACTIVE" THEN "issue" ELSE "done")
    /\ base' = [base EXCEPT ![r] = row]
    /\ UNCHANGED <<row, copy, tokenVars, want, deletionVars, faults, changeVars, excused>>

\* The list entry of a device key.
EntryOf(k) == {t \in listed : key[t] = k}

\* Which tokens a new login may cost: the limit counts the device keys in use.
Surplus == {{}} \cup IF Cardinality(listed) < MaxLogins THEN {} ELSE {{t} : t \in listed}

\* stputil.Login and SetRoles.  The new token takes the list entry of its device key.
Issue(r) ==
    /\ phase[r] = "issue"
    /\ \/ /\ \E k \in Keys, out \in Surplus :
                /\ tokens' = (tokens \ out) \cup {r}
                /\ listed' = (listed \ (out \cup EntryOf(k))) \cup {r}
                /\ key' = [key EXCEPT ![r] = k]
          /\ excused' = IF deleting THEN excused \cup {r} ELSE excused
          /\ phase' = [phase EXCEPT ![r] = "save"]
          /\ UNCHANGED faults
       \/ Fault /\ End(r) /\ UNCHANGED <<tokenVars, excused>>
    /\ UNCHANGED <<row, copy, base, want, deletionVars, changeVars>>

\* repo.Update writes the row as it was read, update time and all; the copy is not evicted.
Save(r) ==
    /\ Goto(r, "save", "done")
    /\ \/ row' = (IF row = None THEN None ELSE base[r]) /\ UNCHANGED faults
       \/ Fault /\ UNCHANGED row
    /\ UNCHANGED <<copy, tokenVars, base, want, deletionVars, changeVars, excused>>

-----------------------------------------------------------------------------
(* Edits, and reads.                                                       *)

\* Update's checks: an administrator, who may set the status, or the user with a token.
Admitted(admin, status) == admin \/ (tokens # {} /\ status = None)

Admit(r, admin, status) ==
    /\ Goto(r, "idle", "read")
    /\ Admitted(admin, status)
    /\ want' = [want EXCEPT ![r] = status]
    /\ UNCHANGED <<row, copy, tokenVars, base, deletionVars, faults, changeVars, excused>>

\* GetByID finds the copy.
ReadCopy(r) ==
    /\ copy # None
    /\ Goto(r, "read", "write")
    /\ base' = [base EXCEPT ![r] = copy]
    /\ overlapped' = (overlapped \/ Changing)
    /\ UNCHANGED <<row, copy, tokenVars, want, deletionVars, faults, said, firm, excused>>

\* GetByID reads the row ...
LoadRow(r) ==
    /\ copy = None
    /\ Goto(r, "read", IF row = None THEN "done" ELSE "fill")
    /\ base' = [base EXCEPT ![r] = row]
    /\ UNCHANGED <<row, copy, tokenVars, want, deletionVars, faults, changeVars, excused>>

\* ... and caches what it read.
Fill(r) ==
    /\ Goto(r, "fill", "write")
    /\ copy' = base[r]
    /\ UNCHANGED <<row, tokenVars, base, want, deletionVars, faults, changeVars, excused>>

\* Get has its answer; or the edit is refused, or cannot be written.
Answer(r) ==
    /\ Goto(r, "write", "done")
    /\ UNCHANGED <<row, copy, tokenVars, base, want, deletionVars, faults, changeVars, excused>>

\* Update merges the fields it was sent into the row as it was read, and writes them all.
Write(r) ==
    /\ row # None
    /\ Goto(r, "write", "evict")
    /\ row' = (IF want[r] = None THEN base[r] ELSE want[r])
    /\ IF want[r] = None
          THEN UNCHANGED changeVars
          ELSE said' = want[r] /\ firm' = FALSE /\ overlapped' = (Changing \/ SomeoneHolds(r))
    /\ UNCHANGED <<copy, tokenVars, base, want, deletionVars, faults, excused>>

\* (Mutant of Drop: the copy is written through, from what was read.)
DropLate(r) == copy' = base[r]

\* evictKey.
Drop(r) == copy' = None

\* EvictUserCache, after an edit or a deletion; its error is dropped.
EvictUserCache(r) ==
    /\ Goto(r, "evict", "done")
    /\ \/ Drop(r) /\ firm' = (firm \/ (want[r] # None /\ ~overlapped)) /\ UNCHANGED faults
       \/ Fault /\ UNCHANGED <<copy, firm>>
    /\ UNCHANGED <<row, tokenVars, base, want, deletionVars, said, overlapped, excused>>

-----------------------------------------------------------------------------
(* Deletion, by the user or an administrator.                              *)

\* (Mutant of ToLeave: the token of one login only.)
ToLeaveOne == IF listed = {} THEN {} ELSE {CHOOSE t \in listed : TRUE}

\* GetTokenValueList: the token of each device key that was issued last.
ToLeave == listed

\* The tokens are listed, or the listing fails and none is logged out.
ListTokens(r) ==
    /\ ~deleting
    /\ Goto(r, "idle", "logout")
    /\ deleting' = TRUE
    /\ \/ leaving' = ToLeave /\ excused' = {} /\ UNCHANGED faults
       \/ Fault /\ leaving' = {} /\ excused' = tokens
    /\ UNCHANGED <<row, copy, tokenVars, base, want, changeVars>>

\* A token ends, and the list loses these entries.
Revoke(t, entries) ==
    tokens' = tokens \ {t} /\ listed' = listed \ entries /\ UNCHANGED key

\* LogoutByToken, whose error is dropped.  It removes the token and the entry of its device
\* key, whichever token that names by now.
LogOut(r, t) ==
    /\ phase[r] = "logout" /\ t \in leaving
    /\ leaving' = leaving \ {t}
    /\ \/ Revoke(t, IF t \in tokens THEN EntryOf(key[t]) ELSE {}) /\ UNCHANGED <<faults, excused>>
       \/ Fault /\ excused' = excused \cup {t} /\ UNCHANGED tokenVars
    /\ UNCHANGED <<row, copy, requestVars, deleting, changeVars>>

\* repo.Delete; if it fails the tokens are gone and the row stays.
DeleteRow(r) ==
    /\ phase[r] = "logout" /\ leaving = {}
    /\ \/ /\ row' = None /\ phase' = [phase EXCEPT ![r] = "evict"]
          /\ UNCHANGED <<faults, deleting>>
       \/ Fault /\ End(r) /\ deleting' = FALSE /\ UNCHANGED row
    /\ UNCHANGED <<copy, tokenVars, base, want, leaving, changeVars, excused>>

-----------------------------------------------------------------------------
\* The user logs out, or the token expires after three days, and its entry with it.
TokenEnds(t) ==
    /\ Revoke(t, EntryOf(key[t])) \/ Revoke(t, {t})
    /\ UNCHANGED <<row, copy, requestVars, deletionVars, faults, changeVars, excused>>

CopyExpires ==
    /\ copy # None /\ copy' = None
    /\ UNCHANGED <<row, tokenVars, requestVars, deletionVars, faults, changeVars, excused>>

AccountNext ==
    \/ \E r \in Requests :
          \/ ReadAccount(r) \/ Issue(r) \/ Save(r)
          \/ \E admin \in BOOLEAN, status \in Statuses \cup {None} : Admit(r, admin, status)
          \/ ReadCopy(r) \/ LoadRow(r) \/ Fill(r) \/ Answer(r) \/ Write(r) \/ EvictUserCache(r)
          \/ ListTokens(r) \/ DeleteRow(r) \/ \E t \in leaving : LogOut(r, t)
    \/ \E t \in tokens : TokenEnds(t)
    \/ CopyExpires

AccountSpec == AccountInit /\ [][AccountNext]_accountVars

-----------------------------------------------------------------------------
(* Properties.                                                             *)

(* A status an administrator sets while nobody else is half-way with the account, and whose
   eviction works, stays until an administrator sets another: no login and no edit of the
   user's brings the old one back (Update, GetByID, EvictUserCache, and Login, which writes
   the whole row). *)
FirmChangeStays == firm /\ row # None => row = said

\* Two logins used the device key of this one.
Shared(t) == \E q \in Requests \ {t} : key[q] = key[t]

(* When a deletion has removed the row, a token that is still valid was issued after the
   deletion listed the tokens, or its listing or logout failed, or another login of the user
   had the same device key (Delete, GetTokenValueList, normalizeLoginDevice). *)
LeftTokenIsExplained == row = None => \A t \in tokens \ excused : Shared(t)

-----------------------------------------------------------------------------
(* What the comments say and the code does not keep.                       *)

\* user_controller.go, Update: only administrators change the status.  A login and an edit
\* of the user's write back the one they read.
OnlyAdminsChangeStatus ==
    [][row' # row /\ row' # None => \E r \in Requests : want[r] = row' /\ phase[r] = "write"]_accountVars

(* user_service.go, Delete: all tokens of the user are removed.  Not those issued after the
   listing, or whose listing or logout fails ... *)
NoTokenWithoutUser == row = None => tokens = {}

(* ... and not every one of the others: a later login with the same device key has taken the
   list entry of an earlier token, which stays valid (Delete, GetTokenValueList). *)
EveryTokenIsLoggedOut == row = None => tokens \subseteq excused

=============================================================================
