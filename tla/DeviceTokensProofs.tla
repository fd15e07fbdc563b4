-------------------------- MODULE DeviceTokensProofs --------------------------
(***************************************************************************)
(* Why a token that was logged out is refused before long, for any number  *)
(* of calls and tokens and any length of the periods.  An entry of         *)
(* deviceAuthCache is made by a call that asked Sa-Token at most Slow ago, *)
(* and is never renewed by being used: what it has still to live and what  *)
(* its token has been dead for never add up to more than Slow + AuthTTL.   *)
(* The same argument, one level of cache after the other, shows when a     *)
(* deleted device is no longer heard, and with the pending write in the    *)
(* place of an entry, that the cleanup lists only who has been silent.     *)
(***************************************************************************)
EXTENDS DeviceTokens, TLAPS

\* Tokens not issued yet, and the valid one, have not been dead.
LivingAreNotDead == \A t \in Tokens : t > issued \/ t = token => dead[t] = 0

\* A call that asks about a token carries one.
AskersCarry == \A c \in Calls : phase[c] \in {"store", "remember"} => with[c] \in Tokens

\* A call about to make an entry had a valid token at its last step.
AnswersAreFresh == \A c \in Calls : phase[c] = "remember" => dead[with[c]] <= age[c]

\* An entry's rest of life and the time its token has been dead.
EntriesEnd == \A t \in Tokens : auth[t] > 0 => dead[t] + auth[t] <= Slow + AuthTTL

\* The inductive invariant.
EndInv == /\ LivingAreNotDead
          /\ AskersCarry
          /\ AnswersAreFresh
          /\ EntriesEnd
          /\ ~lenient

-----------------------------------------------------------------------------
(* Counting down and counting up to a bound stays within it. *)
LEMMA Counting ==
    ASSUME NEW most \in Nat, NEW n \in 0 .. most
    PROVE  /\ Less(n) \in 0 .. most /\ Less(n) <= n
           /\ n > 0 => Less(n) = n - 1
           /\ More(n, most) \in 0 .. most /\ More(n, most) <= n + 1
BY DEF Less, More

(* The constants are numbers of the kind the model means. *)
LEMMA Bounds ==
    /\ MaxTokens \in Nat \ {0} /\ AuthTTL \in Nat \ {0} /\ KnownTTL \in Nat \ {0}
    /\ CopyTTL \in Nat \ {0} /\ Debounce \in Nat \ {0} /\ Inactive \in Nat \ {0}
    /\ Slow \in Nat /\ MaxFaults \in Nat
    /\ Grace \in Nat /\ Farewell \in Nat /\ Lag \in Nat /\ Lag = Debounce + Slow
    /\ Grace = Slow + (AuthTTL - 1)
<1>1. /\ MaxTokens \in Nat \ {0} /\ AuthTTL \in Nat \ {0} /\ KnownTTL \in Nat \ {0}
      /\ CopyTTL \in Nat \ {0} /\ Debounce \in Nat \ {0} /\ Inactive \in Nat \ {0}
      /\ Slow \in Nat /\ MaxFaults \in Nat
  BY TokenAssumptions DEF TokenAssumptions
<1>2. QED
  BY <1>1 DEF Grace, Farewell, Lag

-----------------------------------------------------------------------------
(* The initial state has the types. *)
LEMMA TypeInit == Init => TypeOK
<1> SUFFICES ASSUME Init PROVE TypeOK
  OBVIOUS
<1>1. 0 \in 0 .. MaxTokens /\ \A n \in Nat : 0 \in 0 .. n /\ n \in 0 .. n
  BY Bounds
<1>2. /\ Lag + 1 \in Nat /\ Farewell + 1 \in Nat /\ Grace + 1 \in Nat
      /\ AuthTTL \in Nat /\ KnownTTL \in Nat /\ CopyTTL \in Nat /\ Inactive \in Nat
      /\ Debounce + Slow \in Nat /\ Slow \in Nat /\ MaxFaults \in Nat
  BY Bounds
<1>3. QED
  BY <1>1, <1>2 DEF Init, TypeOK, CallPhases

\* A token made, or the one there is.
LEMMA IssueTyped ==
    ASSUME token \in Tokens \cup {0}, issued \in 0 .. MaxTokens,
           \/ token' = token /\ issued' = issued
           \/ issued # MaxTokens /\ issued' = issued + 1 /\ token' = issued'
    PROVE  token' \in Tokens \cup {0} /\ issued' \in 0 .. MaxTokens
BY Bounds DEF Tokens

(* The steps of a call keep the types. *)
LEMMA TypeCall ==
    ASSUME TypeOK, NEW c \in Calls, Step(c) \/ Arrive(c)
    PROVE  TypeOK'
<1> USE Bounds DEF TypeOK, CallPhases, cacheVars, flushVars, tokenVars, ghostVars, ownerVars
<1>1. CASE Login(c)
  <2>1. token' \in Tokens \cup {0} /\ issued' \in 0 .. MaxTokens
    BY <1>1, IssueTyped DEF Login
  <2>2. /\ phase' \in [Calls -> CallPhases] /\ with' \in [Calls -> Tokens \cup {0}]
        /\ age' \in [Calls -> 0 .. Slow]
    BY <1>1 DEF Login, Goto
  <2>3. QED
    BY <1>1, <2>1, <2>2 DEF Login
<1>2. CASE Fails(c)
  BY <1>2 DEF Fails, Goto, Fault
<1>3. CASE Reread(c)
  BY <1>3 DEF Reread, Goto
<1>4. CASE Warm(c)
  BY <1>4 DEF Warm, Goto
<1>5. CASE CheckStore(c)
  BY <1>5 DEF CheckStore, Goto
<1>6. CASE Remember(c)
  <2>1. auth' \in [Tokens -> 0 .. AuthTTL]
    <3>1. AuthTTL \in 0 .. AuthTTL
      OBVIOUS
    <3>2. QED
      BY <1>6, <3>1 DEF Remember
  <2>2. /\ phase' \in [Calls -> CallPhases] /\ with' \in [Calls -> Tokens \cup {0}]
        /\ age' \in [Calls -> 0 .. Slow] /\ lenient' \in BOOLEAN
    BY <1>6 DEF Remember, Admit
  <2>3. QED
    BY <1>6, <2>1, <2>2 DEF Remember
<1>7. CASE LookLocally(c)
  BY <1>7 DEF LookLocally, Goto, Known
<1>8. CASE LookUp(c)
  BY <1>8 DEF LookUp, Goto
<1>9. CASE Fill(c)
  BY <1>9 DEF Fill, Goto
<1>10. CASE Mark(c)
  BY <1>10 DEF Mark, Goto
<1>11. CASE Accept(c)
  BY <1>11 DEF Accept, Goto, Schedule
<1>12. CASE Register(c)
  BY <1>12 DEF Register, Goto
<1>13. CASE FindRow(c)
  BY <1>13 DEF FindRow, Goto
<1>14. CASE CheckAlways(c)
  BY <1>14 DEF CheckAlways, Admit
<1>15. CASE CheckNothing(c)
  BY <1>15 DEF CheckNothing, Goto
<1>16. CASE \E t \in 1 .. issued : CheckLocal(c, t) \/ MissLocal(c, t)
  <2>1. PICK t \in 1 .. issued : CheckLocal(c, t) \/ MissLocal(c, t)
    BY <1>16
  <2>2. t \in Tokens
    BY <2>1 DEF Tokens
  <2>3. CASE CheckLocal(c, t)
    BY <2>2, <2>3 DEF CheckLocal, Hit, Admit
  <2>4. CASE MissLocal(c, t)
    BY <2>2, <2>4 DEF MissLocal
  <2>5. QED
    BY <2>1, <2>3, <2>4
<1>17. QED
  BY <1>1, <1>2, <1>3, <1>4, <1>5, <1>6, <1>7, <1>8, <1>9, <1>10, <1>11, <1>12, <1>13,
     <1>14, <1>15, <1>16 DEF Step, Arrive

(* The passing of time keeps the types. *)
LEMMA TypeTick == ASSUME TypeOK, Tick PROVE TypeOK'
<1> USE Bounds DEF TypeOK
<1>1. \A n \in 0 .. KnownTTL : Less(n) \in 0 .. KnownTTL
  BY Counting
<1>2. \A n \in 0 .. CopyTTL : Less(n) \in 0 .. CopyTTL
  BY Counting
<1>3. \A n \in 0 .. AuthTTL : Less(n) \in 0 .. AuthTTL
  BY Counting
<1>4. /\ \A n \in 0 .. Inactive : More(n, Inactive) \in 0 .. Inactive
      /\ \A n \in 0 .. Lag + 1 : More(n, Lag + 1) \in 0 .. Lag + 1
      /\ \A n \in 0 .. Farewell + 1 : More(n, Farewell + 1) \in 0 .. Farewell + 1
      /\ \A n \in 0 .. Grace + 1 : More(n, Grace + 1) \in 0 .. Grace + 1
  <2>1. /\ Lag + 1 \in Nat /\ Farewell + 1 \in Nat /\ Grace + 1 \in Nat /\ Inactive \in Nat
    OBVIOUS
  <2>2. \A most \in Nat : \A n \in 0 .. most : More(n, most) \in 0 .. most
    BY Counting
  <2>3. QED
    BY <2>1, <2>2
<1>5. auth' \in [Tokens -> 0 .. AuthTTL]
  BY <1>3 DEF Tick
<1>6. dead' \in [Tokens -> 0 .. Grace + 1]
  BY <1>4 DEF Tick
<1>7. age' \in [Calls -> 0 .. Slow]
  BY DEF Tick, Busy
<1>8. timer' \in 0 .. Debounce + Slow
  BY DEF Tick
<1>9. known' \in 0 .. KnownTTL /\ copy' \in 0 .. CopyTTL
  BY <1>1, <1>2 DEF Tick
<1>10. /\ silence' \in 0 .. Inactive /\ unheard' \in 0 .. Inactive
       /\ returned' \in 0 .. Lag + 1 /\ gone' \in 0 .. Farewell + 1
  BY <1>4 DEF Tick
<1>11. QED
  BY <1>5, <1>6, <1>7, <1>8, <1>9, <1>10 DEF Tick, ownerVars

(* Every step keeps the types. *)
LEMMA TypeStep == ASSUME TypeOK, [Next]_vars PROVE TypeOK'
<1> USE Bounds DEF cacheVars, flushVars, tokenVars, ghostVars, ownerVars, callVars
<1>1. ASSUME NEW c \in Calls, Step(c) \/ Arrive(c) PROVE TypeOK'
  BY <1>1, TypeCall
<1>2. CASE FlushTake
  <2>1. timer' \in 0 .. Debounce + Slow
    BY <1>2 DEF FlushTake
  <2>2. QED
    BY <1>2, <2>1 DEF FlushTake, TypeOK
<1>3. CASE FlushWrite
  <2>1. silence' \in 0 .. Inactive /\ faults' \in 0 .. MaxFaults
    BY <1>3 DEF FlushWrite, TypeOK, Fault
  <2>2. unwritten' \in BOOLEAN /\ flushing' \in BOOLEAN
    BY <1>3 DEF FlushWrite, TypeOK
  <2>3. QED
    BY <1>3, <2>1, <2>2 DEF FlushWrite, TypeOK
<1>4. CASE ListInactive
  BY <1>4 DEF ListInactive, TypeOK
<1>5. CASE Logout
  BY <1>5 DEF Logout, TypeOK, Fault
<1>6. CASE FindForDelete
  BY <1>6 DEF FindForDelete, TypeOK
<1>7. CASE DeleteRow
  <2>1. /\ silence' \in 0 .. Inactive /\ unheard' \in 0 .. Inactive
        /\ returned' \in 0 .. Lag + 1 /\ faults' \in 0 .. MaxFaults
    BY <1>7 DEF DeleteRow, TypeOK, Fault
  <2>2. /\ row' \in BOOLEAN /\ unwritten' \in BOOLEAN
        /\ deleting' \in {"unborn", "off", "row", "evict", "done"}
    BY <1>7 DEF DeleteRow, TypeOK
  <2>3. QED
    BY <1>7, <2>1, <2>2 DEF DeleteRow, TypeOK
<1>8. CASE Evict
  BY <1>8 DEF Evict, TypeOK, Fault
<1>9. CASE Tick
  BY <1>9, TypeTick
<1>10. CASE Restart
  <2>1. /\ auth' \in [Tokens -> 0 .. AuthTTL] /\ known' \in 0 .. KnownTTL
        /\ timer' \in 0 .. Debounce + Slow /\ faults' \in 0 .. MaxFaults
        /\ age' \in [Calls -> 0 .. Slow]
    BY <1>10 DEF Restart, TypeOK, Fault
  <2>2. phase' \in [Calls -> CallPhases] /\ with' \in [Calls -> Tokens \cup {0}]
    BY <1>10 DEF Restart, CallPhases
  <2>3. unwritten' \in BOOLEAN /\ deleting' \in {"unborn", "off", "row", "evict", "done"}
    BY <1>10 DEF Restart, TypeOK
  <2>4. QED
    BY <1>10, <2>1, <2>2, <2>3 DEF Restart, TypeOK
<1>11. CASE UNCHANGED vars
  BY <1>11 DEF vars, TypeOK
<1>12. QED
  BY <1>1, <1>2, <1>3, <1>4, <1>5, <1>6, <1>7, <1>8, <1>9, <1>10, <1>11 DEF Next

(* Every variable keeps its type, for any calls, tokens and periods. *)
THEOREM TypeCorrect == Spec => []TypeOK
BY TypeInit, TypeStep, PTL DEF Spec

-----------------------------------------------------------------------------
(* The initial state satisfies the invariant. *)
LEMMA EndInit == Init => EndInv
BY DEF Init, EndInv, LivingAreNotDead, AskersCarry, AnswersAreFresh, EntriesEnd

(* A call that goes on without asking about its token disturbs nothing. *)
LEMMA GoingOn ==
    ASSUME TypeOK, EndInv, NEW c \in Calls, NEW from, NEW to, Goto(c, from, to),
           to \notin {"store", "remember"}, UNCHANGED <<auth, token, issued, dead, lenient>>
    PROVE  EndInv'
<1>1. \A d \in Calls : phase'[d] \in {"store", "remember"}
                       => d # c /\ phase'[d] = phase[d] /\ with'[d] = with[d] /\ age'[d] = age[d]
  BY DEF TypeOK, Goto
<1>2. LivingAreNotDead' /\ EntriesEnd' /\ ~lenient'
  BY DEF EndInv, LivingAreNotDead, EntriesEnd
<1>3. AskersCarry' /\ AnswersAreFresh'
  BY <1>1 DEF EndInv, AskersCarry, AnswersAreFresh
<1>4. QED
  BY <1>2, <1>3 DEF EndInv

(* So does a step in which neither the calls nor what is said of tokens change. *)
LEMMA Elsewhere ==
    ASSUME EndInv, UNCHANGED <<phase, with, age, auth, token, issued, dead, lenient>>
    PROVE  EndInv'
BY DEF EndInv, LivingAreNotDead, AskersCarry, AnswersAreFresh, EntriesEnd

(* A call that is let in holds no token any more; the time its token has been dead is short
   if the call was let in rightly. *)
LEMMA LettingIn ==
    ASSUME TypeOK, EndInv, NEW c \in Calls, NEW t \in Tokens, Admit(c, t), dead[t] <= Grace,
           UNCHANGED <<token, issued, dead>>
    PROVE  LivingAreNotDead' /\ AskersCarry' /\ AnswersAreFresh' /\ ~lenient'
<1>1. \A d \in Calls : phase'[d] \in {"store", "remember"}
                       => d # c /\ phase'[d] = phase[d] /\ with'[d] = with[d] /\ age'[d] = age[d]
  BY DEF TypeOK, Admit
<1>2. ~lenient'
  <2>1. ~(dead[t] > Grace)
    BY Bounds DEF TypeOK
  <2>2. QED
    BY <2>1 DEF EndInv, Admit
<1>3. QED
  BY <1>1, <1>2 DEF EndInv, LivingAreNotDead, AskersCarry, AnswersAreFresh

(* Asking Sa-Token, remembering its answer, and using what is remembered. *)
LEMMA EndCheck ==
    ASSUME TypeOK, EndInv, NEW c \in Calls,
           \/ CheckStore(c) \/ Remember(c) \/ CheckAlways(c)
           \/ \E t \in 1 .. issued : CheckLocal(c, t) \/ MissLocal(c, t)
    PROVE  EndInv'
<1> USE Bounds
<1>1. CASE CheckStore(c)
  <2>1. with[c] \in Tokens
    BY <1>1 DEF CheckStore, Goto, EndInv, AskersCarry
  <2>2. with[c] = token => dead[with[c]] = 0
    BY <2>1 DEF EndInv, LivingAreNotDead
  <2>3. /\ phase' = [phase EXCEPT ![c] = IF with[c] = token THEN "remember" ELSE "idle"]
        /\ age' = [age EXCEPT ![c] = 0]
        /\ with[c] = token => with' = [with EXCEPT ![c] = with[c]]
        /\ \A d \in Calls \ {c} : with'[d] = with[d]
        /\ UNCHANGED <<auth, token, issued, dead, lenient>>
    BY <1>1 DEF CheckStore, Goto, cacheVars, tokenVars, ghostVars, TypeOK
  <2>4. AskersCarry'
    BY <2>1, <2>3 DEF EndInv, AskersCarry, TypeOK
  <2>5. AnswersAreFresh'
    BY <2>1, <2>2, <2>3 DEF EndInv, AnswersAreFresh, TypeOK
  <2>6. QED
    BY <2>3, <2>4, <2>5 DEF EndInv, LivingAreNotDead, EntriesEnd
<1>2. CASE Remember(c)
  <2>1. /\ with[c] \in Tokens /\ dead[with[c]] <= Slow
        /\ dead[with[c]] \in Nat
    BY <1>2 DEF Remember, EndInv, AskersCarry, AnswersAreFresh, TypeOK
  <2>2. Admit(c, with[c]) /\ UNCHANGED <<token, issued, dead>>
    BY <1>2 DEF Remember, tokenVars
  <2>3. dead[with[c]] <= Grace
    BY <2>1
  <2>4. auth' = [auth EXCEPT ![with[c]] = AuthTTL]
    BY <1>2 DEF Remember
  <2>5. EntriesEnd'
    BY <2>1, <2>2, <2>4 DEF EndInv, EntriesEnd, TypeOK
  <2>6. QED
    BY <2>1, <2>2, <2>3, <2>5, LettingIn DEF EndInv
<1>3. CASE CheckAlways(c)
  <2>1. token \in Tokens /\ dead[token] = 0
    BY <1>3 DEF CheckAlways, EndInv, LivingAreNotDead, TypeOK
  <2>2. Admit(c, token) /\ UNCHANGED <<auth, token, issued, dead>>
    BY <1>3 DEF CheckAlways, tokenVars, cacheVars
  <2>3. EntriesEnd'
    BY <2>2 DEF EndInv, EntriesEnd
  <2>4. QED
    BY <2>1, <2>2, <2>3, LettingIn DEF EndInv
<1>4. CASE \E t \in 1 .. issued : CheckLocal(c, t) \/ MissLocal(c, t)
  <2>1. PICK t \in 1 .. issued : CheckLocal(c, t) \/ MissLocal(c, t)
    BY <1>4
  <2>2. t \in Tokens
    BY <2>1 DEF TypeOK, Tokens
  <2>3. CASE CheckLocal(c, t)
    <3>1. /\ Admit(c, t) /\ auth[t] > 0 /\ UNCHANGED <<auth, token, issued, dead>>
      BY <2>3 DEF CheckLocal, Hit, tokenVars
    <3>2. dead[t] <= Grace
      <4>1. dead[t] + auth[t] <= Slow + AuthTTL
        BY <2>2, <3>1 DEF EndInv, EntriesEnd
      <4>2. dead[t] \in Nat /\ auth[t] \in Nat
        BY <2>2 DEF TypeOK
      <4>3. QED
        BY <3>1, <4>1, <4>2
    <3>3. EntriesEnd'
      BY <3>1 DEF EndInv, EntriesEnd
    <3>4. QED
      BY <2>2, <3>1, <3>2, <3>3, LettingIn DEF EndInv
  <2>4. CASE MissLocal(c, t)
    <3>1. /\ phase' = [phase EXCEPT ![c] = "store"] /\ with' = [with EXCEPT ![c] = t]
          /\ age' = [age EXCEPT ![c] = 0]
          /\ UNCHANGED <<auth, token, issued, dead, lenient>>
      BY <2>4 DEF MissLocal, cacheVars, tokenVars, ghostVars
    <3>2. AskersCarry' /\ AnswersAreFresh'
      BY <2>2, <3>1 DEF EndInv, AskersCarry, AnswersAreFresh, TypeOK
    <3>3. QED
      BY <3>1, <3>2 DEF EndInv, LivingAreNotDead, EntriesEnd
  <2>5. QED
    BY <2>1, <2>3, <2>4
<1>5. QED
  BY <1>1, <1>2, <1>3, <1>4

(* A login may issue the next token, which has not been dead. *)
LEMMA EndLogin == ASSUME TypeOK, EndInv, NEW c \in Calls, Login(c) PROVE EndInv'
<1>1. UNCHANGED <<auth, dead, lenient>>
  BY DEF Login, cacheVars, ghostVars
<1>2. \A d \in Calls : phase'[d] \in {"store", "remember"}
                       => d # c /\ phase'[d] = phase[d] /\ with'[d] = with[d] /\ age'[d] = age[d]
  BY DEF TypeOK, Login, Goto
<1>3. LivingAreNotDead'
  <2>1. CASE UNCHANGED <<token, issued>>
    BY <1>1, <2>1 DEF EndInv, LivingAreNotDead
  <2>2. CASE issued' = issued + 1 /\ token' = issued'
    BY <1>1, <2>2, Bounds DEF EndInv, LivingAreNotDead, TypeOK, Tokens
  <2>3. QED
    BY <2>1, <2>2 DEF Login
<1>4. AskersCarry' /\ AnswersAreFresh'
  BY <1>1, <1>2 DEF EndInv, AskersCarry, AnswersAreFresh
<1>5. QED
  BY <1>1, <1>3, <1>4 DEF EndInv, EntriesEnd

(* Time passes: what an entry loses of its life, its token gains in death, at most. *)
LEMMA EndTick == ASSUME TypeOK, EndInv, Tick PROVE EndInv'
<1> USE Bounds
<1>1. /\ UNCHANGED <<phase, with, token, issued, lenient>>
      /\ auth' = [t \in Tokens |-> Less(auth[t])]
      /\ dead' = [t \in Tokens |-> IF t <= issued /\ t # token
                                   THEN More(dead[t], Grace + 1) ELSE 0]
      /\ \A c \in Calls : phase[c] = "remember" => age'[c] = age[c] + 1
  BY DEF Tick, Busy
<1>2. \A t \in Tokens : dead[t] \in 0 .. Grace + 1 /\ dead'[t] <= dead[t] + 1
  <2> SUFFICES ASSUME NEW t \in Tokens
               PROVE  dead[t] \in 0 .. Grace + 1 /\ dead'[t] <= dead[t] + 1
    OBVIOUS
  <2>1. dead[t] \in 0 .. Grace + 1 /\ Grace + 1 \in Nat
    BY DEF TypeOK
  <2>2. More(dead[t], Grace + 1) <= dead[t] + 1
    BY <2>1, Counting
  <2>3. QED
    BY <1>1, <2>1, <2>2
<1>3. LivingAreNotDead'
  BY <1>1 DEF EndInv, LivingAreNotDead, Tokens, TypeOK
<1>4. AskersCarry'
  BY <1>1 DEF EndInv, AskersCarry
<1>5. AnswersAreFresh'
  <2> SUFFICES ASSUME NEW c \in Calls, phase[c] = "remember"
               PROVE  dead'[with[c]] <= age'[c]
    BY <1>1 DEF AnswersAreFresh
  <2>1. with[c] \in Tokens /\ dead[with[c]] <= age[c]
    BY DEF EndInv, AskersCarry, AnswersAreFresh
  <2>2. age[c] \in Nat /\ age'[c] = age[c] + 1
    BY <1>1 DEF TypeOK
  <2>3. dead'[with[c]] \in Nat
    BY <2>1, TypeTick DEF TypeOK
  <2>4. QED
    BY <1>2, <2>1, <2>2, <2>3
<1>6. EntriesEnd'
  <2> SUFFICES ASSUME NEW t \in Tokens, auth'[t] > 0
               PROVE  dead'[t] + auth'[t] <= Slow + AuthTTL
    BY DEF EntriesEnd
  <2>1. auth[t] \in 0 .. AuthTTL /\ dead'[t] \in Nat
    BY TypeTick DEF TypeOK
  <2>2. auth[t] > 0 /\ auth'[t] = auth[t] - 1
    BY <1>1, <2>1 DEF Less
  <2>3. dead[t] + auth[t] <= Slow + AuthTTL
    BY <2>2 DEF EndInv, EntriesEnd
  <2>4. QED
    BY <1>2, <2>1, <2>2, <2>3
<1>7. QED
  BY <1>1, <1>3, <1>4, <1>5, <1>6 DEF EndInv

(* Every step keeps the invariant. *)
LEMMA EndStep == ASSUME TypeOK, EndInv, [Next]_vars PROVE EndInv'
<1> USE DEF cacheVars, flushVars, tokenVars, ghostVars, ownerVars, callVars
<1>1. ASSUME NEW c \in Calls, Step(c) \/ Arrive(c) PROVE EndInv'
  <2>1. CASE Login(c)
    BY <2>1, EndLogin
  <2>2. CASE Fails(c)
    BY <2>2, GoingOn DEF Fails
  <2>3. CASE Reread(c)
    BY <2>3, GoingOn DEF Reread
  <2>4. CASE Warm(c)
    BY <2>4, GoingOn DEF Warm
  <2>5. CASE LookLocally(c)
    BY <2>5, GoingOn DEF LookLocally
  <2>6. CASE LookUp(c)
    BY <2>6, GoingOn DEF LookUp
  <2>7. CASE Fill(c)
    BY <2>7, GoingOn DEF Fill
  <2>8. CASE Mark(c)
    BY <2>8, GoingOn DEF Mark
  <2>9. CASE Accept(c)
    BY <2>9, GoingOn DEF Accept
  <2>10. CASE Register(c)
    BY <2>10, GoingOn DEF Register
  <2>11. CASE FindRow(c)
    BY <2>11, GoingOn DEF FindRow
  <2>12. CASE CheckNothing(c)
    BY <2>12, GoingOn DEF CheckNothing
  <2>13. CASE \/ CheckStore(c) \/ Remember(c) \/ CheckAlways(c)
              \/ \E t \in 1 .. issued : CheckLocal(c, t) \/ MissLocal(c, t)
    BY <2>13, EndCheck
  <2>14. QED
    BY <1>1, <2>1, <2>2, <2>3, <2>4, <2>5, <2>6, <2>7, <2>8, <2>9, <2>10, <2>11, <2>12, <2>13
    DEF Step, Arrive
<1>2. CASE FlushTake
  BY <1>2, Elsewhere DEF FlushTake
<1>3. CASE FlushWrite
  BY <1>3, Elsewhere DEF FlushWrite
<1>4. CASE ListInactive
  BY <1>4, Elsewhere DEF ListInactive
<1>5. CASE Logout
  BY <1>5 DEF Logout, EndInv, LivingAreNotDead, AskersCarry, AnswersAreFresh, EntriesEnd, Tokens
<1>6. CASE FindForDelete
  BY <1>6, Elsewhere DEF FindForDelete
<1>7. CASE DeleteRow
  BY <1>7, Elsewhere DEF DeleteRow
<1>8. CASE Evict
  BY <1>8, Elsewhere DEF Evict
<1>9. CASE Tick
  BY <1>9, EndTick
<1>10. CASE Restart
  BY <1>10 DEF Restart, EndInv, LivingAreNotDead, AskersCarry, AnswersAreFresh, EntriesEnd
<1>11. CASE UNCHANGED vars
  BY <1>11, Elsewhere DEF vars
<1>12. QED
  BY <1>1, <1>2, <1>3, <1>4, <1>5, <1>6, <1>7, <1>8, <1>9, <1>10, <1>11 DEF Next

(* No call is let in with a token dead for longer than Grace, for any number of calls and
   tokens and any lengths of the periods. *)
THEOREM RevokedAlwaysRefused == Spec => []RevokedIsRefused
<1>1. Init => TypeOK /\ EndInv
  BY TypeInit, EndInit
<1>2. TypeOK /\ EndInv /\ [Next]_vars => (TypeOK /\ EndInv)'
  BY TypeStep, EndStep
<1>3. TypeOK /\ EndInv => RevokedIsRefused
  BY DEF EndInv, RevokedIsRefused
<1>4. QED
  BY <1>1, <1>2, <1>3, PTL DEF Spec

-----------------------------------------------------------------------------
(* What is left of a deleted device wears out one copy after the other: a row that was read
   in time is cached, the cached row is found and noted, the note is found and a report is
   accepted.  None of the copies is renewed by being used, so each stage ends a fixed time
   after the deletion. *)

\* The stages a call goes through, and how long after the deletion one may be entered.
Stages == {"warm", "fill", "mark", "accept"}
Latest(stage) ==
    IF stage \in {"warm", "fill"} THEN 0
    ELSE Slow + (CopyTTL - 1) + IF stage = "mark" THEN 0 ELSE Slow + (KnownTTL - 1)

\* The time since the deletion runs only after it.
GoneIsDeleted == deleting = "unborn" \/ row => gone = 0

CallsEnd == \A c \in Calls : phase[c] \in Stages => gone <= Latest(phase[c]) + age[c]

\* What the cached row and the note have still to live.
CopyEnds == copy > 0 => gone + copy <= Slow + CopyTTL
NoteEnds == known > 0 => gone + known <= Latest("mark") + Slow + KnownTTL

FarewellInv == GoneIsDeleted /\ CallsEnd /\ CopyEnds /\ NoteEnds

(* The stages are entered at natural times, the last one Slow before Farewell is over. *)
LEMMA LatestBounds ==
    /\ \A stage \in Stages : Latest(stage) \in Nat
    /\ Latest("warm") = 0 /\ Latest("fill") = 0
    /\ Latest("mark") = Slow + (CopyTTL - 1) /\ Latest("mark") \in Nat
    /\ Latest("accept") = Latest("mark") + Slow + (KnownTTL - 1) /\ Latest("accept") \in Nat
    /\ Latest("accept") + Slow = Farewell
BY Bounds DEF Latest, Stages, Farewell

LEMMA FarewellInit == Init => FarewellInv
BY DEF Init, FarewellInv, GoneIsDeleted, CallsEnd, CopyEnds, NoteEnds, Stages

(* A call goes on: the stage it enters is entered in time, and it renews a copy only from
   the stage before. *)
LEMMA FarewellCall ==
    ASSUME TypeOK, FarewellInv, NEW c \in Calls, NEW to,
           phase' = [phase EXCEPT ![c] = to], age' = [age EXCEPT ![c] = 0],
           to \in Stages => gone <= Latest(to),
           copy' = copy \/ (copy' = CopyTTL /\ phase[c] \in {"warm", "fill"}),
           known' = known \/ (known' = KnownTTL /\ phase[c] = "mark"),
           UNCHANGED <<gone, row, deleting>>
    PROVE  FarewellInv'
<1> USE Bounds, LatestBounds
<1>1. gone \in Nat /\ phase \in [Calls -> CallPhases] /\ age \in [Calls -> 0 .. Slow]
  BY DEF TypeOK
<1>2. GoneIsDeleted'
  BY DEF FarewellInv, GoneIsDeleted
<1>3. CallsEnd'
  <2> SUFFICES ASSUME NEW d \in Calls, phase'[d] \in Stages
               PROVE  gone <= Latest(phase'[d]) + age'[d]
    BY DEF CallsEnd
  <2>1. CASE d = c
    <3>1. phase'[d] = to /\ age'[d] = 0
      BY <1>1, <2>1
    <3>2. QED
      BY <1>1, <3>1
  <2>2. CASE d # c
    BY <1>1, <2>2 DEF FarewellInv, CallsEnd
  <2>3. QED
    BY <2>1, <2>2
<1>4. CopyEnds'
  <2>1. CASE copy' = copy
    BY <2>1 DEF FarewellInv, CopyEnds
  <2>2. CASE copy' = CopyTTL /\ phase[c] \in {"warm", "fill"}
    <3>1. gone <= Latest(phase[c]) + age[c] /\ Latest(phase[c]) = 0
      BY <2>2 DEF FarewellInv, CallsEnd, Stages
    <3>2. gone <= Slow
      BY <1>1, <3>1
    <3>3. QED
      BY <1>1, <2>2, <3>2 DEF CopyEnds
  <2>3. QED
    BY <2>1, <2>2
<1>5. NoteEnds'
  <2>1. CASE known' = known
    BY <2>1 DEF FarewellInv, NoteEnds
  <2>2. CASE known' = KnownTTL /\ phase[c] = "mark"
    <3>1. gone <= Latest("mark") + age[c]
      BY <2>2 DEF FarewellInv, CallsEnd, Stages
    <3>2. gone <= Latest("mark") + Slow
      BY <1>1, <3>1
    <3>3. QED
      BY <1>1, <2>2, <3>2 DEF NoteEnds
  <2>3. QED
    BY <2>1, <2>2
<1>6. QED
  BY <1>2, <1>3, <1>4, <1>5 DEF FarewellInv

(* Time passes: a stage, a copy and a note get older with the deletion. *)
LEMMA FarewellTick == ASSUME TypeOK, FarewellInv, Tick PROVE FarewellInv'
<1> USE Bounds, LatestBounds
<1>1. gone \in 0 .. Farewell + 1 /\ Farewell + 1 \in Nat /\ copy \in Nat /\ known \in Nat
      /\ \A c \in Calls : age[c] \in Nat
  BY DEF TypeOK
<1>2. gone' \in Nat /\ gone' <= gone + 1
  <2>1. More(gone, Farewell + 1) \in 0 .. Farewell + 1 /\ More(gone, Farewell + 1) <= gone + 1
    BY <1>1 DEF More
  <2>2. gone' = gone \/ gone' = 0 \/ gone' = More(gone, Farewell + 1)
    BY DEF Tick
  <2>3. QED
    BY <1>1, <2>1, <2>2
<1>3. /\ UNCHANGED <<phase, row, deleting>>
      /\ copy' = Less(copy) /\ known' = Less(known)
      /\ \A c \in Calls : phase[c] \in Stages => age'[c] = age[c] + 1
  BY DEF Tick, ownerVars, Busy, Stages
<1>4. GoneIsDeleted'
  BY <1>3 DEF FarewellInv, GoneIsDeleted, Tick
<1>5. CallsEnd'
  <2> SUFFICES ASSUME NEW c \in Calls, phase[c] \in Stages
               PROVE  gone' <= Latest(phase[c]) + age'[c]
    BY <1>3 DEF CallsEnd
  <2>1. gone <= Latest(phase[c]) + age[c] /\ age'[c] = age[c] + 1 /\ Latest(phase[c]) \in Nat
    BY <1>3 DEF FarewellInv, CallsEnd
  <2>2. QED
    BY <1>1, <1>2, <2>1
<1>6. CopyEnds'
  <2> SUFFICES ASSUME copy' > 0 PROVE gone' + copy' <= Slow + CopyTTL
    BY DEF CopyEnds
  <2>1. copy > 0 /\ copy' = copy - 1
    BY <1>1, <1>3 DEF Less
  <2>2. gone + copy <= Slow + CopyTTL
    BY <2>1 DEF FarewellInv, CopyEnds
  <2>3. \A n, m, k, end \in Nat : n + m <= end /\ k <= n + 1 => k + (m - 1) <= end
    OBVIOUS
  <2>4. copy \in Nat /\ gone \in Nat /\ gone' \in Nat /\ Slow + CopyTTL \in Nat
    BY <1>1, <1>2
  <2>5. gone' + (copy - 1) <= Slow + CopyTTL
    BY <1>2, <2>2, <2>3, <2>4
  <2>6. QED
    BY <2>1, <2>5
<1>7. NoteEnds'
  BY <1>1, <1>2, <1>3 DEF FarewellInv, NoteEnds, Less
<1>8. QED
  BY <1>4, <1>5, <1>6, <1>7 DEF FarewellInv

(* Every step keeps the invariant. *)
LEMMA FarewellStep == ASSUME TypeOK, FarewellInv, [Next]_vars PROVE FarewellInv'
<1> USE DEF cacheVars, flushVars, tokenVars, ghostVars, ownerVars, callVars
<1>1. ASSUME NEW c \in Calls, Step(c) \/ Arrive(c) PROVE FarewellInv'
  <2>1. CASE Login(c)
    BY <2>1, FarewellCall DEF Login, Goto, Stages
  <2>2. CASE Fails(c)
    BY <2>2, FarewellCall DEF Fails, Goto, Stages
  <2>3. CASE Reread(c)
    <3>1. row => gone <= Latest("warm")
      BY LatestBounds DEF FarewellInv, GoneIsDeleted
    <3>2. CASE row
      BY <2>3, <3>1, <3>2, FarewellCall DEF Reread, Goto
    <3>3. CASE ~row
      BY <2>3, <3>3, FarewellCall DEF Reread, Goto, Stages
    <3>4. QED
      BY <3>2, <3>3
  <2>4. CASE Warm(c)
    BY <2>4, FarewellCall DEF Warm, Goto, Stages
  <2>5. CASE LookLocally(c)
    <3>1. gone <= Latest("accept")
      <4>1. known > 0 /\ gone + known <= Latest("mark") + Slow + KnownTTL
        BY <2>5 DEF LookLocally, Known, FarewellInv, NoteEnds
      <4>2. known \in Nat /\ gone \in Nat
        BY Bounds DEF TypeOK
      <4>3. QED
        BY <4>1, <4>2, Bounds, LatestBounds
    <3>2. QED
      BY <2>5, <3>1, FarewellCall DEF LookLocally, Known, Goto
  <2>6. CASE LookUp(c)
    <3>1. row => gone <= Latest("fill")
      BY LatestBounds DEF FarewellInv, GoneIsDeleted
    <3>2. copy > 0 => gone <= Latest("mark")
      <4>1. copy > 0 => gone + copy <= Slow + CopyTTL
        BY DEF FarewellInv, CopyEnds
      <4>2. copy \in Nat /\ gone \in Nat
        BY Bounds DEF TypeOK
      <4>3. QED
        BY <4>1, <4>2, Bounds, LatestBounds
    <3>3. CASE copy > 0
      BY <2>6, <3>2, <3>3, FarewellCall DEF LookUp, Goto
    <3>4. CASE ~(copy > 0) /\ row
      BY <2>6, <3>1, <3>4, FarewellCall DEF LookUp, Goto
    <3>5. CASE ~(copy > 0) /\ ~row
      BY <2>6, <3>5, FarewellCall DEF LookUp, Goto, Stages
    <3>6. QED
      BY <3>3, <3>4, <3>5
  <2>7. CASE Fill(c)
    <3>1. gone <= Latest("mark")
      <4>1. gone <= Latest("fill") + age[c]
        BY <2>7 DEF Fill, Goto, FarewellInv, CallsEnd, Stages
      <4>2. gone \in Nat /\ age[c] \in 0 .. Slow
        BY Bounds DEF TypeOK
      <4>3. QED
        BY <4>1, <4>2, Bounds, LatestBounds
    <3>2. QED
      BY <2>7, <3>1, FarewellCall DEF Fill, Goto
  <2>8. CASE Mark(c)
    <3>1. gone <= Latest("accept")
      <4>1. gone <= Latest("mark") + age[c]
        BY <2>8 DEF Mark, Goto, FarewellInv, CallsEnd, Stages
      <4>2. gone \in Nat /\ age[c] \in 0 .. Slow
        BY Bounds DEF TypeOK
      <4>3. QED
        BY <4>1, <4>2, Bounds, LatestBounds
    <3>2. QED
      BY <2>8, <3>1, FarewellCall DEF Mark, Goto
  <2>9. CASE Accept(c)
    BY <2>9, FarewellCall DEF Accept, Goto, Stages
  <2>10. CASE Register(c)
    <3>1. /\ phase' = [phase EXCEPT ![c] = "register"] /\ age' = [age EXCEPT ![c] = 0]
          /\ UNCHANGED <<copy, known, gone>> /\ gone = 0
      BY <2>10 DEF Register, Goto, FarewellInv, GoneIsDeleted
    <3>2. QED
      BY <3>1 DEF FarewellInv, GoneIsDeleted, CallsEnd, CopyEnds, NoteEnds, Stages, TypeOK
  <2>11. CASE FindRow(c)
    BY <2>11, FarewellCall DEF FindRow, Goto, Stages
  <2>12. CASE CheckNothing(c)
    BY <2>12, FarewellCall DEF CheckNothing, Goto, Stages
  <2>13. CASE CheckStore(c)
    BY <2>13, FarewellCall DEF CheckStore, Goto, Stages
  <2>14. CASE Remember(c) \/ CheckAlways(c)
    BY <2>14, FarewellCall DEF Remember, CheckAlways, Admit, Stages
  <2>15. CASE \E t \in 1 .. issued : CheckLocal(c, t) \/ MissLocal(c, t)
    BY <2>15, FarewellCall DEF CheckLocal, MissLocal, Hit, Admit, Stages
  <2>16. QED
    BY <1>1, <2>1, <2>2, <2>3, <2>4, <2>5, <2>6, <2>7, <2>8, <2>9, <2>10, <2>11, <2>12, <2>13,
       <2>14, <2>15 DEF Step, Arrive
<1> USE DEF FarewellInv, GoneIsDeleted, CallsEnd, CopyEnds, NoteEnds
<1>2. CASE FlushTake
  BY <1>2 DEF FlushTake
<1>3. CASE FlushWrite
  BY <1>3 DEF FlushWrite
<1>4. CASE ListInactive \/ Logout
  BY <1>4 DEF ListInactive, Logout
<1>5. CASE FindForDelete
  BY <1>5 DEF FindForDelete
<1>6. CASE DeleteRow
  BY <1>6 DEF DeleteRow
<1>7. CASE Evict
  BY <1>7 DEF Evict
<1>8. CASE Tick
  BY <1>8, FarewellTick
<1>9. CASE Restart
  BY <1>9 DEF Restart, Stages
<1>10. CASE UNCHANGED vars
  BY <1>10 DEF vars
<1>11. QED
  BY <1>1, <1>2, <1>3, <1>4, <1>5, <1>6, <1>7, <1>8, <1>9, <1>10 DEF Next

(* A device that was deleted is not accepted for longer than Farewell, whatever copies of its
   row were made meanwhile, for any lengths of their lives and any number of calls. *)
THEOREM DeletedAlwaysForgotten == Spec => []DeletedIsForgotten
<1>1. Init => TypeOK /\ FarewellInv
  BY TypeInit, FarewellInit
<1>2. TypeOK /\ FarewellInv /\ [Next]_vars => (TypeOK /\ FarewellInv)'
  BY TypeStep, FarewellStep
<1>3. TypeOK /\ FarewellInv => DeletedIsForgotten
  <2> SUFFICES ASSUME TypeOK, FarewellInv, NEW c \in Calls, phase[c] = "accept"
               PROVE  ~(gone > Farewell)
    BY DEF DeletedIsForgotten
  <2>1. gone <= Latest("accept") + age[c]
    BY DEF FarewellInv, CallsEnd, Stages
  <2>2. gone \in Nat /\ age[c] \in 0 .. Slow
    BY Bounds DEF TypeOK
  <2>3. QED
    BY <2>1, <2>2, Bounds, LatestBounds
<1>4. QED
  BY <1>1, <1>2, <1>3, PTL DEF Spec

-----------------------------------------------------------------------------
(* Why the cleanup lists only devices that were silent.  The row is behind the reports only
   while a flush is to come, and then for no longer than the flush waits; a report that ends
   a silence so long that the row may be listed meanwhile is noted as such. *)

\* A device that was not registered has no time to count.
UnbornIsBlank == deleting = "unborn" => ~row /\ silence = 0

\* The wait begins with the report that asked for the flush.
NobodyWaits == ~pending => timer = 0

\* How far the silence in the row may be ahead of the real one, with nothing to come, with a
\* flush to come, and with a flush about to write.
RowFollows ==
    row /\ ~unwritten =>
        /\ ~flushing /\ ~pending => silence <= unheard
        /\ ~flushing /\ pending => silence + Lag < Inactive + timer \/ returned <= timer
        /\ flushing => silence < Inactive \/ returned <= Lag

SilenceInv == UnbornIsBlank /\ NobodyWaits /\ RowFollows /\ deserved

(* The variables of the flush are numbers, and no wait is longer than Lag. *)
LEMMA FlushTypes ==
    TypeOK => /\ silence \in 0 .. Inactive /\ unheard \in 0 .. Inactive
              /\ timer \in 0 .. Lag /\ returned \in 0 .. Lag + 1
              /\ Lag \in Nat /\ Inactive \in Nat /\ Lag < Inactive
<1>1. Lag \in Nat /\ Inactive \in Nat /\ Lag < Inactive /\ Lag = Debounce + Slow
  BY Bounds, TokenAssumptions
<1>2. QED
  BY <1>1 DEF TypeOK

LEMMA SilenceInit == ASSUME Init, TypeOK PROVE SilenceInv
BY FlushTypes DEF Init, SilenceInv, UnbornIsBlank, NobodyWaits, RowFollows

(* A report is accepted: it asks for a flush, unless one is to come. *)
LEMMA SilenceAccept == ASSUME TypeOK, SilenceInv, NEW c \in Calls, Accept(c) PROVE SilenceInv'
<1> USE FlushTypes
<1>1. /\ pending' = TRUE
      /\ returned' = IF row /\ unheard + Lag >= Inactive THEN 0 ELSE returned
      /\ UNCHANGED <<timer, silence, flushing, unwritten, row, deleting, deserved>>
  BY DEF Accept, Schedule, ownerVars
<1>2. ASSUME row, ~unwritten, ~flushing
      PROVE  silence + Lag < Inactive + timer \/ returned' <= timer
  <2>1. CASE pending
    BY <1>1, <1>2, <2>1 DEF SilenceInv, RowFollows
  <2>2. CASE ~pending
    <3>1. silence <= unheard /\ timer = 0
      BY <1>2, <2>2 DEF SilenceInv, RowFollows, NobodyWaits
    <3>2. QED
      BY <1>1, <1>2, <3>1
  <2>3. QED
    BY <2>1, <2>2
<1>3. ASSUME row, ~unwritten, flushing PROVE silence < Inactive \/ returned' <= Lag
  BY <1>1, <1>3 DEF SilenceInv, RowFollows
<1>4. RowFollows'
  BY <1>1, <1>2, <1>3 DEF RowFollows
<1>5. QED
  BY <1>1, <1>4 DEF SilenceInv, UnbornIsBlank, NobodyWaits

(* Time passes: the row and the wait get older together. *)
LEMMA SilenceTick == ASSUME TypeOK, SilenceInv, Tick PROVE SilenceInv'
<1> USE FlushTypes
<1>1. /\ ~flushing /\ timer < Lag
      /\ timer' = IF pending THEN timer + 1 ELSE 0
      /\ UNCHANGED <<pending, flushing, unwritten, row, deleting, deserved>>
  BY Bounds DEF Tick, ownerVars
<1>2. ~row => silence' = silence
  BY DEF Tick
<1>3. ASSUME row
      PROVE  /\ silence' = More(silence, Inactive) /\ unheard' = More(unheard, Inactive)
             /\ returned' = More(returned, Lag + 1)
  BY <1>3 DEF Tick
<1>4. ASSUME row, ~unwritten, ~pending PROVE silence' <= unheard'
  <2>1. silence <= unheard
    BY <1>1, <1>4 DEF SilenceInv, RowFollows
  <2>2. QED
    BY <1>3, <1>4, <2>1 DEF More
<1>5. ASSUME row, ~unwritten, pending
      PROVE  silence' + Lag < Inactive + timer' \/ returned' <= timer'
  <2>1. silence + Lag < Inactive + timer \/ returned <= timer
    BY <1>1, <1>5 DEF SilenceInv, RowFollows
  <2>2. timer' = timer + 1
    BY <1>1, <1>5
  <2>3. silence' <= silence + 1 /\ silence' \in Nat
    BY <1>3, <1>5 DEF More
  <2>4. returned' <= returned + 1 /\ returned' \in Nat
    BY <1>3, <1>5 DEF More
  <2>5. QED
    BY <2>1, <2>2, <2>3, <2>4
<1>6. RowFollows'
  BY <1>1, <1>4, <1>5 DEF RowFollows
<1>7. QED
  BY <1>1, <1>2, <1>6 DEF SilenceInv, UnbornIsBlank, NobodyWaits

(* The flush takes over: the row has not been listed while it waited. *)
LEMMA SilenceFlush == ASSUME TypeOK, SilenceInv, FlushTake \/ FlushWrite PROVE SilenceInv'
<1> USE FlushTypes DEF ownerVars, ghostVars
<1>1. CASE FlushTake
  <2>1. /\ pending /\ flushing' /\ ~pending' /\ timer' = 0
        /\ UNCHANGED <<silence, unheard, returned, unwritten, row, deleting, deserved>>
    BY <1>1 DEF FlushTake
  <2>2. row /\ ~unwritten => silence < Inactive \/ returned <= Lag
    <3>1. CASE flushing
      BY <3>1 DEF SilenceInv, RowFollows
    <3>2. CASE ~flushing
      <4>1. row /\ ~unwritten => silence + Lag < Inactive + timer \/ returned <= timer
        BY <2>1, <3>2 DEF SilenceInv, RowFollows
      <4>2. QED
        BY <4>1
    <3>3. QED
      BY <3>1, <3>2
  <2>3. RowFollows'
    BY <2>1, <2>2 DEF RowFollows
  <2>4. QED
    BY <2>1, <2>3 DEF SilenceInv, UnbornIsBlank, NobodyWaits
<1>2. CASE FlushWrite
  <2>1. /\ ~flushing' /\ row' = row
        /\ UNCHANGED <<pending, timer, unheard, returned, deleting, deserved>>
        /\ silence' \in {0, silence} /\ (row /\ ~unwritten' => silence' = 0)
    BY <1>2 DEF FlushWrite
  <2>2. RowFollows'
    BY <2>1 DEF RowFollows
  <2>3. QED
    BY <2>1, <2>2 DEF SilenceInv, UnbornIsBlank, NobodyWaits
<1>3. QED
  BY <1>1, <1>2

(* The cleanup lists a row that is overdue. *)
LEMMA SilenceList == ASSUME TypeOK, SilenceInv, ListInactive PROVE SilenceInv'
<1> USE FlushTypes
<1>1. /\ row /\ silence = Inactive
      /\ deserved' = (unheard + Lag >= Inactive \/ returned <= Lag \/ unwritten)
      /\ UNCHANGED <<silence, unheard, returned, unwritten, pending, timer, flushing, row, deleting>>
  BY DEF ListInactive, Overdue, flushVars, ghostVars
<1>2. unheard + Lag >= Inactive \/ returned <= Lag \/ unwritten
  <2>1. CASE unwritten
    BY <2>1
  <2>2. CASE ~unwritten /\ ~flushing /\ ~pending
    <3>1. Inactive <= unheard
      BY <1>1, <2>2 DEF SilenceInv, RowFollows
    <3>2. QED
      BY <1>1, <3>1
  <2>3. CASE ~unwritten /\ ~flushing /\ pending
    <3>1. Inactive + Lag < Inactive + timer \/ returned <= timer
      BY <1>1, <2>3 DEF SilenceInv, RowFollows
    <3>2. QED
      BY <1>1, <3>1
  <2>4. CASE ~unwritten /\ flushing
    BY <1>1, <2>4 DEF SilenceInv, RowFollows
  <2>5. QED
    BY <2>1, <2>2, <2>3, <2>4 DEF TypeOK
<1>3. deserved'
  BY <1>1, <1>2, Zenon
<1>4. QED
  BY <1>1, <1>3 DEF SilenceInv, UnbornIsBlank, NobodyWaits, RowFollows

(* Every step keeps the invariant. *)
LEMMA SilenceStep == ASSUME TypeOK, SilenceInv, [Next]_vars PROVE SilenceInv'
<1> USE DEF cacheVars, flushVars, tokenVars, ghostVars, ownerVars, callVars
<1>1. ASSUME UNCHANGED <<silence, pending, timer, flushing, unwritten, row, deleting, deserved,
                         unheard, returned>>
      PROVE  SilenceInv'
  BY <1>1 DEF SilenceInv, UnbornIsBlank, NobodyWaits, RowFollows
<1>2. ASSUME NEW c \in Calls, Step(c) \/ Arrive(c) PROVE SilenceInv'
  <2>1. CASE Accept(c)
    BY <2>1, SilenceAccept
  <2>2. CASE Register(c)
    <3>1. /\ deleting = "unborn" /\ deleting' = "off" /\ silence = 0
          /\ UNCHANGED <<silence, pending, timer, flushing, unwritten, deserved, unheard, returned>>
      BY <2>2 DEF Register, SilenceInv, UnbornIsBlank
    <3>2. RowFollows'
      BY <3>1, FlushTypes DEF RowFollows
    <3>3. QED
      BY <3>1, <3>2 DEF SilenceInv, UnbornIsBlank, NobodyWaits
  <2>3. CASE Login(c) \/ Reread(c) \/ Warm(c) \/ FindRow(c) \/ Fails(c)
    BY <1>1, <2>3 DEF Login, Reread, Warm, FindRow, Fails
  <2>4. CASE CheckStore(c) \/ Remember(c) \/ CheckAlways(c) \/ CheckNothing(c)
    BY <1>1, <2>4 DEF CheckStore, Remember, CheckAlways, CheckNothing
  <2>5. CASE \E t \in 1 .. issued : CheckLocal(c, t) \/ MissLocal(c, t)
    BY <1>1, <2>5 DEF CheckLocal, MissLocal
  <2>6. CASE LookLocally(c) \/ LookUp(c) \/ Fill(c) \/ Mark(c)
    BY <1>1, <2>6 DEF LookLocally, LookUp, Fill, Mark
  <2>7. QED
    BY <1>2, <2>1, <2>2, <2>3, <2>4, <2>5, <2>6 DEF Step, Arrive
<1>3. CASE FlushTake \/ FlushWrite
  BY <1>3, SilenceFlush
<1>4. CASE ListInactive
  BY <1>4, SilenceList
<1> USE DEF SilenceInv, UnbornIsBlank, NobodyWaits, RowFollows
<1>5. CASE Logout
  BY <1>5 DEF Logout
<1>6. CASE FindForDelete
  BY <1>6 DEF FindForDelete
<1>7. CASE DeleteRow
  <2>1. /\ deleting' # "unborn" /\ UNCHANGED <<pending, timer, flushing, deserved>>
        /\ \/ row' = FALSE
           \/ UNCHANGED <<row, silence, unheard, returned, unwritten>>
    BY <1>7 DEF DeleteRow
  <2>2. QED
    BY <2>1
<1>8. CASE Evict
  BY <1>8 DEF Evict
<1>9. CASE Tick
  BY <1>9, SilenceTick
<1>10. CASE Restart
  BY <1>10 DEF Restart
<1>11. CASE UNCHANGED vars
  BY <1>11 DEF vars
<1>12. QED
  BY <1>2, <1>3, <1>4, <1>5, <1>6, <1>7, <1>8, <1>9, <1>10, <1>11 DEF Next

(* The cleanup lists no device that was heard of in the period, but for the time a report
   takes to reach the row and for writes that failed: for any period longer than Lag. *)
THEOREM ListedWasAlwaysSilent == Spec => []ListedWasSilent
<1>1. Init => TypeOK /\ SilenceInv
  BY TypeInit, SilenceInit
<1>2. TypeOK /\ SilenceInv /\ [Next]_vars => (TypeOK /\ SilenceInv)'
  BY TypeStep, SilenceStep
<1>3. SilenceInv => ListedWasSilent
  BY DEF SilenceInv, ListedWasSilent
<1>4. QED
  BY <1>1, <1>2, <1>3, PTL DEF Spec

=============================================================================
