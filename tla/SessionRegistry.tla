--------------------------- MODULE SessionRegistry ---------------------------
(***************************************************************************)
(* What a connection registry of the platform promises, whatever transport *)
(* it serves: a principal (a device, or a user on the MQTT gateway) has at *)
(* most one live session, a newer session takes the place of an older one, *)
(* and a session that was ended, by itself or by a newer one, never comes  *)
(* back.  The WebSocket hub and the MQTT gateway both implement it.        *)
(***************************************************************************)
CONSTANTS Principals,   \* who can hold a session
          Sessions,     \* identities of sessions, each used once
          NoSession     \* "no live session"

VARIABLES live,         \* live[p] : the session of p that is live now
          ended         \* the sessions that are over

srVars == <<live, ended>>

Init ==
    /\ live = [p \in Principals |-> NoSession]
    /\ ended = {}

\* Session s of p becomes the live one; the session it displaces is over.
Open(p, s) ==
    /\ s \notin ended
    /\ \A q \in Principals : live[q] # s
    /\ live' = [live EXCEPT ![p] = s]
    /\ ended' = ended \cup ({live[p]} \ {NoSession})

\* The live session s of p ends and leaves p without a session.
End(p, s) ==
    /\ live[p] = s
    /\ live' = [live EXCEPT ![p] = NoSession]
    /\ ended' = ended \cup {s}

Next == \E p \in Principals, s \in Sessions : Open(p, s) \/ End(p, s)

Spec == Init /\ [][Next]_srVars

=============================================================================
