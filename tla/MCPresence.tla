----------------------------- MODULE MCPresence ------------------------------
(* Small instances of Presence.                                            *)
EXTENDS Presence

=============================================================================
