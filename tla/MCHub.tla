-------------------------------- MODULE MCHub --------------------------------
(* Values for model checking Hub.                                          *)
EXTENDS Hub, TLC

\* Connections of one kind, and pushes, are interchangeable (safety runs only).
HubSymmetry == Permutations(Links) \cup Permutations(Consoles) \cup Permutations(Calls)

=============================================================================
