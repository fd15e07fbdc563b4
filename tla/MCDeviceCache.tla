---------------------------- MODULE MCDeviceCache ----------------------------
(* Small instances of DeviceCache.                                         *)
EXTENDS DeviceCache, TLC

\* Calls of one kind are interchangeable (safety runs only).
CallSymmetry == Permutations(Readers) \cup Permutations(Writers) \cup Permutations(Instances)

=============================================================================
