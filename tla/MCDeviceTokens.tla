---------------------------- MODULE MCDeviceTokens ----------------------------
(* Names for the calls, which are interchangeable.                          *)
EXTENDS DeviceTokens, TLC

CONSTANTS c1, c2

CallSymmetry == Permutations(Calls)

=============================================================================
