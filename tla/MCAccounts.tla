------------------------------ MODULE MCAccounts ------------------------------
(* Names for the requests and the device keys.                              *)
EXTENDS Accounts, TLC

CONSTANTS r1, r2, r3, r4, k1, k2

AccountSymmetry == Permutations(Requests) \cup Permutations(Keys)

=============================================================================
