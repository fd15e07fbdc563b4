----------------------------- MODULE MCDownlink ------------------------------
(* Small instances of Downlink.                                            *)
EXTENDS Downlink, TLC

\* Polls are interchangeable.
PollSymmetry == Permutations(Polls)

=============================================================================
