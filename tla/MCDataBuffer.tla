---------------------------- MODULE MCDataBuffer -----------------------------
(* Small instances of DataBuffer.                                          *)
EXTENDS DataBuffer, TLC

\* Reports are interchangeable.
ReportSymmetry == Permutations(Reports)

=============================================================================
