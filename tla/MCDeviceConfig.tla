--------------------------- MODULE MCDeviceConfig ----------------------------
(* Small instances of DeviceConfig.                                        *)
EXTENDS DeviceConfig, TLC

\* Requests and parts are interchangeable.
ConfigSymmetry == Permutations(Requests) \cup Permutations(Parts)

=============================================================================
