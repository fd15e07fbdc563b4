---------------------------- MODULE MCMqttGateway ----------------------------
(* Values for model checking MqttGateway.                                  *)
EXTENDS MqttGateway, TLC

\* Connections are interchangeable (where no liveness is checked).
ConnSymmetry == Permutations(Conns)

=============================================================================
