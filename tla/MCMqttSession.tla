---------------------------- MODULE MCMqttSession ----------------------------
(* MqttSession with the parameters of the configurations MCMqttSession_*.   *)
(* The two background threads do the same and can be exchanged.             *)
EXTENDS MqttSession, TLC

Symmetry == Permutations(Background)
=============================================================================
