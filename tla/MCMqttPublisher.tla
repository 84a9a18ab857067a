-------------------------- MODULE MCMqttPublisher --------------------------
(* Small instances of MqttPublisher for TLC.                               *)
EXTENDS MqttPublisher, TLC

Symmetry ==
  Permutations(Worker) \cup Permutations(Inverter) \cup Permutations(Sensor)

=============================================================================
