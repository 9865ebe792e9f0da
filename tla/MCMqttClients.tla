---------------------------- MODULE MCMqttClients ----------------------------
(* Small instances of MqttClients for TLC. *)
EXTENDS MqttClients

CONSTANTS r1, r2, r3, p1, p2, p3

ThreeRequests == {r1, r2, r3}
ThreeCallers  == {p1, p2, p3}
===============================================================================
