-------------------------- MODULE MCCommandLifecycle --------------------------
(* Small instances of CommandLifecycle for TLC. *)
EXTENDS CommandLifecycle, TLC

CONSTANTS c1, c2, z1

TwoCommands == {c1, c2}
OneCommand  == {c1}
OneZone     == {z1}

(* Command ids are interchangeable in every safety property. *)
CommandSymmetry == Permutations(TwoCommands)

(* Everything fails but no zone is edited: the agent's copy of the zones is *)
(* full or empty all the same, after a start, a restart and a refresh.      *)
AllFailures == FaultKinds \ {"zones"}
(* Everything may fail except what loses an ack for good. *)
AcksArrive == {"publish", "modbus", "zones"}
===============================================================================
