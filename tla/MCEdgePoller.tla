----------------------------- MODULE MCEdgePoller -----------------------------
(* Small instances of EdgePoller for TLC. *)
EXTENDS EdgePoller, TLC

CONSTANTS z1, z2, alarm, normal

OneZone  == {z1}
TwoZones == {z1, z2}
TwoValues == {alarm, normal}

(* ZonesChanged compares sets, the agent two lists: the same for lists      *)
(* without duplicates, here of at most two zones.                          *)
Rules == INSTANCE EventRules
Lists == UNION {[1 .. n -> [key : {1, 2}, settings : TwoValues]] : n \in 0 .. 2}
NoDuplicates(list) == \A i, j \in DOMAIN list : list[i].key = list[j].key => i = j

ASSUME ListsAreSets ==
  \A old, new \in {list \in Lists : NoDuplicates(list)} :
    Rules!Changed(old, new) = (Rules!Elements(old) # Rules!Elements(new))

AllFaults == {"modbus", "publish", "puback", "status", "http", "stop"}
===============================================================================
