--------------------------- MODULE MCAdministration ---------------------------
(* A small instance of Administration for TLC. *)
EXTENDS Administration

CONSTANTS j1, j2, j3, r1, r2, r3

ThreeJobs   == {j1, j2, j3}
ThreeAdmins == {r1, r2, r3}
===============================================================================
