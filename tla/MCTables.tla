------------------------------- MODULE MCTables -------------------------------
(* A small instance of Tables for TLC. *)
EXTENDS Tables, TLC

CONSTANTS r1, r2, a, b, alarm, normal, u1, u2, u3

TwoRequests == {r1, r2}
TwoNames    == {a, b}
TwoLabels   == {alarm, normal}
ThreeUsers  == {u1, u2, u3}

(* Requests, names, labels and users are interchangeable in the safety     *)
(* properties.                                                             *)
TableSymmetry ==
  Permutations(TwoRequests) \cup Permutations(TwoNames) \cup Permutations(TwoLabels)
    \cup Permutations(ThreeUsers)
===============================================================================
