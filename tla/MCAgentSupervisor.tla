-------------------------- MODULE MCAgentSupervisor --------------------------
(* Small instances of AgentSupervisor for TLC. *)
EXTENDS AgentSupervisor, TLC

CONSTANTS o1, o2, h1, h2

OneObject  == {o1}
TwoObjects == {o1, o2}
OneHost    == {h1}
TwoHosts   == {h1, h2}

SupervisorSymmetry == Permutations(TwoObjects)

Everything ==
  {"http", "status", "control", "restart", "crash", "worker", "database"}
===============================================================================
