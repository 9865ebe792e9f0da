----------------------------- MODULE MqttClients -----------------------------
(***************************************************************************)
(* The two programs whose coroutines share an MQTT client: the backend,    *)
(* which guards its client by a lock (SharedClient), and the agent, which  *)
(* does not (MqttPublisher).  They never meet, so a behaviour is one of    *)
(* either program, chosen in the first state.                              *)
(***************************************************************************)
EXTENDS SharedClient

CONSTANTS Callers, MaxCalls, MaxAgentLosses, MaxAgentRefused

VARIABLES
  program,  \* which one runs
  slot, made, entered, up, call, calls, lost, rejected, alone

agentVars == <<slot, made, entered, up, call, calls, lost, rejected, alone>>

Agent == INSTANCE MqttPublisher WITH
  opened <- made, open <- entered, alive <- up, losses <- lost, refused <- rejected,
  MaxLosses <- MaxAgentLosses, MaxRefused <- MaxAgentRefused

ASSUME AgentAssumption == Agent!PublisherAssumption

EitherInit == program \in {"backend", "agent"} /\ Init /\ Agent!Init

EitherNext ==
  /\ UNCHANGED program
  /\ \/ program = "backend" /\ Next /\ UNCHANGED agentVars
     \/ program = "agent" /\ Agent!Next /\ UNCHANGED vars

EitherSpec ==
  /\ EitherInit /\ [][EitherNext]_<<vars, agentVars, program>>
  /\ \A r \in Requests : WF_vars(program = "backend" /\ Step(r))

(* The agent never offers its coroutines a client that was closed.         *)
SlotIsOpen == Agent!SlotIsOpen

(* In the agent one lost connection, late answer or refused connect costs  *)
(* no publication that no other joined.                                    *)
AgentOneLossIsRetried == Agent!OneLossIsRetried
===============================================================================
