---------------------------- MODULE CommandJournal ----------------------------
(***************************************************************************)
(* What the command journal (table command_logs) promises, independently   *)
(* of MQTT, retries and the agent.                                         *)
(*                                                                         *)
(*   status[c]     the row's status column, "none" while there is no row   *)
(*   completed[c]  whether the row's completed_at column is set            *)
(*   applied       the commands that were written to a control register    *)
(*   replied       the commands whose request has been answered            *)
(*                                                                         *)
(* A row is logged first; only then may the command be applied.  The       *)
(* request writes the row once more when it is answered, and acks may      *)
(* write it any number of times; an ack may say "executed" only of a       *)
(* command that was applied.                                               *)
(***************************************************************************)
CONSTANT Commands

VARIABLES status, completed, applied, replied

jvars == <<status, completed, applied, replied>>

Terminal == {"executed", "failed"}
Statuses == {"none", "pending", "sent"} \cup Terminal

Init ==
  /\ status    = [c \in Commands |-> "none"]
  /\ completed = [c \in Commands |-> FALSE]
  /\ applied   = {}
  /\ replied   = {}

Log(c) ==
  /\ status[c] = "none"
  /\ status' = [status EXCEPT ![c] = "pending"]
  /\ UNCHANGED <<completed, applied, replied>>

Apply(c) ==
  /\ status[c] # "none"
  /\ applied' = applied \cup {c}
  /\ UNCHANGED <<status, completed, replied>>

(* The answer of the request: the command was handed to the broker, or not. *)
Reply(c) ==
  /\ status[c] # "none"
  /\ c \notin replied
  /\ replied' = replied \cup {c}
  /\ \/ /\ status' = [status EXCEPT ![c] = "sent"]
        /\ UNCHANGED completed
     \/ /\ status' = [status EXCEPT ![c] = "failed"]
        /\ completed' = [completed EXCEPT ![c] = TRUE]
  /\ UNCHANGED applied

Ack(c, outcome) ==
  /\ status[c] # "none"
  /\ outcome = "executed" => c \in applied
  /\ status' = [status EXCEPT ![c] = outcome]
  /\ completed' = [completed EXCEPT ![c] = TRUE]
  /\ UNCHANGED <<applied, replied>>

Next ==
  \E c \in Commands :
    Log(c) \/ Apply(c) \/ Reply(c) \/ \E outcome \in Terminal : Ack(c, outcome)

Spec == Init /\ [][Next]_jvars
===============================================================================
