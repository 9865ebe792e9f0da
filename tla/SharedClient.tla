----------------------------- MODULE SharedClient -----------------------------
(***************************************************************************)
(* The backend's one MQTT client for publishing commands, shared by every  *)
(* request: _get_mqtt_client creates it on demand, _reset_mqtt_client      *)
(* drops it, both under _mqtt_client_lock; _publish_command, which holds   *)
(* no lock while it publishes, tries twice.  Clients are numbered in the   *)
(* order in which they are opened; 0 is no client.                         *)
(***************************************************************************)
EXTENDS Naturals, FiniteSets

CONSTANTS
  Requests,   \* requests that publish a command
  Nobody,     \* nobody holds the lock
  MaxLosses,  \* bound: connections lost and answers that are late
  MaxRefused  \* bound: attempts to connect that raise

ASSUME ClientAssumption ==
  Nobody \notin Requests /\ MaxLosses \in Nat /\ MaxRefused \in Nat

VARIABLES
  shared,  \* _mqtt_client
  opened,  \* clients opened so far
  open,    \* clients entered and not exited
  alive,   \* clients whose connection is up
  lock,    \* who keeps _mqtt_client_lock across an await
  req,     \* each request: [pc, try, client]
  losses,  \* connections lost and answers that were late
  refused  \* connects that raised

vars == <<shared, opened, open, alive, lock, req, losses, refused>>
clients == <<shared, opened, open, alive>>

Stages == {"idle", "get", "connecting", "publishing", "reset", "closing",
           "sent", "failed"}

Init ==
  /\ shared = 0 /\ opened = 0 /\ open = {} /\ alive = {}
  /\ lock = Nobody
  /\ req = [r \in Requests |-> [pc |-> "idle", try |-> 1, client |-> 0]]
  /\ losses = 0 /\ refused = 0

Go(r, pc) == req' = [req EXCEPT ![r].pc = pc]
Use(r, c) == req' = [req EXCEPT ![r].pc = "publishing", ![r].client = c]

(* After a failed attempt: the loop of _publish_command runs twice. *)
Again(r) ==
  req' = [req EXCEPT ![r] = [pc |-> IF req[r].try = 1 THEN "get" ELSE "failed",
                             try |-> 2, client |-> req[r].client]]

Request(r) ==
  /\ req[r].pc = "idle"
  /\ Go(r, "get")
  /\ UNCHANGED <<clients, lock, losses, refused>>

GetClient(r) ==
  /\ req[r].pc = "get" /\ lock = Nobody
  /\ IF shared # 0 THEN Use(r, shared) /\ UNCHANGED lock
                   ELSE Go(r, "connecting") /\ lock' = r
  /\ UNCHANGED <<clients, losses, refused>>

Connected(r) ==
  /\ req[r].pc = "connecting"
  /\ opened' = opened + 1 /\ shared' = opened'
  /\ open' = open \cup {opened'} /\ alive' = alive \cup {opened'}
  /\ Use(r, opened')
  /\ lock' = Nobody
  /\ UNCHANGED <<losses, refused>>

(* Mutant: the lock is not released when connecting raises. *)
ConnectErrorHolding(r) ==
  /\ req[r].pc = "connecting"
  /\ refused < MaxRefused /\ refused' = refused + 1
  /\ Go(r, "failed")
  /\ UNCHANGED <<clients, lock, losses>>

(* The error of a connect leaves _publish_command at once. *)
ConnectError(r) ==
  /\ req[r].pc = "connecting"
  /\ refused < MaxRefused /\ refused' = refused + 1
  /\ Go(r, "failed")
  /\ lock' = Nobody
  /\ UNCHANGED <<clients, losses>>

Published(r) ==
  /\ req[r].pc = "publishing"
  /\ req[r].client \in alive
  /\ Go(r, "sent")
  /\ UNCHANGED <<clients, lock, losses, refused>>

(* The connection is down, or the broker's answer is late. *)
PublishError(r) ==
  /\ req[r].pc = "publishing"
  /\ \/ req[r].client \notin alive /\ UNCHANGED losses
     \/ losses < MaxLosses /\ losses' = losses + 1
  /\ Go(r, "reset")
  /\ UNCHANGED <<clients, lock, refused>>

(* Mutants: whatever client there is now is dropped; the lock is released  *)
(* before the client is closed.                                            *)
ResetAny(r) ==
  /\ req[r].pc = "reset" /\ lock = Nobody
  /\ req' = [req EXCEPT ![r].pc = "closing", ![r].client = shared]
  /\ shared' = 0 /\ lock' = r
  /\ UNCHANGED <<opened, open, alive, losses, refused>>

ResetUnlocked(r) ==
  /\ req[r].pc = "reset" /\ lock = Nobody
  /\ IF shared # req[r].client
     THEN Again(r) /\ UNCHANGED shared
     ELSE Go(r, "closing") /\ shared' = 0
  /\ UNCHANGED <<opened, open, alive, lock, losses, refused>>

(* Somebody else may have dropped the failed client already. *)
ResetClient(r) ==
  /\ req[r].pc = "reset" /\ lock = Nobody
  /\ IF shared # req[r].client
     THEN Again(r) /\ UNCHANGED <<shared, lock>>
     ELSE Go(r, "closing") /\ shared' = 0 /\ lock' = r
  /\ UNCHANGED <<opened, open, alive, losses, refused>>

ClientClosed(r) ==
  /\ req[r].pc = "closing"
  /\ open' = open \ {req[r].client} /\ alive' = alive \ {req[r].client}
  /\ Again(r)
  /\ lock' = Nobody
  /\ UNCHANGED <<shared, opened, losses, refused>>

LoseConnection(c) ==
  /\ losses < MaxLosses /\ losses' = losses + 1
  /\ alive' = alive \ {c}
  /\ UNCHANGED <<shared, opened, open, lock, req, refused>>

(* The end of lifespan: no request is running any more. *)
Close ==
  /\ \A r \in Requests : req[r].pc \in {"idle", "sent", "failed"}
  /\ shared # 0
  /\ shared' = 0
  /\ open' = open \ {shared} /\ alive' = alive \ {shared}
  /\ UNCHANGED <<opened, lock, req, losses, refused>>

Step(r) ==
  \/ GetClient(r) \/ Connected(r) \/ ConnectError(r) \/ Published(r)
  \/ PublishError(r) \/ ResetClient(r) \/ ClientClosed(r)

Next == (\E r \in Requests : Request(r) \/ Step(r))
          \/ (\E c \in alive : LoseConnection(c)) \/ Close

Spec == Init /\ [][Next]_vars
FairSpec == Spec /\ \A r \in Requests : WF_vars(Step(r))
-------------------------------------------------------------------------------
TypeOK ==
  /\ opened \in Nat /\ shared \in 0 .. opened
  /\ open \subseteq 1 .. opened /\ alive \subseteq open
  /\ lock \in Requests \cup {Nobody}
  /\ req \in [Requests -> [pc : Stages, try : {1, 2}, client : 0 .. opened]]
  /\ losses \in 0 .. MaxLosses /\ refused \in 0 .. MaxRefused

(* However many requests fail at once, the backend never holds two         *)
(* connections to the broker, and the one it holds is the shared one or    *)
(* the one being closed.                                                   *)
OneConnection ==
  /\ Cardinality(open) <= 1
  /\ \A c \in open : c = shared
       \/ \E r \in Requests : req[r].pc = "closing" /\ req[r].client = c

(* One lost connection or late answer costs no command, though every       *)
(* request in flight used that client and each of them resets it: a reset  *)
(* never closes the client that replaced the failed one.                   *)
OneLossIsRetried ==
  losses <= 1 /\ refused = 0 => \A r \in Requests : req[r].pc # "failed"

(* No request waits for the lock forever. *)
Finishes ==
  \A r \in Requests : req[r].pc = "get" ~> req[r].pc \in {"sent", "failed"}
===============================================================================
