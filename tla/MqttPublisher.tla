---------------------------- MODULE MqttPublisher ----------------------------
(***************************************************************************)
(* The agent's MQTT publisher: one client, used by the coroutines of every *)
(* poller for events, statuses and acks.  _publish tries twice and opens   *)
(* the client again when it is gone; _connect and _disconnect take no      *)
(* lock.  Every client has the same identifier, so the broker ends the     *)
(* connection of the one that was connected before.  Clients are numbered  *)
(* in the order in which they are opened; 0 is no client.                  *)
(***************************************************************************)
EXTENDS Naturals, FiniteSets

CONSTANTS
  Callers,    \* coroutines that publish
  MaxCalls,   \* bound: publications
  MaxLosses,  \* bound: connections lost and answers that are late
  MaxRefused  \* bound: attempts to connect that raise

PublisherAssumption ==
  MaxCalls \in Nat /\ MaxLosses \in Nat /\ MaxRefused \in Nat

VARIABLES
  slot,    \* _client
  opened,  \* clients opened so far
  open,    \* clients entered and not exited
  alive,   \* clients the broker is connected to
  call,    \* each caller: [pc, try, client]
  calls,   \* publications begun
  losses,  \* connections lost and answers that were late
  refused, \* connects that raised
  alone    \* history: callers that nobody joined since their call began

vars == <<slot, opened, open, alive, call, calls, losses, refused, alone>>

Stages == {"idle", "connecting", "publishing", "closing", "sent", "failed"}

(* __aenter__ has connected the first client. *)
Init ==
  /\ slot = 1 /\ opened = 1 /\ open = {1} /\ alive = {1}
  /\ call = [p \in Callers |-> [pc |-> "idle", try |-> 1, client |-> 0]]
  /\ calls = 0 /\ losses = 0 /\ refused = 0 /\ alone = {}

(* The next attempt of _publish finds the client of now. *)
Attempt(try) == [pc |-> IF slot = 0 THEN "connecting" ELSE "publishing",
                 try |-> try, client |-> slot]

(* Mutant: no second attempt. *)
AgainNever(c) == [c EXCEPT !.pc = "failed"]

(* Its loop runs twice. *)
Again(c) == IF c.try = 1 THEN Attempt(2) ELSE [c EXCEPT !.pc = "failed"]

Resting == {p \in Callers : call[p].pc \in {"idle", "sent", "failed"}}

Publish(p) ==
  /\ p \in Resting
  /\ calls < MaxCalls /\ calls' = calls + 1
  /\ alone' = IF Resting = Callers THEN {p} ELSE {}
  /\ call' = [call EXCEPT ![p] = Attempt(1)]
  /\ UNCHANGED <<slot, opened, open, alive, losses, refused>>

(* Mutant: the closed client stays in _client. *)
DropKeeping(p) ==
  /\ call' = [call EXCEPT ![p] = IF slot = 0 THEN Again(@)
                                 ELSE [pc |-> "closing", try |-> @.try, client |-> slot]]
  /\ UNCHANGED slot

(* _disconnect takes the client of now, whichever it is. *)
Drop(p) ==
  /\ slot' = 0
  /\ call' = [call EXCEPT ![p] = IF slot = 0 THEN Again(@)
                                 ELSE [pc |-> "closing", try |-> @.try, client |-> slot]]

(* The broker lets the new client in and the old ones go. *)
Connected(p) ==
  /\ call[p].pc = "connecting"
  /\ opened' = opened + 1 /\ slot' = opened'
  /\ open' = open \cup {opened'} /\ alive' = {opened'}
  /\ call' = [call EXCEPT ![p].pc = "publishing", ![p].client = opened']
  /\ UNCHANGED <<calls, losses, refused, alone>>

ConnectError(p) ==
  /\ call[p].pc = "connecting"
  /\ refused < MaxRefused /\ refused' = refused + 1
  /\ Drop(p)
  /\ UNCHANGED <<opened, open, alive, calls, losses, alone>>

Published(p) ==
  /\ call[p].pc = "publishing"
  /\ call[p].client \in alive
  /\ call' = [call EXCEPT ![p].pc = "sent"]
  /\ UNCHANGED <<slot, opened, open, alive, calls, losses, refused, alone>>

(* The connection is down, or the broker's answer is late. *)
PublishError(p) ==
  /\ call[p].pc = "publishing"
  /\ \/ call[p].client \notin alive /\ UNCHANGED losses
     \/ losses < MaxLosses /\ losses' = losses + 1
  /\ Drop(p)
  /\ UNCHANGED <<opened, open, alive, calls, refused, alone>>

Disconnected(p) ==
  /\ call[p].pc = "closing"
  /\ open' = open \ {call[p].client} /\ alive' = alive \ {call[p].client}
  /\ call' = [call EXCEPT ![p] = Again(@)]
  /\ UNCHANGED <<slot, opened, calls, losses, refused, alone>>

LoseConnection(c) ==
  /\ losses < MaxLosses /\ losses' = losses + 1
  /\ alive' = alive \ {c}
  /\ UNCHANGED <<slot, opened, open, call, calls, refused, alone>>

Step(p) ==
  \/ Connected(p) \/ ConnectError(p) \/ Published(p)
  \/ PublishError(p) \/ Disconnected(p)

Next == (\E p \in Callers : Publish(p) \/ Step(p))
          \/ \E c \in alive : LoseConnection(c)

Spec == Init /\ [][Next]_vars
-------------------------------------------------------------------------------
TypeOK ==
  /\ opened \in Nat \ {0} /\ slot \in 0 .. opened
  /\ open \subseteq 1 .. opened /\ alive \subseteq open
  /\ call \in [Callers -> [pc : Stages, try : {1, 2}, client : 0 .. opened]]
  /\ calls \in 0 .. MaxCalls
  /\ losses \in 0 .. MaxLosses /\ refused \in 0 .. MaxRefused
  /\ alone \subseteq Callers

(* The publisher never offers a client that was closed: whoever closes one *)
(* took it out of _client before.                                          *)
SlotIsOpen == slot # 0 => slot \in open

(* One lost connection, late answer or refused connect costs no            *)
(* publication that no other joined, whatever collided before it began:    *)
(* colliding calls leave _client such that the next call finds it open or  *)
(* connects.                                                               *)
OneLossIsRetried ==
  losses + refused <= 1 => \A p \in alone : call[p].pc # "failed"
===============================================================================
