--------------------------------- MODULE Mqtt ---------------------------------
(***************************************************************************)
(* What the code relies on of the MQTT broker and its client library: a    *)
(* topic is a FIFO towards its one subscriber, a message for a subscriber  *)
(* with a clean session reaches it if it is there and nobody otherwise,    *)
(* and a subscriber that loses its connection keeps the messages it has    *)
(* received and loses those the broker still held.                         *)
(***************************************************************************)
EXTENDS Naturals, Sequences, Functions

Deliver(queue, message, present) ==
  IF present THEN Append(queue, message) ELSE queue

Kept(queue) == {SubSeq(queue, 1, n) : n \in 0..Len(queue)}
===============================================================================
