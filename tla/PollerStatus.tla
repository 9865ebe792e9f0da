----------------------------- MODULE PollerStatus -----------------------------
(***************************************************************************)
(* What the broker is told of one object, independently of zones, panels   *)
(* and the order in which coroutines are cancelled: how a poller looks     *)
(* from outside.                                                           *)
(*                                                                         *)
(*   running   a poller was started and not stopped                        *)
(*   word      the retained agent_status message, or Nothing               *)
(*   lost      a publication has failed, or the process has died           *)
(*                                                                         *)
(* One poller runs at a time.  It begins with "starting" and ends with     *)
(* "stopped", and only in between does it say anything.  A publication     *)
(* that raises may have been delivered all the same.                       *)
(***************************************************************************)
CONSTANT Nothing

VARIABLES running, word, lost

svars == <<running, word, lost>>

Init == running = FALSE /\ word = Nothing /\ lost = FALSE

Lost(s) == lost' = TRUE /\ word' \in {word, s}
Publish(s) == \/ word' = s /\ UNCHANGED lost
              \/ Lost(s)

Start == /\ ~running
         /\ running' = TRUE
         /\ word' = "starting" /\ UNCHANGED lost

(* A poller that could not say "starting" does not run. *)
StartError == ~running /\ UNCHANGED running /\ Lost("starting")

Report(s) == running /\ UNCHANGED running /\ Publish(s)

Stop == running /\ running' = FALSE /\ Publish("stopped")

(* Something is lost that is of no concern to this object. *)
LostElsewhere == lost' = TRUE /\ UNCHANGED <<running, word>>

Next == \/ Start \/ StartError \/ Stop \/ LostElsewhere
        \/ \E s \in {"online", "offline"} : Report(s)

Spec == Init /\ [][Next]_svars
-------------------------------------------------------------------------------
(* As long as nothing is lost, an object nobody polls is "stopped" or was  *)
(* never spoken of, and one that is polled is not "stopped".               *)
WordIsTrue ==
  ~lost => IF running THEN word \in {"starting", "online", "offline"}
                      ELSE word \in {"stopped", Nothing}
===============================================================================
