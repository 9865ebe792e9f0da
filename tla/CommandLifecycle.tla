--------------------------- MODULE CommandLifecycle ---------------------------
(***************************************************************************)
(* The life of zone commands for one object, from the HTTP request to the  *)
(* Modbus write and back:                                                  *)
(*                                                                         *)
(*   backend request handler   send_zone_command, _publish_command         *)
(*   broker                    one FIFO to the agent, one to the backend;  *)
(*                             clean sessions, QoS 1                       *)
(*   edge commands listener    _commands_listener, _execute_command        *)
(*   backend MQTT worker       _handle_command_ack                         *)
(*                                                                         *)
(* Every action is the code between two awaits of one coroutine.  The set  *)
(* Faults says which failures may happen:                                  *)
(*   "publish"     a publication of a command raises (delivered or not)    *)
(*   "ack"         a publication of an ack raises (delivered or not)       *)
(*   "modbus"      connecting or writing the register raises               *)
(*   "disconnect"  a subscriber loses its MQTT connection                  *)
(*   "restart"     the agent or the backend process is restarted           *)
(*   "zones"       operators add and delete zones                          *)
(***************************************************************************)
EXTENDS Mqtt, FiniteSets

CONSTANTS
  Commands,    \* the command_ids (uuid4: never reused)
  Zones,       \* zone numbers of the object
  NoZone,      \* target of a command that has not been requested yet
  NoCommand,   \* what the idle listener works on
  Faults,      \* the failures that may happen
  MaxSends,    \* how often pymodbus sends one request: once, and its retries
  MaxAcks      \* bound: acks the broker holds for the backend at one time

FaultKinds == {"publish", "ack", "modbus", "disconnect", "restart", "zones"}

ASSUME SentinelAssumption == NoZone \notin Zones /\ NoCommand \notin Commands
ASSUME FaultsAssumption   == Faults \subseteq FaultKinds
ASSUME BoundAssumption    == MaxAcks \in Nat \ {0}
ASSUME SendsAssumption    == MaxSends \in Nat \ {0}

VARIABLES
  dbZones,    \* the zones of the object in the backend's database
  edgeZones,  \* ObjectPoller.zones: the agent's copy
  status,     \* command_logs.status, "none" while the row does not exist
  completed,  \* command_logs.completed_at is set
  target,     \* command_logs.zone_number and the payload's zone_number
  handler,    \* where the request's coroutine is
  wire,       \* commands published and not yet taken by the listener
  listening,  \* the listener is subscribed to the commands topic
  edge,       \* the listener: [pc, cmd, try]
  writes,     \* how often each command reached the control register
  acks,       \* acks published and not yet taken by the worker
  subscribed  \* the worker is subscribed to the ack topic

journal == <<status, completed, target>>
zoneVars == <<dbZones, edgeZones>>
toEdge == <<wire, listening>>
toCore == <<acks, subscribed>>
vars == <<dbZones, edgeZones, status, completed, target, handler, wire,
          listening, edge, writes, acks, subscribed>>

HandlerStates == {"idle", "try1", "try2", "published", "unpublished",
                  "done", "lost"}
Publishing == {"try1", "try2"}
EdgeStates == {"idle", "working", "missing", "executed", "failed"}
Outcomes == {"executed", "failed"}
Listeners == [pc : EdgeStates, cmd : Commands \cup {NoCommand}, try : 1..2]
Acks == [cmd : Commands, zone : Zones \cup {NoZone}, status : Outcomes]
Idle == [pc |-> "idle", cmd |-> NoCommand, try |-> 1]

TypeOK ==
  /\ dbZones \subseteq Zones
  /\ edgeZones \subseteq Zones
  /\ status \in [Commands -> {"none", "pending", "sent"} \cup Outcomes]
  /\ completed \in [Commands -> BOOLEAN]
  /\ target \in [Commands -> Zones \cup {NoZone}]
  /\ handler \in [Commands -> HandlerStates]
  /\ wire \in Seq(Commands)
  /\ listening \in BOOLEAN
  /\ edge \in Listeners
  /\ edge.pc # "idle" => edge.cmd \in Commands
  /\ writes \in [Commands -> Nat]
  /\ acks \in Seq(Acks)
  /\ subscribed \in BOOLEAN

Init ==
  /\ dbZones = Zones
  /\ edgeZones \in SUBSET Zones
  /\ status = [c \in Commands |-> "none"]
  /\ completed = [c \in Commands |-> FALSE]
  /\ target = [c \in Commands |-> NoZone]
  /\ handler = [c \in Commands |-> "idle"]
  /\ wire = <<>> /\ listening = TRUE
  /\ edge = Idle
  /\ writes = [c \in Commands |-> 0]
  /\ acks = <<>> /\ subscribed = TRUE

-------------------------------------------------------------------------------
(* Publications. *)

DeliverCommand(c) == wire' = Deliver(wire, c, listening)

DeliverAck(a) ==
  /\ Len(acks) < MaxAcks
  /\ acks' = Deliver(acks, a, subscribed)

-------------------------------------------------------------------------------
(* The request handler in the backend. *)

(* Mutant: the row is committed after the publication. *)
SubmitUnlogged(c, z) ==
  /\ handler[c] = "idle"
  /\ z \in dbZones
  /\ target' = [target EXCEPT ![c] = z]
  /\ handler' = [handler EXCEPT ![c] = "try1"]
  /\ UNCHANGED <<zoneVars, status, completed, toEdge, edge, writes, toCore>>

(* Checked and committed as "pending" before anything is published. *)
Submit(c, z) ==
  /\ handler[c] = "idle"
  /\ z \in dbZones
  /\ status' = [status EXCEPT ![c] = "pending"]
  /\ target' = [target EXCEPT ![c] = z]
  /\ handler' = [handler EXCEPT ![c] = "try1"]
  /\ UNCHANGED <<zoneVars, completed, toEdge, edge, writes, toCore>>

PublishCommand(c) ==
  /\ handler[c] \in Publishing
  /\ DeliverCommand(c)
  /\ handler' = [handler EXCEPT ![c] = "published"]
  /\ UNCHANGED <<zoneVars, journal, listening, edge, writes, toCore>>

(* Mutant: retries without a limit. *)
PublishUntilItWorks(c) ==
  /\ "publish" \in Faults
  /\ handler[c] \in Publishing
  /\ DeliverCommand(c) \/ UNCHANGED wire
  /\ UNCHANGED <<zoneVars, journal, handler, listening, edge, writes, toCore>>

(* publish raised: the broker may have the message all the same. *)
PublishCommandError(c) ==
  /\ "publish" \in Faults
  /\ handler[c] \in Publishing
  /\ DeliverCommand(c) \/ UNCHANGED wire
  /\ handler' = [handler EXCEPT ![c] = IF @ = "try1" THEN "try2"
                                                     ELSE "unpublished"]
  /\ UNCHANGED <<zoneVars, journal, listening, edge, writes, toCore>>

(* Opening the client raised: that is not retried. *)
ConnectError(c) ==
  /\ "publish" \in Faults
  /\ handler[c] \in Publishing
  /\ handler' = [handler EXCEPT ![c] = "unpublished"]
  /\ UNCHANGED <<zoneVars, journal, toEdge, edge, writes, toCore>>

(* Mutants: the row is written after the answer; the answer reopens it. *)
RecordSentLate(c) ==
  /\ handler[c] \in {"published", "done"}
  /\ status' = [status EXCEPT ![c] = "sent"]
  /\ handler' = [handler EXCEPT ![c] = "done"]
  /\ UNCHANGED <<zoneVars, completed, target, toEdge, edge, writes, toCore>>

RecordSentReopening(c) ==
  /\ handler[c] = "published"
  /\ status' = [status EXCEPT ![c] = "sent"]
  /\ completed' = [completed EXCEPT ![c] = FALSE]
  /\ handler' = [handler EXCEPT ![c] = "done"]
  /\ UNCHANGED <<zoneVars, target, toEdge, edge, writes, toCore>>

RecordSent(c) ==
  /\ handler[c] = "published"
  /\ status' = [status EXCEPT ![c] = "sent"]
  /\ handler' = [handler EXCEPT ![c] = "done"]
  /\ UNCHANGED <<zoneVars, completed, target, toEdge, edge, writes, toCore>>

RecordUnsent(c) ==
  /\ handler[c] = "unpublished"
  /\ status' = [status EXCEPT ![c] = "failed"]
  /\ completed' = [completed EXCEPT ![c] = TRUE]
  /\ handler' = [handler EXCEPT ![c] = "done"]
  /\ UNCHANGED <<zoneVars, target, toEdge, edge, writes, toCore>>

-------------------------------------------------------------------------------
(* The commands listener in the agent: one command at a time. *)

(* Mutant: a command for a zone the agent does not know is dropped. *)
ReceiveSilently ==
  /\ edge.pc = "idle"
  /\ wire # <<>>
  /\ edge' = IF target[Head(wire)] \in edgeZones
             THEN [pc |-> "working", cmd |-> Head(wire), try |-> 1] ELSE Idle
  /\ wire' = Tail(wire)
  /\ UNCHANGED <<zoneVars, journal, handler, listening, writes, toCore>>

Receive ==
  /\ edge.pc = "idle"
  /\ wire # <<>>
  /\ edge' = [pc  |-> IF target[Head(wire)] \in edgeZones THEN "working"
                                                         ELSE "missing",
              cmd |-> Head(wire), try |-> 1]
  /\ wire' = Tail(wire)
  /\ UNCHANGED <<zoneVars, journal, handler, listening, writes, toCore>>

(* The register gets the n requests of one call.  pymodbus sends a request *)
(* again when its answer does not come in time.                            *)
Reach(n) == writes' = [writes EXCEPT ![edge.cmd] = @ + n]

WriteRegister ==
  /\ edge.pc = "working"
  /\ \E n \in 1 .. MaxSends : Reach(n)
  /\ edge' = [edge EXCEPT !.pc = "executed"]
  /\ UNCHANGED <<zoneVars, journal, handler, toEdge, toCore>>

(* connect or write raised: the register may have been written all the same *)
(* (the answers were lost or late).                                         *)
WriteError ==
  /\ "modbus" \in Faults
  /\ edge.pc = "working"
  /\ \E n \in 0 .. MaxSends : Reach(n)
  /\ edge' = [edge EXCEPT !.pc = "failed"]
  /\ UNCHANGED <<zoneVars, journal, handler, toEdge, toCore>>

(* Mutant: a failed write is acknowledged like a good one. *)
AckOfOptimistic(e) ==
  [cmd |-> e.cmd, zone |-> target[e.cmd],
   status |-> IF e.pc = "missing" THEN "failed" ELSE "executed"]

AckOf(e) == [cmd |-> e.cmd, zone |-> target[e.cmd],
             status |-> IF e.pc = "executed" THEN "executed" ELSE "failed"]

PublishAck ==
  /\ edge.pc \in {"missing", "executed", "failed"}
  /\ DeliverAck(AckOf(edge))
  /\ edge' = Idle
  /\ UNCHANGED <<zoneVars, journal, handler, toEdge, writes, subscribed>>

(* Mutant: the second attempt is not the last. *)
AfterAckErrorAgain(e) ==
  IF e.try <= 2 THEN [e EXCEPT !.try = @ + 1]
  ELSE IF e.pc = "executed" THEN [e EXCEPT !.pc = "failed", !.try = 1]
  ELSE Idle

(* Two attempts; a lost "executed" falls into the handler that reports     *)
(* "failed", a lost "failed" and a lost "missing" are only logged.         *)
AfterAckError(e) ==
  IF e.try = 1 THEN [e EXCEPT !.try = 2]
  ELSE IF e.pc = "executed" THEN [e EXCEPT !.pc = "failed", !.try = 1]
  ELSE Idle

PublishAckError ==
  /\ "ack" \in Faults
  /\ edge.pc \in {"missing", "executed", "failed"}
  /\ DeliverAck(AckOf(edge)) \/ UNCHANGED acks
  /\ edge' = AfterAckError(edge)
  /\ UNCHANGED <<zoneVars, journal, handler, toEdge, writes, subscribed>>

-------------------------------------------------------------------------------
(* The MQTT worker in the backend. *)

HandleAck ==
  /\ acks # <<>>
  /\ LET a == Head(acks) IN
       IF status[a.cmd] # "none" /\ target[a.cmd] = a.zone
       THEN /\ status' = [status EXCEPT ![a.cmd] = a.status]
            /\ completed' = [completed EXCEPT ![a.cmd] = TRUE]
       ELSE UNCHANGED <<status, completed>>
  /\ acks' = Tail(acks)
  /\ UNCHANGED <<zoneVars, target, handler, toEdge, edge, writes, subscribed>>

-------------------------------------------------------------------------------
(* Zones: edited in the backend, copied by the agent now and then. *)

EditZones(z) ==
  /\ "zones" \in Faults
  /\ dbZones' = IF z \in dbZones THEN dbZones \ {z} ELSE dbZones \cup {z}
  /\ UNCHANGED <<edgeZones, journal, handler, toEdge, edge, writes, toCore>>

RefreshZones ==
  /\ edgeZones # dbZones
  /\ edgeZones' = dbZones
  /\ UNCHANGED <<dbZones, journal, handler, toEdge, edge, writes, toCore>>

-------------------------------------------------------------------------------
(* Connections and processes. *)

EdgeDisconnect ==
  /\ "disconnect" \in Faults
  /\ listening
  /\ listening' = FALSE
  /\ wire' \in Kept(wire)
  /\ UNCHANGED <<zoneVars, journal, handler, edge, writes, toCore>>

EdgeSubscribe ==
  /\ ~listening
  /\ edge.pc = "idle" /\ wire = <<>>
  /\ listening' = TRUE
  /\ UNCHANGED <<zoneVars, journal, handler, wire, edge, writes, toCore>>

CoreDisconnect ==
  /\ "disconnect" \in Faults
  /\ subscribed
  /\ subscribed' = FALSE
  /\ acks' \in Kept(acks)
  /\ UNCHANGED <<zoneVars, journal, handler, toEdge, edge, writes>>

CoreSubscribe ==
  /\ ~subscribed
  /\ acks = <<>>
  /\ subscribed' = TRUE
  /\ UNCHANGED <<zoneVars, journal, handler, toEdge, edge, writes, acks>>

EdgeRestart ==
  /\ "restart" \in Faults
  /\ edgeZones' = {}
  /\ wire' = <<>> /\ listening' = FALSE
  /\ edge' = Idle
  /\ UNCHANGED <<dbZones, journal, handler, writes, toCore>>

(* Rows survive; the coroutines of running requests do not. *)
CoreRestart ==
  /\ "restart" \in Faults
  /\ handler' = [c \in Commands |->
                   IF handler[c] \in {"idle", "done"} THEN handler[c]
                                                      ELSE "lost"]
  /\ acks' = <<>> /\ subscribed' = FALSE
  /\ UNCHANGED <<zoneVars, journal, toEdge, edge, writes>>

-------------------------------------------------------------------------------
Request(c) ==
  \/ \E z \in Zones : Submit(c, z)
  \/ PublishCommand(c) \/ PublishCommandError(c) \/ ConnectError(c)
  \/ RecordSent(c) \/ RecordUnsent(c)

Listener ==
  Receive \/ WriteRegister \/ WriteError \/ PublishAck \/ PublishAckError

Environment ==
  \/ \E z \in Zones : EditZones(z)
  \/ RefreshZones
  \/ EdgeDisconnect \/ EdgeSubscribe \/ CoreDisconnect \/ CoreSubscribe
  \/ EdgeRestart \/ CoreRestart

Next == (\E c \in Commands : Request(c)) \/ Listener \/ HandleAck \/ Environment

Spec == Init /\ [][Next]_vars

(* asyncio resumes every ready coroutine, so each step that stays enabled  *)
(* is taken; failures, requests and edits owe nothing.                     *)
Fairness ==
  /\ \A c \in Commands : WF_vars(PublishCommand(c) \/ RecordSent(c)
                                                   \/ RecordUnsent(c))
  /\ WF_vars(Receive) /\ WF_vars(WriteRegister) /\ WF_vars(PublishAck)
  /\ WF_vars(HandleAck)
  /\ WF_vars(EdgeSubscribe) /\ WF_vars(CoreSubscribe)

FairSpec == Spec /\ Fairness
-------------------------------------------------------------------------------
(* Copies of c between the broker and the listener. *)
CopiesOnWire(c) == Cardinality({i \in DOMAIN wire : wire[i] = c})

(* The journal says "executed" only of a command whose register was        *)
(* written: the worker trusts the ack, and the agent sends that ack only   *)
(* after write_register returned.                                          *)
ExecutedWasWritten == \A c \in Commands : status[c] = "executed" => writes[c] > 0

(* Whatever is in flight, being worked on or done to the panel belongs to  *)
(* a committed journal row: the row is committed before the publication,   *)
(* so the worker never meets an ack it does not know.                      *)
LoggedFirst ==
  /\ \A c \in Range(wire) : status[c] # "none"
  /\ edge.pc # "idle" => status[edge.cmd] # "none"
  /\ \A a \in Range(acks) : status[a.cmd] # "none"
  /\ \A c \in Commands : writes[c] > 0 => status[c] # "none"

(* The calls of write_register that may still come of what is under way. *)
CallsDue(c) ==
  CopiesOnWire(c) + (IF edge.pc = "working" /\ edge.cmd = c THEN 1 ELSE 0)

(* A request publishes at most twice and the agent does not deduplicate:   *)
(* write_register is called at most twice for one command, so the register *)
(* is reached at most 2 * MaxSends times, whatever fails.                  *)
DuplicatesBounded ==
  \A c \in Commands : writes[c] + MaxSends * CallsDue(c) <= 2 * MaxSends

(* completed_at is set whenever the status is final, whichever of the two  *)
(* coroutines wrote the row last.                                          *)
FinalIsCompleted == \A c \in Commands : status[c] \in Outcomes => completed[c]

(* Once the request has been answered no step takes a final status back:   *)
(* only the answer itself can overwrite an ack that was faster.            *)
AnsweredIsFinal ==
  [][\A c \in Commands :
        handler[c] = "done" /\ status[c] \in Outcomes => status'[c] \in Outcomes]_vars

(* The journal seen alone behaves as CommandJournal promises. *)
J == INSTANCE CommandJournal WITH
       applied <- {c \in Commands : writes[c] > 0},
       replied <- {c \in Commands : handler[c] = "done"}

JournalSpec == J!Spec

(* If acks are not lost, every request ends with completed_at set, even if *)
(* its publication fails, the panel fails or the zone has disappeared.     *)
Answered == \A c \in Commands : status[c] = "pending" ~> completed[c]

(* What the row says while it is "sent": "waiting for the agent's          *)
(* confirmation" (detail written with the status), so none has arrived.    *)
SentAwaitsAck == \A c \in Commands : status[c] = "sent" => ~completed[c]
===============================================================================
