---------------------------- MODULE AgentSupervisor ----------------------------
(***************************************************************************)
(* The agent's main coroutine (run) and the backend's table of objects.    *)
(* run keeps one poller per object that has a Modbus host: it compares the *)
(* objects it knows with those the backend lists, stops and starts         *)
(* pollers one after the other, and stops them all before it exits; the    *)
(* shell then starts it again.  The pollers' retained statuses go to the   *)
(* backend's MQTT worker, which creates an object it does not find         *)
(* (_ensure_object).                                                       *)
(*                                                                         *)
(* A poller is its object's Modbus settings; what it does in between is    *)
(* EdgePoller's subject.  Failures, of which at most MaxFaults happen:     *)
(*   "http"     the backend does not answer a request for the objects      *)
(*   "status"   publish_agent_status raises; the broker has it or not      *)
(*   "control"  the control listener's connection fails                    *)
(*   "restart"  an administrator restarts the agent                        *)
(*   "crash"    the agent's process dies                                   *)
(*   "worker"   the worker's connection is lost                            *)
(*   "database" the worker's transaction fails, which costs the message    *)
(***************************************************************************)
EXTENDS Naturals, Sequences, SequencesExt

CONSTANTS
  Objects,    \* object_ids
  Hosts,      \* Modbus settings with a modbus_host
  Blank,      \* the settings of an object created by the worker: no host
  Absent,     \* no row, no poller, no status
  Faults, MaxFaults,  \* the failures that may happen, and how many
  MaxEdits,   \* bound: edits of the objects
  MaxQueue    \* bound: statuses in the worker's queue when a poller adds one

ASSUME ObjectsAssumption == IsFiniteSet(Objects)
ASSUME BoundsAssumption ==
  MaxFaults \in Nat /\ MaxEdits \in Nat /\ MaxQueue \in Nat

VARIABLES
  rows,      \* the objects table
  deleted,   \* objects an operator deleted and did not create again
  statuses,  \* the agent_status table
  retained,  \* the retained agent_status message of each object
  inbox,     \* statuses on their way to the worker: [object, status]
  worker,    \* the worker is subscribed
  pc, todo,  \* where run is, and the objects it has still to treat there
  known,     \* current_objects
  new,       \* new_objects
  pollers,   \* the settings each running poller was started with
  control,   \* the control listener: "off", "on" or "dead"
  stop,      \* stop_event
  faults,    \* how many failures, and which of those excused below
  edits

vars == <<rows, deleted, statuses, retained, inbox, worker, pc, todo, known,
          new, pollers, control, stop, faults, edits>>
backend == <<rows, deleted, statuses, edits>>
broker  == <<retained, inbox, worker>>
signals == <<control, stop>>

None == [o \in Objects |-> Absent]
Says == {"starting", "online", "offline", "stopped"}
ASSUME SettingsAssumption ==
  Blank \notin Hosts /\ Absent \notin Hosts \cup {Blank} \cup Says
Places == {"load", "start", "wait", "remove", "add", "exit", "down"}

Init ==
  /\ rows \in [Objects -> Hosts \cup {Blank, Absent}]
  /\ deleted = {} /\ statuses = None
  /\ retained = None /\ inbox = <<>> /\ worker = TRUE
  /\ pc = "load" /\ todo = {}
  /\ known = None /\ new = None /\ pollers = None
  /\ control = "off" /\ stop = FALSE
  /\ faults = [count |-> 0, kinds |-> {}] /\ edits = 0

(* Failures after which nothing is said or done again. *)
LostForGood == {"status", "crash", "database"}

Fail(kind) == /\ kind \in Faults
              /\ faults.count < MaxFaults
              /\ faults' = [count |-> faults.count + 1,
                            kinds |-> faults.kinds \cup ({kind} \cap LostForGood)]
Spared(kinds) == kinds \cap faults.kinds = {}

Publish(o, s) ==
  /\ retained' = [retained EXCEPT ![o] = s]
  /\ inbox' = IF worker THEN Append(inbox, [object |-> o, status |-> s]) ELSE inbox
  /\ UNCHANGED worker
PublishError(o, s) ==
  Fail("status") /\ (Publish(o, s) \/ UNCHANGED broker)

-------------------------------------------------------------------------------
(* run: the objects are loaded (or given up after ten attempts) and a      *)
(* poller is started for each that has a host.                             *)
Load ==
  /\ pc = "load"
  /\ \/ known' = rows /\ UNCHANGED faults
     \/ known' = None /\ Fail("http")
  /\ new' = known'
  /\ pc' = "start" /\ todo' = {o \in Objects : known'[o] # Absent}
  /\ UNCHANGED <<backend, broker, pollers, signals>>

(* Mutant: pollers start without a look at the host. *)
StartPollerUnchecked(o) ==
  /\ pc \in {"start", "add"}
  /\ o \in todo /\ todo' = todo \ {o}
  /\ Publish(o, "starting") /\ pollers' = [pollers EXCEPT ![o] = new[o]]
  /\ UNCHANGED <<backend, pc, known, new, signals, faults>>

(* A start that fails leaves the object without a poller. *)
StartPoller(o) ==
  /\ pc \in {"start", "add"}
  /\ o \in todo /\ todo' = todo \ {o}
  /\ IF new[o] \notin Hosts
     THEN UNCHANGED <<broker, pollers, faults>>
     ELSE \/ /\ Publish(o, "starting") /\ UNCHANGED faults
             /\ pollers' = [pollers EXCEPT ![o] = new[o]]
          \/ /\ PublishError(o, "starting")
             /\ UNCHANGED pollers
  /\ UNCHANGED <<backend, pc, known, new, signals>>

Started ==
  /\ pc \in {"start", "add"} /\ todo = {}
  /\ pc' = "wait" /\ known' = new
  /\ UNCHANGED <<backend, broker, todo, new, pollers, signals, faults>>

(* Mutant: pollers of changed objects are not stopped. *)
PollObjectsRemoved ==
  /\ pc = "wait" /\ ~stop
  /\ \/ rows = known /\ UNCHANGED <<pc, todo, new>>
     \/ /\ rows # known /\ new' = rows
        /\ pc' = "remove"
        /\ todo' = {o \in Objects : known[o] # Absent /\ rows[o] = Absent}
  /\ UNCHANGED <<backend, broker, known, pollers, signals, faults>>

(* poll_objects: no answer and an answer without changes end the cycle.    *)
PollObjects ==
  /\ pc = "wait" /\ ~stop
  /\ \/ Fail("http") /\ UNCHANGED <<pc, todo, new>>
     \/ rows = known /\ UNCHANGED <<pc, todo, new, faults>>
     \/ /\ rows # known /\ UNCHANGED faults
        /\ new' = rows
        /\ pc' = "remove"
        /\ todo' = {o \in Objects : known[o] # Absent /\ rows[o] # known[o]}
  /\ UNCHANGED <<backend, broker, known, pollers, signals>>

(* stop of a poller, which raises nothing. *)
StopPoller(o) ==
  /\ pc \in {"remove", "exit"}
  /\ o \in todo /\ todo' = todo \ {o}
  /\ IF pollers[o] = Absent
     THEN UNCHANGED <<broker, faults>>
     ELSE \/ Publish(o, "stopped") /\ UNCHANGED faults
          \/ PublishError(o, "stopped")
  /\ pollers' = [pollers EXCEPT ![o] = Absent]
  /\ UNCHANGED <<backend, pc, known, new, signals>>

(* Mutant: changed objects are not started again. *)
RemovedForgetting ==
  /\ pc = "remove" /\ todo = {}
  /\ pc' = "add" /\ todo' = {o \in Objects : new[o] # Absent /\ known[o] = Absent}
  /\ UNCHANGED <<backend, broker, known, new, pollers, signals, faults>>

(* Mutant: every object is started again after a change of one.            *)
RemovedAnyway ==
  /\ pc = "remove" /\ todo = {}
  /\ pc' = "add" /\ todo' = {o \in Objects : new[o] # Absent}
  /\ UNCHANGED <<backend, broker, known, new, pollers, signals, faults>>

Removed ==
  /\ pc = "remove" /\ todo = {}
  /\ pc' = "add" /\ todo' = {o \in Objects : new[o] # Absent /\ new[o] # known[o]}
  /\ UNCHANGED <<backend, broker, known, new, pollers, signals, faults>>

(* Mutant: only the pollers of objects the backend lists are stopped. *)
ExitListed ==
  /\ pc = "wait" /\ stop
  /\ pc' = "exit" /\ todo' = {o \in Objects : rows[o] # Absent}
  /\ control' = "off"
  /\ UNCHANGED <<backend, broker, known, new, pollers, stop, faults>>

(* The end of run: every poller is stopped. *)
Exit ==
  /\ pc = "wait" /\ stop
  /\ pc' = "exit" /\ todo' = {o \in Objects : pollers[o] # Absent}
  /\ control' = "off"
  /\ UNCHANGED <<backend, broker, known, new, pollers, stop, faults>>

Exited ==
  /\ pc = "exit" /\ todo = {}
  /\ pc' = "down"
  /\ UNCHANGED <<backend, broker, todo, known, new, pollers, signals, faults>>

Restart ==
  /\ pc = "down"
  /\ pc' = "load" /\ stop' = FALSE
  /\ known' = None /\ new' = None
  /\ UNCHANGED <<backend, broker, todo, pollers, control, faults>>

Crash ==
  /\ Fail("crash")
  /\ pc' = "down" /\ todo' = {} /\ pollers' = None /\ control' = "off"
  /\ UNCHANGED <<backend, broker, known, new, stop>>

-------------------------------------------------------------------------------
(* control_listener: subscribes once; an error ends it for good. *)

ControlSubscribe ==
  /\ control = "off" /\ pc \in {"wait", "remove", "add"}
  /\ control' = "on"
  /\ UNCHANGED <<backend, broker, pc, todo, known, new, pollers, stop, faults>>

ControlError ==
  /\ control # "dead" /\ pc \in {"wait", "remove", "add"}
  /\ Fail("control")
  /\ control' = "dead"
  /\ UNCHANGED <<backend, broker, pc, todo, known, new, pollers, stop>>

(* admin_restart_agent, and admin_set_mode on the way to its own restart;   *)
(* the listener returns after the message.                                 *)
RestartAgent ==
  /\ control = "on"
  /\ Fail("restart")
  /\ stop' = TRUE /\ control' = "dead"
  /\ UNCHANGED <<backend, broker, pc, todo, known, new, pollers>>

-------------------------------------------------------------------------------
(* Pollers report; the worker records, and creates objects. *)

Report(o, s) ==
  /\ pollers[o] # Absent
  /\ Len(inbox) < MaxQueue
  /\ Publish(o, s)
  /\ UNCHANGED <<backend, pc, todo, known, new, pollers, signals, faults>>

EnsureObject(o) == rows' = [rows EXCEPT ![o] = IF @ = Absent THEN Blank ELSE @]

HandleStatus ==
  /\ inbox # <<>>
  /\ EnsureObject(Head(inbox).object)
  /\ statuses' = [statuses EXCEPT ![Head(inbox).object] = Head(inbox).status]
  /\ inbox' = Tail(inbox)
  /\ UNCHANGED <<deleted, edits, retained, worker, pc, todo, known, new, pollers,
                 signals, faults>>

HandleError ==
  /\ inbox # <<>> /\ Fail("database")
  /\ inbox' = Tail(inbox)
  /\ UNCHANGED <<backend, retained, worker, pc, todo, known, new, pollers, signals>>

LoseWorker ==
  /\ worker /\ Fail("worker")
  /\ worker' = FALSE /\ inbox' = <<>>
  /\ UNCHANGED <<backend, retained, pc, todo, known, new, pollers, signals>>

(* Mutant: statuses are not retained. *)
SubscribeAfresh ==
  /\ ~worker
  /\ worker' = TRUE /\ inbox' = <<>>
  /\ UNCHANGED <<backend, retained, pc, todo, known, new, pollers, signals, faults>>

(* The broker sends a new subscriber every retained status, in any order. *)
Subscribe ==
  /\ ~worker
  /\ worker' = TRUE
  /\ inbox' \in SetToSeqs({[object |-> o, status |-> retained[o]] :
                             o \in {p \in Objects : retained[p] # Absent}})
  /\ UNCHANGED <<backend, retained, pc, todo, known, new, pollers, signals, faults>>

-------------------------------------------------------------------------------
(* Operators edit the objects. *)
SetRow(o, r) ==
  /\ edits < MaxEdits /\ edits' = edits + 1
  /\ rows' = [rows EXCEPT ![o] = r]
  /\ UNCHANGED <<statuses, broker, pc, todo, known, new, pollers, signals, faults>>

CreateObject(o, h) == rows[o] = Absent /\ SetRow(o, h) /\ deleted' = deleted \ {o}
UpdateObject(o, h) == rows[o] \notin {Absent, h} /\ SetRow(o, h) /\ UNCHANGED deleted
DeleteObject(o) == rows[o] # Absent /\ SetRow(o, Absent) /\ deleted' = deleted \cup {o}

-------------------------------------------------------------------------------
Run ==
  \/ Load \/ Started \/ PollObjects \/ Removed \/ Exit \/ Exited \/ Restart
  \/ \E o \in Objects : StartPoller(o) \/ StopPoller(o)

Control == ControlSubscribe \/ ControlError \/ RestartAgent

Operator ==
  \E o \in Objects :
    DeleteObject(o) \/ \E h \in Hosts \cup {Blank} : CreateObject(o, h) \/ UpdateObject(o, h)

Next ==
  \/ Run \/ Crash \/ Control \/ Operator
  \/ \E o \in Objects, s \in {"online", "offline"} : Report(o, s)
  \/ HandleStatus \/ HandleError \/ LoseWorker \/ Subscribe

Spec == Init /\ [][Next]_vars

(* run polls again and again, the shell restarts it, the worker handles    *)
(* what it received and reconnects; a poller owes no report.               *)
FairSpec == Spec /\ WF_vars(Run) /\ WF_vars(HandleStatus) /\ WF_vars(Subscribe)
-------------------------------------------------------------------------------
Settings == Hosts \cup {Blank, Absent}

TypeOK ==
  /\ rows \in [Objects -> Settings] /\ deleted \subseteq Objects
  /\ statuses \in [Objects -> Says \cup {Absent}]
  /\ retained \in [Objects -> Says \cup {Absent}]
  /\ inbox \in Seq([object : Objects, status : Says]) /\ worker \in BOOLEAN
  /\ pc \in Places /\ todo \subseteq Objects
  /\ known \in [Objects -> Settings] /\ new \in [Objects -> Settings]
  /\ pollers \in [Objects -> Hosts \cup {Absent}]
  /\ control \in {"off", "on", "dead"} /\ stop \in BOOLEAN
  /\ faults \in [count : 0 .. MaxFaults, kinds : SUBSET LostForGood]
  /\ edits \in 0 .. MaxEdits

(* Between two reconciliations no poller runs with settings other than     *)
(* those run knows: none survives the removal or the change of its object. *)
PollersAreKnown ==
  pc = "wait" => \A o \in Objects : pollers[o] \in {Absent, known[o]}

(* Each object is told of as PollerStatus promises: run never starts a     *)
(* second poller beside one that it would forget in its dictionary, and    *)
(* stops none twice, wherever crashes and edits interrupt it.              *)
Seen(o) == INSTANCE PollerStatus WITH
  running <- pollers[o] # Absent,
  word <- retained[o], lost <- ~Spared({"crash", "status"}), Nothing <- Absent
StatusesSpec ==
  /\ \A o \in Objects : Seen(o)!Init
  /\ [][\A o \in Objects : [Seen(o)!Next]_(Seen(o)!svars)]_vars

(* A worker that has handled what it received shows the last status of     *)
(* every object, also of those whose status it missed: it is retained.     *)
StatusFollows ==
  Spared({"database"}) /\ worker /\ inbox = <<>>
    => \A o \in Objects : statuses[o] = retained[o]

(* An agent that exited and did not crash has left no object "online",     *)
(* "offline" or "starting", whatever the backend listed when it stopped.   *)
ExitedIsStopped ==
  Spared({"crash", "status"}) /\ pc \in {"down", "load"}
    => \A o \in Objects : retained[o] \in {"stopped", Absent}

(* What operators configure is what is polled in the end, unless the start *)
(* of a poller failed, which nothing repeats.                              *)
PollersFollow ==
  []Spared({"status"}) =>
    <>[](\A o \in Objects : pollers[o] = IF rows[o] \in Hosts THEN rows[o]
                                                              ELSE Absent)

(* What the console promises of a deleted object: it cannot be undone.     *)
DeletedStaysDeleted == \A o \in deleted : rows[o] = Absent
===============================================================================
