------------------------------ MODULE EdgePoller ------------------------------
(***************************************************************************)
(* One ObjectPoller of the edge agent: three coroutines that share the     *)
(* zone list, the state tracker, the Modbus connection and the publisher.  *)
(*                                                                         *)
(*   poll loop       connects, reads every zone, publishes what changed    *)
(*   zones loop      replaces the zone list and clears the tracker         *)
(*   command task    may connect the reader to write a register            *)
(*                                                                         *)
(* start and stop run in the agent's main coroutine.  Every action is the  *)
(* code between two awaits.  The reader's lock makes connect, read, write  *)
(* and close atomic towards each other.  A zone is its number: what else   *)
(* its configuration says is not modelled, nor is the order of the list.   *)
(*                                                                         *)
(* Failures, of which at most MaxFaults happen:                            *)
(*   "modbus"   connecting or reading raises, the connection drops         *)
(*   "publish"  publish_event raises and the broker has no event           *)
(*   "puback"   publish_event raises although the broker has the event     *)
(*   "status"   publish_agent_status raises                                *)
(*   "http"     the backend does not answer a request for the zones        *)
(*   "stop"     the poller is stopped (and started again later)            *)
(***************************************************************************)
EXTENDS Naturals

CONSTANTS
  Zones,       \* zone numbers
  Values,      \* register values
  None,        \* nothing tracked, published, announced or asked for
  Faults,      \* the kinds of failures that may happen
  MaxFaults,   \* bound: failures in one behaviour
  MaxChanges,  \* bound: register changes in one behaviour
  MaxEdits     \* bound: edits of the zones in one behaviour

ASSUME NoneAssumption ==
  None \notin Values /\ None \notin [zone : Zones, value : Values]
ASSUME BoundsAssumption ==
  MaxFaults \in Nat /\ MaxChanges \in Nat /\ MaxEdits \in Nat

VARIABLES
  device,     \* the registers of the panel
  dbZones,    \* the object's zones in the backend
  zones,      \* ObjectPoller.zones
  tracker,    \* StateTracker: the raw_value of each zone, or None
  connected,  \* ModbusReader.is_connected
  lent,       \* history: a command connected the reader, the poll loop not since
  published,  \* the last event the broker got of each zone, or None
  announced,  \* the retained agent_status message, or None
  phase,      \* how far the main coroutine is with start or stop
  pc,         \* where the poll loop is
  pending,    \* the zones the running _poll_once has still to visit
  reading,    \* the zone and the value of the event being published
  fetched,    \* the zones start or _refresh_zones were answered
  loop,       \* the zones loop: the list it compares with, and the answer
  faults,     \* how many failures, and which of those excused below
  changes, edits   \* how many there have been

vars == <<device, dbZones, zones, tracker, connected, lent, published, announced,
          phase, pc, pending, reading, fetched, loop, faults, changes, edits>>

world   == <<device, dbZones, changes, edits>>
config  == <<zones, tracker>>
reader  == <<connected, lent>>
broker  == <<published, announced>>
polling == <<pc, pending, reading>>

Phases == {"stopped", "fetching", "starting", "aborting", "running",
           "stopping", "zonesOff", "commandsOff", "closing"}
Polls == {"off", "top", "refresh", "connect", "online", "read", "compare",
          "publish", "acked", "close", "offline"}
Statuses == {"starting", "online", "offline", "stopped"}

(* Mutant: stop forgets the commands task. *)
CommandsUncancelled ==
  announced # None /\ phase \notin {"fetching", "starting", "aborting"}

(* The zones loop and the commands task are cancelled after the poll loop, *)
(* one await later each, and may take a step until then.                   *)
ZonesLoopOn == phase \in {"running", "stopping"}
CommandsOn  == phase \in {"running", "stopping", "zonesOff"}

Untracked == [z \in Zones |-> None]
Asleep == [at |-> "asleep", old |-> {}, new |-> {}]

Init ==
  /\ device \in [Zones -> Values]
  /\ dbZones = Zones /\ zones = {}
  /\ tracker = Untracked
  /\ connected = FALSE /\ lent = FALSE
  /\ published = Untracked /\ announced = None
  /\ phase = "stopped"
  /\ pc = "off" /\ pending = {} /\ reading = None
  /\ fetched = {} /\ loop = Asleep
  /\ faults = [count |-> 0, kinds |-> {}] /\ changes = 0 /\ edits = 0

(* Failures after which a message is not sent again. *)
LostForGood == {"puback", "status"}

(* One more failure, if that kind may happen and the bound allows it. *)
Fail(kind) == /\ kind \in Faults
              /\ faults.count < MaxFaults
              /\ faults' = [count |-> faults.count + 1,
                            kinds |-> faults.kinds \cup ({kind} \cap LostForGood)]
Spared(kind) == kind \notin faults.kinds

(* A publication of the status, and one that raises (lost or not). *)
Announce(status) == announced' = status /\ UNCHANGED faults
AnnounceError(status) ==
  Fail("status") /\ (announced' = status \/ UNCHANGED announced)

(* The broker gets the event that is being published. *)
Deliver == published' = [published EXCEPT ![reading.zone] = reading.value]

-------------------------------------------------------------------------------
(* start: a new poller has an empty tracker, no zones and a closed reader. *)

Start ==
  /\ phase = "stopped"
  /\ phase' = "fetching"
  /\ zones' = {} /\ tracker' = Untracked
  /\ UNCHANGED <<world, reader, broker, polling, fetched, loop, faults>>

StartFetched ==
  /\ phase = "fetching"
  /\ phase' = "starting"
  /\ \/ zones' = dbZones /\ UNCHANGED faults
     \/ Fail("http") /\ UNCHANGED zones
  /\ UNCHANGED <<world, tracker, reader, broker, polling, fetched, loop>>

StartTasks ==
  /\ phase = "starting"
  /\ Announce("starting")
  /\ phase' = "running" /\ pc' = "top"
  /\ UNCHANGED <<world, config, reader, published, pending, reading,
                 fetched, loop>>

StartError ==
  /\ phase = "starting"
  /\ AnnounceError("starting")
  /\ phase' = "aborting"
  /\ UNCHANGED <<world, config, reader, published, polling, fetched, loop>>

StartAborted ==
  /\ phase = "aborting"
  /\ connected' = FALSE /\ lent' = FALSE
  /\ phase' = "stopped"
  /\ UNCHANGED <<world, config, broker, polling, fetched, loop, faults>>

-------------------------------------------------------------------------------
(* stop: cancel the tasks one after the other, say so, close the reader.   *)

(* Mutant: stop says "stopped" while the poll loop still runs. *)
StopPollingUncancelled ==
  /\ phase = "running"
  /\ Fail("stop")
  /\ phase' = "stopping"
  /\ UNCHANGED <<world, config, reader, broker, polling, fetched, loop>>

(* Cancelling cuts the poll loop at its await; what that await was doing   *)
(* may have happened.                                                      *)
StopPolling ==
  /\ phase = "running"
  /\ Fail("stop")
  /\ phase' = "stopping"
  /\ pc' = "off" /\ pending' = {} /\ reading' = None
  /\ \/ UNCHANGED <<broker, reader>>
     \/ pc = "publish" /\ Deliver /\ UNCHANGED <<announced, reader>>
     \/ pc = "connect" /\ connected' = TRUE /\ UNCHANGED <<broker, lent>>
     \/ /\ pc \in {"online", "offline"}
        /\ announced' = pc
        /\ UNCHANGED <<published, reader>>
  /\ UNCHANGED <<world, config, fetched, loop>>

StopZones ==
  /\ phase = "stopping"
  /\ phase' = "zonesOff"
  /\ loop' = Asleep
  /\ UNCHANGED <<world, config, reader, broker, polling, fetched, faults>>

StopCommands ==
  /\ phase = "zonesOff"
  /\ phase' = "commandsOff"
  /\ UNCHANGED <<world, config, reader, broker, polling, fetched, loop,
                 faults>>

StopAnnounced ==
  /\ phase = "commandsOff"
  /\ Announce("stopped") \/ AnnounceError("stopped")
  /\ phase' = "closing"
  /\ UNCHANGED <<world, config, reader, published, polling, fetched, loop>>

StopClosed ==
  /\ phase = "closing"
  /\ connected' = FALSE /\ lent' = FALSE
  /\ phase' = "stopped"
  /\ UNCHANGED <<world, config, broker, polling, fetched, loop, faults>>

-------------------------------------------------------------------------------
(* _poll_loop: without zones it asks for them and does nothing else. *)

Refresh ==
  /\ pc = "top" /\ zones = {}
  /\ \/ fetched' = dbZones /\ pc' = "refresh" /\ UNCHANGED faults
     \/ Fail("http") /\ UNCHANGED <<fetched, pc>>
  /\ UNCHANGED <<world, config, reader, broker, phase, pending, reading, loop>>

Refreshed ==
  /\ pc = "refresh"
  /\ zones' = fetched /\ tracker' = Untracked
  /\ fetched' = {} /\ pc' = "top"
  /\ UNCHANGED <<world, reader, broker, phase, pending, reading, loop, faults>>

(* With zones: a connected reader is used as it is, whoever connected it. *)
BeginCycle ==
  /\ pc = "top" /\ zones # {}
  /\ IF connected THEN pc' = "read" /\ pending' = zones
                  ELSE pc' = "connect" /\ UNCHANGED pending
  /\ UNCHANGED <<world, config, reader, broker, phase, reading, fetched,
                 loop, faults>>

Connect ==
  /\ pc = "connect"
  /\ \/ connected' = TRUE /\ lent' = FALSE /\ pc' = "online" /\ UNCHANGED faults
     \/ ~connected /\ Fail("modbus") /\ pc' = "close" /\ UNCHANGED reader
  /\ UNCHANGED <<world, config, broker, phase, pending, reading, fetched, loop>>

(* A failure to say "online" is only logged. *)
AnnounceOnline ==
  /\ pc = "online"
  /\ Announce("online") \/ AnnounceError("online")
  /\ pc' = "read" /\ pending' = zones
  /\ UNCHANGED <<world, config, reader, published, phase, reading, fetched,
                 loop>>

-------------------------------------------------------------------------------
(* _poll_once: the list of zones is the one it began with. *)

ReadZone(z) ==
  /\ pc = "read"
  /\ z \in pending
  /\ connected
  /\ reading' = [zone |-> z, value |-> device[z]]
  /\ pc' = "compare"
  /\ UNCHANGED <<world, config, reader, broker, phase, pending, fetched, loop,
                 faults>>

(* A read that raises costs the zone its turn, not the cycle. *)
ReadError(z) ==
  /\ pc = "read"
  /\ z \in pending
  /\ \/ ~connected /\ UNCHANGED faults
     \/ connected /\ Fail("modbus")
  /\ pending' = pending \ {z}
  /\ UNCHANGED <<world, config, reader, broker, phase, pc, reading, fetched,
                 loop>>

(* The tracker is the one of now: it may have been cleared since the read. *)
Changed == tracker[reading.zone] # reading.value

(* Mutant: the tracker is updated before the event is published. *)
CompareTracking ==
  /\ pc = "compare"
  /\ IF Changed
     THEN /\ pc' = "publish"
          /\ tracker' = [tracker EXCEPT ![reading.zone] = reading.value]
          /\ UNCHANGED <<pending, reading>>
     ELSE /\ pc' = "read"
          /\ pending' = pending \ {reading.zone} /\ reading' = None
          /\ UNCHANGED tracker
  /\ UNCHANGED <<world, zones, reader, broker, phase, fetched, loop, faults>>

Compare ==
  /\ pc = "compare"
  /\ IF Changed
     THEN pc' = "publish" /\ UNCHANGED <<pending, reading>>
     ELSE /\ pc' = "read"
          /\ pending' = pending \ {reading.zone} /\ reading' = None
  /\ UNCHANGED <<world, config, reader, broker, phase, fetched, loop, faults>>

PublishEvent ==
  /\ pc = "publish"
  /\ Deliver
  /\ pc' = "acked"
  /\ UNCHANGED <<world, config, reader, announced, phase, pending, reading,
                 fetched, loop, faults>>

(* Mutant: the failed cycle leaves a later stage of the loop behind. *)
PublishErrorResumes ==
  /\ pc = "publish"
  /\ \/ Fail("publish") /\ UNCHANGED published
     \/ Fail("puback") /\ Deliver
  /\ pc' = "close" /\ pending' = {}
  /\ UNCHANGED <<world, config, reader, announced, phase, reading, fetched,
                 loop>>

(* The error ends the cycle before the tracker is updated. *)
PublishError ==
  /\ pc = "publish"
  /\ \/ Fail("publish") /\ UNCHANGED published
     \/ Fail("puback") /\ Deliver
  /\ pc' = "close" /\ pending' = {} /\ reading' = None
  /\ UNCHANGED <<world, config, reader, announced, phase, fetched, loop>>

(* Mutant: the tracker records the register of now, not the event's value. *)
TrackEarly ==
  /\ pc = "acked"
  /\ tracker' = [tracker EXCEPT ![reading.zone] = device[reading.zone]]
  /\ pending' = pending \ {reading.zone} /\ reading' = None
  /\ pc' = "read"
  /\ UNCHANGED <<world, zones, reader, broker, phase, fetched, loop, faults>>

Track ==
  /\ pc = "acked"
  /\ tracker' = [tracker EXCEPT ![reading.zone] = reading.value]
  /\ pending' = pending \ {reading.zone} /\ reading' = None
  /\ pc' = "read"
  /\ UNCHANGED <<world, zones, reader, broker, phase, fetched, loop, faults>>

EndCycle ==
  /\ pc = "read" /\ pending = {}
  /\ pc' = "top"
  /\ UNCHANGED <<world, config, reader, broker, phase, pending, reading,
                 fetched, loop, faults>>

(* Mutant: the reader stays as it is. *)
CloseNothing ==
  /\ pc = "close"
  /\ pc' = "offline"
  /\ UNCHANGED <<world, config, reader, broker, phase, pending, reading, fetched, loop,
                 faults>>

(* A failed cycle: close, say "offline", wait, begin again. *)
CloseReader ==
  /\ pc = "close"
  /\ connected' = FALSE /\ lent' = FALSE
  /\ pc' = "offline"
  /\ UNCHANGED <<world, config, broker, phase, pending, reading, fetched, loop,
                 faults>>

AnnounceOffline ==
  /\ pc = "offline"
  /\ Announce("offline") \/ AnnounceError("offline")
  /\ pc' = "top"
  /\ UNCHANGED <<world, config, reader, published, phase, pending, reading,
                 fetched, loop>>

-------------------------------------------------------------------------------
(* _zones_poll_loop: the list to compare with is taken before the request. *)

AskZones ==
  /\ phase = "running" /\ loop = Asleep
  /\ loop' = [at |-> "asked", old |-> zones, new |-> {}]
  /\ UNCHANGED <<world, config, reader, broker, phase, polling, fetched,
                 faults>>

ZonesAnswered ==
  /\ ZonesLoopOn /\ loop.at = "asked"
  /\ \/ loop' = [loop EXCEPT !.at = "answered", !.new = dbZones] /\ UNCHANGED faults
     \/ Fail("http") /\ loop' = Asleep
  /\ UNCHANGED <<world, config, reader, broker, phase, polling, fetched>>

(* Mutant: only a longer list counts as a change. *)
ZonesGrown(old, new) == old \subseteq new /\ old # new

ZonesChanged(old, new) == old # new

TakeZones ==
  /\ ZonesLoopOn /\ loop.at = "answered"
  /\ IF ZonesChanged(loop.old, loop.new)
     THEN zones' = loop.new /\ tracker' = Untracked
     ELSE UNCHANGED config
  /\ loop' = Asleep
  /\ UNCHANGED <<world, reader, broker, phase, polling, fetched, faults>>

-------------------------------------------------------------------------------
(* The command task finds the reader closed and connects it. *)
CommandConnects ==
  /\ CommandsOn /\ ~connected
  /\ connected' = TRUE /\ lent' = TRUE
  /\ UNCHANGED <<world, config, broker, phase, polling, fetched, loop, faults>>

(* The panel and the operators. *)
DeviceChanges(z, v) ==
  /\ changes < MaxChanges
  /\ device[z] # v
  /\ device' = [device EXCEPT ![z] = v]
  /\ changes' = changes + 1
  /\ UNCHANGED <<dbZones, edits, config, reader, broker, phase, polling,
                 fetched, loop, faults>>

ConnectionDrops ==
  /\ connected
  /\ Fail("modbus")
  /\ connected' = FALSE
  /\ UNCHANGED <<lent, world, config, broker, phase, polling, fetched, loop>>

EditZones(z) ==
  /\ edits < MaxEdits
  /\ dbZones' = IF z \in dbZones THEN dbZones \ {z} ELSE dbZones \cup {z}
  /\ edits' = edits + 1
  /\ UNCHANGED <<device, changes, config, reader, broker, phase, polling,
                 fetched, loop, faults>>

-------------------------------------------------------------------------------
Main == Start \/ StartFetched \/ StartTasks \/ StartError \/ StartAborted
          \/ StopPolling \/ StopZones \/ StopCommands \/ StopAnnounced
          \/ StopClosed

PollLoop ==
  \/ Refresh \/ Refreshed \/ BeginCycle \/ Connect \/ AnnounceOnline
  \/ \E z \in Zones : ReadZone(z) \/ ReadError(z)
  \/ Compare \/ PublishEvent \/ PublishError \/ Track \/ EndCycle
  \/ CloseReader \/ AnnounceOffline

ZonesLoop == AskZones \/ ZonesAnswered \/ TakeZones

Outside == \/ \E z \in Zones, v \in Values : DeviceChanges(z, v)
           \/ ConnectionDrops
           \/ \E z \in Zones : EditZones(z)

Next == Main \/ PollLoop \/ ZonesLoop \/ CommandConnects \/ Outside

Spec == Init /\ [][Next]_vars

(* The event loop runs every task that is ready; a task is ready again     *)
(* when its await returns, raises or times out, which each of them does.   *)
(* Only a start, a stop, a command, the panel and the operators owe        *)
(* nothing.                                                                *)
Fairness ==
  /\ WF_vars(PollLoop)
  /\ WF_vars(ZonesLoop)
  /\ WF_vars(StartFetched \/ StartTasks \/ StartError \/ StartAborted
               \/ StopZones \/ StopCommands \/ StopAnnounced \/ StopClosed)

FairSpec == Spec /\ Fairness

-------------------------------------------------------------------------------
TypeOK ==
  /\ device \in [Zones -> Values]
  /\ dbZones \subseteq Zones /\ zones \subseteq Zones
  /\ tracker \in [Zones -> Values \cup {None}]
  /\ connected \in BOOLEAN /\ lent \in BOOLEAN
  /\ published \in [Zones -> Values \cup {None}]
  /\ announced \in Statuses \cup {None}
  /\ phase \in Phases /\ pc \in Polls
  /\ pending \subseteq Zones
  /\ reading \in [zone : Zones, value : Values] \cup {None}
  /\ (reading # None) <=> (pc \in {"compare", "publish", "acked"})
  /\ (pc # "off") <=> (phase = "running")
  /\ fetched \subseteq Zones
  /\ loop \in [at : {"asleep", "asked", "answered"},
              old : SUBSET Zones, new : SUBSET Zones]
  /\ faults \in [count : 0 .. MaxFaults, kinds : SUBSET LostForGood]
  /\ changes \in 0 .. MaxChanges /\ edits \in 0 .. MaxEdits

(* A value the tracker holds back as "unchanged" (state_tracker.py,        *)
(* has_changed) is the last one the broker was told, whatever the zones    *)
(* loop clears and whatever failed in between: never a value nobody heard  *)
(* of.  It does not survive a puback failure, see ChangesReach.            *)
TrackerIsPublished ==
  (Spared("puback") /\ pc # "off")
    => \A z \in Zones : \/ tracker[z] \in {None, published[z]}
                        \/ pc = "acked" /\ z = reading.zone

(* A poller that was stopped, or whose start failed, holds no Modbus       *)
(* connection: nothing connects the reader after the close in stop and     *)
(* start.                                                                  *)
StoppedIsClosed == phase = "stopped" => ~connected

(* A panel is not read while its status says otherwise: the poll loop says  *)
(* "online" after every connection and closes the reader before it says    *)
(* "offline" (_poll_loop), whatever drops, fails, stops and starts in      *)
(* between.  A command that connects the reader first (_execute_command)   *)
(* makes the loop skip "online"; `lent' excuses that.                      *)
ReadIsOnline ==
  Spared("status") /\ ~lent /\ pc \in {"read", "compare", "publish", "acked"}
    => announced = "online"

(* What the broker is told of the object is what PollerStatus promises:    *)
(* "starting" first, "stopped" last, and no coroutine that start or stop   *)
(* cancels, delays or outruns says anything before, after or instead.      *)
Seen == INSTANCE PollerStatus WITH
  running <- phase \in {"running", "stopping", "zonesOff", "commandsOff"},
  word <- announced, lost <- ~Spared("status"), Nothing <- None
StatusSpec == Seen!Spec

(* The docstring of ObjectPoller: it polls the registers and publishes     *)
(* their changes.  While the poller runs, what the broker was told of      *)
(* each zone becomes what the register says, once the panel and the        *)
(* failures rest.                                                          *)
ChangesReach ==
  <>[](phase = "running")
    => <>[](\A z \in zones : published[z] = device[z])

(* It does as long as the broker confirms what it received: a failed       *)
(* publication is repeated, though zones come and go and the tracker is    *)
(* cleared while it is tried (_poll_once tracks after it published).       *)
ConfirmedChangesReach == []Spared("puback") => ChangesReach

(* The zones an operator edits become the zones that are polled, though    *)
(* two coroutines ask for them at once and each may overwrite the other's  *)
(* answer with an older one (_zones_poll_loop and _refresh_zones).         *)
ZonesFollow == <>[](phase = "running") => <>[](zones = dbZones)
===============================================================================
