--------------------------- MODULE EdgePollerProofs ---------------------------
(***************************************************************************)
(* Proofs about EdgePoller for all zones and register values, every set of *)
(* failures and every bound.  The argument: the poll loop runs exactly     *)
(* while the poller does, so that whatever it holds (the event under way,  *)
(* the connection it made) is gone or closed before the poller starts      *)
(* again, and everything it says of the panel it says between two steps of *)
(* its own.                                                                *)
(***************************************************************************)
EXTENDS EdgePoller, TLAPS

(* The event that was confirmed is the last one the broker got of its zone.*)
AckedIsPublished ==
  (Spared("puback") /\ pc = "acked") => published[reading.zone] = reading.value

(* A poller that starts has an empty tracker and a closed reader. *)
StartsFresh ==
  /\ phase \in {"fetching", "starting"} => tracker = Untracked
  /\ phase \in {"stopped", "fetching", "starting"} => ~connected

(* A connection the poll loop made itself was announced before the loop    *)
(* reads, and the loop drops it before it says "offline".                  *)
OwnConnectionIsOnline ==
  /\ (Spared("status") /\ ~lent) =>
       /\ pc \in {"read", "compare", "publish", "acked"} => announced = "online"
       /\ pc \in {"top", "refresh"} /\ connected => announced = "online"
  /\ ~lent /\ pc = "offline" => ~connected

Inv == /\ TrackerIsPublished /\ AckedIsPublished
       /\ StartsFresh /\ OwnConnectionIsOnline

-------------------------------------------------------------------------------
(* The records of the model, so that the steps below need not open them. *)
Failures == [count : 0 .. MaxFaults, kinds : SUBSET LostForGood]
Loops == [at : {"asleep", "asked", "answered"}, old : SUBSET Zones, new : SUBSET Zones]
Readings == [zone : Zones, value : Values]

LEMMA CountsUp ==
  ASSUME NEW bound \in Nat, NEW n \in 0 .. bound, n < bound
  PROVE  n + 1 \in 0 .. bound
OBVIOUS

(* A failure is counted, and those after which nothing is repeated are     *)
(* remembered for good.                                                    *)
LEMMA FailKeeps ==
  ASSUME faults \in Failures, NEW kind, Fail(kind)
  PROVE  /\ faults' \in Failures
         /\ \A k : Spared(k)' => Spared(k)
         /\ kind \in LostForGood => ~Spared(kind)'
<1> DEFINE kinds == faults.kinds \cup ({kind} \cap LostForGood)
<1>1. faults.count \in 0 .. MaxFaults /\ faults.count < MaxFaults /\ kinds \subseteq LostForGood
  BY DEF Failures, Fail
<1>2. faults.count + 1 \in 0 .. MaxFaults
  BY <1>1, BoundsAssumption
<1>3. faults' = [count |-> faults.count + 1, kinds |-> kinds]
  BY DEF Fail
<1> QED BY <1>1, <1>2, <1>3 DEF Failures, Spared

(* Both ways to say something: what is said is a status, and a failure to  *)
(* say it is remembered.                                                   *)
LEMMA SayKeeps ==
  ASSUME faults \in Failures, NEW status, Announce(status) \/ AnnounceError(status)
  PROVE  /\ faults' \in Failures
         /\ \A k : Spared(k)' => Spared(k)
         /\ announced' = status \/ announced' = announced
         /\ Spared("status")' => announced' = status
<1>1. CASE Announce(status)
  BY <1>1 DEF Announce, Spared
<1>2. CASE AnnounceError(status)
  <2>1. Fail("status") /\ "status" \in LostForGood
    BY <1>2 DEF AnnounceError, LostForGood
  <2> QED BY <1>2, <2>1, FailKeeps DEF AnnounceError
<1> QED BY <1>1, <1>2

LEMMA LoopRecord ==
  /\ Asleep \in Loops
  /\ \A s \in SUBSET Zones : [at |-> "asked", old |-> s, new |-> {}] \in Loops
  /\ \A l \in Loops : /\ l.new \subseteq Zones
                      /\ \A s \in SUBSET Zones :
                           [l EXCEPT !.at = "answered", !.new = s] \in Loops
BY DEF Loops, Asleep

LEMMA ReadingRecord ==
  /\ None \notin Readings
  /\ \A z \in Zones, v \in Values :
       LET r == [zone |-> z, value |-> v] IN
         r \in Readings /\ r.zone = z /\ r.value = v
  /\ \A r \in Readings : r.zone \in Zones /\ r.value \in Values
BY NoneAssumption DEF Readings

(* What is being published. *)
LEMMA ReadingIsKnown ==
  ASSUME TypeOK, pc \in {"compare", "publish", "acked"}
  PROVE  reading \in Readings /\ reading.zone \in Zones /\ reading.value \in Values
<1>1. reading \in Readings
  BY DEF TypeOK, Readings
<1> QED BY <1>1, ReadingRecord

(* TypeOK with its records by name. *)
Typed ==
  /\ device \in [Zones -> Values]
  /\ dbZones \subseteq Zones /\ zones \subseteq Zones
  /\ tracker \in [Zones -> Values \cup {None}]
  /\ connected \in BOOLEAN /\ lent \in BOOLEAN
  /\ published \in [Zones -> Values \cup {None}]
  /\ announced \in Statuses \cup {None}
  /\ phase \in Phases /\ pc \in Polls
  /\ pending \subseteq Zones
  /\ reading \in Readings \cup {None}
  /\ (reading # None) <=> (pc \in {"compare", "publish", "acked"})
  /\ (pc # "off") <=> (phase = "running")
  /\ fetched \subseteq Zones
  /\ loop \in Loops /\ faults \in Failures
  /\ changes \in 0 .. MaxChanges /\ edits \in 0 .. MaxEdits

LEMMA TypedIsTypeOK == TypeOK <=> Typed
BY DEF TypeOK, Typed, Readings, Loops, Failures

(* The event under way reaches the broker. *)
LEMMA DeliverKeeps ==
  ASSUME Typed, pc = "publish", Deliver
  PROVE  /\ published' \in [Zones -> Values \cup {None}]
         /\ published'[reading.zone] = reading.value
         /\ \A z \in Zones : z # reading.zone => published'[z] = published[z]
<1>1. reading.zone \in Zones /\ reading.value \in Values
  BY TypedIsTypeOK, ReadingIsKnown
<1> QED BY <1>1 DEF Deliver, Typed

-------------------------------------------------------------------------------
(* Every step keeps the type invariant. *)
LEMMA InitTyped == Init => TypeOK
<1> SUFFICES ASSUME Init PROVE Typed
  BY TypedIsTypeOK
<1>1. Untracked \in [Zones -> Values \cup {None}]
  BY DEF Untracked
<1>2. [count |-> 0, kinds |-> {}] \in Failures /\ 0 \in 0 .. MaxChanges
      /\ 0 \in 0 .. MaxEdits
  BY BoundsAssumption DEF Failures
<1> QED BY <1>1, <1>2, LoopRecord DEF Init, Typed, Phases, Polls

LEMMA MainTyped == TypeOK /\ Main => TypeOK'
<1> SUFFICES ASSUME Typed, Main PROVE Typed'
  BY TypedIsTypeOK DEF TypeOK, Typed, Readings, Loops, Failures
<1> USE LoopRecord, FailKeeps, SayKeeps
    DEF Typed, world, config, reader, broker, polling, Phases, Polls, Statuses,
        Untracked
<1>1. CASE Start          BY <1>1 DEF Start
<1>2. CASE StartFetched   BY <1>2 DEF StartFetched
<1>3. CASE StartTasks     BY <1>3 DEF StartTasks
<1>4. CASE StartError     BY <1>4 DEF StartError, AnnounceError, LostForGood
<1>5. CASE StartAborted   BY <1>5 DEF StartAborted
<1>6. CASE StopPolling
  BY <1>6, DeliverKeeps DEF StopPolling
<1>7. CASE StopZones      BY <1>7 DEF StopZones
<1>8. CASE StopCommands   BY <1>8 DEF StopCommands
<1>9. CASE StopAnnounced  BY <1>9 DEF StopAnnounced
<1>10. CASE StopClosed    BY <1>10 DEF StopClosed
<1> QED BY <1>1, <1>2, <1>3, <1>4, <1>5, <1>6, <1>7, <1>8, <1>9, <1>10 DEF Main

LEMMA PollLoopTyped == TypeOK /\ PollLoop => TypeOK'
<1> SUFFICES ASSUME Typed, PollLoop PROVE Typed'
  BY TypedIsTypeOK DEF TypeOK, Typed, Readings, Loops, Failures
<1> USE FailKeeps, SayKeeps
    DEF Typed, world, config, reader, broker, polling, Polls, Statuses,
        Untracked
<1>0. pc \in {"compare", "publish", "acked"}
        => reading.zone \in Zones /\ reading.value \in Values
  BY TypedIsTypeOK, ReadingIsKnown
<1>1. CASE Refresh        BY <1>1 DEF Refresh
<1>2. CASE Refreshed      BY <1>2 DEF Refreshed
<1>3. CASE BeginCycle     BY <1>3 DEF BeginCycle
<1>4. CASE Connect        BY <1>4 DEF Connect
<1>5. CASE AnnounceOnline BY <1>5 DEF AnnounceOnline
<1>6. ASSUME NEW z \in Zones, ReadZone(z) PROVE Typed'
  BY <1>6, ReadingRecord DEF ReadZone
<1>7. ASSUME NEW z \in Zones, ReadError(z) PROVE Typed'
  BY <1>7 DEF ReadError
<1>8. CASE Compare        BY <1>8 DEF Compare
<1>9. CASE PublishEvent   BY <1>9, DeliverKeeps DEF PublishEvent
<1>10. CASE PublishError  BY <1>10, DeliverKeeps DEF PublishError, LostForGood
<1>11. CASE Track         BY <1>0, <1>11 DEF Track
<1>12. CASE EndCycle      BY <1>12 DEF EndCycle
<1>13. CASE CloseReader   BY <1>13 DEF CloseReader
<1>14. CASE AnnounceOffline BY <1>14 DEF AnnounceOffline
<1> QED BY <1>1, <1>2, <1>3, <1>4, <1>5, <1>6, <1>7, <1>8, <1>9, <1>10, <1>11,
           <1>12, <1>13, <1>14 DEF PollLoop

LEMMA OthersTyped == TypeOK /\ (ZonesLoop \/ CommandConnects \/ Outside) => TypeOK'
<1> SUFFICES ASSUME Typed, ZonesLoop \/ CommandConnects \/ Outside PROVE Typed'
  BY TypedIsTypeOK DEF TypeOK, Typed, Readings, Loops, Failures
<1> USE LoopRecord, FailKeeps
    DEF Typed, world, config, reader, broker, polling, Untracked
<1>1. CASE AskZones        BY <1>1 DEF AskZones
<1>2. CASE ZonesAnswered   BY <1>2 DEF ZonesAnswered
<1>3. CASE TakeZones       BY <1>3 DEF TakeZones
<1>4. CASE CommandConnects BY <1>4 DEF CommandConnects, CommandsOn
<1>5. ASSUME NEW z \in Zones, NEW v \in Values, DeviceChanges(z, v) PROVE Typed'
  <2>1. changes + 1 \in 0 .. MaxChanges
    BY <1>5, BoundsAssumption, CountsUp DEF DeviceChanges
  <2>2. [device EXCEPT ![z] = v] \in [Zones -> Values]
    OBVIOUS
  <2> QED BY <1>5, <2>1, <2>2 DEF DeviceChanges
<1>6. CASE ConnectionDrops BY <1>6 DEF ConnectionDrops
<1>7. ASSUME NEW z \in Zones, EditZones(z) PROVE Typed'
  <2>1. edits + 1 \in 0 .. MaxEdits
    BY <1>7, BoundsAssumption, CountsUp DEF EditZones
  <2>2. dbZones' \subseteq Zones
    BY <1>7 DEF EditZones
  <2> QED BY <1>7, <2>1, <2>2 DEF EditZones
<1> QED BY <1>1, <1>2, <1>3, <1>4, <1>5, <1>6, <1>7 DEF ZonesLoop, Outside

LEMMA NextTyped == TypeOK /\ [Next]_vars => TypeOK'
<1>1. TypeOK /\ UNCHANGED vars => TypeOK'
  BY DEF TypeOK, vars
<1> QED BY <1>1, MainTyped, PollLoopTyped, OthersTyped DEF Next

(* Type correctness, with what ties the poll loop to the phase and the     *)
(* event under way to the poll loop.                                       *)
THEOREM TypeCorrect == Spec => []TypeOK
BY InitTyped, NextTyped, PTL DEF Spec

-------------------------------------------------------------------------------
(* Every step keeps the rest of the invariant. *)
LEMMA InitInv == Init => Inv
BY DEF Init, Inv, TrackerIsPublished, AckedIsPublished, StartsFresh,
       OwnConnectionIsOnline

LEMMA MainKeeps == TypeOK /\ Inv /\ Main => Inv'
<1> SUFFICES ASSUME Typed, Inv, Main PROVE Inv'
  BY TypedIsTypeOK
<1> USE FailKeeps, SayKeeps
    DEF Inv, TrackerIsPublished, AckedIsPublished, StartsFresh,
        OwnConnectionIsOnline, Spared, Untracked, world, config, reader, broker, polling
<1> USE DEF Typed
<1>1. CASE Start
  BY <1>1 DEF Start
<1>2. CASE StartFetched
  BY <1>2 DEF StartFetched
<1>3. CASE StartTasks
  BY <1>3 DEF StartTasks
<1>4. CASE StartError
  BY <1>4 DEF StartError, AnnounceError, LostForGood
<1>5. CASE StartAborted
  BY <1>5 DEF StartAborted
<1>6. CASE StopPolling
  BY <1>6, DeliverKeeps DEF StopPolling
<1>7. CASE StopZones
  BY <1>7 DEF StopZones
<1>8. CASE StopCommands
  BY <1>8 DEF StopCommands
<1>9. CASE StopAnnounced
  BY <1>9 DEF StopAnnounced
<1>10. CASE StopClosed
  BY <1>10 DEF StopClosed
<1> QED BY <1>1, <1>2, <1>3, <1>4, <1>5, <1>6, <1>7, <1>8, <1>9, <1>10 DEF Main

LEMMA PollLoopKeeps == TypeOK /\ Inv /\ PollLoop => Inv'
<1> SUFFICES ASSUME Typed, Inv, PollLoop PROVE Inv'
  BY TypedIsTypeOK
<1> USE FailKeeps, SayKeeps
    DEF Inv, TrackerIsPublished, AckedIsPublished, StartsFresh,
        OwnConnectionIsOnline, Spared, Untracked, world, config, reader, broker, polling
<1> USE DEF Typed
<1>1. CASE Refresh
  BY <1>1 DEF Refresh
<1>2. CASE Refreshed
  BY <1>2 DEF Refreshed
<1>3. CASE BeginCycle
  BY <1>3 DEF BeginCycle
<1>4. CASE Connect
  BY <1>4 DEF Connect
<1>5. CASE AnnounceOnline
  BY <1>5 DEF AnnounceOnline
<1>6. ASSUME NEW z \in Zones, ReadZone(z) PROVE Inv'
  BY <1>6 DEF ReadZone
<1>7. ASSUME NEW z \in Zones, ReadError(z) PROVE Inv'
  BY <1>7 DEF ReadError
<1>8. CASE Compare
  BY <1>8 DEF Compare
<1>9. CASE PublishEvent
  BY <1>9, DeliverKeeps DEF PublishEvent
<1>10. CASE PublishError
  BY <1>10, DeliverKeeps DEF PublishError, LostForGood
<1>11. CASE Track
  BY <1>11, TypedIsTypeOK, ReadingIsKnown DEF Track
<1>12. CASE EndCycle
  BY <1>12 DEF EndCycle
<1>13. CASE CloseReader
  BY <1>13 DEF CloseReader
<1>14. CASE AnnounceOffline
  BY <1>14 DEF AnnounceOffline
<1> QED BY <1>1, <1>2, <1>3, <1>4, <1>5, <1>6, <1>7, <1>8, <1>9, <1>10, <1>11, <1>12, <1>13, <1>14 DEF PollLoop

LEMMA OthersKeep == TypeOK /\ Inv /\ (ZonesLoop \/ CommandConnects \/ Outside) => Inv'
<1> SUFFICES ASSUME Typed, Inv, (ZonesLoop \/ CommandConnects \/ Outside) PROVE Inv'
  BY TypedIsTypeOK
<1> USE FailKeeps, SayKeeps
    DEF Inv, TrackerIsPublished, AckedIsPublished, StartsFresh,
        OwnConnectionIsOnline, Spared, Untracked, world, config, reader, broker, polling
<1> USE DEF Typed
<1>1. CASE AskZones
  BY <1>1 DEF AskZones
<1>2. CASE ZonesAnswered
  BY <1>2 DEF ZonesAnswered
<1>3. CASE TakeZones
  BY <1>3 DEF TakeZones
<1>4. CASE CommandConnects
  BY <1>4 DEF CommandConnects, CommandsOn
<1>5. ASSUME NEW z \in Zones, NEW v \in Values, DeviceChanges(z, v) PROVE Inv'
  BY <1>5 DEF DeviceChanges
<1>6. CASE ConnectionDrops
  BY <1>6 DEF ConnectionDrops
<1>7. ASSUME NEW z \in Zones, EditZones(z) PROVE Inv'
  BY <1>7 DEF EditZones
<1> QED BY <1>1, <1>2, <1>3, <1>4, <1>5, <1>6, <1>7 DEF ZonesLoop, Outside

LEMMA NextKeeps == TypeOK /\ Inv /\ [Next]_vars => Inv'
<1>1. Inv /\ UNCHANGED vars => Inv'
  BY DEF Inv, TrackerIsPublished, AckedIsPublished, StartsFresh, Spared,
         OwnConnectionIsOnline, vars
<1> QED BY <1>1, MainKeeps, PollLoopKeeps, OthersKeep DEF Next

LEMMA SpecInv == Spec => []Inv
BY InitInv, NextKeeps, TypeCorrect, PTL DEF Spec

-------------------------------------------------------------------------------
(* What the tracker holds back as unchanged was published: nothing clears, *)
(* cancels or repeats a cycle such that a value is tracked that nobody     *)
(* heard of.                                                               *)
THEOREM TrackedWasPublished == Spec => []TrackerIsPublished
<1>1. Inv => TrackerIsPublished
  BY DEF Inv
<1> QED BY <1>1, SpecInv, PTL

(* A poller that is not running holds no connection. *)
THEOREM NothingStaysConnected == Spec => []StoppedIsClosed
<1>1. Inv => StoppedIsClosed
  BY DEF Inv, StartsFresh, StoppedIsClosed
<1> QED BY <1>1, SpecInv, PTL

(* A panel that is read over the loop's own connection is "online". *)
THEOREM ReadPanelsAreOnline == Spec => []ReadIsOnline
<1>1. Inv => ReadIsOnline
  BY DEF Inv, OwnConnectionIsOnline, ReadIsOnline
<1> QED BY <1>1, SpecInv, PTL

-------------------------------------------------------------------------------
(* How the poller looks to the broker. *)
Polled == phase \in {"running", "stopping", "zonesOff", "commandsOff"}

Said(status) ==
  \/ announced' = status /\ (Spared("status")' <=> Spared("status"))
  \/ announced' \in {announced, status} /\ ~Spared("status")'

LEMMA FailIsLost ==
  ASSUME faults \in Failures, NEW kind, Fail(kind)
  PROVE  IF kind = "status" THEN ~Spared("status")'
                            ELSE Spared("status")' <=> Spared("status")
<1> DEFINE kinds == faults.kinds \cup ({kind} \cap LostForGood)
<1>1. faults' = [count |-> faults.count + 1, kinds |-> kinds]
  BY DEF Fail
<1>2. faults'.kinds = kinds
  BY <1>1
<1> QED BY <1>2 DEF Spared, LostForGood

LEMMA AnnounceIsSaid ==
  ASSUME faults \in Failures, NEW status, Announce(status) \/ AnnounceError(status)
  PROVE  Said(status)
BY FailIsLost DEF Announce, AnnounceError, Said, Spared

(* A step that announces nothing. *)
LEMMA SilentStep ==
  ASSUME faults \in Failures, announced' = announced, Polled' <=> Polled,
         UNCHANGED faults \/ \E kind : kind # "status" /\ Fail(kind)
  PROVE  UNCHANGED Seen!svars
<1>1. Spared("status")' <=> Spared("status")
  BY FailIsLost DEF Spared
<1> QED BY <1>1 DEF Seen!svars, Polled

(* One that announces something while the poller runs. *)
LEMMA ReportStep ==
  ASSUME NEW s \in {"online", "offline"}, Polled, Polled', Said(s)
  PROVE  Seen!Next
BY DEF Seen!Next, Seen!Report, Seen!Publish, Seen!Lost, Said, Polled

LEMMA StatusStep == TypeOK /\ [Next]_vars => [Seen!Next]_(Seen!svars)
<1> SUFFICES ASSUME Typed, [Next]_vars PROVE [Seen!Next]_(Seen!svars)
  BY TypedIsTypeOK
<1> DEFINE Silent == /\ announced' = announced /\ (Polled' <=> Polled)
                     /\ UNCHANGED faults \/ \E kind : kind # "status" /\ Fail(kind)
<1>1. faults \in Failures /\ (pc # "off" => Polled)
  BY DEF Typed, Polled
<1>2. Silent => UNCHANGED Seen!svars
  BY <1>1, SilentStep
<1>3. CASE StartTasks
  BY <1>3 DEF StartTasks, Announce, Spared, Seen!Next, Seen!Start
<1>4. CASE StartError
  BY <1>1, <1>4, FailIsLost DEF StartError, AnnounceError, Seen!Next, Seen!StartError, Seen!Lost
<1>5. CASE StopPolling
  <2>1. Polled /\ Polled' /\ Fail("stop") /\ (Spared("status")' <=> Spared("status"))
    BY <1>1, <1>5, FailIsLost DEF StopPolling, Polled
  <2>2. CASE announced' = announced
    BY <1>2, <2>1, <2>2
  <2>3. CASE pc \in {"online", "offline"} /\ announced' = pc
    BY <2>1, <2>3, ReportStep DEF Said
  <2> QED BY <1>5, <2>2, <2>3 DEF StopPolling, broker
<1>6. CASE StopAnnounced
  <2>1. Said("stopped")
    BY <1>1, <1>6, AnnounceIsSaid DEF StopAnnounced
  <2> QED BY <1>6, <2>1 DEF StopAnnounced, Said, Seen!Next, Seen!Stop, Seen!Publish, Seen!Lost
<1>7. CASE AnnounceOnline
  <2>1. Said("online") /\ Polled /\ Polled'
    BY <1>1, <1>7, AnnounceIsSaid DEF AnnounceOnline, Polled
  <2> QED BY <2>1, ReportStep
<1>8. CASE AnnounceOffline
  <2>1. Said("offline") /\ Polled /\ Polled'
    BY <1>1, <1>8, AnnounceIsSaid DEF AnnounceOffline, Polled
  <2> QED BY <2>1, ReportStep
<1>9. CASE Start \/ StartFetched \/ StartAborted \/ StopZones \/ StopCommands \/ StopClosed
  <2>1. Silent
    BY <1>9 DEF Start, StartFetched, StartAborted, StopZones, StopCommands, StopClosed,
                Polled, broker
  <2> QED BY <1>2, <2>1
<1>10. CASE \/ Refresh \/ Refreshed \/ BeginCycle \/ Connect
            \/ \E z \in Zones : ReadZone(z) \/ ReadError(z)
            \/ Compare \/ PublishEvent \/ PublishError \/ Track \/ EndCycle \/ CloseReader
  <2>1. Silent
    BY <1>10 DEF Refresh, Refreshed, BeginCycle, Connect, ReadZone, ReadError, Compare,
                 PublishEvent, PublishError, Track, EndCycle, CloseReader, Polled, broker
  <2> QED BY <1>2, <2>1
<1>11. CASE ZonesLoop \/ CommandConnects \/ Outside \/ UNCHANGED vars
  <2>1. Silent
    BY <1>11 DEF ZonesLoop, AskZones, ZonesAnswered, TakeZones, CommandConnects, Outside,
                 DeviceChanges, ConnectionDrops, EditZones, Polled, broker, vars
  <2> QED BY <1>2, <2>1
<1> QED BY <1>3, <1>4, <1>5, <1>6, <1>7, <1>8, <1>9, <1>10, <1>11 DEF Next, Main, PollLoop

(* Seen from the broker the poller is PollerStatus: "starting" first,      *)
(* "stopped" last and nothing of the object outside, wherever the three    *)
(* coroutines are cancelled.                                               *)
THEOREM ImplementsStatus == Spec => StatusSpec
<1>1. Init => Seen!Init
  BY DEF Init, Spared, Seen!Init
<1> QED BY <1>1, StatusStep, TypeCorrect, PTL DEF Spec, StatusSpec, Seen!Spec

(* So the status of a poller that was stopped stays "stopped", and that of *)
(* one that runs is its own, until a status is lost.                       *)
StoppedIsLast ==
  Spared("status") => IF Polled THEN announced \in {"starting", "online", "offline"}
                                ELSE announced \in {"stopped", None}

THEOREM StoppedIsFinal == Spec => []StoppedIsLast
<1>1. Seen!Init => Seen!WordIsTrue
  BY DEF Seen!Init, Seen!WordIsTrue
<1>2. Seen!WordIsTrue /\ [Seen!Next]_(Seen!svars) => Seen!WordIsTrue'
  BY DEF Seen!WordIsTrue, Seen!Next, Seen!Start, Seen!StartError, Seen!Report, Seen!Stop, Seen!LostElsewhere,
         Seen!Publish, Seen!Lost, Seen!svars
<1>3. Seen!WordIsTrue => StoppedIsLast
  BY DEF Seen!WordIsTrue, StoppedIsLast, Polled
<1> QED BY <1>1, <1>2, <1>3, ImplementsStatus, PTL DEF StatusSpec, Seen!Spec
===============================================================================
