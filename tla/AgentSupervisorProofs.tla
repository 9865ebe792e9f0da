------------------------ MODULE AgentSupervisorProofs ------------------------
(***************************************************************************)
(* AgentSupervisor for any set of objects and hosts and any number of      *)
(* failures, edits and queued statuses.                                    *)
(***************************************************************************)
EXTENDS AgentSupervisor, FiniteSetTheorems, TLAPS

Status == [object : Objects, status : Says]
Failed == [count : 0 .. MaxFaults, kinds : SUBSET LostForGood]

-------------------------------------------------------------------------------
(* Sequences of anything. *)

LEMMA EmptySeq ==
  ASSUME NEW S
  PROVE  <<>> \in Seq(S)
OBVIOUS

LEMMA AppendSeq ==
  ASSUME NEW S, NEW q \in Seq(S), NEW e \in S
  PROVE  Append(q, e) \in Seq(S)
OBVIOUS

LEMMA HeadTail ==
  ASSUME NEW S, NEW q \in Seq(S), q # <<>>
  PROVE  Head(q) \in S /\ Tail(q) \in Seq(S)
OBVIOUS

LEMMA SequencesOfAFiniteSet ==
  ASSUME NEW S, NEW R \in SUBSET S, IsFiniteSet(R), NEW q \in SetToSeqs(R)
  PROVE  q \in Seq(S)
<1>1. Cardinality(R) \in Nat
  BY FS_CardinalityType
<1>2. q \in [1 .. Cardinality(R) -> S]
  BY DEF SetToSeqs
<1> QED BY <1>1, <1>2

-------------------------------------------------------------------------------
(* Types. *)

LEMMA InitType == Init => TypeOK
<1> SUFFICES ASSUME Init PROVE TypeOK
  OBVIOUS
<1>1. statuses \in [Objects -> Says \cup {Absent}]
  BY DEF Init, None
<1>2. retained \in [Objects -> Says \cup {Absent}]
  BY DEF Init, None
<1>3. inbox \in Seq([object : Objects, status : Says])
  BY DEF Init
<1>4. /\ known \in [Objects -> Settings] /\ new \in [Objects -> Settings]
      /\ pollers \in [Objects -> Hosts \cup {Absent}]
  BY DEF Init, None, Settings
<1>5. faults \in [count : 0 .. MaxFaults, kinds : SUBSET LostForGood]
  BY BoundsAssumption DEF Init
<1>6. rows \in [Objects -> Settings] /\ edits \in 0 .. MaxEdits
  BY BoundsAssumption DEF Init, Settings
<1>7. pc \in Places /\ todo \subseteq Objects /\ deleted \subseteq Objects
  BY DEF Init, Places
<1> QED BY <1>1, <1>2, <1>3, <1>4, <1>5, <1>6, <1>7 DEF TypeOK, Init

(* Fail adds a failure of one of the kinds that are remembered, or none. *)
LEMMA FailType ==
  ASSUME TypeOK, NEW kind, Fail(kind)
  PROVE  /\ faults' \in Failed
         /\ faults.kinds \subseteq faults'.kinds
         /\ kind \in LostForGood => kind \in faults'.kinds
<1>1. faults \in Failed
  BY DEF TypeOK, Failed
<1>2. /\ faults.count \in 0 .. MaxFaults /\ faults.kinds \subseteq LostForGood
      /\ faults.count < MaxFaults
      /\ faults' = [count |-> faults.count + 1,
                    kinds |-> faults.kinds \cup ({kind} \cap LostForGood)]
  BY <1>1 DEF Failed, Fail
<1>3. faults.count + 1 \in 0 .. MaxFaults
  BY <1>2, BoundsAssumption
<1>4. faults.kinds \cup ({kind} \cap LostForGood) \in SUBSET LostForGood
  BY <1>2
<1>5. faults' \in Failed
  BY <1>2, <1>3, <1>4 DEF Failed
<1>6. faults'.kinds = faults.kinds \cup ({kind} \cap LostForGood)
  BY <1>2
<1> QED BY <1>5, <1>6

BrokerType ==
  /\ retained \in [Objects -> Says \cup {Absent}]
  /\ inbox \in Seq([object : Objects, status : Says]) /\ worker \in BOOLEAN

LEMMA PublishType ==
  ASSUME TypeOK, NEW o \in Objects, NEW s \in Says, Publish(o, s)
  PROVE  BrokerType'
<1>1. retained' \in [Objects -> Says \cup {Absent}]
  BY DEF TypeOK, Publish
<1>2. [object |-> o, status |-> s] \in [object : Objects, status : Says]
  OBVIOUS
<1>3. inbox' \in Seq([object : Objects, status : Says])
  <2>1. Append(inbox, [object |-> o, status |-> s]) \in Seq([object : Objects, status : Says])
    BY <1>2, AppendSeq DEF TypeOK
  <2> QED BY <2>1 DEF TypeOK, Publish
<1> QED BY <1>1, <1>3 DEF BrokerType, TypeOK, Publish

LEMMA PublishErrorType ==
  ASSUME TypeOK, NEW o \in Objects, NEW s \in Says, PublishError(o, s)
  PROVE  BrokerType' /\ faults' \in Failed
<1>1. Fail("status") /\ (Publish(o, s) \/ UNCHANGED broker)
  BY DEF PublishError
<1>2. faults' \in Failed
  BY <1>1, FailType
<1>3. CASE Publish(o, s)
  BY <1>2, <1>3, PublishType
<1>4. CASE UNCHANGED broker
  BY <1>2, <1>4 DEF broker, BrokerType, TypeOK
<1> QED BY <1>1, <1>3, <1>4

(* The run coroutine. *)
LEMMA RunType ==
  ASSUME TypeOK, Run
  PROVE  TypeOK'
<1> USE DEF backend, broker, signals
<1>1. CASE Load
  <2>1. known' \in [Objects -> Settings]
    BY <1>1 DEF Load, TypeOK, None, Settings
  <2>2. faults' \in Failed
    BY <1>1, FailType DEF Load, TypeOK, Failed
  <2> QED BY <1>1, <2>1, <2>2 DEF Load, TypeOK, Places, Failed
<1>2. ASSUME NEW o \in Objects, StartPoller(o) PROVE TypeOK'
  <2>1. CASE new[o] \notin Hosts
    BY <1>2, <2>1 DEF StartPoller, TypeOK
  <2>2. CASE new[o] \in Hosts
    <3>1. "starting" \in Says
      BY DEF Says
    <3>2. BrokerType' /\ faults' \in Failed
      BY <1>2, <2>2, <3>1, PublishType, PublishErrorType DEF StartPoller, TypeOK, Failed
    <3>3. pollers' \in [Objects -> Hosts \cup {Absent}]
      BY <1>2, <2>2 DEF StartPoller, TypeOK
    <3> QED BY <1>2, <3>2, <3>3 DEF StartPoller, TypeOK, BrokerType, Failed
  <2> QED BY <2>1, <2>2
<1>3. CASE Started
  BY <1>3 DEF Started, TypeOK, Places
<1>4. CASE PollObjects
  <2>1. faults' \in Failed
    BY <1>4, FailType DEF PollObjects, TypeOK, Failed
  <2>2. pc' \in Places /\ todo' \subseteq Objects /\ new' \in [Objects -> Settings]
    BY <1>4 DEF PollObjects, TypeOK, Places
  <2> QED BY <1>4, <2>1, <2>2 DEF PollObjects, TypeOK, Failed
<1>5. ASSUME NEW o \in Objects, StopPoller(o) PROVE TypeOK'
  <2>1. pollers' \in [Objects -> Hosts \cup {Absent}]
    BY <1>5 DEF StopPoller, TypeOK
  <2>2. "stopped" \in Says
    BY DEF Says
  <2>3. BrokerType' /\ faults' \in Failed
    BY <1>5, <2>2, PublishType, PublishErrorType DEF StopPoller, TypeOK, Failed, BrokerType
  <2> QED BY <1>5, <2>1, <2>3 DEF StopPoller, TypeOK, BrokerType, Failed
<1>6. CASE Removed
  BY <1>6 DEF Removed, TypeOK, Places
<1>7. CASE Exit
  BY <1>7 DEF Exit, TypeOK, Places
<1>8. CASE Exited
  BY <1>8 DEF Exited, TypeOK, Places
<1>9. CASE Restart
  BY <1>9 DEF Restart, TypeOK, Places, None, Settings
<1> QED BY <1>1, <1>2, <1>3, <1>4, <1>5, <1>6, <1>7, <1>8, <1>9 DEF Run

LEMMA ControlType ==
  ASSUME TypeOK, Crash \/ Control
  PROVE  TypeOK'
<1> USE DEF backend, broker, signals
<1>1. CASE Crash
  <2>1. faults' \in Failed
    BY <1>1, FailType DEF Crash
  <2> QED BY <1>1, <2>1 DEF Crash, TypeOK, Places, None, Failed
<1>2. CASE ControlSubscribe
  BY <1>2 DEF ControlSubscribe, TypeOK
<1>3. CASE ControlError
  <2>1. faults' \in Failed
    BY <1>3, FailType DEF ControlError
  <2> QED BY <1>3, <2>1 DEF ControlError, TypeOK, Failed
<1>4. CASE RestartAgent
  <2>1. faults' \in Failed
    BY <1>4, FailType DEF RestartAgent
  <2> QED BY <1>4, <2>1 DEF RestartAgent, TypeOK, Failed
<1> QED BY <1>1, <1>2, <1>3, <1>4 DEF Control

LEMMA OperatorType ==
  ASSUME TypeOK, Operator
  PROVE  TypeOK'
<1>1. ASSUME NEW o \in Objects, NEW r \in Settings, SetRow(o, r),
             deleted' \subseteq Objects
      PROVE  TypeOK'
  <2>1. edits' \in 0 .. MaxEdits
    BY <1>1, BoundsAssumption DEF SetRow, TypeOK
  <2>2. rows' \in [Objects -> Settings]
    BY <1>1 DEF SetRow, TypeOK
  <2> QED BY <1>1, <2>1, <2>2 DEF SetRow, TypeOK, broker, signals
<1>2. ASSUME NEW o \in Objects, NEW h \in Hosts \cup {Blank}, CreateObject(o, h)
      PROVE  TypeOK'
  BY <1>1, <1>2 DEF CreateObject, TypeOK, Settings
<1>3. ASSUME NEW o \in Objects, NEW h \in Hosts \cup {Blank}, UpdateObject(o, h)
      PROVE  TypeOK'
  BY <1>1, <1>3 DEF UpdateObject, TypeOK, Settings
<1>4. ASSUME NEW o \in Objects, DeleteObject(o)
      PROVE  TypeOK'
  BY <1>1, <1>4 DEF DeleteObject, TypeOK, Settings
<1> QED BY <1>2, <1>3, <1>4 DEF Operator

Worker == HandleStatus \/ HandleError \/ LoseWorker \/ Subscribe

LEMMA WorkerType ==
  ASSUME TypeOK, Worker
  PROVE  TypeOK'
<1> USE DEF backend, broker, signals
<1>1. CASE HandleStatus
  <2>1. Head(inbox) \in Status /\ Tail(inbox) \in Seq(Status)
    BY <1>1, HeadTail DEF HandleStatus, TypeOK, Status
  <2>2. rows' \in [Objects -> Settings]
    BY <1>1 DEF HandleStatus, EnsureObject, TypeOK, Settings
  <2>3. statuses' \in [Objects -> Says \cup {Absent}]
    BY <1>1, <2>1 DEF HandleStatus, TypeOK, Status
  <2> QED BY <1>1, <2>1, <2>2, <2>3 DEF HandleStatus, TypeOK, Status
<1>2. CASE HandleError
  <2>1. faults' \in Failed
    BY <1>2, FailType DEF HandleError
  <2>2. inbox' \in Seq(Status)
    BY <1>2, HeadTail DEF HandleError, TypeOK, Status
  <2> QED BY <1>2, <2>1, <2>2 DEF HandleError, TypeOK, Failed, Status
<1>3. CASE LoseWorker
  <2>1. faults' \in Failed
    BY <1>3, FailType DEF LoseWorker
  <2>2. inbox' \in Seq([object : Objects, status : Says])
    BY <1>3, EmptySeq DEF LoseWorker
  <2> QED BY <1>3, <2>1, <2>2 DEF LoseWorker, TypeOK, Failed
<1>4. CASE Subscribe
  <2> DEFINE T == {o \in Objects : retained[o] # Absent}
             R == {[object |-> o, status |-> retained[o]] : o \in T}
             f == [o \in T |-> [object |-> o, status |-> retained[o]]]
  <2>1. R \subseteq Status
    BY DEF TypeOK, Status
  <2>2. IsFiniteSet(R)
    <3>1. f \in Surjection(T, R)
      BY DEF Surjection
    <3>2. IsFiniteSet(T)
      BY ObjectsAssumption, FS_Subset
    <3> QED BY <3>1, <3>2, FS_Surjection
  <2>3. inbox' \in SetToSeqs(R)
    BY <1>4 DEF Subscribe
  <2>4. inbox' \in Seq(Status)
    BY <2>1, <2>2, <2>3, SequencesOfAFiniteSet
  <2> QED BY <1>4, <2>4 DEF Subscribe, TypeOK, Status
<1> QED BY <1>1, <1>2, <1>3, <1>4 DEF Worker

LEMMA ReportType ==
  ASSUME TypeOK, NEW o \in Objects, NEW s \in {"online", "offline"}, Report(o, s)
  PROVE  TypeOK'
<1>1. BrokerType'
  BY PublishType DEF Report, Says
<1> QED BY <1>1 DEF Report, BrokerType, TypeOK, backend, signals

LEMMA NextType == TypeOK /\ [Next]_vars => TypeOK'
<1> SUFFICES ASSUME TypeOK, [Next]_vars PROVE TypeOK'
  OBVIOUS
<1>1. CASE Next
  BY <1>1, RunType, ControlType, OperatorType, ReportType, WorkerType DEF Next, Worker
<1>2. CASE UNCHANGED vars
  BY <1>2 DEF vars, TypeOK
<1> QED BY <1>1, <1>2

(* Type correctness for any finite set of objects, any hosts and failures. *)
THEOREM TypeCorrect == Spec => []TypeOK
BY InitType, NextType, PTL DEF Spec

-------------------------------------------------------------------------------
(* PollersAreKnown says nothing while run reconciles; this does.  What the *)
(* steps of run have not yet treated is in todo.                           *)
Reconciled ==
  \A o \in Objects :
    /\ pc \in {"down", "load"} => pollers[o] = Absent
    /\ pc \in {"start", "add"} => pollers[o] \in {Absent, new[o]}
    /\ pc \in {"wait", "remove"} => pollers[o] \in {Absent, known[o]}
    /\ pc = "remove" /\ o \notin todo => pollers[o] \in {Absent, new[o]}
    /\ pc = "exit" /\ o \notin todo => pollers[o] = Absent

LEMMA InitReconciled == Init => Reconciled
BY DEF Init, Reconciled, None

LEMMA RunReconciles ==
  ASSUME TypeOK, Reconciled, Run
  PROVE  Reconciled'
<1> USE DEF Reconciled, backend, broker, signals
<1>1. CASE Load
  BY <1>1 DEF Load
<1>2. ASSUME NEW o \in Objects, StartPoller(o) PROVE Reconciled'
  <2>1. \/ pollers' = pollers
        \/ pollers' = [pollers EXCEPT ![o] = new[o]]
    BY <1>2 DEF StartPoller
  <2>2. \A p \in Objects : pollers'[p] \in {pollers[p], new[p]}
    BY <2>1 DEF TypeOK
  <2> QED BY <1>2, <2>2 DEF StartPoller
<1>3. CASE Started
  BY <1>3 DEF Started
<1>4. CASE PollObjects
  BY <1>4 DEF PollObjects
<1>5. ASSUME NEW o \in Objects, StopPoller(o) PROVE Reconciled'
  <2>1. \A p \in Objects : pollers'[p] = IF p = o THEN Absent ELSE pollers[p]
    BY <1>5 DEF StopPoller, TypeOK
  <2> QED BY <1>5, <2>1 DEF StopPoller
<1>6. CASE Removed
  BY <1>6 DEF Removed
<1>7. CASE Exit
  BY <1>7 DEF Exit
<1>8. CASE Exited
  BY <1>8 DEF Exited
<1>9. CASE Restart
  BY <1>9 DEF Restart
<1> QED BY <1>1, <1>2, <1>3, <1>4, <1>5, <1>6, <1>7, <1>8, <1>9 DEF Run

LEMMA NextReconciles == TypeOK /\ Reconciled /\ [Next]_vars => Reconciled'
<1> SUFFICES ASSUME TypeOK, Reconciled, [Next]_vars PROVE Reconciled'
  OBVIOUS
<1>1. CASE Run
  BY <1>1, RunReconciles
<1>2. CASE Crash
  BY <1>2 DEF Crash, Reconciled, None
<1>3. CASE UNCHANGED <<pc, todo, known, new, pollers>>
  BY <1>3 DEF Reconciled
<1>4. Control => UNCHANGED <<pc, todo, known, new, pollers>>
  BY DEF Control, ControlSubscribe, ControlError, RestartAgent
<1>5. Operator => UNCHANGED <<pc, todo, known, new, pollers>>
  BY DEF Operator, CreateObject, UpdateObject, DeleteObject, SetRow
<1>6. Worker => UNCHANGED <<pc, todo, known, new, pollers>>
  BY DEF Worker, HandleStatus, HandleError, LoseWorker, Subscribe
<1>7. ASSUME NEW o \in Objects, NEW s \in {"online", "offline"}, Report(o, s)
      PROVE  UNCHANGED <<pc, todo, known, new, pollers>>
  BY <1>7 DEF Report
<1>8. UNCHANGED vars => UNCHANGED <<pc, todo, known, new, pollers>>
  BY DEF vars
<1> QED BY <1>1, <1>2, <1>3, <1>4, <1>5, <1>6, <1>7, <1>8 DEF Next, Worker

(* Between two reconciliations no poller runs with settings other than     *)
(* those run knows (run, poll_objects), for any number of objects, edits   *)
(* and failures, wherever a crash or a restart interrupted it.             *)
THEOREM PollersAreAlwaysKnown == Spec => []PollersAreKnown
<1>1. Reconciled => PollersAreKnown
  BY DEF Reconciled, PollersAreKnown
<1> QED BY <1>1, InitReconciled, NextReconciles, TypeCorrect, PTL DEF Spec

-------------------------------------------------------------------------------
(* Where run starts pollers, those it has still to start are not running. *)
Unstarted == pc \in {"start", "add"} => \A o \in todo : pollers[o] = Absent

LEMMA NextUnstarted ==
  TypeOK /\ Reconciled /\ Unstarted /\ [Next]_vars => Unstarted'
<1> SUFFICES ASSUME TypeOK, Reconciled, Unstarted, [Next]_vars PROVE Unstarted'
  OBVIOUS
<1> USE DEF Unstarted, Reconciled
<1>1. CASE Load
  BY <1>1 DEF Load
<1>2. ASSUME NEW o \in Objects, StartPoller(o) PROVE Unstarted'
  <2>1. \A p \in Objects : p # o => pollers'[p] = pollers[p]
    BY <1>2 DEF StartPoller, TypeOK
  <2> QED BY <1>2, <2>1 DEF StartPoller, TypeOK
<1>3. CASE Removed
  BY <1>3 DEF Removed
<1>4. CASE pc' \notin {"start", "add"}
  BY <1>4
<1>5. Started \/ PollObjects \/ Exit \/ Exited \/ Restart \/ Crash => pc' \notin {"start", "add"}
  BY DEF Started, PollObjects, Exit, Exited, Restart, Crash
<1>6. ASSUME NEW o \in Objects, StopPoller(o) PROVE pc' \notin {"start", "add"}
  BY <1>6 DEF StopPoller
<1>7. CASE UNCHANGED <<pc, todo, pollers>>
  BY <1>7
<1>8. Control \/ Operator \/ Worker \/ UNCHANGED vars => UNCHANGED <<pc, todo, pollers>>
  BY DEF Control, ControlSubscribe, ControlError, RestartAgent,
         Operator, CreateObject, UpdateObject, DeleteObject, SetRow,
         Worker, HandleStatus, HandleError, LoseWorker, Subscribe, vars
<1>9. ASSUME NEW o \in Objects, NEW s \in {"online", "offline"}, Report(o, s)
      PROVE  UNCHANGED <<pc, todo, pollers>>
  BY <1>9 DEF Report
<1> QED BY <1>1, <1>2, <1>3, <1>4, <1>5, <1>6, <1>7, <1>8, <1>9 DEF Next, Run, Worker

(* What a failure loses. *)
Excused == ~Spared({"crash", "status"})

(* Every step fails in a way that is counted, or not at all. *)
LEMMA NextFails ==
  ASSUME [Next]_vars
  PROVE  UNCHANGED faults \/ \E kind \in Faults : Fail(kind)
<1>1. Run => UNCHANGED faults \/ \E kind \in Faults : Fail(kind)
  BY DEF Run, Load, Started, PollObjects, Removed, Exit, Exited, Restart,
         StartPoller, StopPoller, PublishError, Fail
<1>2. Crash \/ Control => UNCHANGED faults \/ \E kind \in Faults : Fail(kind)
  BY DEF Crash, Control, ControlSubscribe, ControlError, RestartAgent, Fail
<1>3. Operator => UNCHANGED faults
  BY DEF Operator, CreateObject, UpdateObject, DeleteObject, SetRow
<1>4. Worker => UNCHANGED faults \/ \E kind \in Faults : Fail(kind)
  BY DEF Worker, HandleStatus, HandleError, LoseWorker, Subscribe, Fail
<1>5. ASSUME NEW o \in Objects, NEW s \in {"online", "offline"}, Report(o, s)
      PROVE  UNCHANGED faults
  BY <1>5 DEF Report
<1>6. UNCHANGED vars => UNCHANGED faults
  BY DEF vars
<1> QED BY <1>1, <1>2, <1>3, <1>4, <1>5, <1>6 DEF Next, Worker

LEMMA FailIsLost ==
  ASSUME TypeOK, NEW kind, Fail(kind)
  PROVE  IF kind \in {"crash", "status"} THEN Excused' ELSE Excused' <=> Excused
<1> DEFINE kinds == faults.kinds \cup ({kind} \cap LostForGood)
<1>1. faults' = [count |-> faults.count + 1, kinds |-> kinds]
  BY DEF Fail
<1>2. faults'.kinds = kinds
  BY <1>1
<1> QED BY <1>2 DEF Excused, Spared, LostForGood

(* What is said of o, by its poller or when one is started or stopped. *)
Said(o, s) ==
  \/ retained'[o] = s /\ (Excused' <=> Excused)
  \/ retained'[o] \in {retained[o], s} /\ Excused'

LEMMA PublishIsSaid ==
  ASSUME TypeOK, NEW o \in Objects, NEW s,
         (Publish(o, s) /\ UNCHANGED faults) \/ PublishError(o, s)
  PROVE  /\ Said(o, s) /\ (Excused => Excused')
         /\ \A p \in Objects : p # o => retained'[p] = retained[p]
         /\ PublishError(o, s) => Excused' /\ retained'[o] \in {retained[o], s}
BY FailIsLost DEF Publish, PublishError, Said, Excused, Spared, TypeOK, broker

(* Of the others nothing is said. *)
LEMMA NothingIsSaid ==
  ASSUME NEW o \in Objects, retained'[o] = retained[o], pollers'[o] = pollers[o],
         Excused => Excused'
  PROVE  [Seen(o)!Next]_(Seen(o)!svars)
BY DEF Seen!Next, Seen!LostElsewhere, Seen!svars, Excused

LEMMA StatusesStep ==
  TypeOK /\ Unstarted /\ [Next]_vars => \A o \in Objects : [Seen(o)!Next]_(Seen(o)!svars)
<1> SUFFICES ASSUME TypeOK, Unstarted, [Next]_vars, NEW o \in Objects
             PROVE  [Seen(o)!Next]_(Seen(o)!svars)
  OBVIOUS
<1>1. Excused => Excused'
  BY NextFails, FailIsLost DEF Excused, Spared
<1>2. CASE StartPoller(o)
  <2>1. CASE UNCHANGED <<broker, pollers>>
    BY <1>1, <2>1, NothingIsSaid DEF broker
  <2>2. pollers[o] = Absent
    BY <1>2 DEF StartPoller, Unstarted
  <2>3. CASE /\ new[o] \in Hosts /\ Publish(o, "starting") /\ UNCHANGED faults
             /\ pollers' = [pollers EXCEPT ![o] = new[o]]
    <3>1. retained'[o] = "starting" /\ pollers'[o] # Absent /\ (Excused' <=> Excused)
      BY <2>3, SettingsAssumption DEF Publish, TypeOK, Excused, Spared
    <3> QED BY <2>2, <3>1 DEF Seen!Next, Seen!Start, Excused
  <2>4. CASE PublishError(o, "starting") /\ UNCHANGED pollers
    <3>1. Excused' /\ retained'[o] \in {retained[o], "starting"}
      BY <2>4, PublishIsSaid
    <3> QED BY <2>2, <2>4, <3>1 DEF Seen!Next, Seen!StartError, Seen!Lost, Excused
  <2> QED BY <1>2, <2>1, <2>3, <2>4 DEF StartPoller
<1>3. CASE StopPoller(o)
  <2>1. CASE pollers[o] = Absent
    <3>1. pollers'[o] = Absent /\ retained' = retained
      BY <1>3, <2>1 DEF StopPoller, broker, TypeOK
    <3> QED BY <1>1, <2>1, <3>1, NothingIsSaid
  <2>2. CASE pollers[o] # Absent
    <3>1. Said(o, "stopped")
      BY <1>3, <2>2, PublishIsSaid DEF StopPoller
    <3>2. pollers'[o] = Absent
      BY <1>3 DEF StopPoller, TypeOK
    <3> QED BY <2>2, <3>1, <3>2 DEF Said, Seen!Next, Seen!Stop, Seen!Publish, Seen!Lost, Excused
  <2> QED BY <2>1, <2>2
<1>4. ASSUME NEW s \in {"online", "offline"}, Report(o, s)
      PROVE  [Seen(o)!Next]_(Seen(o)!svars)
  <2>1. Said(o, s) /\ pollers[o] # Absent /\ pollers' = pollers
    BY <1>4, PublishIsSaid DEF Report
  <2> QED BY <2>1 DEF Said, Seen!Next, Seen!Report, Seen!Publish, Seen!Lost, Excused
<1>5. ASSUME NEW p \in Objects, p # o,
             \/ StartPoller(p) \/ StopPoller(p)
             \/ \E s \in {"online", "offline"} : Report(p, s)
      PROVE  [Seen(o)!Next]_(Seen(o)!svars)
  <2>1. retained'[o] = retained[o]
    BY <1>5, PublishIsSaid DEF StartPoller, StopPoller, Report, broker
  <2>2. pollers'[o] = pollers[o]
    BY <1>5 DEF StartPoller, StopPoller, Report, TypeOK
  <2> QED BY <1>1, <2>1, <2>2, NothingIsSaid
<1>6. CASE Crash
  <2>1. Excused' /\ retained' = retained /\ pollers'[o] = Absent
    BY <1>6, FailIsLost DEF Crash, broker, None
  <2>2. CASE pollers[o] = Absent
    BY <2>1, <2>2, NothingIsSaid
  <2>3. CASE pollers[o] # Absent
    BY <2>1, <2>3 DEF Seen!Next, Seen!Stop, Seen!Publish, Seen!Lost, Excused
  <2> QED BY <2>2, <2>3
<1>7. UNCHANGED <<retained, pollers>> => [Seen(o)!Next]_(Seen(o)!svars)
  BY <1>1, NothingIsSaid
<1>8. Load \/ Started \/ PollObjects \/ Removed \/ Exit \/ Exited \/ Restart
        => UNCHANGED <<retained, pollers>>
  BY DEF Load, Started, PollObjects, Removed, Exit, Exited, Restart, broker
<1>9. Control \/ Operator \/ Worker \/ UNCHANGED vars => UNCHANGED <<retained, pollers>>
  BY DEF Control, ControlSubscribe, ControlError, RestartAgent, broker,
         Operator, CreateObject, UpdateObject, DeleteObject, SetRow,
         Worker, HandleStatus, HandleError, LoseWorker, Subscribe, vars
<1> QED BY <1>2, <1>3, <1>4, <1>5, <1>6, <1>7, <1>8, <1>9 DEF Next, Run, Worker

(* Seen from the broker each object has one poller at a time, which begins *)
(* and ends as PollerStatus says: no reconciliation, restart or crash      *)
(* starts a second one beside a poller that run has lost sight of.         *)
THEOREM ImplementsStatuses == Spec => StatusesSpec
<1>1. Init => \A o \in Objects : Seen(o)!Init
  BY DEF Init, None, Seen!Init, Spared
<1>2. Init => Unstarted
  BY DEF Init, Unstarted
<1>3. Spec => []Reconciled
  BY InitReconciled, NextReconciles, TypeCorrect, PTL DEF Spec
<1>4. Spec => []Unstarted
  BY <1>2, <1>3, NextUnstarted, TypeCorrect, PTL DEF Spec
<1>5. TypeOK /\ Unstarted /\ [Next]_vars =>
        [\A o \in Objects : [Seen(o)!Next]_(Seen(o)!svars)]_vars
  BY StatusesStep
<1> QED BY <1>1, <1>4, <1>5, TypeCorrect, PTL DEF Spec, StatusesSpec

(* An agent that exited and did not crash has left no object "online",     *)
(* "offline" or "starting" (the end of run stops every poller), however    *)
(* many objects it had and whatever operators did to them meanwhile.       *)
THEOREM ExitedAreStopped == Spec => []ExitedIsStopped
<1> DEFINE Words == \A o \in Objects : Seen(o)!WordIsTrue
<1>1. (\A o \in Objects : Seen(o)!Init) => Words
  BY DEF Seen!Init, Seen!WordIsTrue
<1>2. Words /\ [\A o \in Objects : [Seen(o)!Next]_(Seen(o)!svars)]_vars => Words'
  <2>1. ASSUME NEW o \in Objects, Seen(o)!WordIsTrue, [Seen(o)!Next]_(Seen(o)!svars)
        PROVE  Seen(o)!WordIsTrue'
    BY <2>1 DEF Seen!WordIsTrue, Seen!Next, Seen!Start, Seen!StartError, Seen!Report, Seen!Stop,
                Seen!LostElsewhere, Seen!Publish, Seen!Lost, Seen!svars
  <2>2. ASSUME NEW o \in Objects, Seen(o)!WordIsTrue, UNCHANGED vars
        PROVE  Seen(o)!WordIsTrue'
    BY <2>2 DEF Seen!WordIsTrue, vars, Spared
  <2> QED BY <2>1, <2>2
<1>3. Reconciled /\ Words => ExitedIsStopped
  BY DEF Reconciled, ExitedIsStopped, Seen!WordIsTrue
<1>4. Spec => []Reconciled
  BY InitReconciled, NextReconciles, TypeCorrect, PTL DEF Spec
<1>5. Spec => []Words
  <2> HIDE DEF Words
  <2> QED BY <1>1, <1>2, ImplementsStatuses, PTL DEF StatusesSpec
<1> QED
  <2> HIDE DEF Words
  <2> QED BY <1>3, <1>4, <1>5, PTL

-------------------------------------------------------------------------------
(* What a queue says of an object. *)

Silent(q, o) == \A i \in 1 .. Len(q) : q[i].object # o
EndsWith(q, o, s) ==
  \A i \in 1 .. Len(q) :
    q[i].object = o /\ (\A j \in 1 .. Len(q) : j > i => q[j].object # o)
      => q[i].status = s

LEMMA AppendSays ==
  ASSUME NEW q \in Seq(Status), NEW e \in Status, NEW o \in Objects, NEW s
  PROVE  /\ Silent(Append(q, e), o) <=> Silent(q, o) /\ e.object # o
         /\ e.object = o => EndsWith(Append(q, e), o, e.status)
         /\ e.object # o /\ EndsWith(q, o, s) => EndsWith(Append(q, e), o, s)
<1> DEFINE a == Append(q, e)
<1>1. /\ Len(a) = Len(q) + 1 /\ a[Len(a)] = e
      /\ Len(q) \in Nat /\ \A i \in 1 .. Len(q) : a[i] = q[i]
  OBVIOUS
<1> HIDE DEF a
<1>2. Silent(a, o) <=> Silent(q, o) /\ e.object # o
  BY <1>1 DEF Silent
<1>3. ASSUME e.object = o PROVE EndsWith(a, o, e.status)
  BY <1>1, <1>3 DEF EndsWith
<1>4. ASSUME e.object # o, EndsWith(q, o, s) PROVE EndsWith(a, o, s)
  BY <1>1, <1>4 DEF EndsWith
<1> QED BY <1>2, <1>3, <1>4 DEF a

LEMMA TailSays ==
  ASSUME NEW q \in Seq(Status), q # <<>>, NEW o \in Objects, NEW s
  PROVE  /\ Silent(q, o) <=> Silent(Tail(q), o) /\ Head(q).object # o
         /\ EndsWith(q, o, s) => EndsWith(Tail(q), o, s)
         /\ EndsWith(q, o, s) /\ Silent(Tail(q), o) /\ Head(q).object = o
              => Head(q).status = s
<1> DEFINE t == Tail(q)
<1>1. /\ Len(q) \in Nat /\ Len(q) > 0 /\ Len(t) = Len(q) - 1
      /\ Head(q) = q[1] /\ \A i \in 1 .. Len(t) : t[i] = q[i + 1]
  OBVIOUS
<1> HIDE DEF t
<1>2. \A i \in 2 .. Len(q) : i - 1 \in 1 .. Len(t) /\ t[i - 1] = q[i]
  BY <1>1
<1>3. Silent(q, o) <=> Silent(t, o) /\ q[1].object # o
  BY <1>1, <1>2 DEF Silent
<1>4. ASSUME EndsWith(q, o, s) PROVE EndsWith(t, o, s)
  <2> SUFFICES ASSUME NEW i \in 1 .. Len(t), t[i].object = o,
                      \A j \in 1 .. Len(t) : j > i => t[j].object # o
               PROVE  t[i].status = s
    BY DEF EndsWith
  <2>1. i + 1 \in 1 .. Len(q) /\ q[i + 1] = t[i]
    BY <1>1
  <2>2. \A j \in 1 .. Len(q) : j > i + 1 => q[j].object # o
    BY <1>1, <1>2
  <2> QED BY <1>4, <2>1, <2>2 DEF EndsWith
<1>5. ASSUME EndsWith(q, o, s), Silent(t, o), q[1].object = o PROVE q[1].status = s
  <2>1. \A j \in 1 .. Len(q) : j > 1 => q[j].object # o
    BY <1>1, <1>2, <1>5 DEF Silent
  <2> QED BY <1>1, <1>5, <2>1 DEF EndsWith
<1> QED BY <1>1, <1>3, <1>4, <1>5 DEF t

(* What the worker shows, once it has handled what it received; and what   *)
(* it shows or receives of an object has been retained before.             *)
Follows ==
  \A o \in Objects :
    /\ worker => EndsWith(inbox, o, retained[o])
    /\ worker /\ Silent(inbox, o) => statuses[o] = retained[o]
    /\ retained[o] = Absent => statuses[o] = Absent /\ Silent(inbox, o)
FollowsOrLost == ~Spared({"database"}) \/ Follows

LEMMA InitFollows == Init => FollowsOrLost
<1> SUFFICES ASSUME Init PROVE Follows
  BY DEF FollowsOrLost
<1>1. Len(inbox) = 0 /\ \A o \in Objects : statuses[o] = retained[o]
  BY DEF Init
<1> QED BY <1>1 DEF Init, None, Follows, Silent, EndsWith

LEMMA PublishFollows ==
  ASSUME TypeOK, Follows, NEW o \in Objects, NEW s \in Says, Publish(o, s),
         UNCHANGED statuses
  PROVE  Follows'
<1> DEFINE e == [object |-> o, status |-> s]
<1>1. /\ e \in Status /\ e.object = o /\ e.status = s
      /\ inbox \in Seq(Status) /\ s # Absent
  BY SettingsAssumption DEF TypeOK, Status
<1>2. \A p \in Objects : retained'[p] = IF p = o THEN s ELSE retained[p]
  BY DEF Publish, TypeOK
<1>3. worker' = worker /\ inbox' = IF worker THEN Append(inbox, e) ELSE inbox
  BY DEF Publish
<1> HIDE DEF e
<1> SUFFICES ASSUME NEW p \in Objects
             PROVE  /\ worker' => EndsWith(inbox', p, retained'[p])
                    /\ worker' /\ Silent(inbox', p) => statuses'[p] = retained'[p]
                    /\ retained'[p] = Absent => statuses'[p] = Absent /\ Silent(inbox', p)
  BY DEF Follows, EndsWith, Silent
<1>4. /\ worker => EndsWith(inbox, p, retained[p])
      /\ worker /\ Silent(inbox, p) => statuses[p] = retained[p]
      /\ retained[p] = Absent => statuses[p] = Absent /\ Silent(inbox, p)
  BY DEF Follows
<1>5. CASE worker
  <2>1. /\ Silent(Append(inbox, e), p) <=> Silent(inbox, p) /\ e.object # p
        /\ e.object = p => EndsWith(Append(inbox, e), p, e.status)
        /\ e.object # p /\ EndsWith(inbox, p, retained[p])
             => EndsWith(Append(inbox, e), p, retained[p])
    BY <1>1, AppendSays
  <2> QED BY <1>1, <1>2, <1>3, <1>4, <1>5, <2>1
<1>6. CASE ~worker
  BY <1>1, <1>2, <1>3, <1>4, <1>6
<1> QED BY <1>5, <1>6, <1>3

LEMMA HandleFollows ==
  ASSUME TypeOK, Follows, HandleStatus
  PROVE  Follows'
<1> DEFINE e == Head(inbox)
<1>1. inbox \in Seq(Status) /\ inbox # <<>> /\ e \in Status
  BY HeadTail DEF TypeOK, Status, HandleStatus
<1>2. /\ inbox' = Tail(inbox) /\ worker' = worker /\ retained' = retained
      /\ statuses' = [statuses EXCEPT ![e.object] = e.status]
  BY DEF HandleStatus
<1> HIDE DEF e
<1>3. \A p \in Objects : statuses'[p] = IF p = e.object THEN e.status ELSE statuses[p]
  BY <1>1, <1>2 DEF TypeOK, Status
<1> SUFFICES ASSUME NEW p \in Objects
             PROVE  /\ worker' => EndsWith(inbox', p, retained'[p])
                    /\ worker' /\ Silent(inbox', p) => statuses'[p] = retained'[p]
                    /\ retained'[p] = Absent => statuses'[p] = Absent /\ Silent(inbox', p)
  BY DEF Follows, EndsWith, Silent
<1>4. /\ worker => EndsWith(inbox, p, retained[p])
      /\ worker /\ Silent(inbox, p) => statuses[p] = retained[p]
      /\ retained[p] = Absent => statuses[p] = Absent /\ Silent(inbox, p)
  BY DEF Follows
<1>5. /\ Silent(inbox, p) <=> Silent(Tail(inbox), p) /\ e.object # p
      /\ EndsWith(inbox, p, retained[p]) => EndsWith(Tail(inbox), p, retained[p])
      /\ EndsWith(inbox, p, retained[p]) /\ Silent(Tail(inbox), p) /\ e.object = p
           => e.status = retained[p]
  BY <1>1, TailSays DEF e
<1> QED BY <1>2, <1>3, <1>4, <1>5

(* The broker sends every retained status, whatever the order. *)
LEMMA SubscribeFollows ==
  ASSUME TypeOK, Follows, Subscribe
  PROVE  Follows'
<1> DEFINE T == {o \in Objects : retained[o] # Absent}
           R == {[object |-> o, status |-> retained[o]] : o \in T}
           f == [o \in T |-> [object |-> o, status |-> retained[o]]]
           n == Cardinality(R)
<1>1. IsFiniteSet(R) /\ n \in Nat
  <2>1. f \in Surjection(T, R)
    BY DEF Surjection
  <2>2. IsFiniteSet(T)
    BY ObjectsAssumption, FS_Subset
  <2>3. IsFiniteSet(R)
    BY <2>1, <2>2, FS_Surjection
  <2> QED BY <2>3, FS_CardinalityType
<1>2. /\ inbox' \in [1 .. n -> R]
      /\ \A i, j \in 1 .. n : i # j => inbox'[i] # inbox'[j]
  BY DEF Subscribe, SetToSeqs
<1>3. Len(inbox') = n
  BY <1>1, <1>2
<1>4. \A e \in R : \E i \in 1 .. n : inbox'[i] = e
  <2>1. inbox' \in Injection(1 .. n, R)
    BY <1>2 DEF Injection, IsInjective
  <2>2. IsFiniteSet(1 .. n) /\ Cardinality(1 .. n) = n
    BY <1>1, FS_Interval
  <2>3. inbox' \in Surjection(1 .. n, R)
    BY <1>1, <2>1, <2>2, FS_Injection
  <2> QED BY <2>3 DEF Surjection
<1>5. worker' /\ retained' = retained /\ statuses' = statuses
  BY DEF Subscribe, backend
<1> SUFFICES ASSUME NEW p \in Objects
             PROVE  /\ EndsWith(inbox', p, retained[p])
                    /\ Silent(inbox', p) => statuses[p] = retained[p]
                    /\ retained[p] = Absent => statuses[p] = Absent /\ Silent(inbox', p)
  BY <1>5 DEF Follows, EndsWith, Silent
<1>6. \A i \in 1 .. n : /\ inbox'[i].object \in T
                        /\ inbox'[i].status = retained[inbox'[i].object]
  BY <1>2
<1>7. EndsWith(inbox', p, retained[p])
  BY <1>3, <1>6 DEF EndsWith
<1>8. retained[p] = Absent => statuses[p] = Absent /\ Silent(inbox', p)
  BY <1>3, <1>6 DEF Silent, Follows
<1>9. ASSUME Silent(inbox', p) PROVE p \notin T
  <2> SUFFICES ASSUME p \in T PROVE FALSE
    OBVIOUS
  <2>1. [object |-> p, status |-> retained[p]] \in R
    OBVIOUS
  <2>2. PICK i \in 1 .. n : inbox'[i] = [object |-> p, status |-> retained[p]]
    BY <1>4, <2>1
  <2> QED BY <1>3, <1>9, <2>2 DEF Silent
<1> QED BY <1>7, <1>8, <1>9

LEMMA NextFollows ==
  TypeOK /\ FollowsOrLost /\ [Next]_vars => FollowsOrLost'
<1> SUFFICES ASSUME TypeOK, FollowsOrLost, [Next]_vars PROVE FollowsOrLost'
  OBVIOUS
<1>1. UNCHANGED faults \/ \E kind \in Faults : Fail(kind)
  BY NextFails
<1>2. CASE ~Spared({"database"})
  <2>1. faults.kinds \subseteq faults'.kinds
    BY <1>1, FailType
  <2> QED BY <1>2, <2>1 DEF FollowsOrLost, Spared
<1>3. CASE Follows
  <2>1. ASSUME UNCHANGED <<retained, inbox, worker, statuses>> PROVE Follows'
    BY <1>3, <2>1 DEF Follows, EndsWith, Silent
  <2>2. CASE Run
    <3>1. ASSUME NEW o \in Objects, StartPoller(o) PROVE Follows'
      BY <1>3, <2>1, <3>1, PublishFollows
         DEF StartPoller, PublishError, broker, backend, Says
    <3>2. ASSUME NEW o \in Objects, StopPoller(o) PROVE Follows'
      BY <1>3, <2>1, <3>2, PublishFollows
         DEF StopPoller, PublishError, broker, backend, Says
    <3>3. Load \/ Started \/ PollObjects \/ Removed \/ Exit \/ Exited \/ Restart
            => UNCHANGED <<retained, inbox, worker, statuses>>
      BY DEF Load, Started, PollObjects, Removed, Exit, Exited, Restart, broker, backend
    <3> QED BY <2>1, <2>2, <3>1, <3>2, <3>3 DEF Run, FollowsOrLost
  <2>3. Crash \/ Control => UNCHANGED <<retained, inbox, worker, statuses>>
    BY DEF Crash, Control, ControlSubscribe, ControlError, RestartAgent, broker, backend
  <2>4. Operator => UNCHANGED <<retained, inbox, worker, statuses>>
    BY DEF Operator, CreateObject, UpdateObject, DeleteObject, SetRow, broker
  <2>5. ASSUME NEW o \in Objects, NEW s \in {"online", "offline"}, Report(o, s)
        PROVE  Follows'
    BY <1>3, <2>5, PublishFollows DEF Report, backend, Says
  <2>6. CASE HandleStatus
    BY <1>3, <2>6, HandleFollows DEF FollowsOrLost
  <2>7. CASE HandleError
    <3>1. "database" \in faults'.kinds
      BY <2>7, FailType DEF HandleError, LostForGood
    <3> QED BY <3>1 DEF FollowsOrLost, Spared
  <2>8. CASE LoseWorker
    <3>1. ~worker' /\ inbox' = <<>> /\ retained' = retained /\ statuses' = statuses
      BY <2>8 DEF LoseWorker, backend
    <3> QED BY <1>3, <3>1 DEF Follows, FollowsOrLost, Silent, EndsWith
  <2>9. CASE Subscribe
    BY <1>3, <2>9, SubscribeFollows DEF FollowsOrLost
  <2>10. UNCHANGED vars => UNCHANGED <<retained, inbox, worker, statuses>>
    BY DEF vars
  <2> QED BY <2>1, <2>2, <2>3, <2>4, <2>5, <2>6, <2>7, <2>8, <2>9, <2>10
          DEF Next, FollowsOrLost
<1> QED BY <1>2, <1>3 DEF FollowsOrLost

(* A worker that has handled what it received shows the last status of     *)
(* every object (_handle_agent_status), however often it lost its          *)
(* connection and whatever it missed meanwhile: the status is retained.    *)
THEOREM StatusAlwaysFollows == Spec => []StatusFollows
<1>1. TypeOK /\ FollowsOrLost => StatusFollows
  BY DEF TypeOK, FollowsOrLost, Follows, StatusFollows, Silent
<1> QED BY <1>1, InitFollows, NextFollows, TypeCorrect, PTL DEF Spec
===============================================================================
