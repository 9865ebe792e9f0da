------------------------- MODULE AdministrationProofs -------------------------
(***************************************************************************)
(* What an administrator starts, for any sets of jobs and requests and any *)
(* number of failures.                                                     *)
(*                                                                         *)
(* Diagnostics: each safety property needs to know a little more: that the *)
(* task of the only run is the one admin_run_diagnostics remembers         *)
(* (Remembered), and that the file tells what a task is about to save      *)
(* (Prepared).                                                             *)
(*                                                                         *)
(* RuntimeMode: SwitchIsRead is inductive on typed states.  The word that  *)
(* a service has to read the file again is handed from the request to the  *)
(* control message or the scheduled signal, from there to the program that *)
(* stops and from there to the shell, and each step that drops it says so  *)
(* in `missed'.                                                            *)
(***************************************************************************)
EXTENDS Administration, TLAPS

(* Unless starts overlap, nothing works but the task that is remembered. *)
Remembered == raced \/ \A j \in Jobs : at[j] \in Working => task = j

(* What a task is about to save is what the file says, if it still says    *)
(* anything of that run.                                                   *)
Prepared ==
  \A j \in Jobs :
    at[j] \in {"saving", "resaving"} /\ file.job = j => file.status = result[j]

Inv == TypeOK /\ OneRun /\ Remembered /\ SavedIsTold /\ Prepared /\ RunningGoesOn

LEMMA InitInv == Init => Inv
<1> SUFFICES ASSUME Init PROVE Inv
  OBVIOUS
<1>1. \A j \in Jobs : at[j] = "idle"
  BY DEF Init
<1>2. TypeOK
  <2>1. at \in [Jobs -> Places] /\ result \in [Jobs -> Outcomes \cup {"none"}]
    BY DEF Init, Places
  <2>2. rows \in [Jobs -> Statuses] /\ file \in [job : Jobs \cup {None}, status : Statuses]
    BY DEF Init, Statuses
  <2>3. faults \in 0 .. MaxFaults
    BY BoundAssumption DEF Init
  <2>4. task \in Jobs \cup {None} /\ broken \in BOOLEAN /\ raced \in BOOLEAN
    BY DEF Init
  <2> QED
    BY <1>1, <2>1, <2>2, <2>3, <2>4 DEF TypeOK
<1>3. OneRun /\ Remembered /\ SavedIsTold /\ Prepared
  BY <1>1 DEF OneRun, Remembered, SavedIsTold, Prepared, Active, Working
<1>4. RunningGoesOn
  BY DEF Init, RunningGoesOn
<1> QED
  BY <1>2, <1>3, <1>4 DEF Inv
-------------------------------------------------------------------------------
(* Types. *)

LEMMA TypeStep == TypeOK /\ [Next]_vars => TypeOK'
<1> SUFFICES ASSUME TypeOK, [Next]_vars PROVE TypeOK'
  OBVIOUS
<1> USE DEF TypeOK, Outcomes, Statuses, Places, Working, Move
<1>1. ASSUME NEW j \in Jobs, Start(j) PROVE TypeOK'
  BY <1>1 DEF Start, Tell
<1>2. ASSUME NEW j \in Jobs, StartError(j) PROVE TypeOK'
  BY <1>2, BoundAssumption DEF StartError, Break, Fail
<1>3. ASSUME NEW j \in Jobs, InsertRow(j) PROVE TypeOK'
  BY <1>3 DEF InsertRow, Store
<1>4. ASSUME NEW j \in Jobs, InsertError(j) PROVE TypeOK'
  BY <1>4, BoundAssumption DEF InsertError, Store, Break, Fail
<1>5. ASSUME NEW j \in Jobs, Finish(j) PROVE TypeOK'
  BY <1>5 DEF Finish, Report, Tell
<1>6. ASSUME NEW j \in Jobs, ReportError(j) PROVE TypeOK'
  BY <1>6, BoundAssumption DEF ReportError, Report, Tell, Break, Fail
<1>7. ASSUME NEW j \in Jobs, Save(j) PROVE TypeOK'
  BY <1>7 DEF Save, Store
<1>8. ASSUME NEW j \in Jobs, SaveError(j) PROVE TypeOK'
  BY <1>8, BoundAssumption DEF SaveError, Report, Store, Tell, Break, Fail
<1>9. CASE Restart
  <2>1. at' \in [Jobs -> Places] /\ task' = None /\ UNCHANGED <<result, rows, raced>>
    BY <1>9 DEF Restart, Recover, Stop
  <2>2. \A j \in Jobs : at'[j] \notin Working
    BY <1>9 DEF Restart, Recover, Stop, Active
  <2>3. faults' \in 0 .. MaxFaults
    BY <1>9, BoundAssumption DEF Restart, Fail
  <2>4. broken' \in BOOLEAN
    BY <1>9, Zenon DEF Restart, Recover
  <2>5. file' \in [job : Jobs \cup {None}, status : Statuses]
    BY <1>9 DEF Restart, Recover
  <2> QED
    BY <2>1, <2>2, <2>3, <2>4, <2>5
<1>10. CASE UNCHANGED vars
  BY <1>10 DEF vars
<1> QED
  BY <1>1, <1>2, <1>3, <1>4, <1>5, <1>6, <1>7, <1>8, <1>9, <1>10
  DEF Next, Request, Job
-------------------------------------------------------------------------------
(* One run at a time. *)

(* A step that starts no run and remembers no other task, and after which  *)
(* only what was active or worked still is, disturbs neither part.         *)
LEMMA FewerRuns ==
  ASSUME OneRun, Remembered, UNCHANGED <<task, raced>>,
         \A k \in Jobs : at'[k] \in Working => at[k] \in Working,
         \A k \in Jobs : at'[k] = "inserting" => at[k] = "inserting"
  PROVE  OneRun' /\ Remembered'
  BY DEF OneRun, Remembered, Active

LEMMA RunStep == TypeOK /\ OneRun /\ Remembered /\ [Next]_vars => OneRun' /\ Remembered'
<1> SUFFICES ASSUME TypeOK, OneRun, Remembered, [Next]_vars PROVE OneRun' /\ Remembered'
  OBVIOUS
<1> USE DEF Working, Move
<1>0. at \in [Jobs -> Places]
  BY DEF TypeOK
<1>1. ASSUME NEW j \in Jobs, Start(j) PROVE OneRun' /\ Remembered'
  <2>1. CASE raced'
    BY <2>1 DEF OneRun, Remembered
  <2>2. CASE ~raced'
    <3>1. (~raced \/ Active = {}) /\ \A k \in Jobs : at[k] # "inserting"
      BY <1>1, <2>2 DEF Start
    <3>2. \A k \in Jobs : at[k] \notin Working
      BY <1>1, <3>1 DEF Start, TaskDone, Remembered, Active
    <3>3. \A k \in Jobs : at'[k] = IF k = j THEN "inserting" ELSE at[k]
      BY <1>0, <1>1 DEF Start
    <3>4. Active' \subseteq {j} /\ \A k \in Jobs : at'[k] \notin Working
      BY <3>1, <3>2, <3>3 DEF Active
    <3> QED
      BY <3>4 DEF OneRun, Remembered
  <2> QED
    BY <2>1, <2>2
<1>2. ASSUME NEW j \in Jobs, StartError(j) PROVE OneRun' /\ Remembered'
  BY <1>0, <1>2, FewerRuns DEF StartError
<1>3. ASSUME NEW j \in Jobs, InsertRow(j) PROVE OneRun' /\ Remembered'
  <2>1. \A k \in Jobs : at'[k] = IF k = j THEN "testing" ELSE at[k]
    BY <1>0, <1>3 DEF InsertRow
  <2>2. Active' = Active /\ j \in Active
    BY <1>3, <2>1 DEF InsertRow, Active
  <2>3. OneRun'
    BY <1>3, <2>2 DEF InsertRow, OneRun
  <2>4. Remembered'
    BY <1>3, <2>1, <2>2, <2>3 DEF InsertRow, OneRun, Remembered, Active
  <2> QED
    BY <2>3, <2>4
<1>4. ASSUME NEW j \in Jobs, InsertError(j) PROVE OneRun' /\ Remembered'
  BY <1>0, <1>4, FewerRuns DEF InsertError
<1>5. ASSUME NEW j \in Jobs, Finish(j) PROVE OneRun' /\ Remembered'
  BY <1>0, <1>5, FewerRuns DEF Finish, Report
<1>6. ASSUME NEW j \in Jobs, ReportError(j) PROVE OneRun' /\ Remembered'
  BY <1>0, <1>6, FewerRuns DEF ReportError, Report
<1>7. ASSUME NEW j \in Jobs, Save(j) PROVE OneRun' /\ Remembered'
  BY <1>0, <1>7, FewerRuns DEF Save
<1>8. ASSUME NEW j \in Jobs, SaveError(j) PROVE OneRun' /\ Remembered'
  BY <1>0, <1>8, FewerRuns DEF SaveError, Report
<1>9. CASE Restart
  <2>1. \A k \in Jobs : at'[k] \notin Working \cup {"inserting"}
    BY <1>0, <1>9 DEF Restart, Recover, Stop, Active
  <2> QED
    BY <2>1 DEF OneRun, Remembered, Active
<1>10. CASE UNCHANGED vars
  BY <1>10, FewerRuns DEF vars
<1> QED
  BY <1>1, <1>2, <1>3, <1>4, <1>5, <1>6, <1>7, <1>8, <1>9, <1>10
  DEF Next, Request, Job
-------------------------------------------------------------------------------
(* File, row and task. *)

Told == SavedIsTold /\ Prepared /\ RunningGoesOn

LEMMA ToldStep == TypeOK /\ Told /\ [Next]_vars => Told'
<1> SUFFICES ASSUME TypeOK, Told, [Next]_vars PROVE Told'
  OBVIOUS
<1> USE DEF Told, SavedIsTold, Prepared, RunningGoesOn, TypeOK,
            Active, Working, Outcomes, Statuses, Move
<1>1. ASSUME NEW j \in Jobs, Start(j) PROVE Told'
  BY <1>1 DEF Start, Tell
<1>2. ASSUME NEW j \in Jobs, StartError(j) PROVE Told'
  BY <1>2 DEF StartError, Break
<1>3. ASSUME NEW j \in Jobs, InsertRow(j) PROVE Told'
  BY <1>3 DEF InsertRow, Store
<1>4. ASSUME NEW j \in Jobs, InsertError(j) PROVE Told'
  BY <1>4 DEF InsertError, Store, Break
<1>5. ASSUME NEW j \in Jobs, Finish(j) PROVE Told'
  BY <1>5 DEF Finish, Report, Tell
<1>6. ASSUME NEW j \in Jobs, ReportError(j) PROVE Told'
  BY <1>6 DEF ReportError, Report, Tell, Break
<1>7. ASSUME NEW j \in Jobs, Save(j) PROVE Told'
  BY <1>7 DEF Save, Store
<1>8. ASSUME NEW j \in Jobs, SaveError(j) PROVE Told'
  BY <1>8 DEF SaveError, Report, Store, Tell, Break
<1>9. CASE Restart
  BY <1>9 DEF Restart, Recover, Stop
<1>10. CASE UNCHANGED vars
  BY <1>10 DEF vars
<1> QED
  BY <1>1, <1>2, <1>3, <1>4, <1>5, <1>6, <1>7, <1>8, <1>9, <1>10
  DEF Next, Request, Job
-------------------------------------------------------------------------------
LEMMA Invariance == Spec => []Inv
<1>1. Inv /\ [Next]_vars => Inv'
  BY TypeStep, RunStep, ToldStep DEF Inv, Told
<1> QED
  BY InitInv, <1>1, PTL DEF Spec

(* Every job, the state file and the rows stay within their types, however *)
(* many runs there are and whatever fails.                                 *)
THEOREM TypeCorrect == Spec => []TypeOK
<1>1. Inv => TypeOK
  BY DEF Inv
<1> QED
  BY Invariance, <1>1, PTL

(* admin_run_diagnostics starts a run beside another only if two requests  *)
(* overlapped.                                                             *)
THEOREM OneRunAtATime == Spec => []OneRun
<1>1. Inv => OneRun
  BY DEF Inv
<1> QED
  BY Invariance, <1>1, PTL

(* Whatever _save_test_run stored at last is what the state file says of   *)
(* that run, also after a failed attempt.                                  *)
THEOREM SavedRunsAreTold == Spec => []SavedIsTold
<1>1. Inv => SavedIsTold
  BY DEF Inv
<1> QED
  BY Invariance, <1>1, PTL

(* While nothing but restarts goes wrong, the state file says "running"    *)
(* only of a run that goes on.                                             *)
THEOREM RunningIsGoingOn == Spec => []RunningGoesOn
<1>1. Inv => RunningGoesOn
  BY DEF Inv
<1> QED
  BY Invariance, <1>1, PTL

-------------------------------------------------------------------------------
(* The mode. *)

ModeStages == {"idle", "switching", "restarting", "done"}

(* The variables one by one, as far as the steps below need them. *)
ModeTyped ==
  /\ mode \in [Mode!Services -> Mode!Modes] /\ life \in [Mode!Services -> Mode!Lives]
  /\ admin \in [Admins -> ModeStages] /\ missed \in [Mode!Services -> BOOLEAN]
  /\ mode_file \in Mode!Modes
  /\ listening \in BOOLEAN /\ control \in BOOLEAN /\ kill \in BOOLEAN

LEMMA ModeTypedIsType == Mode!TypeOK => ModeTyped
BY DEF Mode!TypeOK, ModeTyped, ModeStages

-------------------------------------------------------------------------------
LEMMA InitModeType ==
  ASSUME Mode!FailuresAssumption
  PROVE  Mode!Init => Mode!TypeOK
<1> SUFFICES ASSUME Mode!Init PROVE Mode!TypeOK
  OBVIOUS
<1> USE DEF Mode!FailuresAssumption, Mode!Init, Mode!Services, Mode!Modes, Mode!Lives
<1>1. mode \in [Mode!Services -> Mode!Modes] /\ life \in [Mode!Services -> Mode!Lives]
  OBVIOUS
<1>2. missed \in [Mode!Services -> BOOLEAN]
  BY Zenon
<1>3. failures \in 0 .. MaxFailures
  OBVIOUS
<1>4. admin \in [Admins -> {"idle", "switching", "restarting", "done"}]
  OBVIOUS
<1> QED BY <1>1, <1>2, <1>3, <1>4 DEF Mode!TypeOK

LEMMA ModeFailType ==
  ASSUME Mode!FailuresAssumption, Mode!TypeOK, Mode!Fail
  PROVE  failures' \in 0 .. MaxFailures
BY DEF Mode!FailuresAssumption, Mode!TypeOK, Mode!Fail

(* A step of a request keeps the types. *)
LEMMA RequestType ==
  ASSUME Mode!FailuresAssumption, Mode!TypeOK, NEW r \in Admins, Mode!Request(r)
  PROVE  Mode!TypeOK'
<1> USE DEF Mode!TypeOK
<1>1. CASE \E m \in Mode!Modes : Mode!SetMode(r, m)
  BY <1>1 DEF Mode!SetMode, Mode!Ask
<1>2. CASE Mode!RestartAgent(r)
  BY <1>2 DEF Mode!RestartAgent, Mode!Ask
<1>3. CASE Mode!RestartBackend(r)
  BY <1>3 DEF Mode!RestartBackend, Mode!Ask
<1>4. CASE Mode!Published(r)
  <2>1. missed' \in [Mode!Services -> BOOLEAN]
    BY <1>4, Zenon DEF Mode!Published, Mode!Heard
  <2> QED BY <1>4, <2>1 DEF Mode!Published, Mode!Answer, Mode!Heard
<1>5. CASE Mode!PublishError(r)
  <2>1. missed' \in [Mode!Services -> BOOLEAN]
    BY <1>5, Zenon DEF Mode!PublishError
  <2>2. failures' \in 0 .. MaxFailures
    BY <1>5, ModeFailType DEF Mode!PublishError
  <2>3. control' \in BOOLEAN /\ (control' => listening)
    BY <1>5 DEF Mode!PublishError
  <2> QED BY <1>5, <2>1, <2>2, <2>3 DEF Mode!PublishError, Mode!Answer
<1> QED BY <1>1, <1>2, <1>3, <1>4, <1>5 DEF Mode!Request

(* A step of a service keeps the types. *)
LEMMA ServiceType ==
  ASSUME Mode!FailuresAssumption, Mode!TypeOK, NEW s \in Mode!Services, Mode!Service(s)
  PROVE  Mode!TypeOK'
<1> USE DEF Mode!TypeOK
<1>1. CASE Mode!End(s)
  <2>1. CASE mode[s] = "development"
    <3>1. missed' \in [Mode!Services -> BOOLEAN] /\ life' \in [Mode!Services -> Mode!Lives]
      BY <1>1, <2>1 DEF Mode!End, Mode!Reload, Mode!Becomes, Mode!Lives
    <3>2. listening' => life'["agent"] = "serving"
      BY <1>1, <2>1 DEF Mode!End, Mode!Reload, Mode!Becomes, Mode!Forget, Mode!Services
    <3> QED BY <1>1, <2>1, <3>1, <3>2 DEF Mode!End, Mode!Reload, Mode!Forget
  <2>2. CASE mode[s] # "development"
    <3>1. missed' \in [Mode!Services -> BOOLEAN] /\ life' \in [Mode!Services -> Mode!Lives]
      BY <1>1, <2>2 DEF Mode!End, Mode!Start, Mode!Becomes, Mode!Lives
    <3>2. mode' \in [Mode!Services -> Mode!Modes]
      BY <1>1, <2>2 DEF Mode!End, Mode!Start
    <3>3. listening' => life'["agent"] = "serving"
      BY <1>1, <2>2 DEF Mode!End, Mode!Start, Mode!Becomes, Mode!Forget, Mode!Services
    <3> QED BY <1>1, <2>2, <3>1, <3>2, <3>3 DEF Mode!End, Mode!Start, Mode!Forget
  <2> QED BY <2>1, <2>2
<1>2. CASE Mode!Crash(s)
  <2>1. failures' \in 0 .. MaxFailures
    BY <1>2, ModeFailType DEF Mode!Crash
  <2>2. admin' \in [Admins -> {"idle", "switching", "restarting", "done"}]
    BY <1>2 DEF Mode!Crash
  <2>3. mode' \in [Mode!Services -> Mode!Modes]
    BY <1>2 DEF Mode!Crash
  <2>4. life' \in [Mode!Services -> Mode!Lives]
    BY <1>2 DEF Mode!Crash, Mode!Becomes, Mode!Lives
  <2>5. missed' \in [Mode!Services -> BOOLEAN]
    <3>1. \A t \in Mode!Services :
            (IF t = s THEN mode[s] = "development"
             ELSE missed[t] \/ (s = "backend" /\ \E a \in Admins : admin[a] = "switching"))
              \in BOOLEAN
      BY Zenon
    <3> QED BY <1>2, <3>1, Zenon DEF Mode!Crash
  <2>6. listening' => life'["agent"] = "serving"
    BY <1>2 DEF Mode!Crash, Mode!Becomes, Mode!Forget, Mode!Services
  <2> QED BY <1>2, <2>1, <2>2, <2>3, <2>4, <2>5, <2>6 DEF Mode!Crash, Mode!Forget
<1>3. CASE Mode!ChangeSource(s)
  <2>1. listening' => life'["agent"] = "serving"
    BY <1>3 DEF Mode!ChangeSource, Mode!Becomes, Mode!Forget, Mode!Services
  <2> QED BY <1>3, <2>1 DEF Mode!ChangeSource, Mode!Forget, Mode!Becomes, Mode!Lives
<1>4. CASE Mode!Ready(s)
  BY <1>4 DEF Mode!Ready, Mode!Becomes, Mode!Lives, Mode!Services
<1> QED BY <1>1, <1>2, <1>3, <1>4 DEF Mode!Service

(* A step of the restart channel keeps the types. *)
LEMMA ChannelType ==
  ASSUME Mode!FailuresAssumption, Mode!TypeOK, Mode!Kill \/ Mode!Hear \/ Mode!ListenerError
  PROVE  Mode!TypeOK'
<1> USE DEF Mode!TypeOK
<1>1. CASE Mode!Kill
  BY <1>1 DEF Mode!Kill, Mode!Becomes, Mode!Lives, Mode!Services
<1>2. CASE Mode!Hear
  BY <1>2 DEF Mode!Hear, Mode!Becomes, Mode!Lives
<1>3. CASE Mode!ListenerError
  <2>1. missed' \in [Mode!Services -> BOOLEAN]
    BY <1>3, Zenon DEF Mode!ListenerError
  <2>2. failures' \in 0 .. MaxFailures
    BY <1>3, ModeFailType DEF Mode!ListenerError
  <2> QED BY <1>3, <2>1, <2>2 DEF Mode!ListenerError
<1> QED BY <1>1, <1>2, <1>3

LEMMA NextModeType ==
  ASSUME Mode!FailuresAssumption, Mode!TypeOK, [Mode!Next]_(Mode!vars)
  PROVE  Mode!TypeOK'
<1>1. CASE Mode!Next
  BY <1>1, RequestType, ServiceType, ChannelType DEF Mode!Next
<1>2. CASE UNCHANGED Mode!vars
  BY <1>2 DEF Mode!vars, Mode!TypeOK
<1> QED BY <1>1, <1>2

(* Type correctness for any set of requests and any number of failures. *)
THEOREM ModeTypeCorrect ==
  ASSUME Mode!FailuresAssumption
  PROVE  Mode!Spec => []Mode!TypeOK
BY InitModeType, NextModeType, PTL DEF Mode!Spec

-------------------------------------------------------------------------------
LEMMA InitRead == Mode!Init => Mode!SwitchIsRead
BY DEF Mode!Init, Mode!SwitchIsRead

(* A request hands the word on, or leaves `missed' behind. *)
LEMMA RequestReads ==
  ASSUME ModeTyped, Mode!SwitchIsRead, NEW r \in Admins, Mode!Request(r)
  PROVE  Mode!SwitchIsRead'
<1> SUFFICES ASSUME NEW s \in Mode!Services, mode'[s] # mode_file', ~missed'[s]
             PROVE  Mode!Told(s)'
  BY DEF Mode!SwitchIsRead
<1> USE DEF ModeTyped, Mode!Services, ModeStages
<1>1. CASE \E m \in Mode!Modes : Mode!SetMode(r, m)
  BY <1>1 DEF Mode!SetMode, Mode!Ask, Mode!Told
<1>2. CASE Mode!RestartAgent(r) \/ Mode!RestartBackend(r)
  BY <1>2 DEF Mode!RestartAgent, Mode!RestartBackend, Mode!Ask, Mode!Told, Mode!SwitchIsRead
<1>3. CASE Mode!Published(r)
  BY <1>3 DEF Mode!Published, Mode!Answer, Mode!Heard, Mode!Publishing, Mode!Told, Mode!SwitchIsRead
<1>4. CASE Mode!PublishError(r)
  <2>1. CASE admin[r] = "switching"
    BY <1>4, <2>1 DEF Mode!PublishError, Mode!Answer, Mode!Told, Mode!SwitchIsRead
  <2>2. CASE admin[r] # "switching"
    <3>1. mode[s] # mode_file /\ ~missed[s]
      BY <1>4, <2>2, Zenon DEF Mode!PublishError, Mode!Answer
    <3>2. Mode!Told(s)
      BY <3>1 DEF Mode!SwitchIsRead
    <3> QED BY <1>4, <2>2, <3>2 DEF Mode!PublishError, Mode!Answer, Mode!Told
  <2> QED BY <2>1, <2>2
<1> QED BY <1>1, <1>2, <1>3, <1>4 DEF Mode!Request

(* A program that ends or begins reads the file, or leaves `missed' behind, *)
(* and does not touch the word for the other.                              *)
LEMMA ServiceReads ==
  ASSUME ModeTyped, Mode!SwitchIsRead, NEW p \in Mode!Services, Mode!Service(p)
  PROVE  Mode!SwitchIsRead'
<1> SUFFICES ASSUME NEW s \in Mode!Services, mode'[s] # mode_file', ~missed'[s]
             PROVE  Mode!Told(s)'
  BY DEF Mode!SwitchIsRead
<1> USE DEF ModeTyped, Mode!Services, ModeStages
<1>1. CASE Mode!End(p)
  BY <1>1 DEF Mode!End, Mode!Forget, Mode!Start, Mode!Reload, Mode!Becomes, Mode!Told, Mode!SwitchIsRead
<1>2. CASE Mode!Crash(p)
  BY <1>2 DEF Mode!Crash, Mode!Forget, Mode!Becomes, Mode!Publishing, Mode!Told, Mode!SwitchIsRead
<1>3. CASE Mode!ChangeSource(p)
  BY <1>3 DEF Mode!ChangeSource, Mode!Forget, Mode!Becomes, Mode!Told, Mode!SwitchIsRead
<1>4. CASE Mode!Ready(p)
  BY <1>4 DEF Mode!Ready, Mode!Becomes, Mode!Told, Mode!SwitchIsRead
<1> QED BY <1>1, <1>2, <1>3, <1>4 DEF Mode!Service

LEMMA ChannelReads ==
  ASSUME ModeTyped, Mode!SwitchIsRead, Mode!Kill \/ Mode!Hear \/ Mode!ListenerError
  PROVE  Mode!SwitchIsRead'
<1> SUFFICES ASSUME NEW s \in Mode!Services, mode'[s] # mode_file', ~missed'[s]
             PROVE  Mode!Told(s)'
  BY DEF Mode!SwitchIsRead
<1> USE DEF ModeTyped, Mode!Services
<1>1. CASE Mode!Kill
  BY <1>1 DEF Mode!Kill, Mode!Becomes, Mode!Told, Mode!SwitchIsRead
<1>2. CASE Mode!Hear
  BY <1>2 DEF Mode!Hear, Mode!Becomes, Mode!Told, Mode!SwitchIsRead
<1>3. CASE Mode!ListenerError
  BY <1>3 DEF Mode!ListenerError, Mode!Told, Mode!SwitchIsRead
<1> QED BY <1>1, <1>2, <1>3

(* A behaviour of either part is, in its variables, one of that part's own *)
(* specification.                                                          *)
LEMMA EitherIsBoth == EitherSpec => Spec /\ Mode!Spec
<1>1. EitherInit => Init /\ Mode!Init
  BY DEF EitherInit
<1>2. [EitherNext]_<<vars, modeVars, page>> => [Next]_vars /\ [Mode!Next]_(Mode!vars)
  BY DEF EitherNext, modeVars, Mode!vars
<1> QED
  BY <1>1, <1>2, PTL DEF EitherSpec, Spec, Mode!Spec

(* A service in another mode than the file says is going to read the file, *)
(* or the word was lost since it read it (admin_set_mode, control_listener,*)
(* both entrypoint.sh), however many switches and crashes overlap.         *)
THEOREM SwitchIsAlwaysRead == EitherSpec => []SwitchIsRead
<1>1. Mode!TypeOK /\ Mode!SwitchIsRead /\ [Mode!Next]_(Mode!vars) => Mode!SwitchIsRead'
  <2> SUFFICES ASSUME Mode!TypeOK, Mode!SwitchIsRead, [Mode!Next]_(Mode!vars)
               PROVE  Mode!SwitchIsRead'
    OBVIOUS
  <2>1. CASE Mode!Next
    BY <2>1, ModeTypedIsType, RequestReads, ServiceReads, ChannelReads DEF Mode!Next
  <2>2. CASE UNCHANGED Mode!vars
    BY <2>2 DEF Mode!vars, Mode!SwitchIsRead, Mode!Told
  <2> QED BY <2>1, <2>2
<1>2. Mode!Spec => []Mode!TypeOK
  BY ModeTypeCorrect, ModeAssumption
<1>3. Mode!SwitchIsRead => SwitchIsRead
  BY DEF SwitchIsRead
<1> QED BY <1>1, <1>2, <1>3, InitRead, EitherIsBoth, PTL DEF Mode!Spec
===============================================================================
