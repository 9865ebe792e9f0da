---------------------------- MODULE Administration ----------------------------
(***************************************************************************)
(* The two things an administrator starts that outlive the request: a run  *)
(* of the diagnostics (Diagnostics, whose Restart is all it sees of the    *)
(* other) and a switch of the mode (RuntimeMode).  A behaviour is one of   *)
(* either, chosen in the first state.                                      *)
(***************************************************************************)
EXTENDS Diagnostics

CONSTANTS Admins, MaxFailures

VARIABLES
  page,  \* which one
  mode_file, mode, life, listening, control, admin, kill, failures, missed

modeVars == <<mode_file, mode, life, listening, control, admin, kill, failures, missed>>

Mode == INSTANCE RuntimeMode

ASSUME ModeAssumption == Mode!FailuresAssumption

EitherInit == page \in {"diagnostics", "mode"} /\ Init /\ Mode!Init

EitherNext ==
  /\ UNCHANGED page
  /\ \/ page = "diagnostics" /\ Next /\ UNCHANGED modeVars
     \/ page = "mode" /\ Mode!Next /\ UNCHANGED vars

EitherSpec ==
  /\ EitherInit /\ [][EitherNext]_<<vars, modeVars, page>>
  /\ \A j \in Jobs :
       WF_vars(page = "diagnostics" /\ InsertRow(j))
         /\ WF_vars(page = "diagnostics" /\ (Finish(j) \/ Save(j)))
  /\ WF_modeVars(page = "mode" /\ Mode!Kill) /\ WF_modeVars(page = "mode" /\ Mode!Hear)
  /\ \A r \in Admins : WF_modeVars(page = "mode" /\ Mode!Published(r))
  /\ \A s \in Mode!Services :
       WF_modeVars(page = "mode" /\ Mode!End(s)) /\ WF_modeVars(page = "mode" /\ Mode!Ready(s))

(* A service in another mode than the file says is going to read the file, *)
(* unless the word was lost since it read the file the last time.          *)
SwitchIsRead == Mode!SwitchIsRead

(* A service told to stop that was started in production mode serves       *)
(* again, unless it has crashed in development mode.                       *)
ProductionReturns == Mode!ProductionReturns
===============================================================================
