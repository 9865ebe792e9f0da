-------------------------------- MODULE Tables --------------------------------
(***************************************************************************)
(* The tables two requests meet in: objects, zones and events              *)
(* (ZoneRegistry), users and sessions (Accounts).  No transaction touches  *)
(* both, so a behaviour is one of either, chosen in the first state.       *)
(***************************************************************************)
EXTENDS ZoneRegistry

CONSTANTS Users, Nobody, Same

VARIABLES
  about,  \* which tables
  row, used, default, sessions, req, unguarded

accountVars == <<row, used, default, sessions, req, unguarded>>

Account == INSTANCE Accounts

ASSUME AccountAssumption == Account!AccountsAssumption

EitherInit ==
  /\ about \in {"zones", "accounts"} /\ Init /\ Account!Init
  /\ about = "accounts" => ~object

EitherNext ==
  /\ UNCHANGED about
  /\ \/ about = "zones" /\ Next /\ UNCHANGED accountVars
     \/ about = "accounts" /\ Account!Next /\ UNCHANGED vars

EitherSpec == EitherInit /\ [][EitherNext]_<<vars, accountVars, about>>

(* Type correctness of zones and transactions, and of users, sessions and  *)
(* requests.                                                               *)
TablesTypeOK == TypeOK /\ Account!TypeOK

(* An administrator remains, unless two deletions overlap or users are     *)
(* edited (delete_user).                                                   *)
SomeAdministrator == Account!SomeAdministrator
===============================================================================
