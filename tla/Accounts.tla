------------------------------- MODULE Accounts -------------------------------
(***************************************************************************)
(* The backend's users and who is let in: auth_middleware admits a request *)
(* by its session, then the handler runs in transactions of its own, which *)
(* look first and commit later, with READ COMMITTED and no locks.  A user  *)
(* is an id; ids are not used twice.  The username matters only of the     *)
(* default administrator, whom the backend creates at every start if       *)
(* nobody has that name.                                                   *)
(*                                                                         *)
(* Not modelled: passwords, the objects a user may see, and all but the    *)
(* first of several sessions of a user.                                    *)
(***************************************************************************)
EXTENDS Naturals, FiniteSets

CONSTANTS
  Users,     \* user ids
  Requests,  \* requests in flight, each used again and again
  Nobody,    \* no row, no caller, no user with the default name
  Same       \* a field the payload of update_user leaves out

AllOps == {"read", "login", "logout", "create", "update", "delete"}

AccountsAssumption ==
  Nobody \notin Users /\ Nobody \notin [role : {"admin", "viewer"}, active : BOOLEAN]

VARIABLES
  row,       \* the users table: [role, active], or Nobody
  used,      \* the ids given out so far
  default,   \* the user with the name of the default administrator
  sessions,  \* the users with a session that has not expired
  req,       \* each request: [pc, op, by, target, seen, want]
  unguarded  \* history: what delete_user does not guard against has happened

vars == <<row, used, default, sessions, req, unguarded>>
users == <<row, used, default, unguarded>>

Roles == {"admin", "viewer"}
UserRows == [role : Roles, active : BOOLEAN]
Wishes == [role : Roles \cup {Same}, active : BOOLEAN \cup {Same}]

Live == {u \in Users : row[u] # Nobody}
Administrators == {u \in Live : row[u] = [role |-> "admin", active |-> TRUE]}

(* ROLE_PERMISSIONS, as far as the operations ask for them. *)
Permissions(role) ==
  IF role = "admin" THEN {"objects.view", "users.manage"} ELSE {"objects.view"}
Required(op) ==
  IF op \in {"create", "update", "delete"} THEN "users.manage" ELSE "objects.view"

Idle == [pc |-> "idle", op |-> "read", by |-> Nobody, target |-> Nobody,
         seen |-> Nobody, want |-> Nobody]

(* The first start has created the default administrator. *)
Init ==
  \E u \in Users :
    /\ row = [v \in Users |-> IF v = u THEN [role |-> "admin", active |-> TRUE]
                                       ELSE Nobody]
    /\ used = {u} /\ default = u
    /\ sessions = {}
    /\ req = [r \in Requests |-> Idle] /\ unguarded = FALSE

Ready(r)  == req[r].pc = "idle"
Answer(r) == req' = [req EXCEPT ![r] = Idle]

-------------------------------------------------------------------------------
(* login has a path of its own; the insert of the session needs the user.  *)
Login(r, u) ==
  /\ Ready(r)
  /\ u \in Live /\ row[u].active
  /\ req' = [req EXCEPT ![r] = [Idle EXCEPT !.pc = "login", !.op = "login", !.target = u]]
  /\ UNCHANGED <<users, sessions>>

LoggedIn(r) ==
  /\ req[r].pc = "login"
  /\ sessions' = sessions \cup ({req[r].target} \cap Live)
  /\ Answer(r)
  /\ UNCHANGED users

Expire(u) ==
  /\ u \in sessions /\ sessions' = sessions \ {u}
  /\ UNCHANGED <<users, req>>

-------------------------------------------------------------------------------
(* auth_middleware.  A session that admits nobody is deleted.  The agent's *)
(* token passes the first check without a user and is refused by the next, *)
(* as no user has no permissions.                                          *)
Identified(by) == by \in sessions /\ row[by].active
Granted(by) == IF Identified(by) THEN Permissions(row[by].role) ELSE {}

Call(r, by, op, target) ==
  /\ op # "login" /\ Ready(r)
  /\ (target # Nobody) <=> (op \in {"update", "delete"})
  /\ req' = [req EXCEPT ![r] =
               IF Required(op) \in Granted(by)
               THEN [Idle EXCEPT !.pc = "admitted", !.op = op, !.by = by, !.target = target]
               ELSE Idle]
  /\ sessions' = IF Identified(by) THEN sessions ELSE sessions \ {by}
  /\ UNCHANGED users

-------------------------------------------------------------------------------
(* The handlers. *)

Read(r) ==
  /\ req[r].pc = "admitted" /\ req[r].op = "read"
  /\ Answer(r)
  /\ UNCHANGED <<users, sessions>>

Logout(r) ==
  /\ req[r].pc = "admitted" /\ req[r].op = "logout"
  /\ sessions' = sessions \ {req[r].by}
  /\ Answer(r)
  /\ UNCHANGED users

CreateUser(r, u, new) ==
  /\ req[r].pc = "admitted" /\ req[r].op = "create"
  /\ u \notin used /\ used' = used \cup {u}
  /\ row' = [row EXCEPT ![u] = new]
  /\ Answer(r)
  /\ UNCHANGED <<default, sessions, unguarded>>

(* The name is taken. *)
CreateRefused(r) ==
  /\ req[r].pc = "admitted" /\ req[r].op = "create"
  /\ Answer(r)
  /\ UNCHANGED <<users, sessions>>

(* update_user, and import_users for a name that exists: session.get.      *)
(* Only the columns that differ from what is found are written.            *)
UpdateFound(r, want) ==
  /\ req[r].pc = "admitted" /\ req[r].op = "update"
  /\ LET u == req[r].target IN
       req' = [req EXCEPT ![r] =
                 IF u \in Live
                 THEN [@ EXCEPT !.pc = "commit",
                         !.want = [f \in {"role", "active"} |->
                                     IF want[f] = row[u][f] THEN Same ELSE want[f]]]
                 ELSE Idle]
  /\ UNCHANGED <<users, sessions>>

(* Without its row the UPDATE is an error. *)
UpdateCommitted(r) ==
  /\ req[r].pc = "commit" /\ req[r].op = "update"
  /\ LET u == req[r].target IN
       IF u \in Live
       THEN row' = [row EXCEPT ![u] = [f \in {"role", "active"} |->
                      IF req[r].want[f] = Same THEN @[f] ELSE req[r].want[f]]]
       ELSE UNCHANGED row
  /\ unguarded' = (unguarded \/ row' # row)
  /\ Answer(r)
  /\ UNCHANGED <<used, default, sessions>>

DeleteFound(r) ==
  /\ req[r].pc = "admitted" /\ req[r].op = "delete"
  /\ req' = [req EXCEPT ![r] = IF req[r].target \in Live
                               THEN [@ EXCEPT !.pc = "count", !.seen = row[req[r].target]]
                               ELSE Idle]
  /\ UNCHANGED <<users, sessions>>

(* Mutant: one administrator is enough, and it may be oneself. *)
MayDeleteAny(r) == req[r].seen.role = "admin" => Cardinality(Administrators) >= 1

(* Not the last administrator, and not oneself. *)
MayDelete(r) ==
  /\ req[r].seen.role = "admin" => Cardinality(Administrators) > 1
  /\ req[r].target # req[r].by

DeleteCounted(r) ==
  /\ req[r].pc = "count"
  /\ req' = [req EXCEPT ![r] = IF MayDelete(r)
                               THEN [@ EXCEPT !.pc = "commit", !.seen = Nobody]
                               ELSE Idle]
  /\ UNCHANGED <<users, sessions>>

(* Another request has counted the administrators, too. *)
OtherDeletes(r) == \E s \in Requests \ {r} : req[s].pc = "commit" /\ req[s].op = "delete"

(* Mutant: the sessions stay. *)
DeleteCommittedOnly(r) ==
  /\ req[r].pc = "commit" /\ req[r].op = "delete"
  /\ row' = [row EXCEPT ![req[r].target] = Nobody]
  /\ default' = IF default = req[r].target THEN Nobody ELSE default
  /\ unguarded' = (unguarded \/ OtherDeletes(r))
  /\ Answer(r)
  /\ UNCHANGED <<used, sessions>>

(* The sessions go with the user. *)
DeleteCommitted(r) ==
  /\ req[r].pc = "commit" /\ req[r].op = "delete"
  /\ row' = [row EXCEPT ![req[r].target] = Nobody]
  /\ default' = IF default = req[r].target THEN Nobody ELSE default
  /\ sessions' = sessions \ {req[r].target}
  /\ unguarded' = (unguarded \/ OtherDeletes(r))
  /\ Answer(r)
  /\ UNCHANGED used

-------------------------------------------------------------------------------
(* The backend starts again; _seed_auth creates the default administrator  *)
(* if there is no user with that name, whatever that user may do.          *)
Seed ==
  IF default # Nobody THEN UNCHANGED users
  ELSE \E u \in Users \ used :
         /\ row' = [row EXCEPT ![u] = [role |-> "admin", active |-> TRUE]]
         /\ used' = used \cup {u} /\ default' = u
         /\ UNCHANGED unguarded

Restart ==
  /\ Seed
  /\ req' = [r \in Requests |-> Idle]
  /\ UNCHANGED sessions

-------------------------------------------------------------------------------
Handler(r) ==
  \/ Read(r) \/ Logout(r)
  \/ \E u \in Users, new \in UserRows : CreateUser(r, u, new)
  \/ CreateRefused(r)
  \/ \E want \in Wishes : UpdateFound(r, want)
  \/ UpdateCommitted(r) \/ DeleteFound(r) \/ DeleteCounted(r) \/ DeleteCommitted(r)

Next ==
  \/ \E r \in Requests :
       \/ \E u \in Users : Login(r, u)
       \/ LoggedIn(r)
       \/ \E by \in Users, op \in AllOps, target \in Users \cup {Nobody} :
            Call(r, by, op, target)
       \/ Handler(r)
  \/ \E u \in Users : Expire(u)
  \/ Restart

Spec == Init /\ [][Next]_vars
-------------------------------------------------------------------------------
TypeOK ==
  /\ row \in [Users -> UserRows \cup {Nobody}]
  /\ used \subseteq Users /\ Live \subseteq used
  /\ default \in Live \cup {Nobody}
  /\ sessions \subseteq Live /\ unguarded \in BOOLEAN
  /\ req \in [Requests -> [pc : {"idle", "login", "admitted", "count", "commit"},
                           op : AllOps, by : Users \cup {Nobody},
                           target : Users \cup {Nobody}, seen : UserRows \cup {Nobody},
                           want : Wishes \cup {Nobody}]]

(* delete_user refuses to remove the last administrator: an active one     *)
(* remains, whoever deletes whom and whatever sessions, new users and      *)
(* restarts come in between, as long as nobody edits users and no two      *)
(* deletions have counted the administrators at one time.                  *)
SomeAdministrator == unguarded \/ Administrators # {}
===============================================================================
