----------------------------- MODULE ZoneRegistry -----------------------------
(***************************************************************************)
(* The zones of one object in the backend's database, written by requests  *)
(* of operators and by the events of the agent.  Every operation looks at  *)
(* the tables first and commits later, with READ COMMITTED and no locks;   *)
(* no constraint keeps zone numbers unique.  What the database does check  *)
(* is checked when the transaction commits: a zone needs its object, an    *)
(* object is inserted once, an UPDATE needs its row.  SQLAlchemy updates   *)
(* only the columns that differ from what it looked at.                    *)
(*                                                                         *)
(* An event is the label of a zone with the zone's name as the agent knows *)
(* it; the other columns of a zone behave like its name.                   *)
(***************************************************************************)
EXTENDS Naturals, Sequences, FiniteSetsExt

CONSTANTS
  Requests,   \* requests of operators, each used again and again
  Ops,        \* the operations operators use
  Numbers,    \* zone numbers
  Names,      \* zone names
  Labels,     \* what events say
  None,       \* no event so far, no row
  MaxRows,    \* bound: zone rows ever inserted
  MaxEvents   \* bound: events the agent publishes

AllOps == {"create", "import", "rename", "delete", "createObject", "deleteObject"}

ASSUME RegistryAssumption ==
  /\ Ops \subseteq AllOps
  /\ None \notin Names \cup Labels \cup Numbers
  /\ "worker" \notin Requests /\ IsFiniteSet(Requests)
  /\ MaxRows \in Nat \ {0} /\ MaxEvents \in Nat
ASSUME NoRowAssumption ==
  None \notin [number : Numbers, name : Names, last : Labels \cup {None}]

VARIABLES
  object,   \* the objects row exists
  rows,     \* zone rows by id, None before the insert and after the delete
  nextId,   \* the sequence of ids
  history,  \* the label of the last row of the events table for each number
  known,    \* the agent's name of each zone, None while it has no such zone
  inbox,    \* events on their way to the worker
  txn,      \* each request and the worker: what its transaction looked at
  events,   \* events published
  raced     \* history: numbers two transactions found free at one time

vars == <<object, rows, nextId, history, known, inbox, txn, events, raced>>
tables == <<object, rows, nextId, history, raced>>
agent  == <<known, inbox, events>>

Ids  == 1 .. MaxRows
Live == {i \in Ids : rows[i] # None}
Rows(n) == {i \in Live : rows[i].number = n}
Worker == "worker"

(* op, the object was missing, the row found (0: none) and its contents,   *)
(* and what is to be written to it.                                        *)
Idle == [op |-> "idle", missing |-> FALSE, id |-> 0, seen |-> None,
         number |-> None, name |-> None, label |-> None]

(* No zone yet, or one. *)
Init ==
  /\ \/ /\ object \in BOOLEAN
        /\ rows = [i \in Ids |-> None] /\ nextId = 1
     \/ \E n \in Numbers, name \in Names :
          /\ object = TRUE /\ nextId = 2
          /\ rows = [i \in Ids |-> IF i = 1 THEN [number |-> n, name |-> name, last |-> None]
                                           ELSE None]
  /\ history = [n \in Numbers |-> None]
  /\ known = [n \in Numbers |-> None]
  /\ inbox = <<>> /\ events = 0 /\ raced = {}
  /\ txn = [p \in Requests \cup {Worker} |-> Idle]

-------------------------------------------------------------------------------
(* The first half of a transaction: it looks. *)

Look(p, op, id, n, name, label) ==
  txn' = [txn EXCEPT ![p] =
            [op |-> op, missing |-> ~object, id |-> id,
             seen |-> IF id = 0 THEN None ELSE rows[id],
             number |-> n, name |-> name, label |-> label]]

(* Mutant: any number will do. *)
LookForCreateUnchecked(r, n, name) ==
  /\ "create" \in Ops /\ txn[r] = Idle
  /\ Look(r, "create", 0, n, name, None)
  /\ UNCHANGED <<tables, agent>>

(* create_new_zone answers 409 if the number is taken. *)
LookForCreate(r, n, name) ==
  /\ "create" \in Ops /\ txn[r] = Idle
  /\ Rows(n) = {}
  /\ Look(r, "create", 0, n, name, None)
  /\ UNCHANGED <<tables, agent>>

(* import_objects: a zone that is there is overwritten, a second row with  *)
(* the number is an error.                                                 *)
LookForImport(r, n, name) ==
  /\ "import" \in Ops /\ txn[r] = Idle
  /\ \/ Rows(n) = {} /\ Look(r, "import", 0, n, name, None)
     \/ \E i \in Ids : Rows(n) = {i} /\ Look(r, "import", i, n, name, None)
  /\ UNCHANGED <<tables, agent>>

LookForRename(r, i, name) ==
  /\ "rename" \in Ops /\ txn[r] = Idle
  /\ i \in Live
  /\ Look(r, "rename", i, rows[i].number, name, None)
  /\ UNCHANGED <<tables, agent>>

LookForDelete(r, i) ==
  /\ "delete" \in Ops /\ txn[r] = Idle
  /\ i \in Live
  /\ Look(r, "delete", i, rows[i].number, None, None)
  /\ UNCHANGED <<tables, agent>>

LookForObject(r, op) ==
  /\ op \in {"createObject", "deleteObject"} \cap Ops /\ txn[r] = Idle
  /\ object = (op = "deleteObject")
  /\ Look(r, op, 0, None, None, None)
  /\ UNCHANGED <<tables, agent>>

(* _handle_event with the row of the event's zone, or without one. *)
LookForEvent ==
  /\ inbox # <<>> /\ txn[Worker] = Idle
  /\ LET e == Head(inbox) IN
       \/ Rows(e.number) = {} /\ Look(Worker, "event", 0, e.number, e.name, e.label)
       \/ \E i \in Ids : /\ Rows(e.number) = {i}
                         /\ Look(Worker, "event", i, e.number, e.name, e.label)
  /\ UNCHANGED <<tables, agent>>

(* scalar_one_or_none raises if there are two; the event is lost. *)
EventIsAmbiguous ==
  /\ inbox # <<>> /\ txn[Worker] = Idle
  /\ Cardinality(Rows(Head(inbox).number)) > 1
  /\ inbox' = Tail(inbox)
  /\ UNCHANGED <<tables, known, txn, events>>

-------------------------------------------------------------------------------
(* The second half: it commits, or the database refuses. *)

(* The object inserted by a transaction that found none. *)
ObjectFits(t) == IF t.missing THEN ~object ELSE object

(* The transactions that found the number free. *)
Finders(n) == {p \in DOMAIN txn : txn[p].id = 0 /\ txn[p].number = n}

Insert(t) ==
  /\ nextId <= MaxRows /\ nextId' = nextId + 1
  /\ ObjectFits(t) /\ object' = TRUE
  /\ rows' = [rows EXCEPT ![nextId] =
                [number |-> t.number, name |-> t.name, last |-> t.label]]
  /\ raced' = IF Cardinality(Finders(t.number)) > 1 THEN raced \cup {t.number} ELSE raced

(* The columns that differ from those looked at. *)
Write(t) == [rows[t.id] EXCEPT
               !.name = IF t.name = t.seen.name THEN @ ELSE t.name,
               !.last = IF t.label \in {None, t.seen.last} THEN @ ELSE t.label]
Dirty(t) == t.name # t.seen.name \/ t.label \notin {None, t.seen.last}

Update(t) ==
  /\ IF Dirty(t)
     THEN t.id \in Live /\ rows' = [rows EXCEPT ![t.id] = Write(t)]
     ELSE UNCHANGED rows
  /\ UNCHANGED <<object, nextId, raced>>

Store(t) == IF t.id = 0 THEN Insert(t) ELSE Update(t)

(* Mutant: an update replaces the row. *)
CommitZoneAnew(r) ==
  /\ txn[r].op \in {"create", "import", "rename"}
  /\ nextId <= MaxRows /\ nextId' = nextId + 1
  /\ txn[r].id = 0 \/ txn[r].id \in Live
  /\ rows' = [i \in Ids |-> IF i = nextId THEN [number |-> txn[r].number,
                                               name |-> txn[r].name, last |-> None]
                             ELSE IF i = txn[r].id THEN None ELSE rows[i]]
  /\ object' = TRUE
  /\ txn' = [txn EXCEPT ![r] = Idle]
  /\ UNCHANGED <<history, raced, agent>>

CommitZone(r) ==
  /\ txn[r].op \in {"create", "import", "rename"}
  /\ Store(txn[r])
  /\ txn' = [txn EXCEPT ![r] = Idle]
  /\ UNCHANGED <<history, agent>>

CommitDelete(r) ==
  /\ txn[r].op = "delete"
  /\ rows' = [rows EXCEPT ![txn[r].id] = None]
  /\ txn' = [txn EXCEPT ![r] = Idle]
  /\ UNCHANGED <<object, nextId, history, raced, agent>>

CommitCreateObject(r) ==
  /\ txn[r].op = "createObject"
  /\ ~object /\ object' = TRUE
  /\ txn' = [txn EXCEPT ![r] = Idle]
  /\ UNCHANGED <<rows, nextId, history, raced, agent>>

(* Its zones go with it. *)
CommitDeleteObject(r) ==
  /\ txn[r].op = "deleteObject"
  /\ object' = FALSE /\ rows' = [i \in Ids |-> None]
  /\ txn' = [txn EXCEPT ![r] = Idle]
  /\ UNCHANGED <<nextId, history, raced, agent>>

(* The constraint that refuses; raised to the client, nothing is written. *)
CommitError(r) ==
  /\ txn[r] # Idle
  /\ \/ txn[r].op \in {"create", "import"} /\ txn[r].id = 0 /\ ~ObjectFits(txn[r])
     \/ txn[r].id # 0 /\ txn[r].op # "delete" /\ Dirty(txn[r]) /\ txn[r].id \notin Live
     \/ txn[r].op = "createObject" /\ object
  /\ txn' = [txn EXCEPT ![r] = Idle]
  /\ UNCHANGED <<tables, agent>>

(* Mutant: the zone is committed, the event written afterwards. *)
CommitEventApart ==
  /\ txn[Worker].op = "event"
  /\ Store(txn[Worker])
  /\ txn' = [txn EXCEPT ![Worker] = Idle] /\ inbox' = Tail(inbox)
  /\ UNCHANGED <<history, known, events>>

(* One transaction: the zone and the events table. *)
CommitEvent ==
  /\ txn[Worker].op = "event"
  /\ Store(txn[Worker])
  /\ history' = [history EXCEPT ![txn[Worker].number] = txn[Worker].label]
  /\ txn' = [txn EXCEPT ![Worker] = Idle] /\ inbox' = Tail(inbox)
  /\ UNCHANGED <<known, events>>

(* Logged by run_mqtt_worker; the event is lost. *)
EventError ==
  /\ txn[Worker].op = "event"
  /\ \/ txn[Worker].id = 0 /\ ~ObjectFits(txn[Worker])
     \/ txn[Worker].id # 0 /\ Dirty(txn[Worker]) /\ txn[Worker].id \notin Live
  /\ txn' = [txn EXCEPT ![Worker] = Idle] /\ inbox' = Tail(inbox)
  /\ UNCHANGED <<tables, known, events>>

-------------------------------------------------------------------------------
(* The agent takes over the zones, and reports. *)

FetchZones ==
  /\ known' \in [Numbers -> Names \cup {None}]
  /\ \A n \in Numbers :
       IF Rows(n) = {} THEN known'[n] = None
                       ELSE \E i \in Rows(n) : known'[n] = rows[i].name
  /\ UNCHANGED <<tables, inbox, txn, events>>

PublishEvent(n, label) ==
  /\ known[n] # None
  /\ events < MaxEvents /\ events' = events + 1
  /\ inbox' = Append(inbox, [number |-> n, name |-> known[n], label |-> label])
  /\ UNCHANGED <<tables, known, txn>>

-------------------------------------------------------------------------------
Request(r) ==
  \/ \E n \in Numbers, name \in Names : LookForCreate(r, n, name) \/ LookForImport(r, n, name)
  \/ \E i \in Ids : LookForDelete(r, i) \/ \E name \in Names : LookForRename(r, i, name)
  \/ \E op \in Ops : LookForObject(r, op)
  \/ CommitZone(r) \/ CommitDelete(r) \/ CommitCreateObject(r) \/ CommitDeleteObject(r)
  \/ CommitError(r)

HandleEvent == LookForEvent \/ EventIsAmbiguous \/ CommitEvent \/ EventError

Agent == FetchZones \/ \E n \in Numbers, label \in Labels : PublishEvent(n, label)

Next == (\E r \in Requests : Request(r)) \/ HandleEvent \/ Agent

Spec == Init /\ [][Next]_vars
-------------------------------------------------------------------------------
ZoneRows == [number : Numbers, name : Names, last : Labels \cup {None}] \cup {None}

TypeOK ==
  /\ object \in BOOLEAN
  /\ rows \in [Ids -> ZoneRows] /\ nextId \in 1 .. MaxRows + 1
  /\ \A i \in Live : i < nextId /\ object
  /\ history \in [Numbers -> Labels \cup {None}] /\ raced \subseteq Numbers
  /\ known \in [Numbers -> Names \cup {None}]
  /\ inbox \in Seq([number : Numbers, name : Names, label : Labels])
  /\ txn \in [Requests \cup {Worker} ->
                [op : AllOps \cup {"idle", "event"}, missing : BOOLEAN,
                 id : 0 .. MaxRows, seen : ZoneRows, number : Numbers \cup {None},
                 name : Names \cup {None}, label : Labels \cup {None}]]
  /\ events \in 0 .. MaxEvents

(* The state the console shows of a zone is the last one its history tells *)
(* of, for every row and whatever operators did to the rows while events   *)
(* were being handled (_handle_event writes both or neither).              *)
LastIsHistory ==
  \A i \in Live : rows[i].last # None => rows[i].last = history[rows[i].number]

(* The event the worker is handling can still be committed. *)
EventFits ==
  /\ txn[Worker].op = "event"
  /\ IF txn[Worker].id = 0 THEN ObjectFits(txn[Worker]) ELSE txn[Worker].id \in Live

(* Renaming a zone never costs the event that is being handled: a rename   *)
(* keeps the row (update_zone), it does not put another in its place.      *)
RenamesCostNoEvent ==
  [][\A r \in Requests :
       txn[r].op = "rename" /\ txn'[r] = Idle => (EventFits => EventFits')]_vars

(* create_new_zone, import_objects and _handle_event insert only what they *)
(* did not find: two rows have the same number only if two transactions    *)
(* found it free at one time, for which no constraint provides.            *)
NumbersAreUnique == \A n \in Numbers : Cardinality(Rows(n)) <= 1 \/ n \in raced
===============================================================================
