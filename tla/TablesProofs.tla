----------------------------- MODULE TablesProofs -----------------------------
(***************************************************************************)
(* The tables two requests meet in: ZoneRegistry for any finite set of     *)
(* requests, any numbers, names and labels and any bounds, and Accounts    *)
(* for any sets of users and requests.                                     *)
(***************************************************************************)
EXTENDS Tables, FiniteSetTheorems, TLAPS

Procs == Requests \cup {Worker}
Zone  == [number : Numbers, name : Names, last : Labels \cup {None}]
Txn   == [op : AllOps \cup {"idle", "event"}, missing : BOOLEAN,
          id : 0 .. MaxRows, seen : ZoneRows, number : Numbers \cup {None},
          name : Names \cup {None}, label : Labels \cup {None}]
Storing == {"create", "import", "rename", "event"}

(* What a transaction looks for: requests have no label, events have       *)
(* everything, what is stored has a number and a name, what was found has  *)
(* kept its number.                                                        *)
Purposeful ==
  /\ \A r \in Requests : txn[r].label = None /\ txn[r].op # "event"
  /\ txn[Worker].op \in {"idle", "event"}
  /\ txn[Worker].op = "event" => txn[Worker].label \in Labels
  /\ \A p \in Procs :
       /\ txn[p].op \in Storing => txn[p].number \in Numbers /\ txn[p].name \in Names
       /\ txn[p].op = "idle" => txn[p] = Idle
       /\ txn[p].id # 0 => /\ txn[p].seen \in Zone /\ txn[p].id < nextId
                           /\ txn[p].id \in Live => rows[txn[p].id].number = txn[p].number

(* The tables one by one. *)
TablesType ==
  /\ object \in BOOLEAN
  /\ rows \in [Ids -> ZoneRows] /\ nextId \in 1 .. MaxRows + 1
  /\ \A i \in Live : i < nextId /\ object
  /\ history \in [Numbers -> Labels \cup {None}] /\ raced \subseteq Numbers
  /\ txn \in [Procs -> Txn]

AgentType ==
  /\ known \in [Numbers -> Names \cup {None}]
  /\ inbox \in Seq([number : Numbers, name : Names, label : Labels])
  /\ events \in 0 .. MaxEvents

Shape == TablesType /\ Purposeful

LEMMA TypeParts == TypeOK <=> TablesType /\ AgentType
BY DEF TypeOK, TablesType, AgentType, Procs, Txn

LEMMA LiveIsZone ==
  ASSUME TablesType, NEW i \in Live
  PROVE  rows[i] \in Zone /\ i \in Ids
BY DEF TablesType, Live, ZoneRows, Zone

LEMMA IdleType == Idle \in Txn /\ Idle.number = None /\ Idle.id = 0 /\ Idle.op = "idle"
                   /\ Idle.label = None
BY RegistryAssumption DEF Idle, Txn, ZoneRows

LEMMA HeadType ==
  ASSUME NEW S, NEW q \in Seq(S), q # <<>>
  PROVE  Head(q) \in S /\ Tail(q) \in Seq(S)
OBVIOUS

LEMMA AppendType ==
  ASSUME NEW S, NEW q \in Seq(S), NEW e \in S
  PROVE  Append(q, e) \in Seq(S)
OBVIOUS

-------------------------------------------------------------------------------
(* Five kinds of steps. *)

(* A transaction looks. *)
Looks(p, op, id, n, name, label) ==
  /\ Look(p, op, id, n, name, label) /\ UNCHANGED tables
  /\ op \in AllOps \cup {"event"} /\ n \in Numbers \cup {None}
  /\ name \in Names \cup {None} /\ label \in Labels \cup {None}
  /\ id = 0 \/ (id \in Live /\ n = rows[id].number)
  /\ id = 0 /\ n \in Numbers => Rows(n) = {}
  /\ op \in Storing => n \in Numbers /\ name \in Names
  /\ op = "rename" => id # 0
  /\ p \in Requests => label = None /\ op # "event"
  /\ p = Worker => op = "event" /\ label \in Labels /\ (id # 0 => Rows(n) = {id})

(* It ends without a change of the tables, *)
Ends(p) == txn' = [txn EXCEPT ![p] = Idle] /\ UNCHANGED tables

(* having stored something, *)
Stores(p) ==
  /\ txn[p].op \in Storing /\ Store(txn[p])
  /\ txn' = [txn EXCEPT ![p] = Idle]
  /\ IF p = Worker
     THEN history' = [history EXCEPT ![txn[Worker].number] = txn[Worker].label]
     ELSE UNCHANGED history

(* or having removed rows, or created or removed the object.               *)
Removes(p) ==
  /\ txn[p].op \in {"delete", "createObject", "deleteObject"}
  /\ txn' = [txn EXCEPT ![p] = Idle]
  /\ rows' \in [Ids -> ZoneRows] /\ \A i \in Ids : rows'[i] \in {rows[i], None}
  /\ object' \in BOOLEAN /\ (object' \/ \A i \in Ids : rows'[i] = None)
  /\ UNCHANGED <<nextId, history, raced>>

Waits == UNCHANGED <<tables, txn>>

LEMMA NextKinds ==
  ASSUME Shape, AgentType, [Next]_vars
  PROVE  \/ \E p \in Procs : \E op, id, n, name, label : Looks(p, op, id, n, name, label)
         \/ \E p \in Procs : Ends(p) \/ Stores(p) \/ Removes(p)
         \/ Waits
<1> USE DEF Procs
<1>1. ASSUME NEW r \in Requests, NEW n \in Numbers, NEW name \in Names,
             LookForCreate(r, n, name) \/ LookForImport(r, n, name)
      PROVE  \E op, id, m, nm, label : Looks(r, op, id, m, nm, label)
  <2> r # Worker
    BY RegistryAssumption DEF Worker
  <2>1. CASE LookForCreate(r, n, name)
    <3>1. Looks(r, "create", 0, n, name, None)
      BY <2>1, Zenon DEF LookForCreate, Looks, AllOps
    <3> QED BY <3>1
  <2>2. CASE LookForImport(r, n, name) /\ Rows(n) = {}
    <3>1. \A i \in Ids : Rows(n) # {i}
      BY <2>2
    <3>2. Looks(r, "import", 0, n, name, None)
      BY <2>2, <3>1, Zenon DEF LookForImport, Looks, AllOps
    <3> QED BY <3>2
  <2>3. CASE LookForImport(r, n, name) /\ Rows(n) # {}
    <3>1. PICK i \in Ids : Rows(n) = {i} /\ Look(r, "import", i, n, name, None)
      BY <2>3 DEF LookForImport
    <3>2. i \in Live /\ rows[i].number = n /\ i # 0
      BY <3>1, RegistryAssumption DEF Rows, Ids
    <3>3. Looks(r, "import", i, n, name, None)
      BY <2>3, <3>1, <3>2 DEF LookForImport, Looks, AllOps
    <3> QED BY <3>3
  <2> QED BY <1>1, <2>1, <2>2, <2>3
<1>2. ASSUME NEW r \in Requests, NEW i \in Ids,
             LookForDelete(r, i) \/ \E name \in Names : LookForRename(r, i, name)
      PROVE  \E op, id, m, nm, label : Looks(r, op, id, m, nm, label)
  <2> r # Worker
    BY RegistryAssumption DEF Worker
  <2>1. i \in Live /\ i # 0 /\ rows[i].number \in Numbers
    BY <1>2, LiveIsZone, RegistryAssumption DEF LookForDelete, LookForRename, Ids, Shape, Zone
  <2>2. CASE LookForDelete(r, i)
    <3>1. Looks(r, "delete", i, rows[i].number, None, None)
      BY <2>1, <2>2 DEF LookForDelete, Looks, AllOps, Storing
    <3> QED BY <3>1
  <2>3. ASSUME NEW name \in Names, LookForRename(r, i, name)
        PROVE  \E op, id, m, nm, label : Looks(r, op, id, m, nm, label)
    <3>1. Looks(r, "rename", i, rows[i].number, name, None)
      BY <2>1, <2>3 DEF LookForRename, Looks, AllOps
    <3> QED BY <3>1
  <2> QED BY <1>2, <2>2, <2>3
<1>3. ASSUME NEW r \in Requests, NEW op \in Ops, LookForObject(r, op)
      PROVE  \E o, id, m, nm, label : Looks(r, o, id, m, nm, label)
  <2>1. /\ op \in {"createObject", "deleteObject"} /\ op \notin Storing /\ r # Worker
        /\ None \notin Numbers
    BY <1>3, RegistryAssumption DEF LookForObject, Storing, Worker
  <2>2. Looks(r, op, 0, None, None, None)
    BY <1>3, <2>1, Zenon DEF LookForObject, Looks, AllOps
  <2> QED BY <2>2
<1>4. ASSUME LookForEvent
      PROVE  \E op, id, m, nm, label : Looks(Worker, op, id, m, nm, label)
  <2> DEFINE e == Head(inbox)
  <2>1. e \in [number : Numbers, name : Names, label : Labels]
    BY <1>4, HeadType DEF LookForEvent, AgentType
  <2>2. /\ UNCHANGED <<tables, agent>>
        /\ \/ Rows(e.number) = {} /\ Look(Worker, "event", 0, e.number, e.name, e.label)
           \/ \E i \in Ids : Rows(e.number) = {i}
                            /\ Look(Worker, "event", i, e.number, e.name, e.label)
    BY <1>4 DEF LookForEvent
  <2> HIDE DEF e
  <2>3. e.number \in Numbers /\ e.name \in Names /\ e.label \in Labels
    BY <2>1
  <2>4. Worker \notin Requests
    BY RegistryAssumption DEF Worker
  <2>5. CASE Rows(e.number) = {} /\ Look(Worker, "event", 0, e.number, e.name, e.label)
    <3>1. Looks(Worker, "event", 0, e.number, e.name, e.label)
      BY <2>2, <2>3, <2>4, <2>5, Zenon DEF Looks
    <3> QED BY <3>1
  <2>6. ASSUME NEW i \in Ids, Rows(e.number) = {i},
               Look(Worker, "event", i, e.number, e.name, e.label)
        PROVE  \E op, id, m, nm, label : Looks(Worker, op, id, m, nm, label)
    <3>1. i \in Live /\ rows[i].number = e.number /\ i # 0
      BY <2>6, RegistryAssumption DEF Rows, Ids
    <3>2. Looks(Worker, "event", i, e.number, e.name, e.label)
      BY <2>2, <2>3, <2>4, <2>6, <3>1 DEF Looks
    <3> QED BY <3>2
  <2> QED BY <2>2, <2>5, <2>6
<1>5. ASSUME NEW r \in Requests, CommitZone(r)
      PROVE  Stores(r)
  <2>1. r # Worker
    BY RegistryAssumption DEF Worker
  <2> QED BY <1>5, <2>1 DEF CommitZone, Stores, Storing
<1>6. CASE CommitEvent
  BY <1>6 DEF CommitEvent, Stores, Storing
<1>7. ASSUME NEW r \in Requests, CommitDelete(r)
      PROVE  Removes(r)
  <2>1. \A i \in Ids : rows'[i] \in {rows[i], None}
    BY <1>7 DEF CommitDelete, Shape, TablesType
  <2>2. rows' \in [Ids -> ZoneRows]
    BY <1>7 DEF CommitDelete, Shape, TablesType, ZoneRows
  <2>3. object \/ \A i \in Ids : rows[i] = None
    BY DEF Shape, TablesType, Live
  <2> QED BY <1>7, <2>1, <2>2, <2>3 DEF CommitDelete, Removes, Shape, TablesType
<1>8. ASSUME NEW r \in Requests, CommitCreateObject(r)
      PROVE  Removes(r)
  BY <1>8 DEF CommitCreateObject, Removes, Shape, TablesType
<1>9. ASSUME NEW r \in Requests, CommitDeleteObject(r)
      PROVE  Removes(r)
  BY <1>9 DEF CommitDeleteObject, Removes, Shape, TablesType, ZoneRows
<1>10. ASSUME NEW r \in Requests, CommitError(r)
       PROVE  Ends(r)
  BY <1>10 DEF CommitError, Ends
<1>11. CASE EventError
  BY <1>11 DEF EventError, Ends
<1>12. CASE EventIsAmbiguous \/ Agent
  BY <1>12 DEF EventIsAmbiguous, Agent, FetchZones, PublishEvent, Waits
<1>13. CASE UNCHANGED vars
  BY <1>13 DEF vars, tables, Waits
<1> QED
  BY <1>1, <1>2, <1>3, <1>4, <1>5, <1>6, <1>7, <1>8, <1>9, <1>10, <1>11, <1>12, <1>13
     DEF Next, Request, HandleEvent

-------------------------------------------------------------------------------
(* What each kind of step leaves of a row. *)

(* A row is the one that was there before with the number it had, or a new *)
(* one with what the transaction wrote.                                    *)
LEMMA StoredRows ==
  ASSUME Shape, NEW p \in Procs, Stores(p)
  PROVE  LET t == txn[p] IN
         /\ TablesType'
         /\ nextId <= nextId' /\ raced \subseteq raced'
         /\ t \in Txn /\ t.number \in Numbers /\ t.name \in Names
         /\ t.id = 0 =>
              /\ nextId \in Ids /\ nextId \notin Live
              /\ rows' = [rows EXCEPT ![nextId] =
                            [number |-> t.number, name |-> t.name, last |-> t.label]]
              /\ Cardinality(Finders(t.number)) > 1 => t.number \in raced'
         /\ t.id # 0 /\ t.id \in Live =>
              /\ rows'[t.id].number = rows[t.id].number
              /\ rows'[t.id].last = IF t.label \in {None, t.seen.last}
                                    THEN rows[t.id].last ELSE t.label
         /\ t.id # 0 => \A i \in Ids \ {t.id} : rows'[i] = rows[i]
         /\ t.id # 0 => Live' \subseteq Live
<1> DEFINE t == txn[p]
<1>1. /\ t \in Txn /\ t.number \in Numbers /\ t.name \in Names
      /\ t.label \in Labels \cup {None} /\ t.id \in 0 .. MaxRows
      /\ t.id # 0 => t.seen \in Zone
  BY DEF Shape, TablesType, Purposeful, Stores, Txn
<1>2. txn' \in [Procs -> Txn]
  BY IdleType DEF Shape, TablesType, Stores
<1>3. history' \in [Numbers -> Labels \cup {None}]
  BY <1>1 DEF Shape, TablesType, Stores
<1>4. Store(t)
  BY DEF Stores
<1> HIDE DEF t
<1> USE DEF Shape
<1>5. CASE t.id = 0
  <2> DEFINE z == [number |-> t.number, name |-> t.name, last |-> t.label]
  <2>1. Insert(t)
    BY <1>4, <1>5 DEF Store
  <2>2. nextId \in Ids /\ nextId \notin Live /\ nextId' = nextId + 1
        /\ nextId' \in 1 .. MaxRows + 1
    BY <2>1, RegistryAssumption DEF Insert, TablesType, Ids
  <2>3. z \in Zone /\ z \in ZoneRows
    BY <1>1 DEF Zone, ZoneRows
  <2>4. rows' = [rows EXCEPT ![nextId] = z] /\ object' = TRUE
    BY <2>1 DEF Insert
  <2> HIDE DEF z
  <2>5. rows' \in [Ids -> ZoneRows]
    BY <2>2, <2>3, <2>4 DEF TablesType
  <2>6. \A i \in Live' : i = nextId \/ i \in Live
    BY <2>2, <2>4 DEF TablesType, Live
  <2>7. \A i \in Live' : i < nextId'
    <3> SUFFICES ASSUME NEW i \in Live' PROVE i < nextId'
      OBVIOUS
    <3>1. i = nextId \/ i < nextId
      BY <2>6 DEF TablesType
    <3>2. i \in Nat /\ nextId \in Nat
      BY RegistryAssumption DEF TablesType, Live, Ids
    <3> QED BY <2>2, <3>1, <3>2
  <2>8. /\ raced' \subseteq Numbers /\ raced \subseteq raced'
        /\ Cardinality(Finders(t.number)) > 1 => t.number \in raced'
    BY <1>1, <2>1 DEF Insert, TablesType
  <2>9. TablesType'
    BY <1>2, <1>3, <2>2, <2>4, <2>5, <2>7, <2>8 DEF TablesType
  <2>10. nextId <= nextId'
    BY <2>2 DEF TablesType
  <2> QED BY <1>1, <1>5, <2>2, <2>4, <2>8, <2>9, <2>10 DEF t, z
<1>6. CASE t.id # 0
  <2>1. Update(t)
    BY <1>4, <1>6 DEF Store
  <2>2. UNCHANGED <<object, nextId, raced>>
    BY <2>1 DEF Update
  <2>3. CASE Dirty(t)
    <3>1. t.id \in Live /\ rows' = [rows EXCEPT ![t.id] = Write(t)]
      BY <2>1, <2>3 DEF Update
    <3>2. rows[t.id] \in Zone /\ t.id \in Ids
      BY <3>1, LiveIsZone
    <3>3. /\ Write(t) \in Zone /\ Write(t).number = rows[t.id].number
          /\ Write(t).last = IF t.label \in {None, t.seen.last}
                             THEN rows[t.id].last ELSE t.label
      BY <1>1, <3>2 DEF Write, Zone
    <3>4. rows' \in [Ids -> ZoneRows]
      BY <3>1, <3>3 DEF TablesType, ZoneRows, Zone
    <3>5. rows'[t.id] = Write(t) /\ \A i \in Ids \ {t.id} : rows'[i] = rows[i]
      BY <3>1, <3>2 DEF TablesType
    <3>7. Live' \subseteq Live
      BY <3>1, <3>5 DEF Live
    <3>8. TablesType'
      BY <1>2, <1>3, <2>2, <3>4, <3>7 DEF TablesType
    <3> QED BY <1>1, <1>6, <2>2, <3>3, <3>5, <3>7, <3>8 DEF t, TablesType
  <2>4. CASE ~Dirty(t)
    <3>1. UNCHANGED rows
      BY <2>1, <2>4 DEF Update
    <3>2. t.label \in {None, t.seen.last}
      BY <2>4 DEF Dirty
    <3>3. Live' \subseteq Live
      BY <3>1 DEF Live
    <3>4. TablesType'
      BY <1>2, <1>3, <2>2, <3>1, <3>3 DEF TablesType
    <3> QED BY <1>1, <1>6, <2>2, <3>1, <3>2, <3>3, <3>4 DEF t, TablesType
  <2> QED BY <2>3, <2>4
<1> QED BY <1>5, <1>6

(* The rows that are left have kept their numbers, new ones have new ids. *)
Keeps == \A i \in Live' : i = nextId \/ (i \in Live /\ rows'[i].number = rows[i].number)

LEMMA StoresKeep ==
  ASSUME Shape, NEW p \in Procs, Stores(p)
  PROVE  Keeps
<1>1. rows \in [Ids -> ZoneRows] /\ rows' \in [Ids -> ZoneRows]
  BY StoredRows DEF Shape, TablesType
<1>2. CASE txn[p].id = 0
  BY <1>1, <1>2, StoredRows DEF Keeps, Live
<1>3. CASE txn[p].id # 0
  BY <1>1, <1>3, StoredRows DEF Keeps, Live
<1> QED BY <1>2, <1>3

LEMMA RemovesKeep ==
  ASSUME Shape, NEW p \in Procs, Removes(p)
  PROVE  Keeps /\ \A i \in Live' : i \in Live /\ rows'[i] = rows[i]
BY DEF Removes, Keeps, Live

LEMMA EndsKeep ==
  ASSUME UNCHANGED tables
  PROVE  Keeps /\ UNCHANGED <<object, rows, nextId, history, raced, Live>>
BY DEF tables, Keeps, Live

-------------------------------------------------------------------------------
(* Shape. *)

LEMMA LooksShape ==
  ASSUME Shape, NEW p \in Procs, NEW op, NEW id, NEW n, NEW name, NEW label,
         Looks(p, op, id, n, name, label)
  PROVE  Shape'
<1> DEFINE t == [op |-> op, missing |-> ~object, id |-> id,
                 seen |-> IF id = 0 THEN None ELSE rows[id],
                 number |-> n, name |-> name, label |-> label]
<1>1. txn' = [txn EXCEPT ![p] = t] /\ UNCHANGED <<object, rows, nextId, history, raced, Live>>
  BY EndsKeep DEF Looks, Look
<1>2. id # 0 => id \in Live /\ rows[id] \in Zone /\ rows[id].number = n /\ id < nextId
  BY LiveIsZone DEF Looks, Shape, TablesType
<1>3. t \in Txn
  <2>1. (~object) \in BOOLEAN
    BY Zenon
  <2>2. id \in 0 .. MaxRows
    BY <1>2, RegistryAssumption DEF Looks, Live, Ids
  <2>3. t.seen \in ZoneRows
    BY <1>2 DEF ZoneRows, Zone
  <2> QED BY <2>1, <2>2, <2>3 DEF Looks, Txn
<1>4. /\ t.op = op /\ t.id = id /\ t.number = n /\ t.name = name /\ t.label = label
      /\ id # 0 => t.seen = rows[id]
  OBVIOUS
<1> HIDE DEF t
<1>5. txn' \in [Procs -> Txn] /\ \A q \in Procs : txn'[q] = IF q = p THEN t ELSE txn[q]
  BY <1>1, <1>3 DEF Shape, TablesType
<1>6. TablesType'
  BY <1>1, <1>5 DEF Shape, TablesType
<1>7. Worker \in Procs /\ Worker \notin Requests /\ Requests \subseteq Procs
  BY RegistryAssumption DEF Procs, Worker
<1>8. op # "idle"
  BY DEF Looks, AllOps
<1>9. \A r \in Requests : txn'[r].label = None /\ txn'[r].op # "event"
  BY <1>4, <1>5, <1>7 DEF Looks, Shape, Purposeful
<1>10. /\ txn'[Worker].op \in {"idle", "event"}
       /\ txn'[Worker].op = "event" => txn'[Worker].label \in Labels
  BY <1>4, <1>5, <1>7 DEF Looks, Shape, Purposeful
<1>11. ASSUME NEW q \in Procs
       PROVE  /\ txn'[q].op \in Storing => txn'[q].number \in Numbers /\ txn'[q].name \in Names
              /\ txn'[q].op = "idle" => txn'[q] = Idle
              /\ txn'[q].id # 0 =>
                   /\ txn'[q].seen \in Zone /\ txn'[q].id < nextId
                   /\ txn'[q].id \in Live => rows[txn'[q].id].number = txn'[q].number
  <2>1. CASE q = p
    BY <1>2, <1>4, <1>5, <1>8, <2>1 DEF Looks
  <2>2. CASE q # p
    BY <1>5, <2>2 DEF Shape, Purposeful
  <2> QED BY <2>1, <2>2
<1> QED BY <1>1, <1>6, <1>9, <1>10, <1>11 DEF Shape, Purposeful

LEMMA IdlesPurposeful ==
  ASSUME Shape, NEW p \in Procs, txn' = [txn EXCEPT ![p] = Idle],
         nextId <= nextId', nextId' \in Nat, Keeps
  PROVE  Purposeful'
<1>1. \A q \in Procs : txn'[q] = IF q = p THEN Idle ELSE txn[q]
  BY DEF Shape, TablesType
<1>2. Worker \in Procs /\ Requests \subseteq Procs
  BY DEF Procs
<1>3. \A r \in Requests : txn'[r].label = None /\ txn'[r].op # "event"
  BY <1>1, <1>2, IdleType DEF Shape, Purposeful
<1>4. /\ txn'[Worker].op \in {"idle", "event"}
      /\ txn'[Worker].op = "event" => txn'[Worker].label \in Labels
  BY <1>1, <1>2, IdleType DEF Shape, Purposeful
<1>5. ASSUME NEW q \in Procs
      PROVE  /\ txn'[q].op \in Storing => txn'[q].number \in Numbers /\ txn'[q].name \in Names
             /\ txn'[q].op = "idle" => txn'[q] = Idle
             /\ txn'[q].id # 0 =>
                  /\ txn'[q].seen \in Zone /\ txn'[q].id < nextId'
                  /\ txn'[q].id \in Live' => rows'[txn'[q].id].number = txn'[q].number
  <2>1. CASE q = p
    BY <1>1, <2>1, IdleType DEF Storing
  <2>2. CASE q # p
    <3>1. txn'[q] = txn[q] /\ txn[q].id \in Nat /\ nextId \in Nat
      BY <1>1, <2>2, RegistryAssumption DEF Shape, TablesType, Txn
    <3>2. txn[q].id # 0 => txn[q].id < nextId /\ txn[q].seen \in Zone
      BY DEF Shape, Purposeful
    <3>3. txn[q].id # 0 => txn[q].id < nextId'
      BY <3>1, <3>2
    <3>4. txn[q].id # 0 /\ txn[q].id \in Live' => rows'[txn[q].id].number = txn[q].number
      BY <3>1, <3>2 DEF Keeps, Shape, Purposeful
    <3> QED BY <3>1, <3>2, <3>3, <3>4 DEF Shape, Purposeful
  <2> QED BY <2>1, <2>2
<1> QED BY <1>3, <1>4, <1>5 DEF Purposeful

LEMMA NextShape == Shape /\ AgentType /\ [Next]_vars => Shape'
<1> SUFFICES ASSUME Shape, AgentType, [Next]_vars PROVE Shape'
  OBVIOUS
<1>1. nextId \in Nat /\ (TablesType' => nextId' \in Nat)
  BY RegistryAssumption DEF Shape, TablesType
<1>2. ASSUME NEW p \in Procs, Ends(p) PROVE Shape'
  <2>1. txn' \in [Procs -> Txn]
    BY <1>2, IdleType DEF Ends, Shape, TablesType
  <2>2. TablesType'
    BY <1>2, <2>1, EndsKeep DEF Ends, Shape, TablesType
  <2>3. nextId <= nextId' /\ Keeps
    BY <1>1, <1>2, EndsKeep DEF Ends
  <2> QED BY <1>1, <1>2, <2>2, <2>3, IdlesPurposeful DEF Ends, Shape
<1>3. ASSUME NEW p \in Procs, Stores(p) PROVE Shape'
  <2>1. TablesType' /\ nextId <= nextId'
    BY <1>3, StoredRows
  <2> QED BY <1>1, <1>3, <2>1, StoresKeep, IdlesPurposeful DEF Stores, Shape
<1>4. ASSUME NEW p \in Procs, Removes(p) PROVE Shape'
  <2>1. txn' \in [Procs -> Txn]
    BY <1>4, IdleType DEF Removes, Shape, TablesType
  <2>2. \A i \in Live' : i < nextId' /\ object'
    BY <1>4, RemovesKeep DEF Removes, Shape, TablesType, Live
  <2>3. TablesType'
    BY <1>4, <2>1, <2>2 DEF Removes, Shape, TablesType
  <2>4. nextId' = nextId /\ Keeps
    BY <1>4, RemovesKeep, Zenon DEF Removes
  <2>5. nextId <= nextId' /\ nextId' \in Nat
    BY <1>1, <2>4
  <2> QED BY <1>4, <2>3, <2>4, <2>5, IdlesPurposeful DEF Removes, Shape
<1>5. CASE Waits
  BY <1>5, EndsKeep DEF Waits, Shape, TablesType, Purposeful
<1> QED BY <1>2, <1>3, <1>4, <1>5, NextKinds, LooksShape

-------------------------------------------------------------------------------
(* The agent's side, and with it the types. *)

(* The worker keeps the event it handles at the head of its queue. *)
Handling == txn[Worker].op = "event" => inbox # <<>>

LEMMA AgentStep == Shape /\ AgentType /\ Handling /\ [Next]_vars => AgentType' /\ Handling'
<1> SUFFICES ASSUME Shape, AgentType, Handling, [Next]_vars
             PROVE  AgentType' /\ Handling'
  OBVIOUS
<1> DEFINE Event == [number : Numbers, name : Names, label : Labels]
<1>1. Worker \in Procs /\ Worker \notin Requests /\ Requests \subseteq Procs
  BY RegistryAssumption DEF Worker, Procs
<1>2. ASSUME UNCHANGED agent, UNCHANGED txn[Worker] PROVE AgentType' /\ Handling'
  BY <1>2 DEF agent, AgentType, Handling
<1>3. ASSUME inbox # <<>>, inbox' = Tail(inbox), UNCHANGED <<known, events>>,
             txn'[Worker].op # "event"
      PROVE  AgentType' /\ Handling'
  <2>1. inbox' \in Seq(Event)
    BY <1>3, HeadType DEF AgentType
  <2> QED BY <1>3, <2>1 DEF AgentType, Handling
<1>4. CASE FetchZones
  BY <1>4 DEF FetchZones, AgentType, Handling
<1>5. ASSUME NEW n \in Numbers, NEW label \in Labels, PublishEvent(n, label)
      PROVE  AgentType' /\ Handling'
  <2>1. known[n] \in Names
    BY <1>5 DEF PublishEvent, AgentType
  <2>2. [number |-> n, name |-> known[n], label |-> label] \in Event
    BY <2>1
  <2>3. inbox' \in Seq(Event) /\ inbox' # <<>>
    BY <1>5, <2>2, AppendType DEF PublishEvent, AgentType
  <2>4. events' \in 0 .. MaxEvents
    BY <1>5, RegistryAssumption DEF PublishEvent, AgentType
  <2> QED BY <1>5, <2>3, <2>4 DEF PublishEvent, AgentType, Handling
<1>6. ASSUME NEW r \in Requests, Request(r)
      PROVE  AgentType' /\ Handling'
  <2>1. UNCHANGED agent /\ \E t : txn' = [txn EXCEPT ![r] = t]
    BY <1>6 DEF Request, LookForCreate, LookForImport, LookForDelete, LookForRename,
                LookForObject, Look, CommitZone, CommitDelete, CommitCreateObject,
                CommitDeleteObject, CommitError, agent
  <2>2. UNCHANGED txn[Worker]
    BY <1>1, <2>1 DEF Shape, TablesType
  <2> QED BY <1>2, <2>1, <2>2
<1>7. CASE LookForEvent
  BY <1>7 DEF LookForEvent, agent, AgentType, Handling
<1>8. CASE EventIsAmbiguous
  <2>1. txn'[Worker].op # "event"
    BY <1>8, IdleType DEF EventIsAmbiguous
  <2> QED BY <1>3, <1>8, <2>1 DEF EventIsAmbiguous
<1>9. CASE CommitEvent \/ EventError
  <2>1. txn'[Worker].op # "event"
    BY <1>1, <1>9, IdleType DEF CommitEvent, EventError, Shape, TablesType
  <2> QED BY <1>3, <1>9, <2>1 DEF CommitEvent, EventError, Handling
<1>10. CASE UNCHANGED vars
  BY <1>2, <1>10 DEF vars, agent
<1> QED
  BY <1>4, <1>5, <1>6, <1>7, <1>8, <1>9, <1>10 DEF Next, HandleEvent, Agent

LEMMA InitShape == Init => Shape /\ AgentType /\ Handling
<1> SUFFICES ASSUME Init PROVE Shape /\ AgentType /\ Handling
  OBVIOUS
<1>1. \A p \in Procs : txn[p] = Idle
  BY DEF Init, Procs
<1>2. txn \in [Procs -> Txn]
  BY IdleType DEF Init, Procs
<1>3. Worker \in Procs /\ Requests \subseteq Procs
  BY DEF Procs
<1>4. Purposeful /\ Handling
  BY <1>1, <1>3, IdleType DEF Purposeful, Storing, Handling
<1>5. AgentType
  BY RegistryAssumption DEF Init, AgentType
<1>6. history \in [Numbers -> Labels \cup {None}] /\ raced \subseteq Numbers
  BY DEF Init
<1>7. CASE object \in BOOLEAN /\ rows = [i \in Ids |-> None] /\ nextId = 1
  BY <1>2, <1>4, <1>5, <1>6, <1>7, RegistryAssumption DEF Shape, TablesType, Live, ZoneRows
<1>8. ASSUME NEW n \in Numbers, NEW name \in Names,
             object = TRUE, nextId = 2,
             rows = [i \in Ids |-> IF i = 1 THEN [number |-> n, name |-> name, last |-> None]
                                           ELSE None]
      PROVE  Shape
  <2>1. [number |-> n, name |-> name, last |-> None] \in ZoneRows
    BY DEF ZoneRows
  <2>2. None \in ZoneRows
    BY DEF ZoneRows
  <2>3. rows \in [Ids -> ZoneRows]
    BY <1>8, <2>1, <2>2
  <2>4. \A i \in Live : i = 1
    BY <1>8 DEF Live
  <2> QED BY <1>2, <1>4, <1>6, <1>8, <2>3, <2>4, RegistryAssumption DEF Shape, TablesType
<1> QED BY <1>4, <1>5, <1>7, <1>8 DEF Init

(* Type correctness for any finite set of requests and any bounds. *)
THEOREM TypeCorrect == Spec => []TypeOK
<1>1. Spec => [](Shape /\ AgentType /\ Handling)
  BY InitShape, NextShape, AgentStep, PTL DEF Spec
<1>2. Shape /\ AgentType => TypeOK
  BY TypeParts DEF Shape
<1> QED BY <1>1, <1>2, PTL

-------------------------------------------------------------------------------
(* Who found a number free may insert it: none has it, and when the first  *)
(* inserts, all who found it free are found by Finders.                    *)
Free(n) ==
  \/ n \in raced
  \/ (\A i, j \in Rows(n) : i = j) /\ (Finders(n) # {} => Rows(n) = {})
Unique == \A n \in Numbers : Free(n)

LEMMA InitUnique == Init => Unique
<1> SUFFICES ASSUME Init, NEW n \in Numbers PROVE Free(n)
  BY DEF Unique
<1>1. Finders(n) = {}
  BY IdleType, RegistryAssumption DEF Init, Finders
<1>2. \A i \in Live : i = 1
  BY DEF Init, Live
<1> QED BY <1>1, <1>2 DEF Free, Rows

(* Nothing new. *)
LEMMA StaysFree ==
  ASSUME NEW n \in Numbers, Free(n), Rows(n)' \subseteq Rows(n), raced \subseteq raced',
         Finders(n)' \subseteq Finders(n) \/ Rows(n) = {}
  PROVE  Free(n)'
BY DEF Free

(* A transaction that is over has found nothing. *)
LEMMA FewerFinders ==
  ASSUME Shape, NEW p \in Procs, txn' = [txn EXCEPT ![p] = Idle], NEW n \in Numbers
  PROVE  Finders(n)' \subseteq Finders(n) \ {p}
<1>1. \A q \in Procs : txn'[q] = IF q = p THEN Idle ELSE txn[q]
  BY DEF Shape, TablesType
<1>2. DOMAIN txn = Procs /\ DOMAIN txn' = Procs
  BY DEF Shape, TablesType
<1> QED BY <1>1, <1>2, IdleType, RegistryAssumption DEF Finders

LEMMA FewerRows ==
  ASSUME Keeps, NEW n \in Numbers
  PROVE  Rows(n)' \subseteq Rows(n) \cup {nextId}
BY DEF Keeps, Rows

LEMMA FindersAreFew ==
  ASSUME Shape, NEW n, Cardinality(Finders(n)) <= 1, NEW p \in Finders(n)
  PROVE  Finders(n) = {p}
<1>1. IsFiniteSet(Procs)
  BY RegistryAssumption, FS_AddElement DEF Procs
<1>2. Finders(n) \subseteq Procs
  BY DEF Finders, Shape, TablesType
<1>3. IsFiniteSet(Finders(n)) /\ Cardinality(Finders(n)) \in Nat
  BY <1>1, <1>2, FS_Subset, FS_CardinalityType
<1>4. Cardinality(Finders(n) \ {p}) = Cardinality(Finders(n)) - 1
      /\ IsFiniteSet(Finders(n) \ {p})
  BY <1>3, FS_RemoveElement
<1>5. Cardinality(Finders(n) \ {p}) \in Nat
  BY <1>4, FS_CardinalityType
<1>6. Cardinality(Finders(n) \ {p}) = 0
  BY <1>3, <1>4, <1>5
<1>7. Finders(n) \ {p} = {}
  BY <1>4, <1>6, FS_EmptySet
<1> QED BY <1>7

LEMMA StoresUnique ==
  ASSUME Shape, Unique, NEW p \in Procs, Stores(p), NEW n \in Numbers
  PROVE  Free(n)'
<1>1. Free(n)
  BY DEF Unique
<1>2. Keeps /\ raced \subseteq raced' /\ Finders(n)' \subseteq Finders(n) \ {p}
  BY StoresKeep, StoredRows, FewerFinders DEF Stores
<1>3. CASE nextId \notin Rows(n)'
  <2>1. Rows(n)' \subseteq Rows(n)
    BY <1>2, <1>3, FewerRows
  <2> QED BY <1>1, <1>2, <2>1, StaysFree
<1>4. CASE nextId \in Rows(n)'
  <2>1. txn[p].id = 0
    <3> SUFFICES ASSUME txn[p].id # 0 PROVE FALSE
      OBVIOUS
    <3>1. nextId \in Live
      BY <1>4, StoredRows DEF Rows
    <3>2. nextId < nextId /\ nextId \in Nat
      BY <3>1, RegistryAssumption DEF Shape, TablesType
    <3> QED BY <3>2
  <2>2. txn[p].number = n
    <3>1. rows'[nextId].number = txn[p].number
      BY <2>1, StoredRows DEF Shape, TablesType
    <3> QED BY <1>4, <3>1 DEF Rows
  <2>3. p \in Finders(n)
    BY <2>1, <2>2 DEF Finders, Shape, TablesType
  <2>4. CASE Cardinality(Finders(n)) > 1
    BY <2>1, <2>2, <2>4, StoredRows DEF Free
  <2>5. CASE ~(Cardinality(Finders(n)) > 1)
    <3>1. Cardinality(Finders(n)) \in Nat
      <4>1. IsFiniteSet(Procs)
        BY RegistryAssumption, FS_AddElement DEF Procs
      <4>2. Finders(n) \subseteq Procs
        BY DEF Finders, Shape, TablesType
      <4> QED BY <4>1, <4>2, FS_Subset, FS_CardinalityType
    <3>2. Finders(n) = {p}
      BY <2>3, <2>5, <3>1, FindersAreFew
    <3>3. Finders(n)' = {}
      BY <1>2, <3>2
    <3>4. n \in raced \/ Rows(n) = {}
      BY <1>1, <2>3 DEF Free
    <3>5. n \in raced' \/ \A i \in Rows(n)' : i = nextId
      BY <1>2, <3>4, FewerRows
    <3> QED BY <3>3, <3>5 DEF Free
  <2> QED BY <2>4, <2>5
<1> QED BY <1>3, <1>4

LEMMA NextUnique == Shape /\ AgentType /\ Unique /\ [Next]_vars => Unique'
<1> SUFFICES ASSUME Shape, AgentType, Unique, [Next]_vars, NEW n \in Numbers
             PROVE  Free(n)'
  BY DEF Unique
<1>1. Free(n)
  BY DEF Unique
<1>2. ASSUME UNCHANGED tables
      PROVE  Rows(n)' = Rows(n) /\ raced' = raced
  BY <1>2 DEF tables, Rows, Live
<1>3. ASSUME NEW p \in Procs, NEW op, NEW id, NEW m, NEW name, NEW label,
             Looks(p, op, id, m, name, label)
      PROVE  Free(n)'
  <2>1. /\ DOMAIN txn = Procs /\ DOMAIN txn' = Procs
        /\ \A q \in Procs : q # p => txn'[q] = txn[q]
        /\ txn'[p].id = id /\ txn'[p].number = m
    BY <1>3 DEF Looks, Look, Shape, TablesType
  <2>2. CASE id = 0 /\ m = n
    <3>1. Rows(n) = {}
      BY <1>3, <2>2 DEF Looks
    <3> QED BY <1>1, <1>2, <1>3, <3>1, StaysFree DEF Looks
  <2>3. CASE ~(id = 0 /\ m = n)
    <3>1. Finders(n)' \subseteq Finders(n)
      BY <2>1, <2>3 DEF Finders
    <3> QED BY <1>1, <1>2, <1>3, <3>1, StaysFree DEF Looks
  <2> QED BY <2>2, <2>3
<1>4. ASSUME NEW p \in Procs, Ends(p) PROVE Free(n)'
  <2>1. Finders(n)' \subseteq Finders(n)
    BY <1>4, FewerFinders DEF Ends
  <2> QED BY <1>1, <1>2, <1>4, <2>1, StaysFree DEF Ends
<1>5. ASSUME NEW p \in Procs, Stores(p) PROVE Free(n)'
  BY <1>5, StoresUnique
<1>6. ASSUME NEW p \in Procs, Removes(p) PROVE Free(n)'
  <2>1. Finders(n)' \subseteq Finders(n)
    BY <1>6, FewerFinders DEF Removes
  <2>2. Rows(n)' \subseteq Rows(n) /\ raced' = raced
    BY <1>6, RemovesKeep DEF Removes, Rows
  <2> QED BY <1>1, <2>1, <2>2, StaysFree
<1>7. CASE Waits
  <2>1. Finders(n)' = Finders(n)
    BY <1>7 DEF Waits, Finders
  <2> QED BY <1>1, <1>2, <1>7, <2>1, StaysFree DEF Waits
<1> QED BY <1>3, <1>4, <1>5, <1>6, <1>7, NextKinds

(* Two rows have the same number only if two transactions found it free at *)
(* one time (create_new_zone, import_objects and _handle_event insert what *)
(* they did not find), for any number of requests, zones and events.       *)
THEOREM NumbersAreAlwaysUnique == Spec => []NumbersAreUnique
<1>1. TypeOK /\ Unique => NumbersAreUnique
  <2> SUFFICES ASSUME TypeOK, Unique, NEW n \in Numbers, n \notin raced
               PROVE  Cardinality(Rows(n)) <= 1
    BY DEF NumbersAreUnique
  <2>1. \A i, j \in Rows(n) : i = j
    BY DEF Unique, Free
  <2>2. CASE Rows(n) = {}
    BY <2>2, FS_EmptySet
  <2>3. ASSUME NEW i \in Rows(n) PROVE Cardinality(Rows(n)) <= 1
    <3>1. Rows(n) = {i}
      BY <2>1, <2>3
    <3> QED BY <3>1, FS_Singleton
  <2> QED BY <2>2, <2>3
<1>2. Spec => [](Shape /\ AgentType /\ Handling)
  BY InitShape, NextShape, AgentStep, PTL DEF Spec
<1>3. Spec => []Unique
  BY <1>2, InitUnique, NextUnique, PTL DEF Spec
<1> QED BY <1>1, <1>3, TypeCorrect, PTL

-------------------------------------------------------------------------------
(* Only the worker writes what a row says last.  While it handles an       *)
(* event, the row it found, if any, is the only one with the number that   *)
(* says anything, and still says what it said.                             *)
Handled == txn[Worker].op = "event"
Tells ==
  /\ LastIsHistory
  /\ \A i, j \in Live :
       rows[i].number = rows[j].number /\ rows[i].last # None /\ rows[j].last # None => i = j
  /\ Handled => \A j \in Live :
       rows[j].number = txn[Worker].number /\ j # txn[Worker].id => rows[j].last = None
  /\ Handled /\ txn[Worker].id \in Live =>
       rows[txn[Worker].id].last = txn[Worker].seen.last

LEMMA InitTells == Init => Tells
<1> SUFFICES ASSUME Init PROVE Tells
  OBVIOUS
<1>1. ~Handled
  BY IdleType DEF Init, Handled
<1>2. \A i \in Live : rows[i].last = None
  BY DEF Init, Live
<1> QED BY <1>1, <1>2 DEF Tells, LastIsHistory

(* Every row says what it said, or is new and says nothing. *)
LEMMA QuietlyTells ==
  ASSUME Shape, Tells, history' = history,
         txn'[Worker] = txn[Worker] \/ ~Handled',
         \A i \in Live' : \/ /\ i \in Live /\ rows'[i].number = rows[i].number
                             /\ rows'[i].last = rows[i].last
                          \/ i = nextId /\ rows'[i].last = None
  PROVE  Tells'
<1>1. LastIsHistory'
  BY DEF Tells, LastIsHistory
<1>2. \A i, j \in Live' :
        rows'[i].number = rows'[j].number /\ rows'[i].last # None /\ rows'[j].last # None
          => i = j
  BY DEF Tells
<1>3. Handled' => \A j \in Live' :
        rows'[j].number = txn'[Worker].number /\ j # txn'[Worker].id => rows'[j].last = None
  BY DEF Tells, Handled
<1>4. ASSUME Handled', txn'[Worker].id \in Live'
      PROVE  rows'[txn'[Worker].id].last = txn'[Worker].seen.last
  <2>1. txn'[Worker] = txn[Worker] /\ Handled
    BY <1>4 DEF Handled
  <2>2. txn[Worker].id # 0
    BY <1>4, <2>1, RegistryAssumption DEF Live, Ids
  <2>3. txn[Worker].id # nextId
    <3>1. txn[Worker].id < nextId /\ nextId \in Nat
      BY <2>2, RegistryAssumption DEF Shape, TablesType, Purposeful, Procs
    <3> QED BY <3>1
  <2> QED BY <1>4, <2>1, <2>3 DEF Tells
<1> QED BY <1>1, <1>2, <1>3, <1>4 DEF Tells

LEMMA LooksTell ==
  ASSUME Shape, Tells, NEW p \in Procs, NEW op, NEW id, NEW n, NEW name, NEW label,
         Looks(p, op, id, n, name, label)
  PROVE  Tells'
<1>1. UNCHANGED <<object, rows, nextId, history, raced, Live>>
  BY EndsKeep DEF Looks
<1>2. CASE p # Worker
  <2>1. txn'[Worker] = txn[Worker]
    BY <1>2 DEF Looks, Look, Shape, TablesType, Procs
  <2> QED BY <1>1, <2>1, QuietlyTells
<1>3. CASE p = Worker
  <2>1. /\ txn'[Worker].id = id /\ txn'[Worker].number = n
        /\ id # 0 => txn'[Worker].seen = rows[id]
    BY <1>3 DEF Looks, Look, Shape, TablesType, Procs
  <2>2. \A j \in Live : rows[j].number = n => j = id
    <3>1. op = "event" /\ n \in Numbers /\ (id # 0 => Rows(n) = {id})
      BY <1>3 DEF Looks, Storing
    <3>2. id = 0 => Rows(n) = {}
      BY <3>1 DEF Looks
    <3> QED BY <3>1, <3>2 DEF Rows
  <2>3. id \in Live => id # 0
    BY RegistryAssumption DEF Live, Ids
  <2> QED BY <1>1, <2>1, <2>2, <2>3 DEF Tells, LastIsHistory
<1> QED BY <1>2, <1>3

LEMMA RequestTells ==
  ASSUME Shape, Tells, NEW r \in Requests, Stores(r)
  PROVE  Tells'
<1>1. r \in Procs /\ r # Worker /\ Worker \in Procs /\ txn[r].label = None
  BY RegistryAssumption DEF Procs, Worker, Shape, Purposeful
<1>2. txn'[Worker] = txn[Worker] /\ history' = history
  BY <1>1 DEF Stores, Shape, TablesType
<1>3. rows \in [Ids -> ZoneRows] /\ Live \subseteq Ids /\ Live' \subseteq Ids
  BY DEF Shape, TablesType, Live
<1>4. CASE txn[r].id = 0
  <2>1. /\ rows' = [rows EXCEPT ![nextId] =
                      [number |-> txn[r].number, name |-> txn[r].name, last |-> None]]
        /\ nextId \in Ids
    BY <1>1, <1>4, StoredRows
  <2>2. \A i \in Live' : \/ i \in Live /\ rows'[i] = rows[i]
                         \/ i = nextId /\ rows'[i].last = None
    BY <1>3, <2>1 DEF Live
  <2> QED BY <1>2, <2>2, QuietlyTells
<1>5. CASE txn[r].id # 0
  <2>1. \A i \in Live' : /\ i \in Live /\ rows'[i].number = rows[i].number
                         /\ rows'[i].last = rows[i].last
    BY <1>1, <1>3, <1>5, StoredRows
  <2> QED BY <1>2, <2>1, QuietlyTells
<1> QED BY <1>4, <1>5

LEMMA WorkerTells ==
  ASSUME Shape, Tells, Stores(Worker)
  PROVE  Tells'
<1> DEFINE t == txn[Worker]
<1>1. /\ Worker \in Procs /\ t.op = "event" /\ Handled
      /\ t.label \in Labels /\ t.label # None /\ t.number \in Numbers
  BY RegistryAssumption DEF Procs, Shape, Purposeful, Stores, Storing, Handled
<1>2. ~Handled'
  BY <1>1, IdleType DEF Stores, Handled, Shape, TablesType
<1>3. history' = [history EXCEPT ![t.number] = t.label]
  BY DEF Stores
<1>4. rows \in [Ids -> ZoneRows] /\ Live \subseteq Ids /\ Live' \subseteq Ids
  BY DEF Shape, TablesType, Live
<1>5. \A j \in Live : rows[j].number = t.number /\ j # t.id => rows[j].last = None
  BY <1>1 DEF Tells
<1>6. \A n \in Numbers : history'[n] = IF n = t.number THEN t.label ELSE history[n]
  BY <1>3 DEF Shape, TablesType
<1>7. \A i \in Live : rows[i].number \in Numbers
  BY LiveIsZone DEF Shape, Zone
(* The row that was written, and the others. *)
<1>8. PICK w : \A i \in Live' :
        IF i = w THEN rows'[i].number = t.number /\ rows'[i].last = t.label
                 ELSE /\ i \in Live /\ rows'[i] = rows[i]
                      /\ rows[i].number = t.number => rows[i].last = None
  <2>1. CASE t.id = 0
    <3>1. /\ rows' = [rows EXCEPT ![nextId] =
                        [number |-> t.number, name |-> t.name, last |-> t.label]]
          /\ nextId \in Ids
      BY <1>1, <2>1, StoredRows
    <3>2. \A i \in Live' : i # nextId => i \in Live /\ rows'[i] = rows[i]
      BY <1>4, <3>1 DEF Live
    <3>3. rows'[nextId].number = t.number /\ rows'[nextId].last = t.label
      BY <1>4, <3>1
    <3>4. \A i \in Live : i # 0
      BY RegistryAssumption DEF Live, Ids
    <3> QED BY <1>5, <2>1, <3>2, <3>3, <3>4
  <2>2. CASE t.id # 0
    <3>1. \A i \in Live' : i \in Live /\ (i # t.id => rows'[i] = rows[i])
      BY <1>1, <1>4, <2>2, StoredRows
    <3>2. ASSUME t.id \in Live
          PROVE  rows'[t.id].number = t.number /\ rows'[t.id].last = t.label
      <4>1. rows[t.id].number = t.number /\ rows[t.id].last = t.seen.last
        BY <1>1, <2>2, <3>2 DEF Shape, Purposeful, Tells
      <4> QED BY <1>1, <2>2, <3>2, <4>1, StoredRows
    <3> QED BY <1>5, <3>1, <3>2
  <2> QED BY <2>1, <2>2
<1> HIDE DEF t
<1>9. LastIsHistory'
  <2> SUFFICES ASSUME NEW i \in Live', rows'[i].last # None
               PROVE  rows'[i].last = history'[rows'[i].number]
    BY DEF LastIsHistory
  <2>1. CASE i = w
    BY <1>1, <1>6, <1>8, <2>1
  <2>2. CASE i # w
    BY <1>6, <1>7, <1>8, <2>2 DEF Tells, LastIsHistory
  <2> QED BY <2>1, <2>2
<1>10. \A i, j \in Live' :
         rows'[i].number = rows'[j].number /\ rows'[i].last # None /\ rows'[j].last # None
           => i = j
  BY <1>8 DEF Tells
<1> QED BY <1>2, <1>9, <1>10 DEF Tells

LEMMA NextTells == Shape /\ AgentType /\ Tells /\ [Next]_vars => Tells'
<1> SUFFICES ASSUME Shape, AgentType, Tells, [Next]_vars PROVE Tells'
  OBVIOUS
<1>1. ASSUME NEW p \in Procs, txn' = [txn EXCEPT ![p] = Idle]
      PROVE  txn'[Worker] = txn[Worker] \/ ~Handled'
  BY <1>1, IdleType DEF Handled, Shape, TablesType, Procs
<1>2. ASSUME NEW p \in Procs, Ends(p) PROVE Tells'
  BY <1>1, <1>2, EndsKeep, QuietlyTells DEF Ends
<1>3. ASSUME NEW p \in Procs, Stores(p) PROVE Tells'
  BY <1>3, RequestTells, WorkerTells DEF Procs
<1>4. ASSUME NEW p \in Procs, Removes(p) PROVE Tells'
  <2>1. history' = history /\ \A i \in Live' : i \in Live /\ rows'[i] = rows[i]
    BY <1>4, RemovesKeep DEF Removes
  <2> QED BY <1>1, <1>4, <2>1, QuietlyTells DEF Removes
<1>5. CASE Waits
  BY <1>5, EndsKeep, QuietlyTells DEF Waits
<1> QED BY <1>2, <1>3, <1>4, <1>5, NextKinds, LooksTell

(* The state the console shows of a zone is the last one its history tells *)
(* of (_handle_event), for any number of requests, zones and events,       *)
(* whatever operators did to the rows meanwhile.                           *)
THEOREM LastIsAlwaysHistory == Spec => []LastIsHistory
<1>1. Spec => [](Shape /\ AgentType /\ Handling)
  BY InitShape, NextShape, AgentStep, PTL DEF Spec
<1>2. Spec => []Tells
  BY <1>1, InitTells, NextTells, PTL DEF Spec
<1>3. Tells => LastIsHistory
  BY DEF Tells
<1> QED BY <1>2, <1>3, PTL

-------------------------------------------------------------------------------
(* A rename does not cost an event. *)

(* What is renamed was found. *)
RenamesFound == \A r \in Requests : txn[r].op = "rename" => txn[r].id # 0

LEMMA NextRenamesFound == Shape /\ AgentType /\ RenamesFound /\ [Next]_vars => RenamesFound'
<1> SUFFICES ASSUME Shape, AgentType, RenamesFound, [Next]_vars PROVE RenamesFound'
  OBVIOUS
<1>1. txn \in [Procs -> Txn] /\ Requests \subseteq Procs
  BY DEF Shape, TablesType, Procs
<1>2. ASSUME NEW p \in Procs, NEW op, NEW id, NEW n, NEW name, NEW label,
             Looks(p, op, id, n, name, label)
      PROVE  RenamesFound'
  <2> DEFINE t == [op |-> op, missing |-> ~object, id |-> id,
                   seen |-> IF id = 0 THEN None ELSE rows[id],
                   number |-> n, name |-> name, label |-> label]
  <2>1. txn' = [txn EXCEPT ![p] = t] /\ (op = "rename" => id # 0)
    BY <1>2 DEF Looks, Look
  <2>2. t.op = op /\ t.id = id
    OBVIOUS
  <2> HIDE DEF t
  <2> QED BY <1>1, <2>1, <2>2 DEF RenamesFound
<1>3. ASSUME NEW p \in Procs, txn' = [txn EXCEPT ![p] = Idle] PROVE RenamesFound'
  BY <1>1, <1>3, IdleType DEF RenamesFound
<1>4. CASE Waits
  BY <1>4 DEF Waits, RenamesFound
<1> QED BY <1>2, <1>3, <1>4, NextKinds DEF Ends, Stores, Removes

(* An update leaves every row in its place. *)
LEMMA UpdatesKeepRows ==
  ASSUME Shape, NEW p \in Procs, Stores(p), txn[p].id # 0
  PROVE  object' = object /\ Live \subseteq Live'
<1> DEFINE t == txn[p]
<1>1. rows \in [Ids -> ZoneRows] /\ t.name \in Names /\ t.label \in Labels \cup {None}
  BY DEF Shape, TablesType, Purposeful, Stores, Txn
<1>2. Update(t)
  BY DEF Stores, Store
<1>3. CASE UNCHANGED rows
  BY <1>2, <1>3 DEF Update, Live
<1>4. CASE t.id \in Live /\ rows' = [rows EXCEPT ![t.id] = Write(t)]
  <2>1. rows[t.id] \in Zone /\ t.id \in Ids
    BY <1>4, LiveIsZone DEF Shape
  <2>2. Write(t) \in Zone
    BY <1>1, <2>1 DEF Write, Zone
  <2>3. rows'[t.id] # None
    BY <1>1, <1>4, <2>1, <2>2, NoRowAssumption DEF Zone
  <2>4. \A i \in Ids \ {t.id} : rows'[i] = rows[i]
    BY <1>1, <1>4
  <2> QED BY <1>2, <2>1, <2>3, <2>4 DEF Update, Live
<1> QED BY <1>2, <1>3, <1>4 DEF Update

Renamed(r) == txn[r].op = "rename" /\ txn'[r] = Idle

LEMMA RenamedFits ==
  ASSUME Shape, AgentType, RenamesFound, [Next]_vars, NEW r \in Requests, Renamed(r), EventFits
  PROVE  EventFits'
<1>1. /\ txn \in [Procs -> Txn] /\ txn' \in [Procs -> Txn]
      /\ r \in Procs /\ Worker \in Procs /\ r # Worker
  BY NextShape, RegistryAssumption DEF Shape, TablesType, Procs, Worker
<1>2. ASSUME NEW p \in Procs, NEW op, NEW id, NEW n, NEW name, NEW label,
             Looks(p, op, id, n, name, label)
      PROVE  FALSE
  <2>1. op # "idle"
    BY <1>2 DEF Looks, AllOps
  <2>2. txn'[r] = txn[r] \/ txn'[r].op = op
    BY <1>1, <1>2 DEF Looks, Look
  <2> QED BY <2>1, <2>2, IdleType DEF Renamed
<1>3. ASSUME NEW p \in Procs, txn' = [txn EXCEPT ![p] = Idle]
      PROVE  p = r /\ txn'[Worker] = txn[Worker]
  BY <1>1, <1>3, IdleType DEF Renamed
<1>4. ASSUME NEW p \in Procs, Ends(p) PROVE EventFits'
  <2>1. UNCHANGED <<object, Live>> /\ txn'[Worker] = txn[Worker]
    BY <1>3, <1>4, EndsKeep DEF Ends
  <2> QED BY <2>1 DEF EventFits, ObjectFits
<1>5. ASSUME NEW p \in Procs, Stores(p) PROVE EventFits'
  <2>1. p = r /\ txn'[Worker] = txn[Worker]
    BY <1>3, <1>5 DEF Stores
  <2>2. object' = object /\ Live \subseteq Live'
    BY <1>5, <2>1, UpdatesKeepRows DEF RenamesFound, Renamed
  <2> QED BY <2>1, <2>2 DEF EventFits, ObjectFits
<1>6. ASSUME NEW p \in Procs, Removes(p) PROVE EventFits'
  BY <1>3, <1>6 DEF Removes, Renamed
<1>7. CASE Waits
  BY <1>7, IdleType DEF Waits, Renamed
<1> QED BY <1>2, <1>4, <1>5, <1>6, <1>7, NextKinds

(* A rename keeps the row, so that it never costs the event the worker is  *)
(* handling (update_zone, _handle_event), however many requests there are. *)
THEOREM RenamesNeverCostAnEvent == Spec => RenamesCostNoEvent
<1>1. Init => RenamesFound
  BY IdleType DEF Init, RenamesFound
<1>2. Spec => [](Shape /\ AgentType /\ Handling)
  BY InitShape, NextShape, AgentStep, PTL DEF Spec
<1>3. Spec => []RenamesFound
  BY <1>1, <1>2, NextRenamesFound, PTL DEF Spec
<1>4. Shape /\ AgentType /\ RenamesFound /\ [Next]_vars =>
        [\A r \in Requests :
           txn[r].op = "rename" /\ txn'[r] = Idle => (EventFits => EventFits')]_vars
  BY RenamedFits DEF Renamed
<1> QED BY <1>2, <1>3, <1>4, PTL DEF Spec, RenamesCostNoEvent

-------------------------------------------------------------------------------
(* Users, sessions and their requests. *)

UserReq == [pc : {"idle", "login", "admitted", "count", "commit"},
            op : Account!AllOps, by : Users \cup {Nobody}, target : Users \cup {Nobody},
            seen : Account!UserRows \cup {Nobody}, want : Account!Wishes \cup {Nobody}]

UserTables ==
  /\ row \in [Users -> Account!UserRows \cup {Nobody}]
  /\ used \subseteq Users /\ Account!Live \subseteq used
  /\ default \in Account!Live \cup {Nobody}
  /\ sessions \subseteq Account!Live /\ unguarded \in BOOLEAN

(* What delete_user looked at is what is there still or, unless somebody   *)
(* edits users, not there any more: ids are not used twice.                *)
Counting(q) ==
  q.pc = "count" =>
    /\ q.op = "delete" /\ q.target \in used /\ q.seen \in Account!UserRows
    /\ unguarded \/ row[q.target] \in {q.seen, Nobody}

(* A deletion that is to be committed leaves an administrator. *)
Committing(q) ==
  q.pc = "commit" =>
    /\ q.op \in {"update", "delete"}
    /\ q.op = "update" => q.want \in Account!Wishes
    /\ q.op = "delete" => unguarded \/ Account!Administrators \ {q.target} # {}

UserReqs ==
  /\ req \in [Requests -> UserReq]
  /\ \A r \in Requests : Counting(req[r]) /\ Committing(req[r])

AccountInv == UserTables /\ UserReqs /\ Account!SomeAdministrator

LEMMA AccountTypeParts ==
  Account!TypeOK <=> UserTables /\ req \in [Requests -> UserReq]
BY DEF Account!TypeOK, UserTables, UserReq

LEMMA UserIdle == Account!Idle \in UserReq /\ Account!Idle.pc = "idle"
BY DEF Account!Idle, UserReq, Account!AllOps

LEMMA RowIsSomebody ==
  /\ Nobody \notin Account!UserRows /\ Nobody \notin Users
  /\ [role |-> "admin", active |-> TRUE] \in Account!UserRows
BY AccountAssumption DEF Account!AccountsAssumption, Account!UserRows, Account!Roles

LEMMA InitAccount == Account!Init => AccountInv
<1> SUFFICES ASSUME NEW u \in Users,
                    row = [v \in Users |-> IF v = u THEN [role |-> "admin", active |-> TRUE]
                                                    ELSE Nobody],
                    used = {u}, default = u, sessions = {},
                    req = [r \in Requests |-> Account!Idle], unguarded = FALSE
             PROVE  AccountInv
  BY DEF Account!Init
<1> DEFINE a == [role |-> "admin", active |-> TRUE]
<1>1. /\ a \in Account!UserRows /\ a # Nobody
      /\ \A v \in Users : row[v] = IF v = u THEN a ELSE Nobody
  BY RowIsSomebody
<1>2. row \in [Users -> Account!UserRows \cup {Nobody}]
  BY RowIsSomebody
<1>3. Account!Live = {u} /\ u \in Account!Administrators
  BY <1>1 DEF Account!Live, Account!Administrators
<1>4. UserTables
  BY <1>2, <1>3 DEF UserTables
<1>5. UserReqs
  BY UserIdle DEF UserReqs, Counting, Committing
<1> QED BY <1>3, <1>4, <1>5 DEF AccountInv, Account!SomeAdministrator

(* A step that leaves the users alone and takes one request further. *)
LEMMA RequestGoesOn ==
  ASSUME AccountInv, NEW r \in Requests, NEW q \in UserReq, Counting(q), Committing(q),
         req' = [req EXCEPT ![r] = q], UNCHANGED <<row, used, default, unguarded>>,
         sessions' \subseteq Account!Live
  PROVE  AccountInv'
<1>1. \A s \in Requests : req'[s] = IF s = r THEN q ELSE req[s]
  BY DEF AccountInv, UserReqs
<1>2. UNCHANGED <<Account!Live, Account!Administrators>>
  BY DEF Account!Live, Account!Administrators
<1>3. UserReqs'
  <2>1. req' \in [Requests -> UserReq]
    BY DEF AccountInv, UserReqs
  <2>2. ASSUME NEW s \in Requests PROVE Counting(req[s])' /\ Committing(req[s])'
    BY <1>1, <1>2 DEF AccountInv, UserReqs, Counting, Committing
  <2> QED BY <2>1, <2>2 DEF UserReqs
<1>4. UserTables'
  BY <1>2 DEF AccountInv, UserTables
<1>5. Account!SomeAdministrator'
  BY <1>2 DEF AccountInv, Account!SomeAdministrator
<1> QED BY <1>3, <1>4, <1>5 DEF AccountInv

(* It is answered. *)
LEMMA RequestEnds ==
  ASSUME AccountInv, NEW r \in Requests, Account!Answer(r),
         UNCHANGED <<row, used, default, unguarded>>, sessions' \subseteq Account!Live
  PROVE  AccountInv'
BY RequestGoesOn, UserIdle DEF Account!Answer, Counting, Committing

(* A new user changes nothing of the others. *)
LEMMA UserJoins ==
  ASSUME UserTables, NEW u \in Users \ used, NEW new \in Account!UserRows,
         row' = [row EXCEPT ![u] = new]
  PROVE  /\ row' \in [Users -> Account!UserRows \cup {Nobody}]
         /\ Account!Live' = Account!Live \cup {u}
         /\ Account!Administrators \subseteq Account!Administrators'
         /\ \A v \in used : row'[v] = row[v]
<1>1. \A v \in Users : row'[v] = IF v = u THEN new ELSE row[v]
  BY DEF UserTables
<1>2. new # Nobody /\ u \notin Account!Live
  BY RowIsSomebody DEF UserTables
<1>3. row' \in [Users -> Account!UserRows \cup {Nobody}]
  BY DEF UserTables
<1> QED BY <1>1, <1>2, <1>3 DEF UserTables, Account!Live, Account!Administrators

(* Requests come, and sessions go. *)
LEMMA CallsAccount ==
  ASSUME AccountInv, NEW r \in Requests, NEW by \in Users, NEW op \in Account!AllOps,
         NEW target \in Users \cup {Nobody},
         Account!Call(r, by, op, target) \/ (by = target /\ Account!Login(r, by))
  PROVE  AccountInv'
<1> USE DEF Account!users
<1>1. sessions \subseteq Account!Live
  BY DEF AccountInv, UserTables
<1>2. CASE Account!Call(r, by, op, target)
  <2> DEFINE q == [Account!Idle EXCEPT !.pc = "admitted", !.op = op, !.by = by,
                                       !.target = target]
  <2>1. q \in UserReq /\ q.pc = "admitted"
    BY DEF Account!Idle, UserReq
  <2>2. Counting(q) /\ Committing(q) /\ Counting(Account!Idle) /\ Committing(Account!Idle)
    BY <2>1, UserIdle DEF Counting, Committing
  <2>3. req' = [req EXCEPT ![r] = q] \/ req' = [req EXCEPT ![r] = Account!Idle]
    BY <1>2 DEF Account!Call
  <2>4. sessions' \subseteq Account!Live /\ UNCHANGED <<row, used, default, unguarded>>
    BY <1>1, <1>2 DEF Account!Call
  <2> HIDE DEF q
  <2> QED BY <2>1, <2>2, <2>3, <2>4, UserIdle, RequestGoesOn
<1>3. CASE Account!Login(r, by)
  <2> DEFINE q == [Account!Idle EXCEPT !.pc = "login", !.op = "login", !.target = by]
  <2>1. q \in UserReq /\ q.pc = "login"
    BY DEF Account!Idle, UserReq, Account!AllOps
  <2>2. Counting(q) /\ Committing(q)
    BY <2>1 DEF Counting, Committing
  <2>3. /\ req' = [req EXCEPT ![r] = q]
        /\ sessions' \subseteq Account!Live /\ UNCHANGED <<row, used, default, unguarded>>
    BY <1>1, <1>3 DEF Account!Login
  <2> HIDE DEF q
  <2> QED BY <2>1, <2>2, <2>3, RequestGoesOn
<1> QED BY <1>2, <1>3

LEMMA AnswersAccount ==
  ASSUME AccountInv, NEW r \in Requests,
         \/ Account!LoggedIn(r) \/ Account!Read(r) \/ Account!Logout(r)
         \/ Account!CreateRefused(r)
  PROVE  AccountInv'
<1>1. sessions \subseteq Account!Live
  BY DEF AccountInv, UserTables
<1>2. /\ Account!Answer(r) /\ UNCHANGED <<row, used, default, unguarded>>
      /\ sessions' \subseteq Account!Live
  BY <1>1 DEF Account!LoggedIn, Account!Read, Account!Logout, Account!CreateRefused,
              Account!users
<1> QED BY <1>2, RequestEnds

(* create_user *)
LEMMA CreateAccount ==
  ASSUME AccountInv, NEW r \in Requests, NEW u \in Users, NEW new \in Account!UserRows,
         Account!CreateUser(r, u, new)
  PROVE  AccountInv'
<1>1. /\ u \in Users \ used /\ used' = used \cup {u} /\ row' = [row EXCEPT ![u] = new]
      /\ req' = [req EXCEPT ![r] = Account!Idle] /\ UNCHANGED <<default, sessions, unguarded>>
  BY DEF Account!CreateUser, Account!Answer
<1>2. UserTables /\ UserReqs
  BY DEF AccountInv
<1>3. /\ row' \in [Users -> Account!UserRows \cup {Nobody}]
      /\ Account!Live' = Account!Live \cup {u}
      /\ Account!Administrators \subseteq Account!Administrators'
      /\ \A v \in used : row'[v] = row[v]
  BY <1>1, <1>2, UserJoins
<1>4. UserTables'
  BY <1>1, <1>2, <1>3 DEF UserTables
<1>5. UserReqs'
  <2>1. req' \in [Requests -> UserReq]
    BY <1>1, <1>2, UserIdle DEF UserReqs
  <2>2. ASSUME NEW s \in Requests PROVE Counting(req[s])' /\ Committing(req[s])'
    <3>1. CASE s = r
      BY <1>1, <1>2, <3>1, UserIdle DEF UserReqs, Counting, Committing
    <3>2. CASE s # r
      BY <1>1, <1>2, <1>3, <3>2 DEF UserReqs, Counting, Committing
    <3> QED BY <3>1, <3>2
  <2> QED BY <2>1, <2>2 DEF UserReqs
<1>6. Account!SomeAdministrator'
  BY <1>1, <1>3 DEF AccountInv, Account!SomeAdministrator
<1> QED BY <1>4, <1>5, <1>6 DEF AccountInv

(* The start of the backend. *)
LEMMA RestartAccount ==
  ASSUME AccountInv, Account!Restart
  PROVE  AccountInv'
<1>1. req' = [r \in Requests |-> Account!Idle] /\ UNCHANGED <<sessions, unguarded>>
  BY DEF Account!Restart, Account!Seed, Account!users
<1>2. UserTables /\ Account!SomeAdministrator
  BY DEF AccountInv
<1>3. UserReqs'
  BY <1>1, UserIdle DEF UserReqs, Counting, Committing
<1>4. UserTables' /\ Account!SomeAdministrator'
  <2>1. CASE UNCHANGED <<row, used, default>>
    <3>1. UNCHANGED <<Account!Live, Account!Administrators>>
      BY <2>1 DEF Account!Live, Account!Administrators
    <3> QED BY <1>1, <1>2, <2>1, <3>1 DEF UserTables, Account!SomeAdministrator
  <2>2. ASSUME NEW u \in Users \ used,
               row' = [row EXCEPT ![u] = [role |-> "admin", active |-> TRUE]],
               used' = used \cup {u}, default' = u
        PROVE  UserTables' /\ Account!SomeAdministrator'
    <3>1. /\ row' \in [Users -> Account!UserRows \cup {Nobody}]
          /\ Account!Live' = Account!Live \cup {u}
          /\ Account!Administrators \subseteq Account!Administrators'
      BY <1>2, <2>2, RowIsSomebody, UserJoins
    <3> QED BY <1>1, <1>2, <2>2, <3>1 DEF UserTables, Account!SomeAdministrator
  <2> QED BY <2>1, <2>2 DEF Account!Restart, Account!Seed, Account!users
<1> QED BY <1>3, <1>4 DEF AccountInv

(* update_user *)
LEMMA UpdateFoundAccount ==
  ASSUME AccountInv, NEW r \in Requests, NEW want \in Account!Wishes,
         Account!UpdateFound(r, want)
  PROVE  AccountInv'
<1> DEFINE u == req[r].target
<1>1. /\ sessions \subseteq Account!Live /\ req[r] \in UserReq
      /\ row \in [Users -> Account!UserRows \cup {Nobody}]
  BY DEF AccountInv, UserTables, UserReqs
<1>2. /\ req[r].op = "update" /\ sessions' \subseteq Account!Live
      /\ UNCHANGED <<row, used, default, unguarded>>
  BY <1>1 DEF Account!UpdateFound, Account!users
<1>3. CASE u \notin Account!Live
  <2>1. req' = [req EXCEPT ![r] = Account!Idle]
    BY <1>3 DEF Account!UpdateFound
  <2> QED BY <1>2, <2>1, RequestEnds DEF Account!Answer
<1>4. CASE u \in Account!Live
  <2> DEFINE w == [f \in {"role", "active"} |-> IF want[f] = row[u][f] THEN Same ELSE want[f]]
             q == [req[r] EXCEPT !.pc = "commit", !.want = w]
  <2>1. row[u] \in Account!UserRows
    BY <1>1, <1>4 DEF Account!Live
  <2>2. w \in Account!Wishes
    BY <2>1 DEF Account!UserRows, Account!Wishes
  <2>3. req' = [req EXCEPT ![r] = q]
    BY <1>4 DEF Account!UpdateFound
  <2> HIDE DEF w
  <2>4. q \in UserReq /\ q.pc = "commit" /\ q.op = "update" /\ q.want = w
    BY <1>1, <1>2, <2>2 DEF UserReq
  <2> HIDE DEF q
  <2>5. Counting(q) /\ Committing(q)
    BY <2>2, <2>4 DEF Counting, Committing
  <2> QED BY <1>2, <2>3, <2>4, <2>5, RequestGoesOn
<1> QED BY <1>3, <1>4

(* It sets unguarded, or changes nothing. *)
LEMMA UpdateCommittedAccount ==
  ASSUME AccountInv, NEW r \in Requests, Account!UpdateCommitted(r)
  PROVE  AccountInv'
<1> DEFINE u == req[r].target
<1>1. /\ UserTables /\ UserReqs /\ req[r] \in UserReq
      /\ row \in [Users -> Account!UserRows \cup {Nobody}]
  BY DEF AccountInv, UserTables, UserReqs
<1>2. /\ Account!Answer(r) /\ UNCHANGED <<used, default, sessions>>
      /\ unguarded' = (unguarded \/ row' # row)
  BY DEF Account!UpdateCommitted
<1>3. CASE row' = row
  <2>1. unguarded' = unguarded /\ sessions' \subseteq Account!Live
    BY <1>1, <1>2, <1>3 DEF UserTables
  <2> QED BY <1>2, <1>3, <2>1, RequestEnds
<1>4. CASE row' # row
  <2> DEFINE w == req[r].want
             new == [f \in {"role", "active"} |-> IF w[f] = Same THEN row[u][f] ELSE w[f]]
  <2>1. u \in Account!Live /\ row' = [row EXCEPT ![u] = new]
    BY <1>4 DEF Account!UpdateCommitted
  <2>2. u \in Users /\ row[u] \in Account!UserRows /\ w \in Account!Wishes
    BY <1>1, <2>1 DEF Account!Live, Account!UpdateCommitted, UserReqs, Committing
  <2>3. new \in Account!UserRows
    BY <2>2 DEF Account!UserRows, Account!Wishes
  <2> HIDE DEF new
  <2>4. row' \in [Users -> Account!UserRows \cup {Nobody}]
    BY <1>1, <2>1, <2>3
  <2>5. Account!Live' = Account!Live
    <3>1. \A v \in Users : row'[v] = IF v = u THEN new ELSE row[v]
      BY <1>1, <2>1
    <3> QED BY <2>1, <2>2, <2>3, <3>1, RowIsSomebody DEF Account!Live
  <2>6. UserTables'
    BY <1>1, <1>2, <2>4, <2>5 DEF UserTables
  <2>7. unguarded'
    BY <1>2, <1>4
  <2>8. UserReqs'
    <3>1. \A s \in Requests : req'[s] = IF s = r THEN Account!Idle ELSE req[s]
      BY <1>1, <1>2 DEF UserReqs, Account!Answer
    <3>2. req' \in [Requests -> UserReq]
      BY <1>1, <1>2, UserIdle DEF UserReqs, Account!Answer
    <3>3. ASSUME NEW s \in Requests PROVE Counting(req[s])' /\ Committing(req[s])'
      BY <1>1, <1>2, <2>7, <3>1, UserIdle DEF UserReqs, Counting, Committing
    <3> QED BY <3>2, <3>3 DEF UserReqs
  <2> QED BY <2>6, <2>7, <2>8 DEF AccountInv, Account!SomeAdministrator
<1> QED BY <1>3, <1>4

(* delete_user looks, *)
LEMMA DeleteFoundAccount ==
  ASSUME AccountInv, NEW r \in Requests, Account!DeleteFound(r)
  PROVE  AccountInv'
<1> DEFINE u == req[r].target
<1>1. /\ UserTables /\ req[r] \in UserReq
      /\ row \in [Users -> Account!UserRows \cup {Nobody}]
  BY DEF AccountInv, UserTables, UserReqs
<1>2. /\ req[r].op = "delete" /\ sessions' \subseteq Account!Live
      /\ UNCHANGED <<row, used, default, unguarded>>
  BY <1>1 DEF Account!DeleteFound, Account!users, UserTables
<1>3. CASE u \notin Account!Live
  <2>1. req' = [req EXCEPT ![r] = Account!Idle]
    BY <1>3 DEF Account!DeleteFound
  <2> QED BY <1>2, <2>1, RequestEnds DEF Account!Answer
<1>4. CASE u \in Account!Live
  <2> DEFINE q == [req[r] EXCEPT !.pc = "count", !.seen = row[u]]
  <2>1. row[u] \in Account!UserRows /\ u \in used
    BY <1>1, <1>4 DEF Account!Live, UserTables
  <2>2. req' = [req EXCEPT ![r] = q]
    BY <1>4 DEF Account!DeleteFound
  <2>3. /\ q \in UserReq /\ q.pc = "count" /\ q.op = "delete" /\ q.target = u
        /\ q.seen = row[u]
    BY <1>1, <1>2, <2>1 DEF UserReq
  <2> HIDE DEF q
  <2>4. Counting(q) /\ Committing(q)
    BY <2>1, <2>3 DEF Counting, Committing
  <2> QED BY <1>2, <2>2, <2>3, <2>4, RequestGoesOn
<1> QED BY <1>3, <1>4

(* The module's Cardinality is that of FiniteSets. *)
LEMMA SameCardinality == \A S : Account!Cardinality(S) = Cardinality(S)
BY DEF Cardinality, Account!Cardinality, IsFiniteSet, Account!IsFiniteSet

(* counts the administrators, *)
LEMMA DeleteCountedAccount ==
  ASSUME AccountInv, NEW r \in Requests, Account!DeleteCounted(r)
  PROVE  AccountInv'
<1> DEFINE u == req[r].target
<1>1. /\ UserTables /\ req[r] \in UserReq /\ Counting(req[r])
      /\ row \in [Users -> Account!UserRows \cup {Nobody}]
  BY DEF AccountInv, UserTables, UserReqs
<1>2. /\ req[r].pc = "count" /\ sessions' \subseteq Account!Live
      /\ UNCHANGED <<row, used, default, unguarded>>
  BY <1>1 DEF Account!DeleteCounted, Account!users, UserTables
<1>3. CASE ~Account!MayDelete(r)
  <2>1. req' = [req EXCEPT ![r] = Account!Idle]
    BY <1>3 DEF Account!DeleteCounted
  <2> QED BY <1>2, <2>1, RequestEnds DEF Account!Answer
<1>4. CASE Account!MayDelete(r)
  <2> DEFINE q == [req[r] EXCEPT !.pc = "commit", !.seen = Nobody]
  <2>1. req' = [req EXCEPT ![r] = q]
    BY <1>4 DEF Account!DeleteCounted
  <2>2. q \in UserReq /\ q.pc = "commit" /\ q.op = "delete" /\ q.target = u
    BY <1>1, <1>2 DEF UserReq, Counting
  <2> HIDE DEF q
  <2>3. unguarded \/ Account!Administrators \ {u} # {}
    <3> SUFFICES ASSUME ~unguarded, Account!Administrators \ {u} = {} PROVE FALSE
      OBVIOUS
    <3>1. Account!Administrators = {u}
      BY DEF AccountInv, Account!SomeAdministrator
    <3>2. row[u] = [role |-> "admin", active |-> TRUE] /\ u \in Account!Live
      BY <3>1 DEF Account!Administrators
    <3>3. req[r].seen.role = "admin"
      <4>1. req[r].seen = row[u]
        BY <1>1, <1>2, <3>2 DEF Counting, Account!Live
      <4> QED BY <3>2, <4>1
    <3>4. Account!Cardinality(Account!Administrators) = 1
      BY <3>1, FS_Singleton, SameCardinality
    <3> QED BY <1>4, <3>3, <3>4 DEF Account!MayDelete
  <2>4. Counting(q) /\ Committing(q)
    BY <2>2, <2>3 DEF Counting, Committing
  <2> QED BY <1>2, <2>1, <2>2, <2>4, RequestGoesOn
<1> QED BY <1>3, <1>4

(* and commits.  Another deletion that is to be committed sets unguarded. *)
LEMMA DeleteCommittedAccount ==
  ASSUME AccountInv, NEW r \in Requests, Account!DeleteCommitted(r)
  PROVE  AccountInv'
<1> DEFINE u == req[r].target
<1>1. /\ UserTables /\ UserReqs /\ req[r] \in UserReq /\ Committing(req[r])
      /\ row \in [Users -> Account!UserRows \cup {Nobody}]
  BY DEF AccountInv, UserTables, UserReqs
<1>2. /\ req[r].pc = "commit" /\ req[r].op = "delete"
      /\ row' = [row EXCEPT ![u] = Nobody]
      /\ default' = IF default = u THEN Nobody ELSE default
      /\ sessions' = sessions \ {u} /\ used' = used
      /\ unguarded' = (unguarded \/ Account!OtherDeletes(r))
      /\ req' = [req EXCEPT ![r] = Account!Idle]
  BY DEF Account!DeleteCommitted, Account!Answer
<1>3. \A v \in Users : row'[v] = IF v = u THEN Nobody ELSE row[v]
  BY <1>1, <1>2
<1>4. /\ Account!Live' = Account!Live \ {u}
      /\ Account!Administrators' = Account!Administrators \ {u}
  BY <1>3, RowIsSomebody DEF Account!Live, Account!Administrators
<1>5. UserTables'
  <2>1. row' \in [Users -> Account!UserRows \cup {Nobody}]
    BY <1>1, <1>2
  <2>2. unguarded' \in BOOLEAN
    BY <1>1, <1>2, Zenon DEF UserTables, Account!OtherDeletes
  <2> QED BY <1>1, <1>2, <1>4, <2>1, <2>2 DEF UserTables
<1>6. UserReqs'
  <2>1. \A s \in Requests : req'[s] = IF s = r THEN Account!Idle ELSE req[s]
    BY <1>1, <1>2 DEF UserReqs
  <2>2. req' \in [Requests -> UserReq]
    BY <1>1, <1>2, UserIdle DEF UserReqs
  <2>3. ASSUME NEW s \in Requests PROVE Counting(req[s])' /\ Committing(req[s])'
    <3>1. CASE s = r
      BY <2>1, <3>1, UserIdle DEF Counting, Committing
    <3>2. CASE s # r
      <4>1. req'[s] = req[s] /\ Counting(req[s]) /\ Committing(req[s])
        BY <1>1, <2>1, <3>2 DEF UserReqs
      <4>2. Counting(req[s])'
        BY <1>1, <1>2, <1>3, <4>1 DEF Counting, UserTables
      <4>3. req[s].pc = "commit" /\ req[s].op = "delete" => unguarded'
        BY <1>2, <3>2 DEF Account!OtherDeletes
      <4>4. Committing(req[s])'
        BY <4>1, <4>3 DEF Committing
      <4> QED BY <4>2, <4>4
    <3> QED BY <3>1, <3>2
  <2> QED BY <2>2, <2>3 DEF UserReqs
<1>7. Account!SomeAdministrator'
  BY <1>1, <1>2, <1>4 DEF Committing, Account!SomeAdministrator
<1> QED BY <1>5, <1>6, <1>7 DEF AccountInv

LEMMA NextAccount == AccountInv /\ [Account!Next]_(Account!vars) => AccountInv'
<1> SUFFICES ASSUME AccountInv, [Account!Next]_(Account!vars) PROVE AccountInv'
  OBVIOUS
<1>1. ASSUME NEW r \in Requests, Account!Handler(r) PROVE AccountInv'
  BY <1>1, AnswersAccount, CreateAccount, UpdateFoundAccount, UpdateCommittedAccount,
     DeleteFoundAccount, DeleteCountedAccount, DeleteCommittedAccount DEF Account!Handler
<1>2. ASSUME NEW r \in Requests, NEW u \in Users, Account!Login(r, u) PROVE AccountInv'
  BY <1>2, CallsAccount DEF Account!AllOps
<1>3. ASSUME NEW r \in Requests, NEW by \in Users, NEW op \in Account!AllOps,
             NEW target \in Users \cup {Nobody}, Account!Call(r, by, op, target)
      PROVE  AccountInv'
  BY <1>3, CallsAccount
<1>4. ASSUME NEW r \in Requests, Account!LoggedIn(r) PROVE AccountInv'
  BY <1>4, AnswersAccount
<1>5. CASE UNCHANGED <<row, used, default, unguarded, req>> /\ sessions' \subseteq Account!Live
  <2>1. UNCHANGED <<Account!Live, Account!Administrators>>
    BY <1>5 DEF Account!Live, Account!Administrators
  <2>2. UserTables'
    BY <1>5, <2>1 DEF AccountInv, UserTables
  <2>3. UserReqs'
    BY <1>5, <2>1 DEF AccountInv, UserReqs, Counting, Committing
  <2> QED BY <1>5, <2>1, <2>2, <2>3 DEF AccountInv, Account!SomeAdministrator
<1>6. ASSUME NEW u \in Users, Account!Expire(u) PROVE AccountInv'
  BY <1>5, <1>6 DEF Account!Expire, Account!users, AccountInv, UserTables
<1>7. CASE UNCHANGED Account!vars
  BY <1>5, <1>7 DEF Account!vars, AccountInv, UserTables
<1>8. CASE Account!Restart
  BY <1>8, RestartAccount
<1> QED BY <1>1, <1>2, <1>3, <1>4, <1>6, <1>7, <1>8 DEF Account!Next
-------------------------------------------------------------------------------
(* Both. *)

(* A behaviour of either tables is, in its variables, one of each part's   *)
(* own specification.                                                      *)
LEMMA EitherIsBoth == EitherSpec => Spec /\ Account!Spec
<1>1. EitherInit => Init /\ Account!Init
  BY DEF EitherInit
<1>2. [EitherNext]_<<vars, accountVars, about>> =>
        [Next]_vars /\ [Account!Next]_(Account!vars)
  BY DEF EitherNext, accountVars, Account!vars
<1> QED
  BY <1>1, <1>2, PTL DEF EitherSpec, Spec, Account!Spec

LEMMA AccountInvHolds == EitherSpec => []AccountInv
<1>1. Account!Spec => []AccountInv
  BY InitAccount, NextAccount, PTL DEF Account!Spec
<1> QED
  BY <1>1, EitherIsBoth, PTL

(* Every table, transaction, session and request stays within its type,    *)
(* for any numbers of rows, events, users and requests.                    *)
THEOREM TablesAreTyped == EitherSpec => []TablesTypeOK
<1>1. TypeOK /\ AccountInv => TablesTypeOK
  BY AccountTypeParts DEF AccountInv, UserReqs, TablesTypeOK
<1> QED
  BY <1>1, TypeCorrect, AccountInvHolds, EitherIsBoth, PTL

(* delete_user never removes the last active administrator, for any        *)
(* numbers of users and requests, unless two deletions overlap or users    *)
(* are edited.                                                             *)
THEOREM AnAdministratorRemains == EitherSpec => []SomeAdministrator
<1>1. AccountInv => SomeAdministrator
  BY DEF AccountInv, SomeAdministrator
<1> QED
  BY <1>1, AccountInvHolds, PTL
===============================================================================
