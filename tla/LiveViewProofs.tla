---------------------------- MODULE LiveViewProofs ----------------------------
(***************************************************************************)
(* Proofs about LiveView for all objects and browsers, every size of the   *)
(* buffers and every bound.  The argument follows one WebSocket of the     *)
(* Viewer's from its acceptance to its end: what the worker has told it    *)
(* since is either on its way, the newest message last, or shown; and a    *)
(* page that asks for zones always replaces its WebSocket when it has the  *)
(* answer, so that no answer is shown over a message.  Which list the      *)
(* message is shown in is a matter of the answers alone (Placed).          *)
(***************************************************************************)
EXTENDS LiveView, FiniteSetTheorems, WellFoundedInduction, SequenceTheorems, TLAPS

(* The records of the model, so that the steps below need not open them. *)
Messages == [topic : Topics, version : Version]
Workers  == [pc : {"idle", "committed", "sending"}, topic : Topics \cup {None},
             todo : Seq(Connections), dead : SUBSET Connections]
Sockets  == [object : Objects \cup {None}, id : Connections \cup {Nobody}]
Shown    == [list : Objects \cup {None}, event : Objects \cup {None}, version : Version]
Counters == [work : 0 .. MaxWork, drops : 0 .. MaxDrops]

Distinct(q) == \A m, n \in DOMAIN q : m # n => q[m] # q[n]

(* A broadcast is of a row that was written, and tells everybody once. *)
OneBroadcast ==
  /\ Distinct(worker.todo)
  /\ worker.pc # "idle" => worker.topic \in Topics /\ db[worker.topic] > 0
  /\ \A t \in Topics : db[t] <= counts.work

(* A WebSocket that lasts is registered for its object and nobody else's. *)
Connected ==
  \A b \in Browsers : ws[b].id # Nobody =>
    /\ ws[b].id \in registered \ worker.dead
    /\ filter[ws[b].id] = ws[b].object
    /\ \A c \in Browsers : ws[c].id = ws[b].id => c = b

(* The version of row t that connection i has been told of, when the       *)
(* worker is at w and the rows are d.                                      *)
Pending(w, i, t) ==
  /\ w.topic = t
  /\ \/ w.pc = "committed"
     \/ w.pc = "sending" /\ i \in Range(w.todo)
Told(w, d, i, t) == IF Pending(w, i, t) THEN d[t] - 1 ELSE d[t]

(* The messages about t in a buffer. *)
NoneOf(q, t) == \A n \in DOMAIN q : q[n].topic # t
LastOf(q, t, v) ==
  \E n \in DOMAIN q : /\ q[n].topic = t /\ q[n].version = v
                      /\ \A k \in DOMAIN q : k > n => q[k].topic # t

(* What the Viewer's WebSocket was told since it was accepted is on its    *)
(* way or, if the page waits for no answer, shown.                         *)
NewsOf(o) ==
  LET i == ws[Viewer].id
      t == Zone(o)
      v == Told(worker, db, i, t)
  IN  i # Nobody /\ ws[Viewer].object = o /\ v > since =>
        \/ LastOf(pipe[i], t, v)
        \/ /\ NoneOf(pipe[i], t)
           /\ selected = o /\ asked = {} => zones.event = o /\ zones.version = v

News == \A o \in Objects : NewsOf(o)

(* The list on the page. *)
Placed == ~astray /\ selected # None /\ selected \notin asked => zones.list = selected

-------------------------------------------------------------------------------
(* Sequences: what a broadcast does to its list and a buffer to messages. *)
LEMMA HeadTail ==
  ASSUME NEW S, NEW q \in Seq(S), q # <<>>
  PROVE  /\ Head(q) \in S /\ Tail(q) \in Seq(S)
         /\ Head(q) \in Range(q) /\ Range(Tail(q)) \subseteq Range(q)
         /\ Range(q) \subseteq Range(Tail(q)) \cup {Head(q)}
         /\ Len(Tail(q)) <= Len(q)
         /\ Len(q) \in Nat /\ Len(Tail(q)) = Len(q) - 1
         /\ Head(q) = q[1] /\ 1 \in DOMAIN q
         /\ \A n \in DOMAIN Tail(q) : n \in Nat /\ n + 1 \in DOMAIN q /\ Tail(q)[n] = q[n + 1]
         /\ \A n \in DOMAIN q : n = 1 \/ (n \in Nat /\ n - 1 \in DOMAIN Tail(q))
<1>1. /\ Head(q) \in S /\ Tail(q) \in Seq(S)
      /\ Len(q) \in Nat /\ Len(q) # 0 /\ DOMAIN q = 1 .. Len(q)
      /\ Len(Tail(q)) = Len(q) - 1 /\ DOMAIN Tail(q) = 1 .. Len(q) - 1
      /\ Head(q) = q[1]
      /\ \A n \in 1 .. Len(q) - 1 : Tail(q)[n] = q[n + 1]
  BY LenProperties, HeadTailProperties, EmptySeq
<1>2. \A n \in DOMAIN Tail(q) : n \in Nat /\ n + 1 \in DOMAIN q /\ Tail(q)[n] = q[n + 1]
  BY <1>1
<1>3. \A n \in DOMAIN q : n = 1 \/ (n \in Nat /\ n - 1 \in DOMAIN Tail(q) /\ Tail(q)[n - 1] = q[n])
  BY <1>1
<1>4. Len(Tail(q)) <= Len(q) /\ 1 \in DOMAIN q
  BY <1>1
<1>5. Head(q) \in Range(q) /\ Range(Tail(q)) \subseteq Range(q)
  BY <1>1, <1>2, <1>4 DEF Range
<1>6. Range(q) \subseteq Range(Tail(q)) \cup {Head(q)}
  <2> SUFFICES ASSUME NEW n \in DOMAIN q PROVE q[n] \in Range(Tail(q)) \cup {Head(q)}
    BY DEF Range
  <2>1. CASE n = 1
    BY <1>1, <2>1
  <2>2. CASE n # 1
    <3>1. n - 1 \in DOMAIN Tail(q) /\ Tail(q)[n - 1] = q[n]
      BY <1>3, <2>2
    <3> QED BY <3>1 DEF Range
  <2> QED BY <2>1, <2>2
<1> QED BY <1>1, <1>2, <1>3, <1>4, <1>5, <1>6

LEMMA DistinctTail ==
  ASSUME NEW S, NEW q \in Seq(S), q # <<>>, Distinct(q)
  PROVE  Distinct(Tail(q)) /\ Range(Tail(q)) = Range(q) \ {Head(q)}
<1>1. \A n \in DOMAIN Tail(q) : n \in Nat /\ n + 1 \in DOMAIN q /\ Tail(q)[n] = q[n + 1]
  BY HeadTail
<1>2. Distinct(Tail(q))
  BY <1>1 DEF Distinct
<1>3. \A n \in DOMAIN Tail(q) : Tail(q)[n] # Head(q)
  <2> SUFFICES ASSUME NEW n \in DOMAIN Tail(q), Tail(q)[n] = Head(q) PROVE FALSE
    OBVIOUS
  <2>1. n + 1 \in DOMAIN q /\ n + 1 # 1 /\ 1 \in DOMAIN q /\ q[n + 1] = q[1]
    <3>1. \A k \in DOMAIN Tail(q) : k \in Nat /\ k # 0
      BY HeadTail, LenProperties
    <3> QED BY <1>1, <3>1, HeadTail
  <2> QED BY <2>1 DEF Distinct
<1>4. Head(q) \notin Range(Tail(q))
  BY <1>3 DEF Range
<1> QED BY <1>2, <1>4, HeadTail

LEMMA AppendElement ==
  ASSUME NEW S, NEW q \in Seq(S), NEW m \in S
  PROVE  /\ Append(q, m) \in Seq(S) /\ Append(q, m) # <<>>
         /\ Len(q) \in Nat /\ Len(Append(q, m)) = Len(q) + 1
         /\ DOMAIN Append(q, m) = DOMAIN q \cup {Len(q) + 1}
         /\ \A n \in DOMAIN q : n \in Nat /\ n < Len(q) + 1 /\ Append(q, m)[n] = q[n]
         /\ Append(q, m)[Len(q) + 1] = m
BY AppendProperties, LenProperties, EmptySeq

(* A message sent is the last one; one received makes way for the next. *)
LEMMA SentIsLast ==
  ASSUME NEW q \in Seq(Messages), NEW m \in Messages
  PROVE  LastOf(Append(q, m), m.topic, m.version)
<1>1. /\ Len(q) + 1 \in DOMAIN Append(q, m) /\ Append(q, m)[Len(q) + 1] = m
      /\ \A k \in DOMAIN Append(q, m) : ~(k > Len(q) + 1)
  BY AppendElement
<1> QED BY <1>1 DEF LastOf

LEMMA SentIsOther ==
  ASSUME NEW q \in Seq(Messages), NEW m \in Messages, NEW t, m.topic # t
  PROVE  /\ NoneOf(q, t) => NoneOf(Append(q, m), t)
         /\ \A v : LastOf(q, t, v) => LastOf(Append(q, m), t, v)
<1> DEFINE p == Append(q, m)
<1>1. /\ DOMAIN p = DOMAIN q \cup {Len(q) + 1} /\ p[Len(q) + 1].topic # t
      /\ \A n \in DOMAIN q : p[n] = q[n]
  BY AppendElement
<1>2. NoneOf(q, t) => NoneOf(p, t)
  BY <1>1 DEF NoneOf
<1>3. ASSUME NEW v, LastOf(q, t, v) PROVE LastOf(p, t, v)
  <2>1. PICK n \in DOMAIN q : /\ q[n].topic = t /\ q[n].version = v
                              /\ \A k \in DOMAIN q : k > n => q[k].topic # t
    BY <1>3 DEF LastOf
  <2>2. /\ n \in DOMAIN p /\ p[n].topic = t /\ p[n].version = v
        /\ \A k \in DOMAIN p : k > n => p[k].topic # t
    BY <1>1, <2>1
  <2> HIDE DEF p
  <2> QED BY <2>2 DEF LastOf
<1> QED BY <1>2, <1>3

LEMMA ReceivedMakesWay ==
  ASSUME NEW q \in Seq(Messages), q # <<>>, NEW t
  PROVE  /\ NoneOf(q, t) => NoneOf(Tail(q), t) /\ Head(q).topic # t
         /\ \A v : LastOf(q, t, v) =>
              \/ LastOf(Tail(q), t, v)
              \/ NoneOf(Tail(q), t) /\ Head(q).topic = t /\ Head(q).version = v
<1> DEFINE p == Tail(q)
<1>1. /\ Head(q) = q[1] /\ 1 \in DOMAIN q
      /\ \A n \in DOMAIN p : n \in Nat /\ n + 1 \in DOMAIN q /\ p[n] = q[n + 1]
      /\ \A n \in DOMAIN q : n = 1 \/ (n \in Nat /\ n - 1 \in DOMAIN p)
  BY HeadTail
<1>2. NoneOf(q, t) => NoneOf(p, t) /\ Head(q).topic # t
  BY <1>1 DEF NoneOf
<1>3. ASSUME NEW v, LastOf(q, t, v)
      PROVE  \/ LastOf(p, t, v)
             \/ NoneOf(p, t) /\ Head(q).topic = t /\ Head(q).version = v
  <2>1. PICK n \in DOMAIN q : /\ q[n].topic = t /\ q[n].version = v
                              /\ \A k \in DOMAIN q : k > n => q[k].topic # t
    BY <1>3 DEF LastOf
  <2>2. CASE n = 1
    <3>1. \A k \in DOMAIN p : p[k].topic # t
      BY <1>1, <2>1, <2>2
    <3> HIDE DEF p
    <3> QED BY <1>1, <2>1, <2>2, <3>1 DEF NoneOf
  <2>3. CASE n # 1
    <3>1. n \in Nat /\ n - 1 \in DOMAIN p /\ p[n - 1] = q[n]
      BY <1>1, <2>1, <2>3
    <3>2. \A k \in DOMAIN p : k > n - 1 => p[k].topic # t
      BY <1>1, <2>1, <3>1
    <3> HIDE DEF p
    <3> QED BY <2>1, <3>1, <3>2 DEF LastOf
  <2> QED BY <2>2, <2>3
<1> QED BY <1>2, <1>3

(* Every order of a set of connections visits each of them once. *)
LEMMA OrdersVisitAll ==
  ASSUME NEW S \in SUBSET Connections, NEW q \in SetToSeqs(S)
  PROVE  q \in Seq(Connections) /\ Range(q) = S /\ Distinct(q)
<1> DEFINE n == Cardinality(S)
<1>1. IsFiniteSet(S)
  <2>1. IsFiniteSet(1 .. MaxConnections)
    BY FS_Interval, ViewAssumption
  <2> QED BY <2>1, FS_Subset DEF Connections
<1>2. n \in Nat
  BY <1>1, FS_CardinalityType
<1>3. q \in [1 .. n -> S] /\ \A i, j \in 1 .. n : i # j => q[i] # q[j]
  BY DEF SetToSeqs
<1>4. IsFiniteSet(1 .. n) /\ Cardinality(1 .. n) = n
  BY <1>2, FS_Interval
<1>5. q \in Injection(1 .. n, S)
  BY <1>3 DEF Injection, IsInjective
<1>6. q \in Surjection(1 .. n, S)
  BY <1>1, <1>4, <1>5, FS_Injection
<1>7. Range(q) = S /\ Distinct(q)
  BY <1>3, <1>6 DEF Surjection, Range, Distinct
<1>8. q \in Seq(S)
  BY <1>2, <1>3, SeqDef
<1> QED BY <1>7, <1>8

-------------------------------------------------------------------------------
(* Type correctness, with its records by name. *)
Typed ==
  /\ db \in [Topics -> Version]
  /\ worker \in Workers
  /\ registered \subseteq Connections
  /\ filter \in [Connections -> Objects \cup {None}]
  /\ pipe \in [Connections -> Seq(Messages)]
  /\ \A i \in Connections : Len(pipe[i]) <= Capacity /\ (pipe[i] # <<>> => \E c \in Browsers : ws[c].id = i)
  /\ ws \in [Browsers -> Sockets]
  /\ timer \in BOOLEAN
  /\ selected \in Objects \cup {None} /\ asked \subseteq Objects
  /\ answers \in [Topics -> Version \cup {None}] /\ statuses \in [Polled -> Version]
  /\ zones \in Shown
  /\ since \in Version /\ astray \in BOOLEAN
  /\ counts \in Counters

LEMMA TypedIsTypeOK == TypeOK <=> Typed
BY DEF TypeOK, Typed, Workers, Messages, Sockets, Shown, Counters, Open

LEMMA TopicsOfObjects ==
  /\ \A o \in Objects : Zone(o) \in Topics
  /\ \A o \in Polled : Status(o) \in Topics /\ o \in Objects
  /\ \A t \in Topics :
       /\ t.object \in Objects
       /\ t.kind = "zone" => t = Zone(t.object)
       /\ t.kind = "status" => t.object \in Polled
<1>1. ASSUME NEW t \in Topics
      PROVE  \/ \E o \in Objects : t = Zone(o) /\ t.object = o /\ t.kind = "zone"
             \/ \E o \in Polled : t = Status(o) /\ t.object = o /\ t.kind = "status"
  BY DEF Topics, Zone, Status
<1>2. Polled \subseteq Objects
  BY ViewAssumption
<1>3. /\ \A o \in Objects : Zone(o) \in Topics
      /\ \A o \in Polled : Status(o) \in Topics
  BY DEF Topics
<1> QED BY <1>1, <1>2, <1>3

LEMMA WorkerRecord ==
  /\ Idle \in Workers /\ Idle.pc = "idle" /\ Idle.todo = <<>> /\ Idle.dead = {}
  /\ \A t \in Topics : LET w == [Idle EXCEPT !.pc = "committed", !.topic = t] IN
       w \in Workers /\ w.pc = "committed" /\ w.topic = t /\ w.todo = <<>> /\ w.dead = {}
  /\ \A w \in Workers :
       /\ w.pc \in {"idle", "committed", "sending"} /\ w.topic \in Topics \cup {None}
       /\ w.todo \in Seq(Connections) /\ w.dead \subseteq Connections
<1>1. <<>> \in Seq(Connections)
  BY EmptySeq
<1> QED BY <1>1 DEF Workers, Idle

LEMMA WorkerVisits ==
  ASSUME NEW w \in Workers, NEW q \in Seq(Connections)
  PROVE  /\ LET v == [w EXCEPT !.pc = "sending", !.todo = q] IN
              /\ v \in Workers /\ v.pc = "sending" /\ v.topic = w.topic
              /\ v.todo = q /\ v.dead = w.dead
         /\ LET v == [w EXCEPT !.todo = q] IN
              /\ v \in Workers /\ v.pc = w.pc /\ v.topic = w.topic
              /\ v.todo = q /\ v.dead = w.dead
BY DEF Workers

LEMMA WorkerBuries ==
  ASSUME NEW w \in Workers, NEW d \in SUBSET Connections
  PROVE  LET v == [w EXCEPT !.dead = d] IN
           /\ v \in Workers /\ v.pc = w.pc /\ v.topic = w.topic
           /\ v.todo = w.todo /\ v.dead = d
BY DEF Workers

LEMMA MessageRecord ==
  /\ \A t \in Topics, v \in Version :
       LET m == [topic |-> t, version |-> v] IN
         m \in Messages /\ m.topic = t /\ m.version = v
  /\ \A m \in Messages : m.topic \in Topics /\ m.version \in Version
BY DEF Messages

LEMMA SocketRecord ==
  /\ Closed \in Sockets /\ Closed.id = Nobody
  /\ \A s \in Sockets : s.object \in Objects \cup {None} /\ s.id \in Connections \cup {Nobody}
  /\ \A o \in Objects \cup {None}, i \in Connections \cup {Nobody} :
       LET s == [object |-> o, id |-> i] IN s \in Sockets /\ s.object = o /\ s.id = i
  /\ Nobody \notin Connections
BY ViewAssumption DEF Sockets, Closed, Nobody, Connections

LEMMA ShownRecord ==
  /\ \A l, o \in Objects \cup {None}, v \in Version :
       LET z == [list |-> l, event |-> o, version |-> v] IN
         z \in Shown /\ z.list = l /\ z.event = o /\ z.version = v
  /\ \A z \in Shown : z.list \in Objects \cup {None}
BY DEF Shown

(* What counts is bounded. *)
LEMMA CountKeeps ==
  ASSUME counts \in Counters
  PROVE  /\ counts.work \in 0 .. MaxWork
         /\ Count("work", MaxWork) => /\ counts' \in Counters
                                      /\ counts'.work = counts.work + 1
                                      /\ counts.work + 1 \in 0 .. MaxWork
         /\ Count("drops", MaxDrops) => /\ counts' \in Counters
                                        /\ counts'.work = counts.work
<1>1. counts.work \in 0 .. MaxWork /\ counts.drops \in 0 .. MaxDrops
  BY DEF Counters
<1>2. ASSUME Count("work", MaxWork)
      PROVE  counts' \in Counters /\ counts'.work = counts.work + 1
             /\ counts.work + 1 \in 0 .. MaxWork
  <2>1. counts.work + 1 \in 0 .. MaxWork
    BY <1>1, <1>2, ViewAssumption DEF Count
  <2>2. counts' = [counts EXCEPT !.work = counts.work + 1]
    BY <1>2 DEF Count
  <2> QED BY <2>1, <2>2 DEF Counters
<1>3. ASSUME Count("drops", MaxDrops)
      PROVE  counts' \in Counters /\ counts'.work = counts.work
  <2>1. counts.drops + 1 \in 0 .. MaxDrops
    BY <1>1, <1>3, ViewAssumption DEF Count
  <2>2. counts' = [counts EXCEPT !.drops = counts.drops + 1]
    BY <1>3 DEF Count
  <2> QED BY <2>1, <2>2 DEF Counters
<1> QED BY <1>1, <1>2, <1>3

(* A number for a new WebSocket is one nobody remembers. *)
LEMMA FreeIsFree ==
  ASSUME Typed, Free # {}
  PROVE  /\ Min(Free) \in Connections
         /\ ~Open(Min(Free)) /\ pipe[Min(Free)] = <<>>
         /\ Min(Free) \notin registered \cup Range(worker.todo) \cup worker.dead
<1>1. Free \subseteq Connections /\ Connections \subseteq Nat
  BY DEF Free, Connections
<1> DEFINE R == {ss \in Nat \X Nat : ss[1] < ss[2]}
<1>2. IsWellFoundedOn(R, Nat)
  BY NatLessThanWellFounded DEF OpToRel
<1>3. PICK x \in Free : \A y \in Free : ~(<<y, x>> \in R)
  <2> HIDE DEF R
  <2> QED BY <1>1, <1>2, WFMin
<1>4. ASSUME NEW y \in Free PROVE x =< y
  <2>1. x \in Nat /\ y \in Nat
    BY <1>1, <1>3
  <2>2. ~(y < x)
    BY <1>3, <2>1
  <2> QED BY <2>1, <2>2
<1>5. Min(Free) \in Free
  BY <1>3, <1>4 DEF Min
<1> QED BY <1>1, <1>5 DEF Free, Typed, Open

(* Who closes a WebSocket empties its buffer and leaves the others alone. *)
LEMMA CloseKeeps ==
  ASSUME Typed, NEW b \in Browsers, NEW new \in Sockets, new.id = Nobody, Close(b, new)
  PROVE  /\ ws' \in [Browsers -> Sockets] /\ ws'[b].id = Nobody
         /\ \A c \in Browsers : c # b => ws'[c] = ws[c]
         /\ pipe' \in [Connections -> Seq(Messages)]
         /\ \A i \in Connections : i # ws[b].id => pipe'[i] = pipe[i]
         /\ \A i \in Connections : Len(pipe'[i]) <= Capacity /\ (pipe'[i] # <<>> => \E c \in Browsers : ws'[c].id = i)
         /\ since' \in Version
         /\ b # Viewer => since' = since
<1>1. ws' = [ws EXCEPT ![b] = new] /\ ws \in [Browsers -> Sockets]
  BY DEF Close, Typed
<1>2. /\ ws' \in [Browsers -> Sockets] /\ ws'[b].id = Nobody
      /\ \A c \in Browsers : c # b => ws'[c] = ws[c]
  BY <1>1
<1>3. pipe' = [i \in Connections |-> IF i = ws[b].id THEN <<>> ELSE pipe[i]]
  BY DEF Close
<1>4. <<>> \in Seq(Messages) /\ Len(<<>>) = 0
  BY EmptySeq
<1>5. /\ pipe' \in [Connections -> Seq(Messages)]
      /\ \A i \in Connections : i # ws[b].id => pipe'[i] = pipe[i]
      /\ \A i \in Connections : i = ws[b].id => pipe'[i] = <<>>
  BY <1>3, <1>4 DEF Typed
<1>6. ASSUME NEW i \in Connections
      PROVE  Len(pipe'[i]) <= Capacity /\ (pipe'[i] # <<>> => \E c \in Browsers : ws'[c].id = i)
  <2>1. CASE i = ws[b].id
    BY <1>4, <1>5, <2>1, ViewAssumption
  <2>2. CASE i # ws[b].id
    <3>1. Len(pipe[i]) <= Capacity /\ (pipe[i] # <<>> => \E c \in Browsers : ws[c].id = i)
      BY DEF Typed
    <3>2. ASSUME NEW c \in Browsers, ws[c].id = i PROVE ws'[c].id = i
      BY <1>2, <2>2, <3>2
    <3>3. pipe'[i] = pipe[i]
      BY <1>5, <2>2
    <3> QED BY <3>1, <3>2, <3>3
  <2> QED BY <2>1, <2>2
<1>7. since' \in Version /\ (b # Viewer => since' = since)
  <2>1. 0 \in Version /\ since \in Version
    BY ViewAssumption DEF Typed, Version
  <2> QED BY <2>1 DEF Close
<1> QED BY <1>2, <1>5, <1>6, <1>7

LEMMA ReconnectKeeps ==
  ASSUME Typed, selected' \in Objects \cup {None}, Reconnect
  PROVE  /\ ws' \in [Browsers -> Sockets] /\ ws'[Viewer].id = Nobody
         /\ \A c \in Browsers : c # Viewer => ws'[c] = ws[c]
         /\ pipe' \in [Connections -> Seq(Messages)]
         /\ \A i \in Connections : Len(pipe'[i]) <= Capacity /\ (pipe'[i] # <<>> => \E c \in Browsers : ws'[c].id = i)
         /\ since' \in Version
<1> DEFINE new == [object |-> selected', id |-> Nobody]
<1>1. new \in Sockets /\ new.id = Nobody
  BY SocketRecord
<1>2. Close(Viewer, new)
  BY DEF Reconnect
<1> HIDE DEF new
<1> QED BY <1>1, <1>2, CloseKeeps, ViewAssumption

LEMMA DisconnectKeeps ==
  ASSUME Typed, NEW b \in Browsers, Disconnect(b)
  PROVE  /\ ws[b].id \in Connections
         /\ ws' \in [Browsers -> Sockets] /\ ws'[b].id = Nobody
         /\ \A c \in Browsers : c # b => ws'[c] = ws[c]
         /\ pipe' \in [Connections -> Seq(Messages)]
         /\ \A i \in Connections : i # ws[b].id => pipe'[i] = pipe[i]
         /\ \A i \in Connections : Len(pipe'[i]) <= Capacity /\ (pipe'[i] # <<>> => \E c \in Browsers : ws'[c].id = i)
         /\ since' \in Version
         /\ b # Viewer => since' = since
<1>1. Close(b, Closed) /\ ws[b].id # Nobody
  BY DEF Disconnect
<1>2. ws[b].id \in Connections
  BY <1>1, SocketRecord DEF Typed
<1> QED BY <1>1, <1>2, CloseKeeps, SocketRecord

-------------------------------------------------------------------------------
(* Every step keeps the types and the broadcast. *)
LEMMA InitTyped == Init => Typed /\ OneBroadcast
<1> SUFFICES ASSUME Init PROVE Typed /\ OneBroadcast
  OBVIOUS
<1>1. 0 \in Version /\ 0 \in 0 .. MaxWork /\ 0 \in 0 .. MaxDrops
  BY ViewAssumption DEF Version
<1>2. [work |-> 0, drops |-> 0] \in Counters
  BY <1>1 DEF Counters
<1>3. <<>> \in Seq(Messages) /\ Len(<<>>) = 0 /\ DOMAIN <<>> = {} /\ 0 <= Capacity
  BY EmptySeq, ViewAssumption
<1>4. Polled \subseteq Objects
  BY ViewAssumption
<1>5. Typed
  BY <1>1, <1>2, <1>3, <1>4, WorkerRecord, SocketRecord, ShownRecord DEF Init, Typed
<1>6. OneBroadcast
  <2>1. Distinct(<<>>) /\ worker.todo = <<>> /\ worker.pc = "idle"
    BY <1>3, WorkerRecord DEF Init, Distinct
  <2>2. counts.work = 0 /\ \A t \in Topics : db[t] = 0
    BY DEF Init
  <2> QED BY <2>1, <2>2 DEF OneBroadcast
<1> QED BY <1>5, <1>6

(* The worker. *)
LEMMA CommitTyped ==
  ASSUME Typed, OneBroadcast, NEW t \in Topics, Commit(t)
  PROVE  Typed' /\ OneBroadcast'
<1>1. /\ counts' \in Counters /\ counts'.work = counts.work + 1
      /\ counts.work + 1 \in 0 .. MaxWork /\ counts.work \in 0 .. MaxWork
  BY CountKeeps DEF Commit, Typed
<1>2. /\ worker' \in Workers /\ worker'.topic = t /\ worker'.todo = <<>>
  BY WorkerRecord DEF Commit
<1>3. db' = [db EXCEPT ![t] = db[t] + 1] /\ db[t] \in 0 .. MaxWork /\ db[t] <= counts.work
  BY DEF Commit, Typed, OneBroadcast, Version
<1>4. db[t] + 1 \in Version /\ db[t] + 1 > 0 /\ db[t] + 1 <= counts.work + 1
  BY <1>1, <1>3, ViewAssumption DEF Version
<1>5. db' \in [Topics -> Version] /\ db'[t] = db[t] + 1 /\ \A u \in Topics : u # t => db'[u] = db[u]
  BY <1>3, <1>4 DEF Typed
<1>6. \A u \in Topics : db'[u] <= counts'.work
  <2> SUFFICES ASSUME NEW u \in Topics, u # t PROVE db[u] <= counts.work + 1
    BY <1>1, <1>4, <1>5
  <2> QED BY <1>1 DEF OneBroadcast, Typed, Version
<1>7. Distinct(worker'.todo)
  BY <1>2, EmptySeq DEF Distinct
<1>8. Typed'
  BY <1>1, <1>2, <1>5 DEF Typed, Commit, manager, page, feed, Open
<1> QED BY <1>2, <1>4, <1>5, <1>6, <1>7, <1>8 DEF OneBroadcast

LEMMA BeginTyped == Typed /\ OneBroadcast /\ Begin => Typed' /\ OneBroadcast'
<1> SUFFICES ASSUME Typed, OneBroadcast, Begin PROVE Typed' /\ OneBroadcast'
  OBVIOUS
<1>1. PICK order \in SetToSeqs({i \in registered : filter[i] = worker.topic.object}) :
        worker' = [worker EXCEPT !.pc = "sending", !.todo = order]
  BY DEF Begin
<1>2. order \in Seq(Connections) /\ Distinct(order)
  BY OrdersVisitAll DEF Typed
<1>3. /\ worker' \in Workers /\ worker'.todo = order /\ worker'.topic = worker.topic
  BY <1>1, <1>2, WorkerVisits DEF Typed
<1>4. Typed'
  BY <1>3 DEF Typed, Begin, manager, page, feed, Open
<1> QED BY <1>2, <1>3, <1>4 DEF OneBroadcast, Begin

LEMMA SendTyped == Typed /\ OneBroadcast /\ Send => Typed' /\ OneBroadcast'
<1> SUFFICES ASSUME Typed, OneBroadcast, Send PROVE Typed' /\ OneBroadcast'
  OBVIOUS
<1> DEFINE i == Head(worker.todo)
           rest == Tail(worker.todo)
<1>1. worker.todo \in Seq(Connections) /\ worker.todo # <<>> /\ worker.dead \subseteq Connections
      /\ worker.pc = "sending" /\ worker \in Workers
  BY WorkerRecord DEF Send, Typed
<1>2. i \in Connections /\ rest \in Seq(Connections) /\ Distinct(rest)
  BY <1>1, HeadTail, DistinctTail DEF OneBroadcast
<1>3. worker.topic \in Topics /\ db[worker.topic] \in Version /\ Message \in Messages
  BY <1>1, MessageRecord DEF OneBroadcast, Typed, Message
<1>4. \/ worker' = [worker EXCEPT !.todo = rest]
      \/ worker' = [worker EXCEPT !.todo = rest, !.dead = worker.dead \cup {i}]
  BY DEF Send
<1>5. worker' \in Workers /\ worker'.todo = rest /\ worker'.topic = worker.topic
      /\ worker'.pc = worker.pc
  <2>1. worker.dead \cup {i} \in SUBSET Connections
    BY <1>1, <1>2
  <2>2. CASE worker' = [worker EXCEPT !.todo = rest]
    <3> HIDE DEF rest
    <3> QED BY <1>1, <1>2, <2>2, WorkerVisits
  <2>3. CASE worker' = [worker EXCEPT !.todo = rest, !.dead = worker.dead \cup {i}]
    <3> DEFINE w == [worker EXCEPT !.todo = rest]
    <3>1. worker' = [w EXCEPT !.dead = worker.dead \cup {i}]
      BY <2>3
    <3>2. w \in Workers /\ w.pc = worker.pc /\ w.topic = worker.topic /\ w.todo = rest
      BY <1>1, <1>2, WorkerVisits
    <3> HIDE DEF rest, i, w
    <3> QED BY <2>1, <3>1, <3>2, WorkerBuries
  <2> QED BY <1>4, <2>2, <2>3
<1>6. /\ pipe' \in [Connections -> Seq(Messages)]
      /\ \A k \in Connections : Len(pipe'[k]) <= Capacity /\ (pipe'[k] # <<>> => \E c \in Browsers : ws[c].id = k)
  <2>1. CASE Open(i)
    <3>1. pipe' = [pipe EXCEPT ![i] = Append(pipe[i], Message)] /\ Len(pipe[i]) < Capacity
      BY <2>1 DEF Send
    <3>2. /\ Append(pipe[i], Message) \in Seq(Messages)
          /\ Len(pipe[i]) \in Nat /\ Len(Append(pipe[i], Message)) = Len(pipe[i]) + 1
      BY <1>2, <1>3, AppendElement DEF Typed
    <3>3. Len(Append(pipe[i], Message)) <= Capacity
      BY <3>1, <3>2, ViewAssumption
    <3> QED BY <1>2, <2>1, <3>1, <3>2, <3>3 DEF Typed, Open
  <2>2. CASE ~Open(i)
    BY <2>2 DEF Send, Typed
  <2> QED BY <2>1, <2>2
<1>7. UNCHANGED <<db, manager, page, feed, counts>>
  BY DEF Send
<1>8. Typed'
  BY <1>5, <1>6, <1>7 DEF Typed, manager, page, feed, Open
<1> QED BY <1>2, <1>5, <1>7, <1>8 DEF OneBroadcast

LEMMA EndTyped == Typed /\ OneBroadcast /\ End => Typed' /\ OneBroadcast'
<1> SUFFICES ASSUME Typed, OneBroadcast, End PROVE Typed' /\ OneBroadcast'
  OBVIOUS
<1>1. Distinct(<<>>)
  BY EmptySeq DEF Distinct
<1>2. worker' \in Workers /\ worker'.todo = <<>> /\ worker'.pc = "idle"
      /\ registered' \subseteq registered
  BY WorkerRecord DEF End
<1>3. Typed'
  BY <1>2 DEF Typed, End, page, feed, Open
<1> QED BY <1>1, <1>2, <1>3 DEF OneBroadcast, End

(* Whatever leaves the worker and the rows alone. *)
LEMMA BroadcastRests ==
  ASSUME Typed, OneBroadcast, UNCHANGED <<db, worker>>,
         counts'.work \in 0 .. MaxWork, counts.work <= counts'.work
  PROVE  OneBroadcast'
<1>1. \A t \in Topics : db[t] <= counts'.work
  <2> SUFFICES ASSUME NEW t \in Topics PROVE db[t] <= counts'.work
    OBVIOUS
  <2>1. db[t] \in 0 .. MaxWork /\ db[t] <= counts.work /\ counts.work \in 0 .. MaxWork
    BY CountKeeps DEF Typed, OneBroadcast, Version
  <2> QED BY <2>1, ViewAssumption
<1> QED BY <1>1 DEF OneBroadcast

(* The connections. *)
LEMMA FeedTyped ==
  ASSUME Typed, OneBroadcast, NEW b \in Browsers,
         Drop(b) \/ PingTimeout(b) \/ \E o \in Objects : Accept(b, o)
  PROVE  Typed' /\ OneBroadcast'
<1>0. counts.work \in 0 .. MaxWork /\ counts.work <= counts.work
  BY CountKeeps, ViewAssumption DEF Typed
<1>1. CASE Drop(b) \/ PingTimeout(b)
  <2>1. Disconnect(b) /\ counts' \in Counters /\ counts'.work = counts.work
    BY <1>1, CountKeeps DEF Drop, PingTimeout, Typed
  <2>2. timer' \in BOOLEAN /\ UNCHANGED <<db, worker, manager, page>>
    BY <2>1 DEF Disconnect, Typed
  <2>3. Typed'
    BY <2>1, <2>2, DisconnectKeeps DEF Typed, manager, page
  <2> QED BY <1>0, <2>1, <2>2, <2>3, BroadcastRests
<1>2. ASSUME NEW o \in Objects, Accept(b, o) PROVE Typed' /\ OneBroadcast'
  <2> DEFINE i == Min(Free)
  <2>1. i \in Connections
    BY <1>2, FreeIsFree DEF Accept
  <2>2. ws' = [ws EXCEPT ![b] = [object |-> o, id |-> i]] /\ registered' = registered \cup {i}
        /\ filter' = [filter EXCEPT ![i] = o] /\ since' = (IF b = Viewer THEN Past(o) ELSE since)
        /\ UNCHANGED <<db, worker, pipe, page, timer, counts>> /\ ws[b].id = Nobody
    BY <1>2 DEF Accept
  <2> HIDE DEF i
  <2>3. [object |-> o, id |-> i] \in Sockets
    BY <2>1, SocketRecord
  <2>4. ws' \in [Browsers -> Sockets] /\ \A c \in Browsers : c # b => ws'[c] = ws[c]
    BY <2>2, <2>3 DEF Typed
  <2>5. filter' \in [Connections -> Objects \cup {None}] /\ registered' \subseteq Connections
    BY <2>1, <2>2 DEF Typed
  <2>6. Past(o) \in Version
    <3>1. Zone(o) \in Topics /\ db[Zone(o)] \in Version
      BY TopicsOfObjects DEF Typed
    <3>2. CASE worker.pc = "committed" /\ worker.topic = Zone(o)
      BY <3>1, <3>2, ViewAssumption DEF OneBroadcast, Past, Version
    <3>3. CASE ~(worker.pc = "committed" /\ worker.topic = Zone(o))
      <4>1. Past(o) = db[Zone(o)] - 0
        BY <3>3 DEF Past
      <4> QED BY <3>1, <4>1, ViewAssumption DEF Version
    <3> QED BY <3>2, <3>3
  <2>7. ASSUME NEW k \in Connections, pipe[k] # <<>>
        PROVE  \E c \in Browsers : ws'[c].id = k
    <3>1. PICK c \in Browsers : ws[c].id = k
      BY <2>7 DEF Typed
    <3>2. c # b
      BY <2>2, <3>1, SocketRecord
    <3> QED BY <2>4, <3>1, <3>2
  <2>8. Typed'
    BY <2>2, <2>4, <2>5, <2>6, <2>7 DEF Typed, page
  <2> QED BY <1>0, <2>2, <2>8, BroadcastRests
<1> QED BY <1>1, <1>2

LEMMA ReceiveTyped ==
  ASSUME Typed, OneBroadcast, NEW b \in Browsers, Receive(b)
  PROVE  Typed' /\ OneBroadcast'
<1> DEFINE i == ws[b].id
           m == Head(pipe[i])
           told == b = Viewer /\ m.topic.object = selected
<1>1. i \in Connections /\ pipe[i] # <<>> /\ pipe[i] \in Seq(Messages)
  BY SocketRecord DEF Receive, Typed
<1>2. m \in Messages /\ m.topic \in Topics /\ m.version \in Version
  BY <1>1, HeadTail, MessageRecord
<1>3. Tail(pipe[i]) \in Seq(Messages) /\ Len(Tail(pipe[i])) <= Capacity
  BY <1>1, HeadTail, ViewAssumption DEF Typed
<1>4. zones' = (IF told /\ m.topic.kind = "zone" THEN UpdateZoneCard(m) ELSE zones)
  BY DEF Receive
<1>5. statuses' = (IF told /\ m.topic.kind = "status"
                   THEN [statuses EXCEPT ![selected] = m.version] ELSE statuses)
  BY DEF Receive
<1>6. pipe' = [pipe EXCEPT ![i] = Tail(pipe[i])]
  BY DEF Receive
<1>7. UNCHANGED <<db, worker, manager, selected, asked, answers, astray, feed, counts>>
  BY DEF Receive
<1> HIDE DEF i
<1>8. zones' \in Shown
  <2>1. m.topic.object \in Objects /\ zones \in Shown
    BY <1>2, TopicsOfObjects DEF Typed
  <2>2. UpdateZoneCard(m) \in Shown
    BY <1>2, <2>1, ShownRecord DEF UpdateZoneCard
  <2> QED BY <1>4, <2>1, <2>2
<1>9. statuses' \in [Polled -> Version]
  <2>1. told /\ m.topic.kind = "status" => selected \in Polled
    BY <1>2, TopicsOfObjects
  <2> HIDE DEF told, m
  <2> QED BY <1>2, <1>5, <2>1 DEF Typed
<1>10. /\ pipe' \in [Connections -> Seq(Messages)]
       /\ \A k \in Connections : Len(pipe'[k]) <= Capacity
       /\ \A k \in Connections : pipe'[k] # <<>> => pipe[k] # <<>>
  BY <1>1, <1>3, <1>6 DEF Typed
<1>11. Typed'
  BY <1>7, <1>8, <1>9, <1>10 DEF Typed, manager, feed
<1>12. counts.work \in 0 .. MaxWork /\ counts.work <= counts.work
  BY CountKeeps, ViewAssumption DEF Typed
<1> QED BY <1>7, <1>11, <1>12, BroadcastRests

LEMMA LeaveTyped ==
  ASSUME Typed, OneBroadcast, NEW i \in Connections, Leave(i)
  PROVE  Typed' /\ OneBroadcast'
<1>1. counts.work \in 0 .. MaxWork /\ counts.work <= counts.work
  BY CountKeeps, ViewAssumption DEF Typed
<1>2. Typed'
  BY DEF Leave, Typed, page, feed
<1> QED BY <1>1, <1>2, BroadcastRests DEF Leave

(* The page, and what ends a connection. *)
LEMMA TakeKeeps ==
  ASSUME Typed, NEW o \in Objects, Take(o)
  PROVE  /\ answers' \in [Topics -> Version \cup {None}]
         /\ zones' \in Shown
         /\ asked' \subseteq Objects /\ astray' \in BOOLEAN
         /\ UNCHANGED <<selected, statuses>>
<1>1. Zone(o) \in Topics
  BY TopicsOfObjects
<1>2. answers[Zone(o)] \in Version
  BY <1>1 DEF Take, Typed
<1> QED BY <1>1, <1>2, ShownRecord DEF Take, Typed

LEMMA PageTyped == Typed /\ OneBroadcast /\ Page => Typed' /\ OneBroadcast'
<1> SUFFICES ASSUME Typed, OneBroadcast, Page PROVE Typed' /\ OneBroadcast'
  OBVIOUS
<1>0. counts.work \in 0 .. MaxWork /\ counts.work <= counts.work /\ counts.work <= counts.work + 1
  BY CountKeeps, ViewAssumption DEF Typed
<1>1. ASSUME NEW o \in Objects, Select(o) PROVE Typed' /\ OneBroadcast'
  <2>1. counts' \in Counters /\ counts'.work = counts.work + 1 /\ counts.work + 1 \in 0 .. MaxWork
    BY <1>1, CountKeeps DEF Select, Typed
  <2>2. Typed'
    BY <1>1, <2>1 DEF Select, Typed, manager, feed
  <2> QED BY <1>0, <1>1, <2>1, <2>2, BroadcastRests DEF Select
<1>2. ASSUME NEW o \in Objects, Apply(o) PROVE Typed' /\ OneBroadcast'
  <2>1. Take(o) /\ Reconnect /\ UNCHANGED <<db, worker, manager, timer, counts>>
    BY <1>2 DEF Apply
  <2>2. selected' \in Objects \cup {None}
    BY <2>1, TakeKeeps DEF Typed
  <2>3. Typed'
    BY <2>1, <2>2, TakeKeeps, ReconnectKeeps DEF Typed, manager
  <2> QED BY <1>0, <2>1, <2>3, BroadcastRests
<1>3. ASSUME NEW o \in Objects, Refused(o) PROVE Typed' /\ OneBroadcast'
  <2>1. /\ Reconnect /\ UNCHANGED <<db, worker, manager, timer, selected, zones, statuses>>
        /\ asked' = asked \ {o} /\ answers' = [answers EXCEPT ![Zone(o)] = None]
        /\ astray' \in BOOLEAN
        /\ counts' \in Counters /\ counts'.work = counts.work
    BY <1>3, CountKeeps DEF Refused, Typed
  <2>2. selected' \in Objects \cup {None}
    BY <2>1 DEF Typed
  <2>3. answers' \in [Topics -> Version \cup {None}]
    BY <2>1 DEF Typed
  <2>4. Typed'
    BY <2>1, <2>2, <2>3, ReconnectKeeps DEF Typed, manager
  <2> QED BY <1>0, <2>1, <2>4, BroadcastRests
<1>4. ASSUME NEW o \in Polled, TakeStatus(o) PROVE Typed' /\ OneBroadcast'
  <2>1. answers[Status(o)] \in Version
    BY <1>4, TopicsOfObjects DEF TakeStatus, Typed
  <2>2. statuses' \in [Polled -> Version] /\ answers' \in [Topics -> Version \cup {None}]
    BY <1>4, <2>1 DEF TakeStatus, Typed
  <2>3. Typed'
    BY <1>4, <2>2 DEF TakeStatus, Typed, manager, feed
  <2> QED BY <1>0, <1>4, <2>3, BroadcastRests DEF TakeStatus
<1>5. ASSUME NEW t \in Topics, Read(t) PROVE Typed' /\ OneBroadcast'
  <2>1. answers' \in [Topics -> Version \cup {None}]
    BY <1>5 DEF Read, Typed
  <2>2. Typed'
    BY <1>5, <2>1 DEF Read, Typed, manager, feed
  <2> QED BY <1>0, <1>5, <2>2, BroadcastRests DEF Read
<1> QED BY <1>1, <1>2, <1>3, <1>4, <1>5 DEF Page

LEMMA TimerTyped == Typed /\ OneBroadcast /\ TimerFires => Typed' /\ OneBroadcast'
<1> SUFFICES ASSUME Typed, OneBroadcast, TimerFires PROVE Typed' /\ OneBroadcast'
  OBVIOUS
<1>1. /\ Reconnect /\ UNCHANGED page /\ UNCHANGED <<db, worker, manager, counts>>
      /\ timer' \in BOOLEAN
  BY DEF TimerFires
<1>2. selected' \in Objects \cup {None}
  BY <1>1 DEF page, Typed
<1>3. Typed'
  BY <1>1, <1>2, ReconnectKeeps DEF Typed, manager, page
<1>4. counts.work \in 0 .. MaxWork /\ counts.work <= counts.work
  BY CountKeeps, ViewAssumption DEF Typed
<1> QED BY <1>1, <1>3, <1>4, BroadcastRests

LEMMA RestartTyped == Typed /\ OneBroadcast /\ Restart => Typed' /\ OneBroadcast'
<1> SUFFICES ASSUME Typed, OneBroadcast, Restart PROVE Typed' /\ OneBroadcast'
  OBVIOUS
<1>1. /\ UNCHANGED <<db, filter, page>> /\ worker' = Idle /\ registered' = {}
      /\ pipe' = [i \in Connections |-> <<>>] /\ ws' = [b \in Browsers |-> Closed]
      /\ since' = 0 /\ timer' \in BOOLEAN
      /\ counts' \in Counters /\ counts'.work = counts.work
  BY CountKeeps DEF Restart, Typed
<1>2. <<>> \in Seq(Messages) /\ Len(<<>>) = 0 /\ 0 <= Capacity /\ 0 \in Version
      /\ DOMAIN <<>> = {}
  BY EmptySeq, ViewAssumption DEF Version
<1>3. Typed'
  BY <1>1, <1>2, WorkerRecord, SocketRecord DEF Typed, page
<1>4. Distinct(worker'.todo) /\ worker'.pc = "idle"
  BY <1>1, <1>2, WorkerRecord DEF Distinct
<1> QED BY <1>1, <1>3, <1>4 DEF OneBroadcast

-------------------------------------------------------------------------------
(* Every step keeps the WebSockets that last registered. *)
LEMMA ConnectedRests ==
  ASSUME Connected, UNCHANGED <<ws, registered, filter>>, worker'.dead \subseteq worker.dead
  PROVE  Connected'
BY DEF Connected

LEMMA ConnectedCloses ==
  ASSUME Connected, NEW b \in Browsers, UNCHANGED <<worker, registered, filter>>,
         ws'[b].id = Nobody, \A c \in Browsers : c # b => ws'[c] = ws[c]
  PROVE  Connected'
BY DEF Connected

LEMMA WorkerConnected ==
  ASSUME Typed, Connected, Broadcast \/ \E t \in Topics : Commit(t)
  PROVE  Connected'
<1>1. ASSUME NEW t \in Topics, Commit(t) PROVE Connected'
  BY <1>1, WorkerRecord, ConnectedRests DEF Commit, manager, feed
<1>2. CASE Begin
  <2>1. PICK order \in SetToSeqs({i \in registered : filter[i] = worker.topic.object}) :
          worker' = [worker EXCEPT !.pc = "sending", !.todo = order]
    BY <1>2 DEF Begin
  <2>2. order \in Seq(Connections) /\ worker \in Workers
    BY OrdersVisitAll DEF Typed
  <2>3. worker'.dead = worker.dead
    BY <2>1, <2>2, WorkerVisits
  <2> QED BY <1>2, <2>3, ConnectedRests DEF Begin, manager, feed
<1>3. CASE Send
  <2> DEFINE i == Head(worker.todo)
  <2>1. worker \in Workers /\ worker.todo \in Seq(Connections) /\ worker.todo # <<>>
        /\ UNCHANGED <<ws, registered, filter>>
    BY <1>3, WorkerRecord DEF Send, Typed, manager, feed
  <2>2. Tail(worker.todo) \in Seq(Connections) /\ i \in Connections
    BY <2>1, HeadTail
  <2>3. CASE worker' = [worker EXCEPT !.todo = Tail(worker.todo)]
    BY <2>1, <2>2, <2>3, WorkerVisits, ConnectedRests
  <2>4. CASE ~Open(i) /\ worker' = [worker EXCEPT !.todo = Tail(worker.todo),
                                                  !.dead = worker.dead \cup {i}]
    <3> DEFINE w == [worker EXCEPT !.todo = Tail(worker.todo)]
    <3>1. worker' = [w EXCEPT !.dead = worker.dead \cup {i}]
      BY <2>4
    <3>2. w \in Workers /\ worker.dead \cup {i} \in SUBSET Connections
      BY <2>1, <2>2, WorkerVisits, WorkerRecord
    <3> HIDE DEF w, i
    <3>3. worker'.dead = worker.dead \cup {i}
      BY <3>1, <3>2, WorkerBuries
    <3>4. \A b \in Browsers : ws[b].id # i
      BY <2>4 DEF Open
    <3> QED BY <2>1, <3>3, <3>4 DEF Connected
  <2> QED BY <1>3, <2>3, <2>4 DEF Send
<1>4. CASE End
  <2>1. worker'.dead = {} /\ registered' = registered \ worker.dead /\ UNCHANGED <<ws, filter>>
    BY <1>4, WorkerRecord DEF End, feed
  <2> QED BY <2>1 DEF Connected
<1> QED BY <1>1, <1>2, <1>3, <1>4 DEF Broadcast

LEMMA FeedConnected ==
  ASSUME Typed, Connected, NEW b \in Browsers, Feed(b)
  PROVE  Connected'
<1>1. CASE Drop(b) \/ PingTimeout(b)
  <2>1. Disconnect(b) /\ UNCHANGED <<worker, registered, filter>>
    BY <1>1 DEF Drop, PingTimeout, Disconnect, manager
  <2> QED BY <2>1, DisconnectKeeps, ConnectedCloses
<1>2. CASE Receive(b)
  BY <1>2, ConnectedRests DEF Receive, manager, feed
<1>3. ASSUME NEW o \in Objects, Accept(b, o) PROVE Connected'
  <2> DEFINE i == Min(Free)
  <2>1. i \in Connections /\ ~Open(i) /\ i \notin registered \cup worker.dead
    BY <1>3, FreeIsFree DEF Accept
  <2>2. ws' = [ws EXCEPT ![b] = [object |-> o, id |-> i]] /\ registered' = registered \cup {i}
        /\ filter' = [filter EXCEPT ![i] = o] /\ worker' = worker
    BY <1>3 DEF Accept
  <2> HIDE DEF i
  <2>3. \A c \in Browsers : ws[c].id # i
    BY <2>1 DEF Open
  <2>4. /\ ws'[b].object = o /\ ws'[b].id = i
        /\ \A c \in Browsers : c # b => ws'[c] = ws[c]
    BY <2>2 DEF Typed
  <2>5. filter'[i] = o /\ \A k \in Connections : k # i => filter'[k] = filter[k]
    BY <2>1, <2>2 DEF Typed
  <2>6. \A c \in Browsers : ws[c].id # Nobody => ws[c].id \in Connections
    BY SocketRecord DEF Typed
  <2>7. ASSUME NEW c \in Browsers, ws'[c].id # Nobody
        PROVE  /\ ws'[c].id \in registered' \ worker'.dead
               /\ filter'[ws'[c].id] = ws'[c].object
               /\ \A e \in Browsers : ws'[e].id = ws'[c].id => e = c
    <3>1. CASE c = b
      BY <2>1, <2>2, <2>3, <2>4, <2>5, <3>1
    <3>2. CASE c # b
      BY <2>2, <2>3, <2>4, <2>5, <2>6, <2>7, <3>2 DEF Connected
    <3> QED BY <3>1, <3>2
  <2> QED BY <2>7 DEF Connected
<1> QED BY <1>1, <1>2, <1>3 DEF Feed

LEMMA OthersConnected ==
  ASSUME Typed, Connected,
         TimerFires \/ Page \/ Restart \/ \E i \in Connections : Leave(i)
  PROVE  Connected'
<1>1. CASE TimerFires
  <2>1. Reconnect /\ selected' \in Objects \cup {None} /\ UNCHANGED <<worker, registered, filter>>
    BY <1>1 DEF TimerFires, page, manager, Typed
  <2> QED BY <2>1, ReconnectKeeps, ConnectedCloses, ViewAssumption
<1>2. ASSUME NEW o \in Objects, Apply(o) \/ Refused(o) PROVE Connected'
  <2>1. Reconnect /\ selected' \in Objects \cup {None} /\ UNCHANGED <<worker, registered, filter>>
    BY <1>2, TakeKeeps DEF Apply, Refused, manager, Typed
  <2> QED BY <2>1, ReconnectKeeps, ConnectedCloses, ViewAssumption
<1>3. ASSUME NEW o \in Objects, Select(o) PROVE Connected'
  BY <1>3, ConnectedRests DEF Select, manager, feed
<1>4. ASSUME NEW o \in Polled, TakeStatus(o) PROVE Connected'
  BY <1>4, ConnectedRests DEF TakeStatus, manager, feed
<1>5. ASSUME NEW t \in Topics, Read(t) PROVE Connected'
  BY <1>5, ConnectedRests DEF Read, manager, feed
<1>6. CASE Restart
  <2>1. \A b \in Browsers : ws'[b].id = Nobody
    BY <1>6, SocketRecord DEF Restart
  <2> QED BY <2>1 DEF Connected
<1>7. ASSUME NEW i \in Connections, Leave(i) PROVE Connected'
  <2>1. registered' = registered \ {i} /\ UNCHANGED <<worker, filter, ws>>
        /\ \A b \in Browsers : ws[b].id # i
    BY <1>7 DEF Leave, feed, Open
  <2> QED BY <2>1 DEF Connected
<1> QED BY <1>1, <1>2, <1>3, <1>4, <1>5, <1>6, <1>7 DEF Page

-------------------------------------------------------------------------------
(* Every step keeps the news.  Without a WebSocket there are none; and a   *)
(* step that tells, receives and shows nothing changes nothing.            *)
LEMMA NoNews == ws'[Viewer].id = Nobody => News'
BY DEF News, NewsOf

LEMMA NewsRests ==
  ASSUME News, ws'[Viewer] = ws[Viewer], since' = since,
         ws[Viewer].id # Nobody => pipe'[ws[Viewer].id] = pipe[ws[Viewer].id],
         \A o \in Objects : Told(worker', db', ws[Viewer].id, Zone(o))
                              = Told(worker, db, ws[Viewer].id, Zone(o)),
         asked' # {} \/ UNCHANGED <<selected, asked, zones>>
  PROVE  News'
<1> SUFFICES ASSUME NEW o \in Objects PROVE NewsOf(o)'
  BY DEF News
<1> DEFINE v == Told(worker, db, ws[Viewer].id, Zone(o))
<1>1. /\ NewsOf(o) /\ ws'[Viewer].id = ws[Viewer].id
      /\ Told(worker', db', ws'[Viewer].id, Zone(o)) = v
  BY DEF News
<1> HIDE DEF v
<1>2. NewsOf(o) = (ws[Viewer].id # Nobody /\ ws[Viewer].object = o /\ v > since =>
        \/ LastOf(pipe[ws[Viewer].id], Zone(o), v)
        \/ /\ NoneOf(pipe[ws[Viewer].id], Zone(o))
           /\ selected = o /\ asked = {} => zones.event = o /\ zones.version = v)
  BY DEF NewsOf, v
<1> QED BY <1>1, <1>2 DEF NewsOf

(* Between two sends the worker tells nobody anything. *)
LEMMA ToldByCommit ==
  ASSUME Typed, NEW t \in Topics, Commit(t), NEW i, NEW o \in Objects
  PROVE  Told(worker', db', i, Zone(o)) = Told(worker, db, i, Zone(o))
<1>1. worker.pc = "idle" /\ worker'.pc = "committed" /\ worker'.topic = t
      /\ db' = [db EXCEPT ![t] = db[t] + 1]
  BY WorkerRecord DEF Commit
<1>2. Zone(o) \in Topics
  BY TopicsOfObjects
<1>3. \A u \in Topics : db[u] \in Nat /\ db'[u] = IF u = t THEN db[u] + 1 ELSE db[u]
  BY <1>1, ViewAssumption DEF Typed, Version
<1>4. Told(worker, db, i, Zone(o)) = db[Zone(o)]
  BY <1>1 DEF Told, Pending
<1>5. CASE Zone(o) = t
  <2>1. Told(worker', db', i, Zone(o)) = db'[Zone(o)] - 1
    BY <1>1, <1>5 DEF Told, Pending
  <2> QED BY <1>2, <1>3, <1>4, <1>5, <2>1
<1>6. CASE Zone(o) # t
  <2>1. Told(worker', db', i, Zone(o)) = db'[Zone(o)]
    BY <1>1, <1>6 DEF Told, Pending
  <2> QED BY <1>2, <1>3, <1>4, <1>6, <2>1
<1> QED BY <1>5, <1>6

LEMMA CommitNews ==
  ASSUME Typed, News, NEW t \in Topics, Commit(t)
  PROVE  News'
BY ToldByCommit, NewsRests DEF Commit, page, feed

(* A broadcast aims at the Viewer's WebSocket if it is about its object. *)
LEMMA BeginNews == Typed /\ Connected /\ News /\ Begin => News'
<1> SUFFICES ASSUME Typed, Connected, News, Begin PROVE News'
  OBVIOUS
<1> DEFINE i == ws[Viewer].id
<1>1. PICK order \in SetToSeqs({k \in registered : filter[k] = worker.topic.object}) :
        worker' = [worker EXCEPT !.pc = "sending", !.todo = order]
  BY DEF Begin
<1>2. order \in Seq(Connections) /\ worker \in Workers
      /\ Range(order) = {k \in registered : filter[k] = worker.topic.object}
  BY OrdersVisitAll DEF Typed
<1>3. worker'.pc = "sending" /\ worker'.todo = order /\ worker'.topic = worker.topic
      /\ worker.pc = "committed" /\ UNCHANGED <<db, pipe, page, feed>>
  BY <1>1, <1>2, WorkerVisits DEF Begin
<1>4. CASE i = Nobody
  BY <1>3, <1>4, NoNews DEF feed
<1>5. CASE i # Nobody
  <2>1. i \in registered /\ filter[i] = ws[Viewer].object
    BY <1>5, ViewAssumption DEF Connected
  <2> SUFFICES ASSUME NEW o \in Objects PROVE NewsOf(o)'
    BY DEF News
  <2>2. CASE ws[Viewer].object # o
    BY <1>3, <2>2 DEF NewsOf, feed
  <2>3. CASE ws[Viewer].object = o
    <3>1. Zone(o).object = o
      BY DEF Zone
    <3>2. worker.topic = Zone(o) => i \in Range(order)
      BY <1>2, <2>1, <2>3, <3>1
    <3>3. Told(worker', db', i, Zone(o)) = Told(worker, db, i, Zone(o))
      BY <1>3, <3>2 DEF Told, Pending
    <3>4. NewsOf(o) /\ UNCHANGED <<ws, since, selected, asked, zones, pipe>>
      BY <1>3 DEF News, feed, page
    <3> QED BY <3>3, <3>4 DEF NewsOf
  <2> QED BY <2>2, <2>3
<1> QED BY <1>4, <1>5

LEMMA EndNews == Typed /\ News /\ End => News'
<1> SUFFICES ASSUME Typed, News, End PROVE News'
  OBVIOUS
<1>1. worker.pc = "sending" /\ worker.todo = <<>> /\ worker'.pc = "idle"
      /\ UNCHANGED <<db, pipe, page, feed>>
  BY WorkerRecord DEF End
<1>2. \A i : i \notin Range(worker.todo)
  BY <1>1, EmptySeq DEF Range
<1>3. \A i, t : Told(worker', db', i, t) = Told(worker, db, i, t)
  BY <1>1, <1>2 DEF Told, Pending
<1> QED BY <1>1, <1>3, NewsRests DEF page, feed

(* A send to the Viewer's WebSocket puts the newest version last; one to   *)
(* another leaves it what it has still to be told.                         *)
LEMMA SendNews == Typed /\ OneBroadcast /\ Connected /\ News /\ Send => News'
<1> SUFFICES ASSUME Typed, OneBroadcast, Connected, News, Send PROVE News'
  OBVIOUS
<1> DEFINE i == ws[Viewer].id
           k == Head(worker.todo)
           rest == Tail(worker.todo)
<1>1. worker.todo \in Seq(Connections) /\ worker.todo # <<>> /\ worker.pc = "sending"
      /\ worker \in Workers /\ UNCHANGED <<db, page, feed>>
  BY WorkerRecord DEF Send, Typed
<1>2. k \in Connections /\ rest \in Seq(Connections) /\ Range(rest) = Range(worker.todo) \ {k}
      /\ k \in Range(worker.todo)
  BY <1>1, HeadTail, DistinctTail DEF OneBroadcast
<1>3. worker'.todo = rest /\ worker'.topic = worker.topic /\ worker'.pc = "sending"
  <2>1. CASE worker' = [worker EXCEPT !.todo = rest]
    <3> HIDE DEF rest
    <3> QED BY <1>1, <1>2, <2>1, WorkerVisits
  <2>2. CASE worker' = [worker EXCEPT !.todo = rest, !.dead = worker.dead \cup {k}]
    <3> DEFINE w == [worker EXCEPT !.todo = rest]
    <3>1. worker' = [w EXCEPT !.dead = worker.dead \cup {k}]
      BY <2>2
    <3>2. w \in Workers /\ w.pc = worker.pc /\ w.topic = worker.topic /\ w.todo = rest
      BY <1>1, <1>2, WorkerVisits
    <3>3. worker.dead \cup {k} \in SUBSET Connections
      BY <1>1, <1>2, WorkerRecord
    <3> HIDE DEF rest, k, w
    <3> QED BY <1>1, <3>1, <3>2, <3>3, WorkerBuries
  <2> QED BY <2>1, <2>2 DEF Send
<1>4. CASE i = Nobody
  BY <1>1, <1>4, NoNews DEF feed
<1>5. CASE i # Nobody /\ k # i
  <2>1. pipe'[i] = pipe[i]
    <3>1. \/ pipe' = [pipe EXCEPT ![k] = Append(pipe[k], Message)]
          \/ pipe' = pipe
      BY DEF Send
    <3>2. pipe \in [Connections -> Seq(Messages)] /\ i \in Connections
      BY <1>5, SocketRecord, ViewAssumption DEF Typed
    <3> HIDE DEF i, k
    <3> QED BY <1>5, <3>1, <3>2
  <2>2. \A t : Told(worker', db', i, t) = Told(worker, db, i, t)
    BY <1>1, <1>2, <1>3, <1>5 DEF Told, Pending
  <2> HIDE DEF i
  <2> QED BY <1>1, <2>1, <2>2, NewsRests DEF page, feed, i
<1>6. CASE i # Nobody /\ k = i
  <2>1. Open(k) /\ i \in Connections
    BY <1>2, <1>6, ViewAssumption DEF Open
  <2>2. pipe' = [pipe EXCEPT ![i] = Append(pipe[i], Message)]
    BY <1>6, <2>1 DEF Send
  <2>3. pipe[i] \in Seq(Messages) /\ pipe'[i] = Append(pipe[i], Message)
    BY <2>1, <2>2 DEF Typed
  <2>4. /\ Message \in Messages
        /\ Message.topic = worker.topic /\ Message.version = db[worker.topic]
    BY <1>1, MessageRecord DEF OneBroadcast, Typed, Message
  <2> SUFFICES ASSUME NEW o \in Objects PROVE NewsOf(o)'
    BY DEF News
  <2> DEFINE t == Zone(o)
  <2>5. /\ NewsOf(o) /\ ws' = ws /\ since' = since /\ selected' = selected
        /\ asked' = asked /\ zones' = zones /\ db' = db
    BY <1>1 DEF News, feed, page
  <2> HIDE DEF t
  <2>6. CASE worker.topic = t
    <3>1. i \notin Range(rest)
      BY <1>2, <1>6
    <3>2. Told(worker', db', i, t) = db[t]
      BY <1>3, <2>5, <3>1 DEF Told, Pending
    <3>3. LastOf(pipe'[i], t, db[t])
      BY <2>3, <2>4, <2>6, SentIsLast
    <3> QED BY <2>5, <3>2, <3>3 DEF NewsOf, t
  <2>7. CASE worker.topic # t
    <3>1. Told(worker', db', i, t) = Told(worker, db, i, t)
      BY <1>3, <2>5, <2>7 DEF Told, Pending
    <3>2. /\ NoneOf(pipe[i], t) => NoneOf(pipe'[i], t)
          /\ \A v : LastOf(pipe[i], t, v) => LastOf(pipe'[i], t, v)
      BY <2>3, <2>4, <2>7, SentIsOther
    <3> QED BY <2>5, <3>1, <3>2 DEF NewsOf, t
  <2> QED BY <2>6, <2>7
<1> QED BY <1>4, <1>5, <1>6

(* The WebSockets. *)
LEMMA AcceptNews ==
  ASSUME Typed, Connected, News, NEW b \in Browsers, NEW o \in Objects, Accept(b, o)
  PROVE  News'
<1> DEFINE i == Min(Free)
<1>1. i \in Connections /\ i \notin Range(worker.todo)
  BY FreeIsFree DEF Accept
<1>2. ws' = [ws EXCEPT ![b] = [object |-> o, id |-> i]]
      /\ since' = (IF b = Viewer THEN Past(o) ELSE since)
      /\ UNCHANGED <<db, worker, pipe, page, counts>>
  BY DEF Accept
<1> HIDE DEF i
<1>3. CASE b = Viewer
  <2>1. ws'[Viewer].id = i /\ ws'[Viewer].object = o /\ since' = Past(o)
    BY <1>2, <1>3 DEF Typed
  <2>2. Zone(o) \in Topics /\ db[Zone(o)] \in Nat
    BY TopicsOfObjects DEF Typed, Version
  <2>3. Told(worker, db, i, Zone(o)) = Past(o)
    BY <1>1, <2>2 DEF Told, Pending, Past
  <2>4. Past(o) \in Int
    BY <2>2 DEF Past
  <2>5. ~(Told(worker', db', ws'[Viewer].id, Zone(o)) > since')
    BY <1>2, <2>1, <2>3, <2>4
  <2> SUFFICES ASSUME NEW p \in Objects PROVE NewsOf(p)'
    BY DEF News
  <2> QED BY <2>1, <2>5 DEF NewsOf
<1>4. CASE b # Viewer
  <2>1. ws'[Viewer] = ws[Viewer] /\ since' = since
    BY <1>2, <1>4, ViewAssumption DEF Typed
  <2> QED BY <1>2, <2>1, NewsRests DEF page
<1> QED BY <1>3, <1>4

LEMMA DisconnectNews ==
  ASSUME Typed, Connected, News, NEW b \in Browsers, Disconnect(b)
  PROVE  News'
<1>1. CASE b = Viewer
  BY <1>1, DisconnectKeeps, NoNews
<1>2. CASE b # Viewer
  <2>1. /\ ws'[Viewer] = ws[Viewer] /\ since' = since
        /\ \A k \in Connections : k # ws[b].id => pipe'[k] = pipe[k]
        /\ UNCHANGED <<db, worker, page>>
    BY <1>2, DisconnectKeeps, ViewAssumption DEF Disconnect
  <2>2. ws[Viewer].id # Nobody => ws[Viewer].id \in Connections /\ ws[Viewer].id # ws[b].id
    BY <1>2, SocketRecord, ViewAssumption DEF Connected, Typed
  <2> QED BY <2>1, <2>2, NewsRests DEF page
<1> QED BY <1>1, <1>2

(* The Viewer receives: the message it takes is not the last of its zone,  *)
(* or it shows the zone as the last one said.                              *)
LEMMA ReceiveNews ==
  ASSUME Typed, Connected, News, NEW b \in Browsers, Receive(b)
  PROVE  News'
<1> DEFINE i == ws[b].id
           m == Head(pipe[i])
           told == b = Viewer /\ m.topic.object = selected
<1>1. i # Nobody /\ i \in Connections /\ pipe[i] # <<>> /\ pipe[i] \in Seq(Messages)
  BY SocketRecord DEF Receive, Typed
<1>2. m \in Messages /\ m.topic \in Topics
  BY <1>1, HeadTail, MessageRecord
<1>3. /\ told /\ m.topic.kind = "zone"
           => zones'.event = selected /\ zones'.version = m.version
      /\ ~(told /\ m.topic.kind = "zone") => zones' = zones
  BY DEF Receive, UpdateZoneCard
<1>4. pipe' = [pipe EXCEPT ![i] = Tail(pipe[i])]
  BY DEF Receive
<1>5. UNCHANGED <<db, worker, selected, asked, ws, since>>
  BY DEF Receive, feed
<1>6. CASE b # Viewer
  <2>1. ws[Viewer].id # Nobody => ws[Viewer].id \in Connections /\ ws[Viewer].id # i
    BY <1>6, SocketRecord, ViewAssumption DEF Connected, Typed
  <2>2. ws[Viewer].id # Nobody => pipe'[ws[Viewer].id] = pipe[ws[Viewer].id]
    BY <1>4, <2>1 DEF Typed
  <2> QED BY <1>3, <1>5, <1>6, <2>2, NewsRests
<1>7. CASE b = Viewer
  <2> SUFFICES ASSUME NEW o \in Objects PROVE NewsOf(o)'
    BY DEF News
  <2> DEFINE t == Zone(o)
             v == Told(worker, db, i, t)
             q == pipe[i]
  <2>1. pipe'[i] = Tail(q)
    BY <1>1, <1>4 DEF Typed
  <2>2. SUFFICES ASSUME ws[Viewer].object = o, v > since
                 PROVE  \/ LastOf(Tail(q), t, v)
                        \/ /\ NoneOf(Tail(q), t)
                           /\ selected = o /\ asked = {}
                                => zones'.event = o /\ zones'.version = v
    BY <1>5, <1>7, <2>1 DEF NewsOf
  <2>3. \/ LastOf(q, t, v)
        \/ /\ NoneOf(q, t)
           /\ selected = o /\ asked = {} => zones.event = o /\ zones.version = v
    BY <1>1, <1>7, <2>2 DEF News, NewsOf
  <2>4. /\ NoneOf(q, t) => NoneOf(Tail(q), t) /\ m.topic # t
        /\ LastOf(q, t, v) => \/ LastOf(Tail(q), t, v)
                              \/ NoneOf(Tail(q), t) /\ m.topic = t /\ m.version = v
    BY <1>1, ReceivedMakesWay
  <2>5. t.object = o /\ t.kind = "zone"
    BY DEF Zone
  <2>6. m.topic.object = o /\ m.topic.kind = "zone" => m.topic = t
    BY <1>2, TopicsOfObjects
  <2> HIDE DEF t, v, q, m
  <2>7. CASE LastOf(q, t, v)
    BY <1>3, <1>7, <2>4, <2>5, <2>7
  <2>8. CASE /\ NoneOf(q, t)
             /\ selected = o /\ asked = {} => zones.event = o /\ zones.version = v
    BY <1>3, <2>4, <2>6, <2>8
  <2> QED BY <2>3, <2>7, <2>8
<1> QED BY <1>6, <1>7

(* The page: whoever takes an answer closes the WebSocket. *)
LEMMA OthersNews ==
  ASSUME Typed, News,
         TimerFires \/ Page \/ Restart \/ \E i \in Connections : Leave(i)
  PROVE  News'
<1>1. CASE TimerFires
  <2>1. Reconnect /\ selected' \in Objects \cup {None}
    BY <1>1 DEF TimerFires, page, Typed
  <2> QED BY <2>1, ReconnectKeeps, NoNews
<1>2. ASSUME NEW o \in Objects, Apply(o) \/ Refused(o) PROVE News'
  <2>1. Reconnect /\ selected' \in Objects \cup {None}
    BY <1>2, TakeKeeps DEF Apply, Refused, Typed
  <2> QED BY <2>1, ReconnectKeeps, NoNews
<1>3. ASSUME NEW o \in Objects, Select(o) PROVE News'
  BY <1>3, NewsRests DEF Select, feed
<1>4. ASSUME NEW o \in Polled, TakeStatus(o) PROVE News'
  BY <1>4, NewsRests DEF TakeStatus, feed
<1>5. ASSUME NEW t \in Topics, Read(t) PROVE News'
  BY <1>5, NewsRests DEF Read, feed
<1>6. CASE Restart
  BY <1>6, SocketRecord, ViewAssumption, NoNews DEF Restart
<1>7. ASSUME NEW i \in Connections, Leave(i) PROVE News'
  BY <1>7, NewsRests DEF Leave, page, feed
<1> QED BY <1>1, <1>2, <1>3, <1>4, <1>5, <1>6, <1>7 DEF Page

-------------------------------------------------------------------------------
(* Every step keeps the selected object's list: unless its request was     *)
(* refused or another's answer came later, the list is there or asked for. *)
LEMMA NextPlaced ==
  ASSUME Typed, Placed, [Next]_vars
  PROVE  Placed'
<1> USE DEF Placed
<1>1. CASE UNCHANGED <<selected, asked, zones, astray>>
  BY <1>1
<1>2. CASE Broadcast \/ \E t \in Topics : Commit(t)
  BY <1>1, <1>2 DEF Broadcast, Begin, Send, End, Commit, page
<1>3. CASE TimerFires \/ Restart \/ \E i \in Connections : Leave(i)
  BY <1>1, <1>3 DEF TimerFires, Restart, Leave, page
<1>4. ASSUME NEW b \in Browsers, Feed(b) PROVE Placed'
  <2>1. CASE Drop(b) \/ PingTimeout(b) \/ \E o \in Objects : Accept(b, o)
    BY <1>1, <2>1 DEF Drop, PingTimeout, Disconnect, Accept, page
  <2>2. CASE Receive(b)
    <3>1. UNCHANGED <<selected, asked, astray>>
      BY <2>2 DEF Receive
    <3>2. zones'.list = zones.list \/ (zones.list = None /\ zones'.list = selected)
      BY <2>2 DEF Receive, UpdateZoneCard
    <3> QED BY <3>1, <3>2
  <2> QED BY <1>4, <2>1, <2>2 DEF Feed
<1>5. ASSUME NEW o \in Objects, Select(o) PROVE Placed'
  BY <1>5 DEF Select
<1>6. ASSUME NEW o \in Objects, Apply(o) PROVE Placed'
  <2>1. zones'.list = o /\ selected' = selected /\ astray' = (o # selected)
    BY <1>6 DEF Apply, Take
  <2> QED BY <2>1
<1>7. ASSUME NEW o \in Objects, Refused(o) PROVE Placed'
  BY <1>7 DEF Refused
<1>8. CASE (\E o \in Polled : TakeStatus(o)) \/ (\E t \in Topics : Read(t))
  BY <1>1, <1>8 DEF TakeStatus, Read
<1> QED BY <1>1, <1>2, <1>3, <1>4, <1>5, <1>6, <1>7, <1>8 DEF Next, Page, vars

-------------------------------------------------------------------------------
Inv == Typed /\ OneBroadcast /\ Connected /\ News /\ Placed

LEMMA InitInv == Init => Inv
<1> SUFFICES ASSUME Init PROVE Inv
  OBVIOUS
<1>1. \A b \in Browsers : ws[b].id = Nobody
  BY SocketRecord DEF Init
<1>2. Connected /\ News /\ Placed
  BY <1>1, ViewAssumption DEF Connected, News, NewsOf, Placed, Init
<1> QED BY <1>2, InitTyped DEF Inv

LEMMA NextInv == Inv /\ [Next]_vars => Inv'
<1> SUFFICES ASSUME Typed, OneBroadcast, Connected, News, Placed, [Next]_vars PROVE Inv'
  BY DEF Inv
<1>0. Placed'
  BY NextPlaced
<1>1. CASE Broadcast
  BY <1>0, <1>1, BeginTyped, SendTyped, EndTyped, WorkerConnected, BeginNews, SendNews, EndNews
     DEF Broadcast, Inv
<1>2. ASSUME NEW t \in Topics, Commit(t) PROVE Inv'
  BY <1>0, <1>2, CommitTyped, WorkerConnected, CommitNews DEF Inv
<1>3. ASSUME NEW i \in Connections, Leave(i) PROVE Inv'
  BY <1>0, <1>3, LeaveTyped, OthersConnected, OthersNews DEF Inv
<1>4. ASSUME NEW b \in Browsers, Feed(b) PROVE Inv'
  <2>1. Typed' /\ OneBroadcast'
    BY <1>4, FeedTyped, ReceiveTyped DEF Feed
  <2>2. Connected'
    BY <1>4, FeedConnected
  <2>3. News'
    BY <1>4, DisconnectNews, ReceiveNews, AcceptNews DEF Feed, Drop, PingTimeout
  <2> QED BY <1>0, <2>1, <2>2, <2>3 DEF Inv
<1>5. CASE TimerFires
  BY <1>0, <1>5, TimerTyped, OthersConnected, OthersNews DEF Inv
<1>6. CASE Page
  BY <1>0, <1>6, PageTyped, OthersConnected, OthersNews DEF Inv
<1>7. CASE Restart
  BY <1>0, <1>7, RestartTyped, OthersConnected, OthersNews DEF Inv
<1>8. CASE UNCHANGED vars
  BY <1>0, <1>8 DEF vars, Inv, Typed, OneBroadcast, Connected, News, NewsOf
<1> QED BY <1>1, <1>2, <1>3, <1>4, <1>5, <1>6, <1>7, <1>8 DEF Next

LEMMA SpecInv == Spec => []Inv
BY InitInv, NextInv, PTL DEF Spec

(* Type correctness: buffers stay within their capacity and only an open   *)
(* WebSocket has something in its buffer.                                  *)
THEOREM TypeCorrect == Spec => []TypeOK
<1>1. Inv => TypeOK
  BY TypedIsTypeOK DEF Inv
<1> QED BY <1>1, SpecInv, PTL

(* The page shows what was broadcast after its WebSocket was accepted,     *)
(* whoever else comes, goes, hangs or reconnects; and shows it in the list *)
(* of the selected object if the request for that list was neither refused *)
(* nor overtaken.                                                          *)
THEOREM BroadcastsAreShown == Spec => []EventsAreShown
<1>1. Inv => EventsAreShown
  <2> SUFFICES ASSUME Inv, NEW o \in Objects,
                      ws[Viewer].id # Nobody, ws[Viewer].object = o, selected = o, asked = {},
                      Settled(Zone(o)), db[Zone(o)] > since
               PROVE  /\ zones.event = o /\ zones.version = db[Zone(o)]
                      /\ ~astray => zones.list = o
    BY DEF EventsAreShown
  <2> DEFINE i == ws[Viewer].id
             t == Zone(o)
  <2>1. Told(worker, db, i, t) = db[t]
    BY DEF Settled, Told, Pending
  <2>2. NewsOf(o)
    BY DEF Inv, News
  <2>3. ~LastOf(pipe[i], t, db[t])
    BY DEF Settled, LastOf
  <2>4. zones.event = o /\ zones.version = db[t]
    BY <2>1, <2>2, <2>3 DEF NewsOf
  <2>5. ~astray => zones.list = o
    BY ViewAssumption DEF Inv, Placed
  <2> QED BY <2>4, <2>5
<1> QED BY <1>1, SpecInv, PTL
===============================================================================
