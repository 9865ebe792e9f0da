------------------------------- MODULE LiveView -------------------------------
(***************************************************************************)
(* What the browsers show.  The MQTT worker commits a row first and        *)
(* broadcasts it afterwards to the connections ConnectionManager holds at  *)
(* that moment, one after the other; a connection whose buffer is full     *)
(* makes the broadcast, and the worker with it, wait.  A browser asks for  *)
(* the zones of an object when it is selected and opens its WebSocket      *)
(* after the answer; statuses it asks for again and again (app.js).        *)
(*                                                                         *)
(* A topic is a row the browsers show: the state of a zone or the status   *)
(* of an agent, one of each object; its contents are a version.  The page  *)
(* of one browser is modelled, of the others only the WebSocket.           *)
(***************************************************************************)
EXTENDS Naturals, Sequences, SequencesExt, FiniteSetsExt

CONSTANTS
  Objects, Polled,   \* the objects, and those whose status is looked at
  Browsers, Viewer,  \* the browsers, and the one whose page is modelled
  MaxConnections,    \* bound: WebSocket objects anybody remembers
  None,         \* no object, no connection, no answer, no message
  Capacity,     \* messages a connection buffers before a send waits
  MaxWork,      \* bound: rows committed and objects selected
  MaxDrops      \* bound: connections lost, requests refused, restarts

ASSUME ViewAssumption ==
  /\ Viewer \in Browsers /\ None \notin Objects /\ Polled \subseteq Objects
  /\ MaxConnections \in Nat
  /\ Capacity \in Nat \ {0}
  /\ MaxWork \in Nat /\ MaxDrops \in Nat

Connections == 1 .. MaxConnections
Nobody      == 0
Zone(o)   == [kind |-> "zone", object |-> o]
Status(o) == [kind |-> "status", object |-> o]
Topics    == {Zone(o) : o \in Objects} \cup {Status(o) : o \in Polled}

VARIABLES
  db,          \* the version of each row
  worker,      \* the worker's broadcast: [pc, topic, todo, dead]
  registered,  \* manager._connections; the order of the dictionary is left open
  filter,      \* the object each connection asked for
  pipe,        \* messages sent to it and not yet received
  ws,          \* each browser's WebSocket: [object, id]; id is Nobody until accepted
  timer,       \* a reconnection of the Viewer's is due
  selected,    \* the Viewer: state.selectedObjectId
  asked,       \* the objects whose zones are being asked for
  answers,     \* what the backend answered and the browser has not applied
  zones,       \* state.zones: whose list it is, whose event its card shows, its version
  statuses,    \* state.agentStatus
  counts,      \* work and drops so far
  since,       \* history: the event broadcast last before the WebSocket was accepted
  astray       \* history: the selected object's list was refused or overtaken

vars == <<db, worker, registered, filter, pipe, selected, asked, answers, zones, statuses,
          ws, timer, counts, since, astray>>
manager == <<registered, filter>>
page    == <<selected, asked, answers, zones, statuses, astray>>
feed    == <<ws, timer, since>>

Idle   == [pc |-> "idle", topic |-> None, todo |-> <<>>, dead |-> {}]
Closed == [object |-> None, id |-> Nobody]

Open(i) == \E b \in Browsers : ws[b].id = i
(* Forgotten by everybody. *)
Free == {i \in Connections : ~Open(i)}
          \ (registered \cup Range(worker.todo) \cup worker.dead)

Init ==
  /\ db = [t \in Topics |-> 0] /\ worker = Idle
  /\ registered = {} /\ filter = [i \in Connections |-> None]
  /\ pipe = [i \in Connections |-> <<>>]
  /\ ws = [b \in Browsers |-> Closed] /\ timer = FALSE
  /\ selected = None /\ asked = {}
  /\ answers = [t \in Topics |-> None]
  /\ zones = [list |-> None, event |-> None, version |-> 0]
  /\ statuses = [o \in Polled |-> 0]
  /\ counts = [work |-> 0, drops |-> 0]
  /\ since = 0 /\ astray = FALSE

Count(what, bound) ==
  counts[what] < bound /\ counts' = [counts EXCEPT ![what] = @ + 1]

-------------------------------------------------------------------------------
(* The worker commits a row, then broadcasts it. *)

Commit(t) ==
  /\ worker.pc = "idle"
  /\ Count("work", MaxWork)
  /\ db' = [db EXCEPT ![t] = @ + 1]
  /\ worker' = [Idle EXCEPT !.pc = "committed", !.topic = t]
  /\ UNCHANGED <<manager, pipe, page, feed>>

(* broadcast: the connections of this moment, those with another filter    *)
(* passed over.  Nobody ever waits for the manager's lock.                 *)
Begin ==
  /\ worker.pc = "committed"
  /\ \E order \in SetToSeqs({i \in registered : filter[i] = worker.topic.object}) :
       worker' = [worker EXCEPT !.pc = "sending", !.todo = order]
  /\ UNCHANGED <<db, manager, pipe, page, feed, counts>>

Message == [topic |-> worker.topic, version |-> db[worker.topic]]

(* Mutant: the first connection that is gone ends the broadcast. *)
SendOrGiveUp ==
  /\ worker.pc = "sending" /\ worker.todo # <<>>
  /\ LET i == Head(worker.todo) IN
       IF Open(i)
       THEN /\ Len(pipe[i]) < Capacity
            /\ pipe' = [pipe EXCEPT ![i] = Append(@, Message)]
            /\ worker' = [worker EXCEPT !.todo = Tail(@)]
       ELSE /\ worker' = [worker EXCEPT !.todo = <<>>, !.dead = @ \cup {i}]
            /\ UNCHANGED pipe
  /\ UNCHANGED <<db, manager, page, feed, counts>>

(* Mutant: a send does not notice that the connection is gone. *)
SendToOpen ==
  /\ worker.pc = "sending" /\ worker.todo # <<>>
  /\ LET i == Head(worker.todo) IN
       /\ Open(i) /\ Len(pipe[i]) < Capacity
       /\ pipe' = [pipe EXCEPT ![i] = Append(@, Message)]
  /\ worker' = [worker EXCEPT !.todo = Tail(@)]
  /\ UNCHANGED <<db, manager, page, feed, counts>>

(* A send to a connection that is gone raises, or is lost. *)
Send ==
  /\ worker.pc = "sending" /\ worker.todo # <<>>
  /\ LET i == Head(worker.todo) IN
       IF Open(i)
       THEN /\ Len(pipe[i]) < Capacity
            /\ pipe' = [pipe EXCEPT ![i] = Append(@, Message)]
            /\ worker' = [worker EXCEPT !.todo = Tail(@)]
       ELSE /\ worker' \in {[worker EXCEPT !.todo = Tail(@), !.dead = @ \cup {i}],
                            [worker EXCEPT !.todo = Tail(@)]}
            /\ UNCHANGED pipe
  /\ UNCHANGED <<db, manager, page, feed, counts>>

End ==
  /\ worker.pc = "sending" /\ worker.todo = <<>>
  /\ registered' = registered \ worker.dead
  /\ worker' = Idle
  /\ UNCHANGED <<db, filter, pipe, page, feed, counts>>

-------------------------------------------------------------------------------
(* websocket_events, and how a browser gets there. *)

(* Mutant: what was on the way stays in the buffer. *)
CloseKeeping(b, new) ==
  /\ ws' = [ws EXCEPT ![b] = new]
  /\ since' = IF b = Viewer THEN 0 ELSE since
  /\ UNCHANGED pipe

Close(b, new) ==
  /\ ws' = [ws EXCEPT ![b] = new]
  /\ pipe' = [i \in Connections |-> IF i = ws[b].id THEN <<>> ELSE pipe[i]]
  /\ since' = IF b = Viewer THEN 0 ELSE since

(* reconnectWebSocket: the WebSocket there is is closed and forgotten.     *)
Reconnect == Close(Viewer, [object |-> selected', id |-> Nobody])

(* What a new connection does not hear of: it was broadcast before. *)
Past(o) == db[Zone(o)] - (IF worker.pc = "committed" /\ worker.topic = Zone(o) THEN 1 ELSE 0)

(* The other browsers come when they like. *)
Accept(b, o) ==
  /\ ws[b].id = Nobody /\ (b = Viewer => ws[b].object = o) /\ Free # {}
  /\ LET i == Min(Free) IN
       /\ ws' = [ws EXCEPT ![b] = [object |-> o, id |-> i]]
       /\ registered' = registered \cup {i}
       /\ filter' = [filter EXCEPT ![i] = o]
  /\ since' = IF b = Viewer THEN Past(o) ELSE since
  /\ UNCHANGED <<db, worker, pipe, page, timer, counts>>

(* receive_text raises; the connection is taken out. *)
Leave(i) ==
  /\ i \in registered /\ ~Open(i)
  /\ registered' = registered \ {i}
  /\ UNCHANGED <<db, worker, filter, pipe, page, feed, counts>>

(* onclose: what was on the way is lost; a timer will reconnect (timers    *)
(* due at once are one).                                                   *)
Disconnect(b) ==
  /\ ws[b].id # Nobody
  /\ Close(b, Closed) /\ timer' = (timer \/ b = Viewer)
  /\ UNCHANGED <<db, worker, manager, page>>

Drop(b) == Disconnect(b) /\ Count("drops", MaxDrops)

(* A browser that does not read does not answer pings either. *)
PingTimeout(b) == Disconnect(b) /\ Len(pipe[ws[b].id]) = Capacity /\ UNCHANGED counts

(* The zones are not asked for again; a WebSocket opened meanwhile is      *)
(* closed.                                                                 *)
TimerFires ==
  /\ timer /\ timer' = FALSE
  /\ UNCHANGED page /\ Reconnect
  /\ UNCHANGED <<db, worker, manager, counts>>

(* updateZoneCard: an event goes to the card of its number in the list     *)
(* there is, whosever it is (numbers repeat from object to object); it     *)
(* becomes the first card of an empty list.                                *)
UpdateZoneCard(m) ==
  [list    |-> IF zones.list = None THEN m.topic.object ELSE zones.list,
   event   |-> m.topic.object,
   version |-> m.version]

(* onmessage: what is not of the selected object is passed over. *)
Receive(b) ==
  /\ ws[b].id # Nobody /\ pipe[ws[b].id] # <<>>
  /\ LET m == Head(pipe[ws[b].id])
         told == b = Viewer /\ m.topic.object = selected IN
       /\ zones' = IF told /\ m.topic.kind = "zone" THEN UpdateZoneCard(m) ELSE zones
       /\ statuses' = IF told /\ m.topic.kind = "status"
                      THEN [statuses EXCEPT ![selected] = m.version] ELSE statuses
  /\ pipe' = [pipe EXCEPT ![ws[b].id] = Tail(@)]
  /\ UNCHANGED <<db, worker, manager, selected, asked, answers, astray, feed, counts>>

-------------------------------------------------------------------------------
(* The Viewer asks. *)

(* selectObject, also of the selected object (closeZoneManager). *)
Select(o) ==
  /\ o \notin asked
  /\ Count("work", MaxWork)
  /\ selected' = o /\ asked' = asked \cup {o}
  /\ UNCHANGED <<db, worker, manager, pipe, answers, zones, statuses, astray, feed>>

Read(t) ==
  /\ t.kind = "zone" => t.object \in asked
  /\ answers[t] = None
  /\ answers' = [answers EXCEPT ![t] = db[t]]
  /\ UNCHANGED <<db, worker, manager, pipe, selected, asked, zones, statuses, astray,
                 feed, counts>>

Take(o) ==
  /\ answers[Zone(o)] # None /\ answers' = [answers EXCEPT ![Zone(o)] = None]
  /\ zones' = [list |-> o, event |-> o, version |-> answers[Zone(o)]]
  /\ asked' = asked \ {o} /\ astray' = (o # selected)
  /\ UNCHANGED <<selected, statuses>>

(* The end of selectObject: the zones of o, whatever has been selected     *)
(* meanwhile, and a new WebSocket for what is selected by now.             *)
Apply(o) ==
  /\ Take(o)
  /\ Reconnect
  /\ UNCHANGED <<db, worker, manager, timer, counts>>

(* The request fails: the zones of before stay, the WebSocket is new. *)
Refused(o) ==
  /\ o \in asked /\ asked' = asked \ {o} /\ astray' = (astray \/ o = selected)
  /\ Count("drops", MaxDrops)
  /\ answers' = [answers EXCEPT ![Zone(o)] = None]
  /\ UNCHANGED <<selected, zones, statuses>> /\ Reconnect
  /\ UNCHANGED <<db, worker, manager, timer>>

(* Mutant: a status is asked for until there is one. *)
TakeFirstStatus(o) ==
  /\ answers[Status(o)] # None /\ answers' = [answers EXCEPT ![Status(o)] = None]
  /\ statuses' = IF statuses[o] = 0 THEN [statuses EXCEPT ![o] = answers[Status(o)]] ELSE statuses
  /\ UNCHANGED <<db, worker, manager, pipe, selected, asked, zones, astray, feed, counts>>

(* loadObjects: an answer that a message has overtaken is taken, too. *)
TakeStatus(o) ==
  /\ answers[Status(o)] # None /\ answers' = [answers EXCEPT ![Status(o)] = None]
  /\ statuses' = [statuses EXCEPT ![o] = answers[Status(o)]]
  /\ UNCHANGED <<db, worker, manager, pipe, selected, asked, zones, astray, feed, counts>>

-------------------------------------------------------------------------------
(* The backend starts again: connections and broadcast are gone. *)
Restart ==
  /\ Count("drops", MaxDrops)
  /\ worker' = Idle /\ registered' = {}
  /\ pipe' = [i \in Connections |-> <<>>]
  /\ ws' = [b \in Browsers |-> Closed] /\ since' = 0
  /\ timer' = (timer \/ ws[Viewer] # Closed)
  /\ UNCHANGED <<db, filter, page>>

-------------------------------------------------------------------------------
Broadcast == Begin \/ Send \/ End

Feed(b) == Drop(b) \/ PingTimeout(b) \/ Receive(b) \/ \E o \in Objects : Accept(b, o)

Page ==
  \/ \E o \in Objects : Select(o) \/ Apply(o) \/ Refused(o)
  \/ \E o \in Polled : TakeStatus(o)
  \/ \E t \in Topics : Read(t)

Next ==
  \/ Broadcast \/ \E t \in Topics : Commit(t)
  \/ \E i \in Connections : Leave(i)
  \/ \E b \in Browsers : Feed(b)
  \/ TimerFires \/ Page \/ Restart

Spec == Init /\ [][Next]_vars

(* Broadcasts go on, a browser reads what it was sent or its connection is *)
(* dropped, the server notices who is gone, statuses are polled.  Nothing  *)
(* is written, selected or lost because it has to be.                      *)
Fairness ==
  /\ WF_vars(Broadcast)
  /\ \A i \in Connections : WF_vars(Leave(i))
  /\ \A b \in Browsers : WF_vars(Receive(b) \/ PingTimeout(b))
  /\ \A o \in Polled : WF_vars(Read(Status(o)) \/ TakeStatus(o))

FairSpec == Spec /\ Fairness
-------------------------------------------------------------------------------
Version == 0 .. MaxWork

TypeOK ==
  /\ db \in [Topics -> Version]
  /\ worker \in [pc : {"idle", "committed", "sending"}, topic : Topics \cup {None},
                 todo : Seq(Connections), dead : SUBSET Connections]
  /\ registered \subseteq Connections
  /\ filter \in [Connections -> Objects \cup {None}]
  /\ pipe \in [Connections -> Seq([topic : Topics, version : Version])]
  /\ \A i \in Connections : Len(pipe[i]) <= Capacity /\ (pipe[i] # <<>> => Open(i))
  /\ ws \in [Browsers -> [object : Objects \cup {None}, id : Connections \cup {Nobody}]]
  /\ timer \in BOOLEAN
  /\ selected \in Objects \cup {None} /\ asked \subseteq Objects
  /\ answers \in [Topics -> Version \cup {None}] /\ statuses \in [Polled -> Version]
  /\ zones \in [list : Objects \cup {None}, event : Objects \cup {None}, version : Version]
  /\ since \in Version /\ astray \in BOOLEAN
  /\ counts \in [work : 0 .. MaxWork, drops : 0 .. MaxDrops]

(* Nothing of topic t is on its way to the Viewer. *)
Settled(t) ==
  /\ worker.topic # t
  /\ \A n \in DOMAIN pipe[ws[Viewer].id] : pipe[ws[Viewer].id][n].topic # t

(* An event that was broadcast after the browser's WebSocket had been      *)
(* accepted is shown, whoever else came, went, hung or reconnected         *)
(* meanwhile (ConnectionManager.broadcast, websocket_events), as long as   *)
(* that WebSocket lasts.  It stands in the selected object's own list      *)
(* unless the request for that list was refused or an answer for another   *)
(* overtook it (selectObject): then the card of another object shows it    *)
(* (updateZoneCard).  It says nothing of the events between the answer to  *)
(* the request for the zones and the opening of the WebSocket.             *)
EventsAreShown ==
  \A o \in Objects :
    /\ ws[Viewer].id # Nobody /\ ws[Viewer].object = o /\ selected = o /\ asked = {}
    /\ Settled(Zone(o)) /\ db[Zone(o)] > since
    => /\ zones.event = o /\ zones.version = db[Zone(o)]
       /\ ~astray => zones.list = o

(* What is shown of an agent is in the end what its row says, whatever     *)
(* messages the browser missed and however an answer and a message         *)
(* overtook each other: loadObjects asks again.                            *)
StatusesFollow == \A o \in Polled : <>[](statuses[o] = db[Status(o)])

(* A browser that hangs does not keep the worker from its next message for *)
(* ever: its connection is dropped, which ends the wait of the broadcast.  *)
BroadcastsEnd == worker.pc = "committed" ~> worker.pc = "idle"
===============================================================================
