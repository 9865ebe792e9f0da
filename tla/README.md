# TLA+ models of the TENGSL platform

TENGSL watches fire and security panels. An **agent** next to the panels
(`src/tengsl-edge`) polls their Modbus registers and publishes what changes to
an MQTT broker; a **backend** (`src/tengsl-core`: FastAPI, PostgreSQL, one MQTT
worker) stores it, serves a browser **console** (`src/tengsl-console`) and sends
the operators' commands back to the panels. Everything on the two Python sides
is asyncio: one thread, many coroutines, and every `await` a point where others
run. The models cut the code there: an action is what a coroutine does between
two awaits (or, where that changes nothing, a few of them).

```
 console ──HTTP──▶ backend requests ──┐                        ┌─▶ poll loop ─────┐
    ▲               │   ▲  shared MQTT client                  ├─▶ zones loop     ├─▶ panel (Modbus)
    └──WebSocket──  │   │             ▼                        ├─▶ commands loop ─┘
                  PostgreSQL ◀── MQTT worker ◀── broker ──▶ agent: one poller per object
                        ▲                                      ▲   (supervisor: run)
                        └───────── HTTP: objects, zones ───────┘
```

## Inventory

| component | state | operations | what is hard | what makes it correct |
|---|---|---|---|---|
| zone commands (`main.py` 169–181, 1201–1275; `mqtt_worker.py` 163–212; edge `main.py` 349–447) | journal row, messages in flight, listener, panel register | request, publish with a retry, write, ack, record | the ack races the answer; a publication that raises may have been delivered; a Modbus write is sent again without an answer; acks are sent once; restarts | "executed" is true; the row comes first; `write_register` is called at most twice; final rows are complete; an answered command keeps its outcome |
| shared MQTT client (`main.py` 134–185) | `_mqtt_client`, `_mqtt_client_lock` | get, publish, reset, close | many requests fail at once and all reset | one connection; a reset never closes the successor; nobody waits for the lock forever |
| poller (edge `main.py` 105–347, `state_tracker.py`, `modbus_reader.py`) | zones, tracker, reader, retained status, three tasks | start, stop, poll cycle, refresh of the zones, commands | zones change under the iteration; three coroutines share reader and publisher; cancellation at any await | no value is held back that nobody heard of; changes arrive; "stopped" is the last word; nothing stays connected |
| MQTT publisher of the agent (`mqtt_publisher.py`) | `_client` | connect, publish, disconnect, one retry | no lock | the client on offer is open; one loss costs nothing |
| supervisor (edge `main.py` 450–624, `entrypoint.sh`) | known objects, pollers, control listener, stop event | load, reconcile, restart, exit | objects change during a reconciliation; starts fail; crash | pollers run with known settings, follow the configuration, and leave "stopped" behind |
| objects, zones, events (`crud.py`, `main.py` 1045–1186, 1386–1505, `mqtt_worker.py` 29–128) | tables objects, zones, events | create, rename, import, delete, event | every operation looks first and commits later, READ COMMITTED, no constraint on zone numbers | zone and history agree; renames cost no event; numbers are unique |
| MQTT worker (`mqtt_worker.py`) | subscription | event, status, ack | reconnects with a clean session; any exception costs the message | what is retained is caught up; see the rows above |
| accounts (`main.py` 208–418, 826–981, `auth.py`) | users, sessions | login, logout, middleware, user administration, seed | checks and commits are apart | an administrator remains; sessions belong to users |
| diagnostics (`main.py` 304–323, 526–658) | task, state file, `test_runs` rows | start, job, recovery at start | file and row are written one after the other, two starts at once, restart | one run at a time; file and row agree; nobody waits for a run that is gone |
| restart channel (`main.py` 465–523, both `entrypoint.sh`, edge 488–512) | mode file, mode each shell loop read, control message, scheduled SIGTERM | switch mode, restart the agent, restart the backend, crash, reload | the listener hears one message in its life; the file is written before the publication that may raise; a reloader keeps the place of the program | whoever was told reads the file; a service told to stop comes back |
| WebSocket manager (`websocket_manager.py`, `main.py` 1537–1558) | `_connections` with a filter each | connect, disconnect, broadcast | the set changes during a broadcast; a slow browser holds the worker | every browser that stays connected hears every message; a broadcast ends |
| console (`app.js`) | selected object, zones, statuses, WebSocket, requests under way | select, fetch, apply, reconnect, receive | answers overtake messages and each other | what is shown is what the row says |
| notifications, event codes (`notifications.py`, `event_codes.py`, `main.py` 983–1041, edge `main.py` 43–102, `remote_config.py`) | preferences; tables of codes | decode a register, show, decide who is told, list preferences, compare lists | four tables disagree about a code; what is listed and what decides are computed apart; lists are compared by key | a register is told from its codes; what is listed is what decides; a comparison sees every change |

The components of `PROJECT.json` repeat this list with the modules of each;
its hazards name the lines.

`EdgePoller` and `AgentSupervisor` model what the agent does with a backend that
answers its reads, which is what the code is written for; a refused read is their
failure "http" (see "Behaviour the properties set aside").

## Modules

| module | models | state ↔ code |
|---|---|---|
| `Mqtt` | the broker between one publisher and one clean-session subscriber (external) | `Deliver`: lost if nobody listens; `Kept`: what a client had taken before it lost its connection |
| `CommandJournal` | abstract: what the journal promises of each command | `status`, `completed` are the row's; `applied`, `replied` are history |
| `CommandLifecycle` | backend handler, broker, listener, worker | `handler[c]` is the place in `send_zone_command`; `edge` the place in `_execute_command`; `wire`, `acks` the two topics |
| `CommandLifecycleProofs` | theorems on the above | |
| `SharedClient` | `_get_mqtt_client`, `_publish_command`, `_reset_mqtt_client` | `shared` is `_mqtt_client`, `lock` is `_mqtt_client_lock`; clients are numbered as they are made; `open`/`alive`: not closed / not failed |
| `PollerStatus` | abstract: what the broker is told of one object | `word` is the retained `agent_status`, `running` whether a poller was started and not stopped |
| `EdgePoller` | `ObjectPoller`, `StateTracker`, `ModbusReader.connect/close`, `fetch_zones` | `phase` is start/stop, `pc` the poll loop, `loop` the zones loop; `tracker` is `_state`; `published` and `announced` what the broker was last told |
| `EdgePollerProofs` | theorems on the above | |
| `MqttPublisher` | the agent's publisher | `slot` is `_client` |
| `MqttClients` | `SharedClient` and `MqttPublisher` in one specification | `program` says which of the two runs |
| `MqttClientsProofs` | theorems on both clients | |
| `AgentSupervisor` | `run`, `poll_objects`, `control_listener`, the worker's statuses | `known`/`new` are `current_objects`/`new_objects`, `pollers` the dictionary of pollers, `todo` the rest of a `for` |
| `AgentSupervisorProofs` | theorems on the above | |
| `ZoneRegistry` | tables of one object, requests and events | `txn[r]` is what a transaction saw and will write; `history[n]` the last event of zone n |
| `Accounts` | users, sessions, middleware | `req[r]` is a request with what it has read |
| `Tables` | `ZoneRegistry` and `Accounts` in one specification | `about` says which tables a behaviour is about |
| `TablesProofs` | theorems on both | |
| `Diagnostics` | `admin_run_diagnostics`, `_run_diagnostics_job`, `_save_test_run`, `lifespan` | `at[j]` is where request, then task, of job j is; `file` the state file, `rows` the column `overall_status`, `task` is `_diagnostics_task` |
| `RuntimeMode` | `admin_set_mode`, `admin_restart_agent`, `admin_restart_backend`, both `entrypoint.sh`, `control_listener` | `mode_file` is `/runtime/mode`, `mode[s]` the shell's variable, `life[s]` the program it started, `kill` the sleeping `_delayed_backend_restart` |
| `Administration` | `Diagnostics` and `RuntimeMode` in one specification | `page` says which of the two a behaviour is about |
| `AdministrationProofs` | theorems on both | |
| `EventRules` | decoding of registers, what a zone shows, `zones_changed`/`objects_changed`, severities, preferences | pure functions; a list is a sequence of records with a key |
| `EventRulesProofs` | theorems on them | |
| `LiveView` | `ConnectionManager`, `websocket_events`, `selectObject`, `connectWebSocket`, `loadObjects` | `registered`/`filter` are `_connections`; `worker` is the broadcast under way; `pipe` what a connection has not yet received; `zones`, `statuses`, `selected` are fields of `state` (of `zones`, whose list it is and whose event its card shows); `asked`/`answers` requests under way |
| `LiveViewProofs` | theorems on the above | |

`MC*` modules hold the small sets. `MqttClients`, `Tables` and `Administration`
put two components side by side, to be checked in one run and proved about in one
module. The two share no variable and no step of the code touches both, so
nothing would be learnt from their interleavings: a frozen variable (`program`,
`about`, `page`) chosen in the first state says which of them runs, the other
stays as it began. Definitions introduced by a comment "Mutant:" are deliberate
errors used to check that the properties can fail; nothing else uses them.

`_connections` is a dictionary and keeps the order of insertion. No property
depends on that order, so `LiveView` keeps the set and lets a broadcast visit
it in any order, the code's among them.

The interfaces between the modules: a poller in `AgentSupervisor` is its
settings, and reports "online" or "offline" at any time. `PollerStatus` is what
both keep to: `EdgePoller` implements it with its coroutines, and the supervisor,
which only starts and stops, for each of its objects; a publication that "raises, delivered or not" in
`CommandLifecycle` and `EdgePoller` is what `SharedClient` and `MqttPublisher`
show a publication with one retry may do; a listener in `CommandLifecycle` is
the third coroutine of `EdgePoller`, which sees of it only that it reconnects the
reader.

Several modules keep a history variable that no step of the code reads. It
separates what a property promises from what the code leaves open: `alone` (the
publication nobody joined), `raced` (numbers two transactions found free at one
time; starts of diagnostics that overlapped), `unguarded` (two deletions of users
at once, an edited user), `missed` (a service that was not told since it read the
file), `since` (the last event broadcast before a WebSocket was accepted), `astray` (the
selected object's list was refused or overtaken), `lent` (a command connected the
reader that the poll loop had closed), `faults.kinds` and `broken` (which kinds of failure
there have been). A premise is therefore dynamic: the run contains the failures,
and the property speaks of all behaviours until the excused one happens.

## Runs

Every run explores its whole state space, the longest in about two minutes.

| run | instance | shows |
|---|---|---|
| `Commands` | 2 commands, 1 zone, 2 sends per call, 2 acks in flight, every failure and restart | `TypeOK`, `ExecutedWasWritten`, `LoggedFirst`, `DuplicatesBounded`, `AnsweredIsFinal`, refinement `JournalSpec` |
| `CommandAnswered` | the same with a zone that comes and goes, every failure that loses no ack for good | `Answered`, under fairness |
| `SentAwaitsAck` | 1 command, no failure | **violated**: the faster ack is overwritten by "sent, waiting for the agent" |
| `Clients` | backend: 3 requests, 3 losses, 2 refused connects; agent: 3 coroutines, 4 publications, 2 losses, 1 refused connect | `OneConnection`, `OneLossIsRetried`, `Finishes` under fairness (backend); `SlotIsOpen`, `AgentOneLossIsRetried` (agent) |
| `Poller` | 2 zones, 2 values, 2 failures, 2 changes, 1 edit | `TypeOK`, `TrackerIsPublished`, `ReadIsOnline`, `StoppedIsClosed`, refinement `StatusSpec`; under fairness `ConfirmedChangesReach`, `ZonesFollow` |
| `LostPuback` | 1 zone, 2 values, 1 lost confirmation, 2 changes | **violated**: `ChangesReach`, broker and backend keep a value the panel has left |
| `LiveView` | 2 browsers, 2 objects, statuses of 1, 2 connections remembered, buffers of 1, 3 rows or selections, 1 drop | `TypeOK`, `EventsAreShown`; under fairness `StatusesFollow`, `BroadcastsEnd` |
| `Supervisor` | 2 objects, 1 host, 2 failures, 1 edit | `TypeOK`, `PollersAreKnown`, `StatusFollows`, `ExitedIsStopped`, refinement `StatusesSpec`; under fairness `PollersFollow` |
| `DeletedStaysDeleted` | 1 object, 1 edit, no failure | **violated**: a status creates the deleted object anew |
| `Tables` | zones: 2 requests and the worker, 1 number, 2 names, 2 labels, 3 rows, 2 events; accounts: 2 requests, 3 users | `TablesTypeOK`, `LastIsHistory`, `NumbersAreUnique`, `RenamesCostNoEvent`, `SomeAdministrator` |
| `Administration` | diagnostics: 3 jobs, 3 failures; mode: 3 requests, 2 failures | `OneRun`, `SavedIsTold`, `RunningGoesOn`, `SwitchIsRead`; under fairness `RunsAreSaved`, `ProductionReturns` |
| `ModeSwitch` | 1 request, no failure | **violated**: in development mode a service told to stop does not come back |

`FinalIsCompleted` (a final row has its time of completion) is no property of its
own in `Commands`: the refinement `JournalSpec` implies it. It remains a theorem,
as do `TypeOK` of `SharedClient`, of `Diagnostics` and of `RuntimeMode`. `Poller` also evaluates the assumption
`ListsAreSets` of `MCEdgePoller`: on every pair of lists of up to two zones
without double numbers, `Changed` of `EventRules` agrees with the comparison of sets
that `EdgePoller` and `AgentSupervisor` use.

Why the bounds are enough:

- *Commands* meet only in the queues and the listener, so two show every race of
  two. The agent's copy of the zones is full or empty, which gives a command found
  and not found; `Commands` keeps the table of zones as it began, as its edits
  multiply the states, `CommandAnswered` edits it. `MaxSends` is 2 for the 4 times
  pymodbus may send a request, "once" and "more often", as no guard reads
  `writes`; the proofs are for any number. Each
  request publishes twice at most, so `MaxAcks` bounds acks in flight and nothing
  else. Nothing repeats a lost ack: with "ack", "disconnect" or "restart" a command
  may stay "sent", hence the faults `CommandAnswered` leaves out.
- *Shared client*: one request holds the lock, one waits with the same failed
  client, one comes with a new one.
- *Poller*: one zone is read while the other is removed; two changes are a change
  and its return; a second failure hits the handling of the first.
- *Publisher*: two coroutines collide, the third, or a fourth publication, finds
  what they left.
- *Supervisor*: while one object is treated the other changes. Besides the edit,
  the objects the worker creates change the table, and the first state has any of
  them. There is one host: settings change from it to none and back, a change from one
  to another is left to the proofs. `MaxQueue` bounds only what running pollers add to the queue by
  themselves; starts and stops always do.
- *Zones*: three transactions at once (two requests, the worker), a row to start
  with and two inserted; one number is where they meet.
- *Accounts*: one user deletes, one is deleted, one joins.
- *Diagnostics*: two overlapping runs and one that follows them.
- *Mode*: two switches that overlap and a plain restart; a failure of one and of
  what repairs it.
- *Live view*: only one page is modelled; the other browser is there to hang, to
  leave during a broadcast and to take a place in the dictionary. Two objects make
  a message of the wrong one and two overlapping selections; a buffer of one is
  full after one message. A WebSocket is reused when nobody remembers it, so
  `MaxConnections` bounds how many are remembered at once.

`CHECK_DEADLOCK FALSE` stands only where bounded work comes to its end
(`Clients`, `Administration`, `ModeSwitch`, the single command of
`SentAwaitsAck`). `SYMMETRY` is used for safety
properties only (`Commands`, `Tables`), over sets whose members no definition tells apart.

## Fairness

asyncio resumes every coroutine whose await has ended, and awaits of this code
end: publications and HTTP requests have timeouts, Modbus calls too.

- `CommandLifecycle`: the handler's publication and commits, the listener's and
  the worker's steps, both reconnections. No failure, request or edit is fair.
- `SharedClient`: every request's own steps (the lock of asyncio is first come,
  first served; weak fairness per request and finitely many requests amount to
  the same).
- `EdgePoller`: the poll loop, the zones loop, and the steps of start and stop
  that follow the first. Not fair: stop, start, commands, panel, edits, failures
  (bounded).
- `AgentSupervisor`: `run` (with the shell that starts it again), the worker.
- `Diagnostics`: the commit of a row that is inserted, the end of the wait for
  pytest (120 seconds), the commit of the result. Nobody has to start a run.
- `RuntimeMode`: publications return or raise, the half second of
  `_delayed_backend_restart` ends, a message on its way is read, a program that
  is stopping ends and one that starts comes up. No request, crash or change of
  the source is fair.
- `LiveView`: the worker's broadcast, the endpoint that notices a closed
  connection, `setInterval` of `loadObjects`, and for each browser "it reads or
  its connection is dropped" (uvicorn's keepalive pings time out). No event,
  selection, accept or drop is fair.

## Proofs

Every invariant and action property the runs check is proved with TLAPS for every
value of the constants, the three refinements (`JournalSpec`, `StatusSpec`,
`StatusesSpec`) included; what the runs check
under fairness is not. Eight modules hold the theorems. The assumptions named
here are ASSUMEs that the runs evaluate on their instances. A component that is
checked beside another (`MqttClients`, `Tables`, `Administration`) is proved on its
own specification; one lemma each (`EitherIsAgent`, `EitherIsBoth`) shows that a
behaviour of the two is a behaviour of each.

**`CommandLifecycleProofs`** assumes only that `NoZone` and `NoCommand` are not
zones and commands, that `Faults` are kinds of failures, and that the bound on acks
and `MaxSends` are positive. `ExecutedWasWritten` is not inductive: a row becomes "executed"
because an ack said so, and the ack was sent because the listener was in
"executed". `IInv` therefore adds

- `ClaimsAreTrue`: an ack in flight, or a listener, that says "executed" belongs
  to a command that was written;
- `RowIffRequested`: a row exists exactly if its request has begun; with it
  `LoggedFirst` is preserved, since only a handler past its commit publishes;
- `FinalIsCompleted`, which needs that `RecordUnsent` and `HandleAck` set both.

`AnsweredIsFinal` and the refinement `JournalSpec` follow: each action maps to one
action of `CommandJournal` or to a stutter. `DuplicatesBounded` (at
most two calls of `write_register`) needs an account of where attempts go.
`Budget(c)`: `MaxSends` times the calls that may still come, plus how often the
register was reached, is at most `2 * MaxSends`. A call may still come of each
copy of c on the wire, of the command the listener has in hand and of each attempt
its request has left. Sending trades an attempt for a copy, the listener a copy for
the command in hand, the call that for up to `MaxSends` writes; a loss only gives
away. That queues behave so (`DeliverCopies`, `TakeCopies`, `KeptCopies`)
is counting positions, by bijections between them.

**`MqttClientsProofs`**, on the backend's client, assumes that `Nobody` is no
request and the bounds are naturals. `OneConnection` rests on

- `LockIsHeld`: only the request named by `lock` is between taking and releasing
  it;
- `ClientIsUsed`: a request that publishes has a client that was opened;
- `OpenIsKnown`: an open client is the shared one or is being closed by the
  holder of the lock.

`OneLossIsRetried` needs more: with one loss, say of client c, a request on its
second attempt has c behind it and cannot fail again (`LossInv`: `Unharmed` before
the loss, `Harmed(c)` after it).

On the agent's, which has no lock, it assumes naturals for bounds. `SlotIsOpen`
needs `ClosingIsOut`: what a call closes is not in `_client` any more. For
`OneLossIsRetried`, `AloneIsServed` says of a call nobody joined that the others
rest and that its n-th failed attempt is the n-th failure counted, and
`LostWasCounted` that a dead client in `_client` is a loss.

**`AdministrationProofs`**, on diagnostics, assumes that `None` is no job and the
bound a natural. The four safety properties rest on

- `Remembered`: unless starts overlap, nothing works but the task
  `_diagnostics_task` names, so a start that finds it done finds nothing at work;
- `Prepared`: what a task is about to save is what the file says, if the file
  still speaks of that run. With it `Save` keeps `SavedIsTold`, and a run that
  leaves "saving" does not leave "running" behind (`RunningGoesOn`).

On the mode, it assumes that `MaxFailures` is a natural. `SwitchIsRead` is
inductive on typed states: the word to read the file again is passed from the
request (`admin`) to the message or the scheduled signal (`control`, `kill`),
from there to the program (`life` "stopping") and ends where the shell reads
the file; each step that drops it sets `missed`. What the types must say beyond
sets is that a message is only on its way to an agent that listens, and only an
agent that serves listens.

**`AgentSupervisorProofs`** assumes finitely many objects (the order in which the
broker sends retained statuses is a sequence of them), that `Blank`, `Absent`,
hosts and statuses are different things, and natural bounds.

- `PollersAreKnown` speaks of one place of `run`; `Reconciled` says for each
  place which settings a poller may have, by whether its object is still in
  `todo`. Its part on "exit" says that nothing is left when the loop ends.
- `StatusesSpec`: each object implements `PollerStatus`. What needs proof is that
  no second poller is started beside a running one, which the dictionary would
  forget: `Unstarted` says that where run starts pollers, those it has still to
  start are not running. It follows from `Reconciled`, as only objects whose
  settings changed are started again and their old pollers are gone by then.
- `ExitedIsStopped` follows from `Reconciled` on "exit" and `WordIsTrue` of
  `PollerStatus` (an object nobody polls is "stopped" unless something was
  lost), which the refinement carries over to every object.
- `StatusFollows` needs what the queue says: the last status of an object in
  `inbox` is the retained one, without one the table has it, and what is not
  retained was never sent (`Follows`). That a new subscription sends every
  retained status is a pigeonhole argument (an injection between finite sets of
  one size is onto).

**`EdgePollerProofs`** assumes that `None` is neither a value nor a reading and that
the bounds are naturals. `Inv` is

- `TrackerIsPublished` with `AckedIsPublished`: between the confirmation of an
  event and `tracker.update` the broker's last event is the one just confirmed;
- `StartsFresh`: a poller that starts has an empty tracker and a closed reader,
  from which `StoppedIsClosed` follows;
- `OwnConnectionIsOnline`, for `ReadIsOnline`: wherever the loop may find the
  reader connected by itself, "online" is the last word, and the reader is closed
  before "offline" is said.

Type correctness ties the poll loop's place to `phase`: exactly a running poller
has a loop, so that none of these parts speaks of a loop that was cancelled.

`StatusSpec`: seen from the broker the poller implements `PollerStatus`. Only six
steps say or change anything there; the others leave `announced`, the phases in
which the poller counts as running and the lost statuses as they are
(`SilentStep`). That what stop says stays the last word (`StoppedIsFinal`) is then
`WordIsTrue` of the abstract specification.

**`LiveViewProofs`** assumes that the viewer is a browser, that `None` is no object
and that the bounds are naturals, the buffer's at least 1. Besides the types `Inv` is

- `OneBroadcast`: a broadcast is of a row that was written and its list names
  nobody twice;
- `Connected`: a WebSocket that lasts is registered with its page's object,
  belongs to one browser, and the broadcast has not given it up;
- `News`: of every object the viewer's page may show, the newest version its
  WebSocket was told since it was accepted is the last one in its buffer or, if
  no answer is awaited, what is shown. A version is told when the worker has passed
  this connection (`Told`);
- `Placed`: unless `astray`, or an answer for it is awaited, the list is the
  selected object's.

`EventsAreShown` is `News` and `Placed` once the buffer is empty. That an order of a set visits
each member once is again the pigeonhole argument (`OrdersVisitAll`).

**`TablesProofs`**, on zones, assumes finitely many requests, none of them the
worker, that `None` is no number, name, label or row, and that at least one row may
be inserted. Every step is one of five kinds (a transaction looks, ends, stores,
removes, or the tables wait; `NextKinds`), and each invariant is kept by each
kind. `Purposeful` says what the record of a transaction looks for and that a row
never changes its number.

- `NumbersAreUnique`: who found a number free is in `Finders`, and as long as
  someone is, no row has it (`Free`). The first to insert either was the only one
  or leaves the number in `raced`.
- `LastIsHistory` is not inductive, as a double number might have two last
  states. `Tells` adds that of the rows with one number at most one says
  anything, and that while the worker handles an event the row it found is that one
  and says what it said.
- `RenamesCostNoEvent` needs that what is renamed was found (`RenamesFound`): then
  the commit updates a row or fails, and takes none away.

On users, it assumes that `Nobody` is neither a user nor a row.
`SomeAdministrator` is not inductive, as a deletion commits what it counted
before. `Committing` says that a deletion to be committed leaves an administrator,
and `Counting`, for the step that counts, that the row it looked at is there
still or gone, as ids are not used twice. Both end with `unguarded`: a second
deletion that counts meanwhile, or an edit.

**`EventRulesProofs`** proves what the functions do on all inputs. A register and
its two codes determine each other up to the byte of a single code. Codes that
neither `config.yaml` nor an enabled row of `event_codes` knows look alike under
the default of `config.yaml`, so that the backend does not decide to notify of a
change from one to another (`UnknownCodesLookAlike`); the console still adds a line
for the event. `zones_changed` and `objects_changed` are equality of sets if no key
is double (`ChangedIsSeen`), which `NumbersAreUnique` promises unless creates race,
and miss a change otherwise (`DuplicatesHideChanges`). Once `test_runs` has a row,
what the console lists of a user's preferences is what decides, with exactly two
exceptions (`ListedIsTold`, and below).

Only model-checked: everything under fairness (`Answered`, `Finishes`,
`RunsAreSaved`, `ProductionReturns`, `PollersFollow`, `ConfirmedChangesReach`,
`ZonesFollow`, `StatusesFollow`, `BroadcastsEnd`), as liveness and ENABLED are
beyond the prover, and the four counterexamples. No theorem is by induction over
data, and no module declares a RECURSIVE operator.

## Behaviour the properties set aside

These properties would be false without a premise. The behaviour is in the
models; the premise that excludes it is named.

- **Two publishers collide** (`mqtt_publisher.py` 64–91). Both fail on one lost
  connection, one closes the client the other has just opened or takes its
  identifier: a publication fails after a single loss. `OneLossIsRetried` of
  `MqttPublisher` speaks of calls in `alone`.
- **Two creates at once double a zone number** (`main.py` 1146). Every later
  lookup of that zone raises, events included. `NumbersAreUnique` excuses `raced`.
- **Two administrators delete each other** (`main.py` 976). Both count two; none
  remains, and no API call brings one back while the default name is taken.
  `SomeAdministrator` excuses `unguarded`, as it does edits of a user, which are
  not checked at all.
- **Two diagnostics start at once** (`main.py` 645). The second finds no task, as
  the first still inserts its row. `OneRun` excuses `raced`.
- **A polled object stays "offline"**. After an error the poll loop closes the
  reader and says "offline"; a command that connects the reader before the next
  cycle (edge `main.py` 423) makes that cycle skip the branch that says "online"
  (274). `ReadIsOnline` excuses `lent`.
- **A switch of the mode is not heard** (`main.py` 487–489). The file is written
  first: a publication that raises answers 500 and leaves it, `admin_status`
  names a mode nobody runs in, and no restart follows. A restart asked for while
  the agent starts, or after its listener heard one or failed, reaches nobody. A
  change of the source starts the program anew in the mode its shell had.
  `SwitchIsRead` excuses `missed`.
- **An event falls between answer and WebSocket**. It was committed after the
  zones were read and broadcast before the WebSocket was accepted, or while the
  browser was disconnected: it is shown only when the object is selected again.
  Lines 33–35 of the console's README let one expect otherwise. `EventsAreShown`
  excuses versions up to `since`, and waits until no request for zones is under
  way, as an answer replaces what is shown.
- **An event lands in another object's list** (`app.js` 482–499). A refused
  request leaves the list of the object selected before, and the answer of an
  older selection replaces that of the newer one. The WebSocket is the selected
  object's in both cases, and `updateZoneCard` writes its events to the card of
  the same number, under the other object's zone name. `EventsAreShown` says
  that the event is shown; that it is shown in its own list, `astray` excuses.
- **One call writes more than once** (`modbus_reader.py` 27–41, 124). The clients
  are made without `retries=`, and pymodbus 3.7.4 then sends a request up to three
  times again when its answer does not come in time. A command that is published
  twice may reach its register eight times, and one that "failed" may have
  reached it. `DuplicatesBounded` bounds calls by two and writes by
  `2 * MaxSends`.
- **A slow browser delays all others**. `broadcast` sends to one after the other
  and the worker waits: `BroadcastsEnd` relies on the connection being dropped
  in the end.

Deterministic behaviour met while modelling, for which no exploration is needed:

- The agent's reads are answered 403. The comment at `main.py` 366 promises them
  ("Edge Agent uses a dedicated shared secret for internal read-only API access");
  the agent passes the first check without a user, and then has no permissions
  (407).
- `mqtt_worker.py` 128 calls `notify_event_users`, which the module does not
  import: the exception follows the commit and is logged.
- Every part of the pattern that counts tests is optional (`main.py` 599), so it
  matches the empty string at the start of pytest's output: a run that passed has
  total 0. `get_test_results` (1527) turns total 0 into "not_run", also while a run
  goes on, and the console then announces success at its first poll (`app.js`
  969). A row of `test_runs` that a restart cut short says "running" for good:
  `lifespan` repairs the file only.
- `list_notification_preferences` selects from `test_runs` without joining it
  (`main.py` 994): while that table is empty, stored preferences are listed as
  defaults. Without stored preferences "info" is listed as off but told.
  Preferences outlive the access they were stored under: the object is not
  listed any more (988–991) and the PUT that would change them is refused (1012),
  but they still decide, and their row alone suffices to be told
  (`notifications.py` 80). `ListedIsTold` has the last two as its exceptions.
- The console shows a command twice: the answer to its POST is put in front of
  the list whether or not the broadcast of "sent" did so already (`app.js`
  1113–1119); and every status other than "executed" is announced as an error,
  "sent" included (around 626).
- `agent_status` messages over the WebSocket carry no `updated_at`, so the
  console calls such an agent stale until `loadObjects` asks again.
- Sessions expire by two settings, `SESSION_TTL_HOURS` in the database and
  `auth_session_ttl_hours` in the cookie (`auth.py` 11).

## Not modelled

Wording of logs and details; TLS; the contents of messages beyond what the
properties tell apart; passwords and access lists; statistics and exports, which
only read. The names of a zone stand for all its columns. `notify_event_users`
is left out where the worker calls it, as that call raises; who it would tell is in
`EventRules`. Creating, changing and deleting an event code is one lookup and one
commit. `import_users` is modelled as updates of one user; that it is one
transaction over many is not. Identity of a zone that is deleted and created
again with the same number is not visible to `EdgePoller`. Of the console,
`LiveView` has the zones and statuses of the selected object; its lists of
commands and events, statistics, forms and rendering are left out.
Configuration, schemas, migrations, deployment and release scripts are
declarations or sequential scripts without state of their own.

## Plan

Done: the core, the runs and proofs above. Next, in this order:

1. An abstract specification of the poller's events ("the backend is told each
   change in order"), with a refinement; the identity of a zone that is deleted and created again.
2. `Accounts`: object access lists, change of password, `import_users` as one
   transaction, notification preferences.
3. The console's list of commands, composed with `CommandLifecycle`'s broadcasts;
   its polling of diagnostics composed with `Diagnostics`.
4. Proofs of the refinements of item 1, and that `SharedClient` and `MqttPublisher`
   keep the protocol of a publication that `CommandLifecycle` and `EdgePoller`
   assume ("delivered or not, at most twice").
