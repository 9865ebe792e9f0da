-------------------------- MODULE MqttClientsProofs ---------------------------
(***************************************************************************)
(* Proofs about the two MQTT clients, SharedClient of the backend and      *)
(* MqttPublisher of the agent, for any number of requests, of callers and  *)
(* of failures.                                                            *)
(***************************************************************************)
EXTENDS MqttClients, FiniteSetTheorems, TLAPS

(* Who keeps the lock across an await is connecting or closing, and the    *)
(* other way round.                                                        *)
LockIsHeld ==
  \A r \in Requests : req[r].pc \in {"connecting", "closing"} <=> lock = r

(* Requests that use a client have one. *)
ClientIsUsed ==
  \A r \in Requests :
    req[r].pc \in {"publishing", "reset", "closing"} => req[r].client # 0

(* What is open: the shared client while the lock is free, the client that *)
(* is being closed while it is held.                                       *)
OpenIsKnown ==
  /\ lock = Nobody => open = {shared} \ {0}
  /\ lock # Nobody => shared = 0
  /\ \A r \in Requests : req[r].pc = "connecting" => open = {}
  /\ \A r \in Requests : req[r].pc = "closing" => open = {req[r].client}

IInv == TypeOK /\ LockIsHeld /\ ClientIsUsed /\ OpenIsKnown

(* What the end of a failed attempt does to the requests. *)
LEMMA AgainStep ==
  ASSUME TypeOK, NEW r \in Requests, Again(r)
  PROVE  /\ req' \in [Requests -> [pc : Stages, try : {1, 2}, client : 0 .. opened]]
         /\ \A s \in Requests : s # r => req'[s] = req[s]
         /\ req'[r].try = 2 /\ req'[r].client = req[r].client
         /\ req'[r].pc = IF req[r].try = 1 THEN "get" ELSE "failed"
BY DEF TypeOK, Again, Stages

LEMMA InitIInv == Init => IInv
BY ClientAssumption DEF Init, IInv, TypeOK, LockIsHeld, ClientIsUsed, OpenIsKnown, Stages

LEMMA NextIInv == IInv /\ [Next]_vars => IInv'
<1> SUFFICES ASSUME IInv, [Next]_vars PROVE IInv'
  OBVIOUS
<1> USE ClientAssumption DEF IInv, TypeOK, LockIsHeld, ClientIsUsed, OpenIsKnown, Stages, clients
<1>1. ASSUME NEW r \in Requests, Request(r) PROVE IInv'
  BY <1>1 DEF Request, Go
<1>2. ASSUME NEW r \in Requests, GetClient(r) PROVE IInv'
  BY <1>2 DEF GetClient, Go, Use
<1>3. ASSUME NEW r \in Requests, Connected(r) PROVE IInv'
  BY <1>3 DEF Connected, Use
<1>4. ASSUME NEW r \in Requests, ConnectError(r) PROVE IInv'
  BY <1>4 DEF ConnectError, Go
<1>5. ASSUME NEW r \in Requests, Published(r) PROVE IInv'
  BY <1>5 DEF Published, Go
<1>6. ASSUME NEW r \in Requests, PublishError(r) PROVE IInv'
  BY <1>6 DEF PublishError, Go
<1>7. ASSUME NEW r \in Requests, ResetClient(r) PROVE IInv'
  <2>1. CASE shared # req[r].client
    <3>1. Again(r) /\ UNCHANGED <<shared, opened, open, alive, lock, losses, refused>>
      BY <1>7, <2>1 DEF ResetClient
    <3> QED
      BY <1>7, <3>1, AgainStep DEF ResetClient
  <2>2. CASE shared = req[r].client
    BY <1>7, <2>2 DEF ResetClient, Go
  <2> QED
    BY <2>1, <2>2
<1>8. ASSUME NEW r \in Requests, ClientClosed(r) PROVE IInv'
  <2>1. lock = r /\ shared = 0 /\ open = {req[r].client}
    BY <1>8 DEF ClientClosed
  <2>2. open' = {} /\ alive' = {} /\ lock' = Nobody /\ shared' = 0
    BY <1>8, <2>1 DEF ClientClosed
  <2>3. TypeOK'
    <3>1. req' \in [Requests -> [pc : Stages, try : {1, 2}, client : 0 .. opened]]
      BY <1>8, AgainStep DEF ClientClosed
    <3>2. UNCHANGED <<shared, opened, losses, refused>>
      BY <1>8 DEF ClientClosed
    <3> QED
      BY <2>2, <3>1, <3>2
  <2>4. \A s \in Requests : req'[s].pc \notin {"connecting", "closing"}
    BY <1>8, <2>1, AgainStep DEF ClientClosed
  <2>5. ClientIsUsed'
    BY <1>8, AgainStep DEF ClientClosed
  <2> QED
    BY <2>2, <2>3, <2>4, <2>5
<1>9. ASSUME NEW c \in alive, LoseConnection(c) PROVE IInv'
  BY <1>9 DEF LoseConnection
<1>10. CASE Close
  BY <1>10 DEF Close
<1>11. CASE UNCHANGED vars
  BY <1>11 DEF vars
<1> QED
  BY <1>1, <1>2, <1>3, <1>4, <1>5, <1>6, <1>7, <1>8, <1>9, <1>10, <1>11 DEF Next, Step

LEMMA IInvHolds == Spec => []IInv
<1>1. QED
  BY InitIInv, NextIInv, PTL DEF Spec

(* Every reachable state has the types of the code's variables. *)
THEOREM TypeCorrect == Spec => []TypeOK
<1>1. IInv => TypeOK
  BY DEF IInv
<1> QED
  BY <1>1, IInvHolds, PTL

(* However many requests there are and however many fail at once, the      *)
(* backend holds at most one connection for its commands.                  *)
THEOREM OneConnectionHolds == Spec => []OneConnection
<1>1. IInv => OneConnection
  <2> SUFFICES ASSUME IInv PROVE OneConnection
    OBVIOUS
  <2> USE ClientAssumption DEF IInv, TypeOK, LockIsHeld, OpenIsKnown
  <2>1. open = {} \/ \E c \in Nat : open = {c}
    <3>1. CASE lock = Nobody
      BY <3>1
    <3>2. CASE lock \in Requests
      <4>1. req[lock].pc \in {"connecting", "closing"}
        BY <3>2
      <4> QED
        BY <3>2, <4>1
    <3> QED
      BY <3>1, <3>2
  <2>2. Cardinality(open) <= 1
    <3>1. CASE open = {}
      BY <3>1, FS_EmptySet
    <3>2. ASSUME NEW c \in Nat, open = {c} PROVE Cardinality(open) <= 1
      BY <3>2, FS_Singleton
    <3> QED
      BY <2>1, <3>1, <3>2
  <2>3. ASSUME NEW c \in open
        PROVE  c = shared \/ \E r \in Requests : req[r].pc = "closing" /\ req[r].client = c
    <3>1. CASE lock = Nobody
      BY <3>1
    <3>2. CASE lock \in Requests
      <4>1. req[lock].pc \in {"connecting", "closing"}
        BY <3>2
      <4>2. req[lock].pc # "connecting"
        BY <3>2
      <4> QED
        BY <3>2, <4>1, <4>2
    <3> QED
      BY <3>1, <3>2
  <2> QED
    BY <2>2, <2>3 DEF OneConnection
<1> QED
  BY <1>1, IInvHolds, PTL

-------------------------------------------------------------------------------
(* Before the first failure every client in use works. *)
Unharmed ==
  losses = 0 =>
    /\ open \subseteq alive
    /\ \A r \in Requests :
         /\ req[r].try = 1
         /\ req[r].pc \notin {"reset", "closing", "failed"}
         /\ req[r].pc = "publishing" => req[r].client \in alive

(* After one failure, that of client b: only a first attempt fails, with   *)
(* b, and whoever tries again meets another client, which works.           *)
Harmed(b) ==
  /\ shared \in {0, b} \cup alive
  /\ \A r \in Requests :
       /\ req[r].pc # "failed"
       /\ req[r].pc \in {"reset", "closing"} => req[r].client = b /\ req[r].try = 1
       /\ req[r].pc = "publishing" =>
            \/ req[r].client = b /\ req[r].try = 1
            \/ req[r].client \in alive \ {b}
       /\ req[r].try = 2 => shared # b

OnlyOneIsHarmed == losses = 1 => \E b \in 1 .. opened : Harmed(b)

LossInv == refused = 0 => Unharmed /\ OnlyOneIsHarmed

LEMMA InitLossInv == Init => LossInv
BY DEF Init, LossInv, Unharmed, OnlyOneIsHarmed

LEMMA NextLossInv == IInv /\ LossInv /\ [Next]_vars => LossInv'
<1> SUFFICES ASSUME IInv, LossInv, [Next]_vars, refused' = 0
             PROVE  Unharmed' /\ OnlyOneIsHarmed'
  BY DEF LossInv
<1> USE ClientAssumption DEF IInv, TypeOK, LockIsHeld, ClientIsUsed, OpenIsKnown, Stages, clients
<1>0. Unharmed /\ OnlyOneIsHarmed
  <2>1. refused = 0
    BY DEF Next, Step, Request, GetClient, Connected, ConnectError, Published, PublishError,
           ResetClient, ClientClosed, LoseConnection, Close, vars
  <2> QED
    BY <2>1 DEF LossInv
<1>1. ASSUME NEW r \in Requests, Request(r) PROVE Unharmed' /\ OnlyOneIsHarmed'
  BY <1>0, <1>1 DEF Request, Go, Unharmed, OnlyOneIsHarmed, Harmed
<1>2. ASSUME NEW r \in Requests, GetClient(r) PROVE Unharmed' /\ OnlyOneIsHarmed'
  BY <1>0, <1>2 DEF GetClient, Go, Use, Unharmed, OnlyOneIsHarmed, Harmed
<1>3. ASSUME NEW r \in Requests, Connected(r) PROVE Unharmed' /\ OnlyOneIsHarmed'
  BY <1>0, <1>3 DEF Connected, Use, Unharmed, OnlyOneIsHarmed, Harmed
<1>4. ASSUME NEW r \in Requests, ConnectError(r) PROVE Unharmed' /\ OnlyOneIsHarmed'
  BY <1>4 DEF ConnectError
<1>5. ASSUME NEW r \in Requests, Published(r) PROVE Unharmed' /\ OnlyOneIsHarmed'
  BY <1>0, <1>5 DEF Published, Go, Unharmed, OnlyOneIsHarmed, Harmed
<1>6. ASSUME NEW r \in Requests, PublishError(r) PROVE Unharmed' /\ OnlyOneIsHarmed'
  BY <1>0, <1>6 DEF PublishError, Go, Unharmed, OnlyOneIsHarmed, Harmed
<1>7. ASSUME NEW r \in Requests, ResetClient(r) PROVE Unharmed' /\ OnlyOneIsHarmed'
  <2>1. CASE shared # req[r].client
    <3>1. Again(r) /\ UNCHANGED <<shared, opened, open, alive, lock, losses, refused>>
      BY <1>7, <2>1 DEF ResetClient
    <3> QED
      BY <1>0, <1>7, <3>1, AgainStep DEF ResetClient, Unharmed, OnlyOneIsHarmed, Harmed
  <2>2. CASE shared = req[r].client
    BY <1>0, <1>7, <2>2 DEF ResetClient, Go, Unharmed, OnlyOneIsHarmed, Harmed
  <2> QED
    BY <2>1, <2>2
<1>8. ASSUME NEW r \in Requests, ClientClosed(r) PROVE Unharmed' /\ OnlyOneIsHarmed'
  BY <1>0, <1>8, AgainStep DEF ClientClosed, Unharmed, OnlyOneIsHarmed, Harmed
<1>9. ASSUME NEW c \in alive, LoseConnection(c) PROVE Unharmed' /\ OnlyOneIsHarmed'
  BY <1>0, <1>9 DEF LoseConnection, Unharmed, OnlyOneIsHarmed, Harmed
<1>10. CASE Close
  BY <1>0, <1>10 DEF Close, Unharmed, OnlyOneIsHarmed, Harmed
<1>11. CASE UNCHANGED vars
  BY <1>0, <1>11 DEF vars, Unharmed, OnlyOneIsHarmed, Harmed
<1> QED
  BY <1>1, <1>2, <1>3, <1>4, <1>5, <1>6, <1>7, <1>8, <1>9, <1>10, <1>11 DEF Next, Step

(* One lost connection or late answer costs no command, however many       *)
(* requests are in flight with the client that failed.                     *)
THEOREM OneLossIsAlwaysRetried == Spec => []OneLossIsRetried
<1>1. IInv /\ LossInv => OneLossIsRetried
  BY DEF IInv, TypeOK, LossInv, Unharmed, OnlyOneIsHarmed, Harmed, OneLossIsRetried
<1>2. Spec => []LossInv
  BY InitLossInv, NextLossInv, IInvHolds, PTL DEF Spec
<1> QED
  BY <1>1, <1>2, IInvHolds, PTL

-------------------------------------------------------------------------------
(* The agent's publisher.  The client that a call closes is out of _client, *)
(* for whoever opened a client later has another one.                       *)
ClosingIsOut ==
  \A p \in Callers : call[p].pc = "closing" => call[p].client # 0 /\ call[p].client # slot

AgentInv == Agent!TypeOK /\ Agent!SlotIsOpen /\ ClosingIsOut

(* A client that died while it was offered was lost. *)
LostWasCounted == slot # 0 /\ slot \notin up => lost >= 1

(* A call that nobody joined meets only its own client.  Its n-th failed    *)
(* attempt is the n-th failure that was counted.                            *)
Served(p) ==
  LET c == call[p]
      failures == lost + rejected
  IN  /\ c.pc = "connecting" => slot = 0
      /\ c.pc = "publishing" => slot # 0 /\ c.client = slot
      /\ c.pc = "closing" => slot = 0
      /\ c.try = 2 \/ c.pc = "closing" => failures >= 1
      /\ c.pc = "failed" => failures >= 2
      /\ c.try = 2 /\ c.pc = "publishing" /\ c.client \notin up => failures >= 2
      /\ c.try = 2 /\ c.pc = "closing" => failures >= 2

AloneIsServed ==
  \A p \in alone : (\A q \in Callers \ {p} : q \in Agent!Resting) /\ Served(p)

AloneInv == AgentInv /\ LostWasCounted /\ AloneIsServed

LEMMA InitAloneInv ==
  ASSUME Agent!PublisherAssumption, Agent!Init
  PROVE  AloneInv
BY DEF Agent!PublisherAssumption, Agent!Init, AloneInv, AgentInv, Agent!TypeOK, Agent!Stages,
       Agent!SlotIsOpen, ClosingIsOut, LostWasCounted, AloneIsServed

(* What a failed attempt leaves of its call: the next attempt, or the client *)
(* to close first.                                                          *)
LEMMA DropStep ==
  ASSUME Agent!TypeOK, NEW p \in Callers, Agent!Drop(p)
  PROVE  /\ slot' = 0
         /\ call' \in [Callers -> [pc : Agent!Stages, try : {1, 2}, client : 0 .. made]]
         /\ \A q \in Callers : q # p => call'[q] = call[q]
         /\ slot # 0 => /\ call'[p].pc = "closing" /\ call'[p].client = slot
                        /\ call'[p].try = call[p].try
         /\ slot = 0 => IF call[p].try = 1
                        THEN call'[p].pc = "connecting" /\ call'[p].try = 2
                        ELSE call'[p].pc = "failed" /\ call'[p].try = 2
<1> USE DEF Agent!TypeOK, Agent!Stages
<1>1. CASE slot = 0
  BY <1>1 DEF Agent!Drop, Agent!Again, Agent!Attempt
<1>2. CASE slot # 0
  BY <1>2 DEF Agent!Drop
<1> QED
  BY <1>1, <1>2

LEMMA NextAgentInv ==
  ASSUME Agent!PublisherAssumption, AgentInv, [Agent!Next]_(Agent!vars)
  PROVE  AgentInv'
<1> USE DEF Agent!PublisherAssumption, AgentInv, Agent!TypeOK, Agent!Stages, Agent!SlotIsOpen,
            ClosingIsOut
<1>1. ASSUME NEW p \in Callers, Agent!Publish(p) PROVE AgentInv'
  BY <1>1 DEF Agent!Publish, Agent!Attempt
<1>2. ASSUME NEW p \in Callers, Agent!Connected(p) PROVE AgentInv'
  BY <1>2 DEF Agent!Connected
<1>3. ASSUME NEW p \in Callers, Agent!ConnectError(p) PROVE AgentInv'
  BY <1>3, DropStep DEF Agent!ConnectError
<1>4. ASSUME NEW p \in Callers, Agent!Published(p) PROVE AgentInv'
  BY <1>4 DEF Agent!Published
<1>5. ASSUME NEW p \in Callers, Agent!PublishError(p) PROVE AgentInv'
  BY <1>5, DropStep DEF Agent!PublishError
<1>6. ASSUME NEW p \in Callers, Agent!Disconnected(p) PROVE AgentInv'
  BY <1>6 DEF Agent!Disconnected, Agent!Again, Agent!Attempt
<1>7. ASSUME NEW c \in up, Agent!LoseConnection(c) PROVE AgentInv'
  BY <1>7 DEF Agent!LoseConnection
<1>8. CASE UNCHANGED Agent!vars
  BY <1>8 DEF Agent!vars
<1> QED
  BY <1>1, <1>2, <1>3, <1>4, <1>5, <1>6, <1>7, <1>8 DEF Agent!Next, Agent!Step

(* A step of a caller that is not resting leaves nobody alone but itself. *)
LEMMA OthersAreNotAlone ==
  ASSUME AloneIsServed, alone \subseteq Callers, NEW p \in Callers, p \notin Agent!Resting,
         NEW q \in alone
  PROVE  q = p
BY DEF AloneIsServed

LEMMA NextAloneInv ==
  ASSUME Agent!PublisherAssumption, AloneInv, [Agent!Next]_(Agent!vars)
  PROVE  AloneInv'
<1>0. AgentInv'
  BY NextAgentInv DEF AloneInv
<1> SUFFICES LostWasCounted' /\ AloneIsServed'
  BY <1>0 DEF AloneInv
<1>a. /\ lost \in Nat /\ rejected \in Nat /\ lost' \in Nat /\ rejected' \in Nat
      /\ made \in Nat \ {0} /\ alone \subseteq Callers /\ slot \in 0 .. made
      /\ up \subseteq 1 .. made
      /\ call \in [Callers -> [pc : Agent!Stages, try : {1, 2}, client : 0 .. made]]
  BY <1>0 DEF AloneInv, AgentInv, Agent!TypeOK, Agent!PublisherAssumption
<1>c. Agent!TypeOK
  BY DEF AloneInv, AgentInv
<1>b. ClosingIsOut /\ LostWasCounted /\ AloneIsServed
  BY DEF AloneInv, AgentInv
<1> USE DEF Agent!Stages
<1>1. ASSUME NEW p \in Callers, Agent!Publish(p) PROVE LostWasCounted' /\ AloneIsServed'
  BY <1>a, <1>b, <1>1
     DEF Agent!Publish, Agent!Attempt, Agent!Resting, LostWasCounted, AloneIsServed, Served
<1>2. ASSUME NEW p \in Callers, Agent!Connected(p) PROVE LostWasCounted' /\ AloneIsServed'
  BY <1>a, <1>b, <1>2
     DEF Agent!Connected, Agent!Resting, LostWasCounted, AloneIsServed, Served
<1>3. ASSUME NEW p \in Callers, Agent!ConnectError(p) PROVE LostWasCounted' /\ AloneIsServed'
  BY <1>a, <1>b, <1>3, <1>c, DropStep
     DEF Agent!ConnectError, Agent!Resting,
         LostWasCounted, AloneIsServed, Served
<1>4. ASSUME NEW p \in Callers, Agent!Published(p) PROVE LostWasCounted' /\ AloneIsServed'
  BY <1>a, <1>b, <1>4
     DEF Agent!Published, Agent!Resting, LostWasCounted, AloneIsServed, Served
<1>5. ASSUME NEW p \in Callers, Agent!PublishError(p) PROVE LostWasCounted' /\ AloneIsServed'
  <2>1. Agent!Drop(p) /\ call[p].pc = "publishing" /\ UNCHANGED <<made, up, rejected, alone>>
    BY <1>5 DEF Agent!PublishError
  <2>2. (lost' = lost /\ call[p].client \notin up) \/ lost' = lost + 1
    BY <1>5 DEF Agent!PublishError
  <2>3. LostWasCounted'
    BY <1>c, <2>1, DropStep DEF LostWasCounted
  <2>4. AloneIsServed'
    <3> SUFFICES ASSUME NEW q \in alone
                 PROVE  (\A o \in Callers \ {q} : (o \in Agent!Resting)') /\ Served(q)'
      BY <2>1 DEF AloneIsServed
    <3>1. q = p
      BY <1>a, <1>b, <2>1, OthersAreNotAlone DEF Agent!Resting
    <3>2. \A o \in Callers \ {q} : (o \in Agent!Resting)'
      BY <1>b, <1>c, <2>1, <3>1, DropStep DEF AloneIsServed, Agent!Resting
    <3>3. Served(p) /\ call[p].client = slot /\ slot # 0
      BY <1>b, <2>1, <3>1 DEF AloneIsServed, Served
    <3>4. /\ call'[p].pc = "closing" /\ call'[p].try = call[p].try
      BY <1>c, <2>1, <3>3, DropStep
    <3>5. /\ lost' + rejected' >= 1
          /\ call[p].try = 2 => lost' + rejected' >= 2
      <4>1. /\ call[p].try = 2 => lost + rejected >= 1
            /\ call[p].client \notin up => lost >= 1
            /\ call[p].try = 2 /\ call[p].client \notin up => lost + rejected >= 2
        BY <1>b, <2>1, <3>3 DEF Served, LostWasCounted
      <4>2. CASE lost' = lost /\ call[p].client \notin up
        BY <1>a, <2>1, <4>1, <4>2
      <4>3. CASE lost' = lost + 1
        BY <1>a, <2>1, <4>1, <4>3
      <4> QED
        BY <2>2, <4>2, <4>3
    <3>6. slot' = 0
      BY <1>c, <2>1, DropStep
    <3> QED
      BY <3>1, <3>2, <3>4, <3>5, <3>6 DEF Served
  <2> QED
    BY <2>3, <2>4
<1>6. ASSUME NEW p \in Callers, Agent!Disconnected(p) PROVE LostWasCounted' /\ AloneIsServed'
  BY <1>a, <1>b, <1>6
     DEF Agent!Disconnected, Agent!Again, Agent!Attempt, Agent!Resting,
         LostWasCounted, AloneIsServed, Served, ClosingIsOut
<1>7. ASSUME NEW c \in up, Agent!LoseConnection(c) PROVE LostWasCounted' /\ AloneIsServed'
  BY <1>a, <1>b, <1>7
     DEF Agent!LoseConnection, Agent!Resting, LostWasCounted, AloneIsServed, Served
<1>8. CASE UNCHANGED Agent!vars
  BY <1>b, <1>8 DEF Agent!vars, Agent!Resting, LostWasCounted, AloneIsServed, Served
<1> QED
  BY <1>1, <1>2, <1>3, <1>4, <1>5, <1>6, <1>7, <1>8 DEF Agent!Next, Agent!Step

(* Whichever program runs, the agent's variables follow the agent's code.  *)
LEMMA EitherIsAgent == EitherSpec => Agent!Spec
<1>1. EitherInit => Agent!Init
  BY DEF EitherInit
<1>2. [EitherNext]_<<vars, agentVars, program>> => [Agent!Next]_(Agent!vars)
  BY DEF EitherNext, vars, agentVars, Agent!vars
<1> QED
  BY <1>1, <1>2, PTL DEF EitherSpec, Agent!Spec

LEMMA AloneInvHolds == Agent!Spec => []AloneInv
<1>1. Agent!Init => AloneInv
  BY InitAloneInv, AgentAssumption
<1>2. AloneInv /\ [Agent!Next]_(Agent!vars) => AloneInv'
  BY NextAloneInv, AgentAssumption
<1> QED
  BY <1>1, <1>2, PTL DEF Agent!Spec

(* The agent's publisher, which takes no lock, still never offers a closed *)
(* client, however many coroutines publish and whatever fails.             *)
THEOREM AgentSlotIsOpen == EitherSpec => []SlotIsOpen
<1>1. AloneInv => SlotIsOpen
  BY DEF AloneInv, AgentInv, SlotIsOpen
<1> QED
  BY <1>1, EitherIsAgent, AloneInvHolds, PTL

(* One failure costs the agent no publication that no other joined,        *)
(* whatever earlier collisions left in _client.                            *)
THEOREM AgentOneLossIsAlwaysRetried == EitherSpec => []AgentOneLossIsRetried
<1>1. AloneInv => AgentOneLossIsRetried
  <2> SUFFICES ASSUME AloneInv, lost + rejected <= 1, NEW p \in alone, call[p].pc = "failed"
               PROVE  FALSE
    BY DEF AgentOneLossIsRetried, Agent!OneLossIsRetried
  <2>1. lost + rejected >= 2
    BY DEF AloneInv, AloneIsServed, Served
  <2>2. lost \in Nat /\ rejected \in Nat
    BY AgentAssumption DEF AloneInv, AgentInv, Agent!TypeOK, Agent!PublisherAssumption
  <2> QED
    BY <2>1, <2>2
<1> QED
  BY <1>1, EitherIsAgent, AloneInvHolds, PTL
===============================================================================
