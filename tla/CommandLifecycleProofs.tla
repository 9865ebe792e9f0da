------------------------ MODULE CommandLifecycleProofs ------------------------
(***************************************************************************)
(* Proofs about CommandLifecycle for every set of commands and zones,      *)
(* every set of faults and every bound.  The argument: the journal row is  *)
(* committed before the first publication (the request has left "idle"     *)
(* exactly when its row exists), so everything downstream belongs to a     *)
(* row; and "executed" travels from the write to the row through edge.pc   *)
(* and through the ack, both of which imply that the write happened.       *)
(***************************************************************************)
EXTENDS CommandLifecycle, SequenceTheorems, FiniteSetTheorems, TLAPS

(* What the broker's queues do to the messages they hold. *)

(* Delivery keeps a queue a queue and adds at most the message. *)
LEMMA DeliverElements ==
  ASSUME NEW S, NEW q \in Seq(S), NEW m \in S, NEW present \in BOOLEAN
  PROVE  /\ Deliver(q, m, present) \in Seq(S)
         /\ Range(Deliver(q, m, present)) \subseteq Range(q) \cup {m}
<1>1. CASE present
  BY <1>1, AppendProperties DEF Deliver, Range
<1>2. CASE ~present
  BY <1>2 DEF Deliver
<1> QED BY <1>1, <1>2

(* Taking the first message: it was in the queue, and so is what stays. *)
LEMMA TakeElements ==
  ASSUME NEW S, NEW q \in Seq(S), q # <<>>
  PROVE  /\ Head(q) \in S
         /\ Head(q) \in Range(q)
         /\ Tail(q) \in Seq(S)
         /\ Range(Tail(q)) \subseteq Range(q)
<1>1. /\ Head(q) \in S
      /\ Tail(q) \in Seq(S)
      /\ Len(q) \in Nat \ {0}
      /\ DOMAIN q = 1..Len(q)
      /\ Head(q) = q[1]
  BY LenProperties, HeadTailProperties, EmptySeq
<1>2. \A i \in DOMAIN Tail(q) : i + 1 \in DOMAIN q /\ Tail(q)[i] = q[i + 1]
  BY <1>1, HeadTailProperties
<1> QED BY <1>1, <1>2 DEF Range

(* What is kept of a queue was in it. *)
LEMMA KeptElements ==
  ASSUME NEW S, NEW q \in Seq(S), NEW k \in Kept(q)
  PROVE  k \in Seq(S) /\ Range(k) \subseteq Range(q)
<1>1. PICK n \in 0..Len(q) : k = SubSeq(q, 1, n)
  BY DEF Kept
<1>2. Len(q) \in Nat /\ DOMAIN q = 1..Len(q)
  BY LenProperties
<1>3. k \in Seq(S)
  BY <1>1, <1>2, SubSeqProperties
<1>4. DOMAIN k = 1..n /\ \A i \in 1..n : k[i] = q[i]
  BY <1>1, <1>2, <1>3, SubSeqProperties
<1>5. Range(k) \subseteq Range(q)
  BY <1>2, <1>4 DEF Range
<1> QED BY <1>3, <1>5

-------------------------------------------------------------------------------

(* A request has left "idle" exactly when its row exists. *)
RowIffRequested ==
  \A c \in Commands : handler[c] = "idle" <=> status[c] = "none"

(* Every claim of success under way stands for a write that happened. *)
ClaimsAreTrue ==
  /\ edge.pc = "executed" => writes[edge.cmd] > 0
  /\ \A a \in Range(acks) : a.status = "executed" => writes[a.cmd] > 0
  /\ ExecutedWasWritten

IInv == /\ TypeOK
        /\ RowIffRequested
        /\ LoggedFirst
        /\ ClaimsAreTrue
        /\ FinalIsCompleted

-------------------------------------------------------------------------------
LEMMA InitInv == Init => IInv
<1> SUFFICES ASSUME Init PROVE IInv
  OBVIOUS
<1> USE DEF Init
<1>1. Range(<<>>) = {} /\ \A S : <<>> \in Seq(S)
  BY EmptySeq DEF Range
<1>2. TypeOK
  BY <1>1 DEF TypeOK, Idle, HandlerStates, EdgeStates, Listeners
<1>3. RowIffRequested /\ FinalIsCompleted
  BY DEF RowIffRequested, FinalIsCompleted, Outcomes
<1>4. LoggedFirst /\ ClaimsAreTrue
  BY <1>1 DEF LoggedFirst, ClaimsAreTrue, ExecutedWasWritten, Idle
<1> QED BY <1>2, <1>3, <1>4 DEF IInv
(* The queues, seen by the invariant: what they may hold after a delivery,  *)
(* after a message is taken and after a connection is lost.                *)
LEMMA CommandDelivered ==
  ASSUME TypeOK, NEW c \in Commands, DeliverCommand(c)
  PROVE  wire' \in Seq(Commands) /\ Range(wire') \subseteq Range(wire) \cup {c}
BY DeliverElements DEF TypeOK, DeliverCommand

LEMMA AckDelivered ==
  ASSUME TypeOK, NEW a \in Acks, DeliverAck(a)
  PROVE  acks' \in Seq(Acks) /\ Range(acks') \subseteq Range(acks) \cup {a}
BY DeliverElements DEF TypeOK, DeliverAck

LEMMA RangeOfAcks ==
  ASSUME TypeOK
  PROVE  /\ Range(acks) \subseteq Acks /\ Range(wire) \subseteq Commands
         /\ \A a \in Range(acks) : a.cmd \in Commands
<1>1. Range(acks) \subseteq Acks /\ Range(wire) \subseteq Commands
  BY RangeOfSeq DEF TypeOK
<1> QED BY <1>1 DEF Acks

(* The listener's record, field by field. *)
LEMMA ListenerRecord ==
  /\ Idle \in Listeners /\ Idle.pc = "idle"
  /\ \A e \in Listeners :
       /\ e.pc \in EdgeStates
       /\ \A p \in EdgeStates :
            LET f == [e EXCEPT !.pc = p] IN
              f \in Listeners /\ f.pc = p /\ f.cmd = e.cmd
       /\ LET f == AfterAckError(e) IN
            /\ f \in Listeners
            /\ f.pc # "idle" => e.pc # "idle" /\ f.cmd = e.cmd
            /\ f.pc = "executed" => e.pc = "executed"
            /\ f.pc # "working" \/ e.pc = "working"
<1>1. Idle \in Listeners /\ Idle.pc = "idle"
  BY DEF Idle, Listeners, EdgeStates
<1>2. ASSUME NEW e \in Listeners
      PROVE  /\ e.pc \in EdgeStates
             /\ \A p \in EdgeStates :
                  LET f == [e EXCEPT !.pc = p] IN
                    f \in Listeners /\ f.pc = p /\ f.cmd = e.cmd
  BY <1>2 DEF Listeners
<1>3. ASSUME NEW e \in Listeners
      PROVE  LET f == AfterAckError(e) IN
               /\ f \in Listeners
               /\ f.pc # "idle" => e.pc # "idle" /\ f.cmd = e.cmd
               /\ f.pc = "executed" => e.pc = "executed"
               /\ f.pc # "working" \/ e.pc = "working"
  <2>1. CASE e.try = 1
    BY <1>3, <2>1 DEF Listeners, AfterAckError
  <2>2. CASE e.try # 1 /\ e.pc = "executed"
    <3> DEFINE g == [e EXCEPT !.pc = "failed"]
               f == [g EXCEPT !.try = 1]
    <3>1. g \in Listeners /\ g.pc = "failed" /\ g.cmd = e.cmd
      BY <1>2 DEF EdgeStates
    <3>2. \A h \in Listeners : LET k == [h EXCEPT !.try = 1] IN
             k \in Listeners /\ k.pc = h.pc /\ k.cmd = h.cmd
      BY DEF Listeners
    <3>3. AfterAckError(e) = f
      BY <2>2 DEF AfterAckError
    <3>4. f \in Listeners /\ f.pc = "failed" /\ f.cmd = e.cmd
      BY <3>1, <3>2
    <3> QED BY <2>2, <3>3, <3>4
  <2>3. CASE e.try # 1 /\ e.pc # "executed"
    BY <1>1, <1>3, <2>3 DEF AfterAckError
  <2> QED BY <2>1, <2>2, <2>3
<1> QED BY <1>1, <1>2, <1>3

-------------------------------------------------------------------------------
(* The request handler keeps the invariant. *)
LEMMA RequestStep ==
  ASSUME IInv, NEW c \in Commands, Request(c)
  PROVE  IInv'
<1> USE DEF IInv, TypeOK, RowIffRequested, LoggedFirst, ClaimsAreTrue,
       ExecutedWasWritten, FinalIsCompleted
<1> USE DEF journal, zoneVars, toEdge, toCore, HandlerStates, Publishing,
            Outcomes, EdgeStates
<1>0. /\ Range(acks) \subseteq Acks /\ Range(wire) \subseteq Commands
      /\ \A a \in Range(acks) : a.cmd \in Commands
  BY RangeOfAcks
<1>1. ASSUME NEW z \in Zones, Submit(c, z) PROVE IInv'
  BY <1>0, <1>1 DEF Submit
<1>2. CASE PublishCommand(c)
  BY <1>0, <1>2, CommandDelivered DEF PublishCommand
<1>3. CASE PublishCommandError(c)
  BY <1>0, <1>3, CommandDelivered DEF PublishCommandError
<1>4. CASE ConnectError(c)
  BY <1>0, <1>4 DEF ConnectError
<1>5. CASE RecordSent(c)
  BY <1>0, <1>5 DEF RecordSent
<1>6. CASE RecordUnsent(c)
  BY <1>0, <1>6 DEF RecordUnsent
<1> QED BY <1>1, <1>2, <1>3, <1>4, <1>5, <1>6 DEF Request
LEMMA ListenerStep == IInv /\ Listener => IInv'
<1> SUFFICES ASSUME IInv, Listener PROVE IInv'
  OBVIOUS
<1> USE DEF IInv, TypeOK, RowIffRequested, LoggedFirst, ClaimsAreTrue,
            ExecutedWasWritten, FinalIsCompleted
<1> USE DEF journal, zoneVars, toEdge, toCore, Outcomes, EdgeStates,
            HandlerStates
<1>0. /\ Range(acks) \subseteq Acks /\ Range(wire) \subseteq Commands
      /\ \A a \in Range(acks) : a.cmd \in Commands
  BY RangeOfAcks
<1>1. CASE Receive
  <2>1. /\ Head(wire) \in Commands
        /\ Head(wire) \in Range(wire)
        /\ Tail(wire) \in Seq(Commands)
        /\ Range(Tail(wire)) \subseteq Range(wire)
    BY <1>1, TakeElements DEF Receive
  <2>2. /\ edge' \in Listeners
        /\ edge'.cmd = Head(wire) /\ edge'.pc \in {"working", "missing"}
    BY <1>1, <2>1 DEF Receive, Listeners
  <2> QED BY <1>0, <1>1, <2>1, <2>2 DEF Receive
<1>2. CASE WriteRegister
  <2>1. /\ edge' \in Listeners /\ edge'.pc = "executed" /\ edge'.cmd = edge.cmd
        /\ edge.pc = "working"
    BY <1>2, ListenerRecord DEF WriteRegister
  <2>2. /\ writes' \in [Commands -> Nat]
        /\ \A c \in Commands :
             /\ writes[c] > 0 => writes'[c] > 0
             /\ writes'[c] > 0 => writes[c] > 0 \/ c = edge.cmd
        /\ writes'[edge.cmd] > 0
    <3>1. PICK n \in 1 .. MaxSends : Reach(n)
      BY <1>2 DEF WriteRegister
    <3>2. n \in Nat \ {0}
      BY <3>1, SendsAssumption
    <3> QED BY <2>1, <3>1, <3>2 DEF Reach
  <2>3. TypeOK'
    BY <1>0, <1>2, <2>1, <2>2 DEF WriteRegister
  <2>4. RowIffRequested' /\ FinalIsCompleted'
    BY <1>0, <1>2, <2>1, <2>2 DEF WriteRegister
  <2>5. LoggedFirst'
    BY <1>0, <1>2, <2>1, <2>2 DEF WriteRegister
  <2>6. ClaimsAreTrue'
    BY <1>0, <1>2, <2>1, <2>2 DEF WriteRegister
  <2> QED BY <2>3, <2>4, <2>5, <2>6
<1>3. CASE WriteError
  <2>1. /\ edge' \in Listeners /\ edge'.pc = "failed" /\ edge'.cmd = edge.cmd
        /\ edge.pc = "working"
    BY <1>3, ListenerRecord DEF WriteError
  <2>2. /\ writes' \in [Commands -> Nat]
        /\ \A c \in Commands :
             /\ writes[c] > 0 => writes'[c] > 0
             /\ writes'[c] > 0 => writes[c] > 0 \/ c = edge.cmd
    <3>1. PICK n \in 0 .. MaxSends : Reach(n)
      BY <1>3 DEF WriteError
    <3>2. n \in Nat
      BY <3>1, SendsAssumption
    <3> QED BY <2>1, <3>1, <3>2 DEF Reach
  <2>3. TypeOK'
    BY <1>0, <1>3, <2>1, <2>2 DEF WriteError
  <2>4. RowIffRequested' /\ FinalIsCompleted'
    BY <1>0, <1>3, <2>1, <2>2 DEF WriteError
  <2>5. LoggedFirst'
    BY <1>0, <1>3, <2>1, <2>2 DEF WriteError
  <2>6. ClaimsAreTrue'
    BY <1>0, <1>3, <2>1, <2>2 DEF WriteError
  <2> QED BY <2>3, <2>4, <2>5, <2>6
<1>4. ASSUME edge.pc \in {"missing", "executed", "failed"}
      PROVE  AckOf(edge) \in Acks
  BY <1>4 DEF AckOf, Acks
<1>5. CASE PublishAck
  <2>1. acks' \in Seq(Acks) /\ Range(acks') \subseteq Range(acks) \cup {AckOf(edge)}
    BY <1>4, <1>5, AckDelivered DEF PublishAck
  <2> QED BY <1>0, <1>5, <2>1, ListenerRecord DEF PublishAck, AckOf
<1>6. CASE PublishAckError
  <2>1. acks' \in Seq(Acks) /\ Range(acks') \subseteq Range(acks) \cup {AckOf(edge)}
    BY <1>4, <1>6, AckDelivered DEF PublishAckError
  <2>2. /\ edge' \in Listeners
        /\ edge'.pc # "idle" => edge.pc # "idle" /\ edge'.cmd = edge.cmd
        /\ edge'.pc = "executed" => edge.pc = "executed"
    BY <1>6, ListenerRecord DEF PublishAckError
  <2>3. /\ AckOf(edge).cmd = edge.cmd
        /\ AckOf(edge).status = "executed" => edge.pc = "executed"
    BY DEF AckOf
  <2>4. TypeOK'
    BY <1>6, <2>1, <2>2 DEF PublishAckError
  <2>5. RowIffRequested' /\ FinalIsCompleted'
    BY <1>6 DEF PublishAckError
  <2>6. LoggedFirst'
    BY <1>0, <1>6, <2>1, <2>2, <2>3 DEF PublishAckError
  <2>7. ClaimsAreTrue'
    BY <1>0, <1>6, <2>1, <2>2, <2>3 DEF PublishAckError
  <2> QED BY <2>4, <2>5, <2>6, <2>7
<1> QED BY <1>1, <1>2, <1>3, <1>5, <1>6 DEF Listener

LEMMA HandleAckStep == IInv /\ HandleAck => IInv'
<1> SUFFICES ASSUME IInv, HandleAck PROVE IInv'
  OBVIOUS
<1> USE DEF IInv, TypeOK, RowIffRequested, LoggedFirst, ClaimsAreTrue,
            ExecutedWasWritten, FinalIsCompleted
<1> USE DEF journal, zoneVars, toEdge, toCore, Outcomes, EdgeStates,
            HandlerStates
<1>0. /\ Range(acks) \subseteq Acks /\ Range(wire) \subseteq Commands
      /\ \A a \in Range(acks) : a.cmd \in Commands
  BY RangeOfAcks
<1>1. /\ Head(acks) \in Acks
      /\ Head(acks) \in Range(acks)
      /\ Tail(acks) \in Seq(Acks)
      /\ Range(Tail(acks)) \subseteq Range(acks)
  BY TakeElements DEF HandleAck
<1>2. Head(acks).cmd \in Commands /\ Head(acks).status \in Outcomes
  BY <1>1 DEF Acks
<1>3. TypeOK'
  BY <1>0, <1>1, <1>2 DEF HandleAck
<1>4. RowIffRequested'
  BY <1>0, <1>1, <1>2 DEF HandleAck
<1>5. LoggedFirst'
  BY <1>0, <1>1, <1>2 DEF HandleAck
<1>6. ClaimsAreTrue'
  BY <1>0, <1>1, <1>2 DEF HandleAck
<1>7. FinalIsCompleted'
  BY <1>0, <1>1, <1>2 DEF HandleAck
<1> QED BY <1>3, <1>4, <1>5, <1>6, <1>7

LEMMA EnvironmentStep == IInv /\ Environment => IInv'
<1> SUFFICES ASSUME IInv, Environment PROVE IInv'
  OBVIOUS
<1> USE DEF IInv, TypeOK, RowIffRequested, LoggedFirst, ClaimsAreTrue,
            ExecutedWasWritten, FinalIsCompleted
<1> USE DEF journal, zoneVars, toEdge, toCore, Outcomes, EdgeStates,
            HandlerStates
<1>0. /\ Range(acks) \subseteq Acks /\ Range(wire) \subseteq Commands
      /\ \A a \in Range(acks) : a.cmd \in Commands
  BY RangeOfAcks
<1>1. CASE \E z \in Zones : EditZones(z)
  BY <1>0, <1>1 DEF EditZones
<1>2. CASE RefreshZones
  BY <1>0, <1>2 DEF RefreshZones
<1>3. CASE EdgeDisconnect
  <2>1. wire' \in Seq(Commands) /\ Range(wire') \subseteq Range(wire)
    BY <1>3, KeptElements DEF EdgeDisconnect
  <2> QED BY <1>0, <1>3, <2>1 DEF EdgeDisconnect
<1>4. CASE EdgeSubscribe
  BY <1>0, <1>4 DEF EdgeSubscribe
<1>5. CASE CoreDisconnect
  <2>1. acks' \in Seq(Acks) /\ Range(acks') \subseteq Range(acks)
    BY <1>5, KeptElements DEF CoreDisconnect
  <2> QED BY <1>0, <1>5, <2>1 DEF CoreDisconnect
<1>6. CASE CoreSubscribe
  BY <1>0, <1>6 DEF CoreSubscribe
<1>7. Range(<<>>) = {} /\ <<>> \in Seq(Commands) /\ <<>> \in Seq(Acks)
  BY EmptySeq DEF Range
<1>8. CASE EdgeRestart
  <2>1. TypeOK'
    BY <1>0, <1>7, <1>8, ListenerRecord DEF EdgeRestart
  <2>2. RowIffRequested'
    BY <1>0, <1>7, <1>8, ListenerRecord DEF EdgeRestart
  <2>3. LoggedFirst'
    BY <1>0, <1>7, <1>8, ListenerRecord DEF EdgeRestart
  <2>4. ClaimsAreTrue'
    BY <1>0, <1>7, <1>8, ListenerRecord DEF EdgeRestart
  <2>5. FinalIsCompleted'
    BY <1>0, <1>7, <1>8, ListenerRecord DEF EdgeRestart
  <2> QED BY <2>1, <2>2, <2>3, <2>4, <2>5
<1>9. CASE CoreRestart
  BY <1>0, <1>7, <1>9 DEF CoreRestart
<1> QED BY <1>1, <1>2, <1>3, <1>4, <1>5, <1>6, <1>8, <1>9 DEF Environment

LEMMA NextInv == IInv /\ [Next]_vars => IInv'
<1> SUFFICES ASSUME IInv, [Next]_vars PROVE IInv'
  OBVIOUS
<1>1. ASSUME NEW c \in Commands, Request(c) PROVE IInv'
  BY <1>1, RequestStep
<1>2. CASE UNCHANGED vars
  BY <1>2 DEF vars, IInv, TypeOK, RowIffRequested, LoggedFirst, ClaimsAreTrue,
              ExecutedWasWritten, FinalIsCompleted
<1> QED BY <1>1, <1>2, ListenerStep, HandleAckStep, EnvironmentStep DEF Next

LEMMA SpecInv == Spec => []IInv
BY InitInv, NextInv, PTL DEF Spec

-------------------------------------------------------------------------------
(* Type correctness. *)
THEOREM TypeCorrect == Spec => []TypeOK
<1>1. IInv => TypeOK
  BY DEF IInv
<1> QED BY <1>1, SpecInv, PTL

(* The journal never says "executed" of a command whose register was not   *)
(* written, whatever is retried, lost, duplicated or restarted.            *)
THEOREM ExecutedIsTrue == Spec => []ExecutedWasWritten
<1>1. IInv => ExecutedWasWritten
  BY DEF IInv, ClaimsAreTrue
<1> QED BY <1>1, SpecInv, PTL

(* Nothing reaches the broker, the agent or the panel without a row. *)
THEOREM RowComesFirst == Spec => []LoggedFirst
<1>1. IInv => LoggedFirst
  BY DEF IInv
<1> QED BY <1>1, SpecInv, PTL

(* completed_at is set in every row with a final status. *)
THEOREM FinalRowsAreCompleted == Spec => []FinalIsCompleted
<1>1. IInv => FinalIsCompleted
  BY DEF IInv
<1> QED BY <1>1, SpecInv, PTL
(* Once answered, a final status stays final. *)
THEOREM AnsweredStaysFinal == Spec => AnsweredIsFinal
<1> DEFINE A == \A c \in Commands :
                  handler[c] = "done" /\ status[c] \in Outcomes
                    => status'[c] \in Outcomes
<1>1. IInv /\ [Next]_vars => A
  <2> SUFFICES ASSUME IInv, [Next]_vars PROVE A
    OBVIOUS
  <2> USE DEF IInv, TypeOK, Outcomes, journal
  <2>1. ASSUME NEW c \in Commands, Request(c) PROVE A
    BY <2>1 DEF Request, Submit, PublishCommand, PublishCommandError,
                ConnectError, RecordSent, RecordUnsent, Publishing
  <2>2. CASE Listener
    BY <2>2 DEF Listener, Receive, WriteRegister, WriteError, PublishAck,
                PublishAckError
  <2>3. CASE HandleAck
    <3>1. Head(acks) \in Acks
      BY <2>3, TakeElements DEF HandleAck
    <3>2. Head(acks).cmd \in Commands /\ Head(acks).status \in Outcomes
      BY <3>1 DEF Acks
    <3> QED BY <2>3, <3>2 DEF HandleAck
  <2>4. CASE Environment
    BY <2>4 DEF Environment, EditZones, RefreshZones, EdgeDisconnect,
                EdgeSubscribe, CoreDisconnect, CoreSubscribe, EdgeRestart,
                CoreRestart
  <2>5. CASE UNCHANGED vars
    BY <2>5 DEF vars
  <2> QED BY <2>1, <2>2, <2>3, <2>4, <2>5 DEF Next
<1>2. AnsweredIsFinal <=> [][A]_vars
  BY DEF AnsweredIsFinal
<1> QED BY <1>1, SpecInv, PTL DEF Spec, AnsweredIsFinal

-------------------------------------------------------------------------------
(* Every step of the detailed specification is a step of the journal or    *)
(* leaves the journal alone.                                               *)
LEMMA RequestRefines ==
  ASSUME IInv, NEW c \in Commands, Request(c)
  PROVE  [J!Next]_(J!jvars)
<1> USE DEF IInv, TypeOK, RowIffRequested, journal, J!jvars, Publishing
<1>1. ASSUME NEW z \in Zones, Submit(c, z) PROVE J!Log(c)
  BY <1>1 DEF Submit, J!Log
<1>2. CASE PublishCommand(c)
  BY <1>2 DEF PublishCommand
<1>3. CASE PublishCommandError(c)
  BY <1>3 DEF PublishCommandError
<1>4. CASE ConnectError(c)
  BY <1>4 DEF ConnectError
<1>5. CASE RecordSent(c)
  <2>1. J!Reply(c)
    BY <1>5 DEF RecordSent, J!Reply
  <2> QED BY <2>1 DEF J!Next
<1>6. CASE RecordUnsent(c)
  <2>1. J!Reply(c)
    BY <1>6 DEF RecordUnsent, J!Reply
  <2> QED BY <2>1 DEF J!Next
<1> QED BY <1>1, <1>2, <1>3, <1>4, <1>5, <1>6 DEF Request, J!Next

LEMMA ListenerRefines == IInv /\ Listener => [J!Next]_(J!jvars)
<1> SUFFICES ASSUME IInv, Listener PROVE [J!Next]_(J!jvars)
  OBVIOUS
<1> USE DEF IInv, TypeOK, journal, J!jvars
<1>1. CASE Receive \/ PublishAck \/ PublishAckError
  BY <1>1 DEF Receive, PublishAck, PublishAckError
<1>2. CASE WriteRegister \/ WriteError
  <2>1. edge.cmd \in Commands /\ status[edge.cmd] # "none"
    BY <1>2 DEF WriteRegister, WriteError, LoggedFirst
  <2>2. UNCHANGED <<status, completed, handler>>
    BY <1>2 DEF WriteRegister, WriteError
  <2>3. PICK n \in 0 .. MaxSends : Reach(n)
    BY <1>2, SendsAssumption DEF WriteRegister, WriteError
  <2>4. CASE n = 0
    BY <2>1, <2>2, <2>3, <2>4 DEF Reach
  <2>5. CASE n # 0
    <3>1. PICK d \in Commands : d = edge.cmd
      BY <2>1
    <3>2. n \in Nat \ {0}
      BY <2>5, SendsAssumption
    <3>3. {c \in Commands : writes[c] > 0}'
            = {c \in Commands : writes[c] > 0} \cup {d}
      BY <2>3, <3>1, <3>2 DEF Reach
    <3>4. J!Apply(d)
      BY <2>1, <2>2, <3>1, <3>3 DEF J!Apply
    <3> QED BY <3>1, <3>4 DEF J!Next
  <2> QED BY <2>4, <2>5
<1> QED BY <1>1, <1>2 DEF Listener

LEMMA HandleAckRefines == IInv /\ HandleAck => [J!Next]_(J!jvars)
<1> SUFFICES ASSUME IInv, HandleAck PROVE [J!Next]_(J!jvars)
  OBVIOUS
<1> DEFINE a == Head(acks)
<1>1. a \in Acks /\ a \in Range(acks)
  BY TakeElements DEF IInv, TypeOK, HandleAck
<1>2. /\ a.cmd \in Commands /\ a.status \in Outcomes
      /\ status[a.cmd] # "none"
      /\ a.status = "executed" => writes[a.cmd] > 0
  BY <1>1 DEF IInv, LoggedFirst, ClaimsAreTrue, Acks
<1>3. CASE target[a.cmd] = a.zone
  <2>1. J!Ack(a.cmd, a.status)
    BY <1>2, <1>3 DEF HandleAck, IInv, TypeOK, J!Ack
  <2>2. a.status \in J!Terminal
    BY <1>2 DEF J!Terminal, Outcomes
  <2> QED BY <1>2, <2>1, <2>2 DEF J!Next
<1>4. CASE target[a.cmd] # a.zone
  BY <1>4 DEF HandleAck, J!jvars
<1> QED BY <1>3, <1>4

LEMMA EnvironmentRefines == IInv /\ Environment => UNCHANGED J!jvars
BY DEF IInv, TypeOK, Environment, EditZones, RefreshZones, EdgeDisconnect,
       EdgeSubscribe, CoreDisconnect, CoreSubscribe, EdgeRestart, CoreRestart,
       journal, J!jvars

(* The lifecycle of commands, with all its retries, losses and restarts,   *)
(* implements the abstract journal.                                        *)
THEOREM ImplementsJournal == Spec => JournalSpec
<1>1. Init => J!Init
  BY DEF Init, J!Init
<1>2. IInv /\ [Next]_vars => [J!Next]_(J!jvars)
  <2> SUFFICES ASSUME IInv, [Next]_vars PROVE [J!Next]_(J!jvars)
    OBVIOUS
  <2>1. ASSUME NEW c \in Commands, Request(c) PROVE [J!Next]_(J!jvars)
    BY <2>1, RequestRefines
  <2>2. CASE UNCHANGED vars
    BY <2>2 DEF vars, J!jvars
  <2> QED BY <2>1, <2>2, ListenerRefines, HandleAckRefines,
             EnvironmentRefines DEF Next
<1> QED BY <1>1, <1>2, SpecInv, PTL DEF Spec, JournalSpec, J!Spec

-------------------------------------------------------------------------------
(* How often a command is written. *)

Positions(q, m) == {i \in DOMAIN q : q[i] = m}
Copies(q, m)    == Cardinality(Positions(q, m))
OneIf(b)        == IF b THEN 1 ELSE 0

LEMMA PositionsAreFinite ==
  ASSUME NEW S, NEW q \in Seq(S), NEW m
  PROVE  /\ Positions(q, m) \subseteq 1..Len(q) /\ DOMAIN q = 1..Len(q) /\ Len(q) \in Nat
         /\ IsFiniteSet(Positions(q, m)) /\ Copies(q, m) \in Nat
<1>1. Positions(q, m) \subseteq 1..Len(q) /\ DOMAIN q = 1..Len(q) /\ Len(q) \in Nat
  BY LenProperties DEF Positions
<1>2. IsFiniteSet(1..Len(q))
  BY <1>1, FS_Interval
<1>3. IsFiniteSet(Positions(q, m))
  BY <1>1, <1>2, FS_Subset
<1> QED BY <1>1, <1>3, FS_CardinalityType DEF Copies

(* Delivery adds at most one copy, and only of the message. *)
LEMMA DeliverCopies ==
  ASSUME NEW S, NEW q \in Seq(S), NEW m \in S, NEW present \in BOOLEAN, NEW c
  PROVE  Copies(Deliver(q, m, present), c) <= Copies(q, c) + OneIf(m = c)
<1>1. Len(q) \in Nat /\ DOMAIN q = 1..Len(q) /\ Copies(q, c) \in Nat
      /\ IsFiniteSet(Positions(q, c)) /\ Positions(q, c) \subseteq 1..Len(q)
  BY PositionsAreFinite
<1>2. CASE ~present
  BY <1>1, <1>2 DEF Deliver, OneIf
<1>3. CASE present
  <2> DEFINE p == Append(q, m)
  <2>1. /\ DOMAIN p = 1..(Len(q) + 1) /\ p[Len(q) + 1] = m
        /\ \A i \in 1..Len(q) : p[i] = q[i]
    BY AppendProperties, LenProperties
  <2>2. Deliver(q, m, present) = p
    BY <1>3 DEF Deliver
  <2> HIDE DEF p
  <2>3. CASE m = c
    <3>1. Positions(p, c) = Positions(q, c) \cup {Len(q) + 1}
      BY <1>1, <2>1, <2>3 DEF Positions
    <3>2. Len(q) + 1 \notin Positions(q, c)
      BY <1>1
    <3>3. Cardinality(Positions(p, c)) = Cardinality(Positions(q, c)) + 1
      BY <1>1, <3>1, <3>2, FS_AddElement
    <3> QED BY <1>1, <2>2, <2>3, <3>3 DEF Copies, OneIf
  <2>4. CASE m # c
    <3>1. Positions(p, c) = Positions(q, c)
      BY <1>1, <2>1, <2>4 DEF Positions
    <3> QED BY <1>1, <2>2, <2>4, <3>1 DEF Copies, OneIf
  <2> QED BY <2>3, <2>4
<1> QED BY <1>2, <1>3

(* Taking the first message takes one copy of it. *)
LEMMA TakeCopies ==
  ASSUME NEW S, NEW q \in Seq(S), q # <<>>, NEW c
  PROVE  Copies(Tail(q), c) + OneIf(Head(q) = c) <= Copies(q, c)
<1>1. /\ Tail(q) \in Seq(S) /\ Head(q) = q[1] /\ Len(Tail(q)) = Len(q) - 1
      /\ Len(q) \in Nat \ {0}
      /\ \A i \in 1..Len(Tail(q)) : Tail(q)[i] = q[i + 1]
  BY LenProperties, HeadTailProperties, EmptySeq
<1>2. DOMAIN q = 1..Len(q) /\ Copies(q, c) \in Nat /\ IsFiniteSet(Positions(q, c))
  BY PositionsAreFinite
<1>3. DOMAIN Tail(q) = 1..Len(Tail(q)) /\ Copies(Tail(q), c) \in Nat
  BY <1>1, PositionsAreFinite
<1> DEFINE P == Positions(Tail(q), c)
           R == Positions(q, c) \ {1}
           shift == [i \in P |-> i + 1]
<1>4. shift \in Injection(P, R)
  <2>1. \A i \in P : i \in Nat /\ i + 1 \in R
    BY <1>1, <1>2, <1>3 DEF Positions
  <2>2. shift \in [P -> R]
    BY <2>1
  <2>3. \A i, j \in P : shift[i] = shift[j] => i = j
    BY <2>1
  <2> QED BY <2>2, <2>3 DEF Injection, IsInjective
<1>5. /\ IsFiniteSet(R)
      /\ Cardinality(R) = Copies(q, c) - OneIf(1 \in Positions(q, c))
  BY <1>2, FS_RemoveElement DEF Copies, OneIf
<1>6. Cardinality(P) <= Cardinality(R)
  BY <1>4, <1>5, FS_Injection
<1>7. 1 \in Positions(q, c) <=> Head(q) = c
  BY <1>1, <1>2 DEF Positions
<1> HIDE DEF P, R
<1>8. Copies(Tail(q), c) <= Copies(q, c) - OneIf(Head(q) = c)
  BY <1>5, <1>6, <1>7 DEF P, R, Copies, OneIf
<1>9. OneIf(Head(q) = c) \in {0, 1}
  BY DEF OneIf
<1> QED BY <1>2, <1>3, <1>8, <1>9

(* What is kept of a queue has no copy that was not in it. *)
LEMMA KeptCopies ==
  ASSUME NEW S, NEW q \in Seq(S), NEW k \in Kept(q), NEW c
  PROVE  Copies(k, c) <= Copies(q, c)
<1>1. PICK n \in 0..Len(q) : k = SubSeq(q, 1, n)
  BY DEF Kept
<1>2. Len(q) \in Nat /\ DOMAIN q = 1..Len(q) /\ IsFiniteSet(Positions(q, c))
  BY PositionsAreFinite
<1>3. DOMAIN k = 1..n /\ \A i \in 1..n : k[i] = q[i]
  BY <1>1, <1>2, SubSeqProperties
<1>4. Positions(k, c) \subseteq Positions(q, c)
  BY <1>2, <1>3 DEF Positions
<1> QED BY <1>2, <1>4, FS_Subset DEF Copies

(* The attempts a request has left, and the command the listener is about  *)
(* to write.                                                               *)
Attempts(c) == IF handler[c] \in {"idle", "try1"} THEN 2 ELSE OneIf(handler[c] = "try2")
InHand(c)   == OneIf(edge.pc = "working" /\ edge.cmd = c)

(* The calls of write_register c may still get: one of each copy, the one  *)
(* the listener is about to make, and one of each attempt left.  The       *)
(* register was reached by the others.                                     *)
Due(c)    == Copies(wire, c) + InHand(c)
Left(c)   == Due(c) + Attempts(c)
Budget(c) == writes[c] + MaxSends * Left(c) <= 2 * MaxSends

LEMMA BudgetTypes ==
  ASSUME TypeOK, NEW c \in Commands
  PROVE  /\ Copies(wire, c) \in Nat /\ writes[c] \in Nat
         /\ InHand(c) \in {0, 1} /\ Attempts(c) \in 0..2
         /\ Due(c) \in Nat /\ Left(c) \in Nat
<1>1. /\ Copies(wire, c) \in Nat /\ writes[c] \in Nat
      /\ InHand(c) \in {0, 1} /\ Attempts(c) \in 0..2
  BY PositionsAreFinite DEF TypeOK, InHand, Attempts, OneIf
<1> QED BY <1>1 DEF Due, Left

LEMMA InitBudget == Init => \A c \in Commands : Budget(c)
<1> SUFFICES ASSUME Init, NEW c \in Commands PROVE Budget(c)
  OBVIOUS
<1>1. Positions(wire, c) = {}
  BY DEF Init, Positions
<1>2. Copies(wire, c) = 0
  BY <1>1, FS_EmptySet DEF Copies
<1>3. Left(c) = 2 /\ writes[c] = 0
  BY <1>2 DEF Init, Due, Left, Attempts, InHand, OneIf, Idle
<1> QED BY <1>3, SendsAssumption DEF Budget

(* Fewer calls send less, one call fewer MaxSends less. *)
LEMMA Sent ==
  ASSUME NEW a \in Nat, NEW b \in Nat
  PROVE  /\ a <= b => MaxSends * a <= MaxSends * b
         /\ MaxSends * (a + 1) = MaxSends * a + MaxSends
         /\ MaxSends * a \in Nat
BY SendsAssumption

(* A step affords what it sends with the calls it gives up. *)
LEMMA Afford ==
  ASSUME TypeOK, TypeOK', NEW c \in Commands, Budget(c),
         \/ writes'[c] = writes[c] /\ Left(c)' <= Left(c)
         \/ writes'[c] <= writes[c] + MaxSends /\ Left(c)' + 1 <= Left(c)
  PROVE  Budget(c)'
<1>1. writes[c] \in Nat /\ Left(c) \in Nat
  BY BudgetTypes
<1>2. writes'[c] \in Nat /\ Left(c)' \in Nat
  <2>1. /\ Copies(wire', c) \in Nat /\ writes'[c] \in Nat
        /\ InHand(c)' \in {0, 1} /\ Attempts(c)' \in 0..2
    BY PositionsAreFinite DEF TypeOK, InHand, Attempts, OneIf
  <2> QED BY <2>1 DEF Due, Left
<1> DEFINE l == Left(c)
           m == Left(c)'
<1>3. CASE writes'[c] = writes[c] /\ m <= l
  <2>1. MaxSends * m <= MaxSends * l /\ MaxSends * m \in Nat /\ MaxSends * l \in Nat
    BY <1>1, <1>2, <1>3, Sent
  <2> QED BY <1>1, <1>2, <1>3, <2>1, SendsAssumption DEF Budget
<1>4. CASE writes'[c] <= writes[c] + MaxSends /\ m + 1 <= l
  <2>1. /\ MaxSends * (m + 1) <= MaxSends * l
        /\ MaxSends * (m + 1) = MaxSends * m + MaxSends
        /\ MaxSends * m \in Nat /\ MaxSends * l \in Nat
    BY <1>1, <1>2, <1>4, Sent
  <2> QED BY <1>1, <1>2, <1>4, <2>1, SendsAssumption DEF Budget
<1> QED BY <1>3, <1>4

(* Steps that write nothing. *)
LEMMA AffordQuiet ==
  ASSUME TypeOK, TypeOK', NEW c \in Commands, Budget(c), UNCHANGED writes,
         \/ /\ UNCHANGED edge
            /\ Copies(wire', c) + Attempts(c)' <= Copies(wire, c) + Attempts(c)
         \/ /\ UNCHANGED handler
            /\ Copies(wire', c) + InHand(c)' <= Due(c)
  PROVE  Budget(c)'
<1>1. /\ Copies(wire, c) \in Nat /\ InHand(c) \in {0, 1} /\ Attempts(c) \in 0..2
  BY BudgetTypes
<1>2. /\ Copies(wire', c) \in Nat /\ InHand(c)' \in {0, 1} /\ Attempts(c)' \in 0..2
  BY PositionsAreFinite DEF TypeOK, InHand, Attempts, OneIf
<1>3. /\ Left(c) = Copies(wire, c) + InHand(c) + Attempts(c)
      /\ Left(c)' = Copies(wire', c) + InHand(c)' + Attempts(c)'
      /\ Due(c) = Copies(wire, c) + InHand(c)
  BY DEF Left, Due
<1>4. \/ InHand(c)' = InHand(c)
         /\ Copies(wire', c) + Attempts(c)' <= Copies(wire, c) + Attempts(c)
      \/ Attempts(c)' = Attempts(c) /\ Copies(wire', c) + InHand(c)' <= Due(c)
  BY DEF InHand, Attempts
<1>5. Left(c)' <= Left(c)
  BY <1>1, <1>2, <1>3, <1>4
<1> QED BY <1>5, Afford

(* A publication of d uses up an attempt of d. *)
LEMMA PublishAfford ==
  ASSUME IInv, TypeOK', NEW d \in Commands, NEW c \in Commands, Budget(c),
         UNCHANGED <<writes, edge>>, DeliverCommand(d) \/ UNCHANGED wire,
         Attempts(c)' <= Attempts(c), c = d => Attempts(c)' < Attempts(c)
  PROVE  Budget(c)'
<1>1. TypeOK /\ wire \in Seq(Commands) /\ listening \in BOOLEAN
  BY DEF IInv, TypeOK
<1>2. /\ Copies(wire, c) \in Nat /\ Attempts(c) \in 0..2
      /\ Copies(wire', c) \in Nat /\ Attempts(c)' \in 0..2
  BY <1>1, BudgetTypes, PositionsAreFinite DEF TypeOK, Attempts, OneIf
<1>3. Copies(wire', c) <= Copies(wire, c) + OneIf(d = c)
  <2>1. CASE DeliverCommand(d)
    BY <1>1, <2>1, DeliverCopies DEF DeliverCommand
  <2>2. CASE UNCHANGED wire
    BY <1>2, <2>2 DEF OneIf
  <2> QED BY <2>1, <2>2
<1>4. Copies(wire', c) + Attempts(c)' <= Copies(wire, c) + Attempts(c)
  BY <1>2, <1>3 DEF OneIf
<1> QED BY <1>1, <1>4, AffordQuiet

LEMMA NextBudget ==
  ASSUME IInv, IInv', [Next]_vars, NEW c \in Commands, Budget(c)
  PROVE  Budget(c)'
<1>0. TypeOK /\ TypeOK'
  BY DEF IInv
<1>1. /\ Copies(wire, c) \in Nat /\ writes[c] \in Nat
      /\ InHand(c) \in {0, 1} /\ Attempts(c) \in 0..2
  BY <1>0, BudgetTypes
<1> USE DEF zoneVars, toEdge, toCore, journal
<1>2. CASE /\ UNCHANGED <<writes, edge>> /\ Copies(wire', c) <= Copies(wire, c)
           /\ handler' = handler
  <2>1. Copies(wire', c) \in Nat
    BY <1>0, PositionsAreFinite DEF TypeOK
  <2>2. Attempts(c)' = Attempts(c)
    BY <1>2 DEF Attempts
  <2> QED BY <1>0, <1>1, <1>2, <2>1, <2>2, AffordQuiet
<1>3. CASE UNCHANGED <<writes, edge, wire, handler>>
  BY <1>1, <1>2, <1>3
<1>4. ASSUME NEW d \in Commands, Request(d) PROVE Budget(c)'
  <2>0. handler \in [Commands -> HandlerStates]
    BY <1>0 DEF TypeOK
  <2> USE DEF Attempts, OneIf, Publishing
  <2>1. ASSUME NEW z \in Zones, Submit(d, z) PROVE Budget(c)'
    <3>1. Attempts(c)' = Attempts(c) /\ UNCHANGED <<writes, edge, wire>>
      BY <2>0, <2>1 DEF Submit
    <3> QED BY <1>0, <1>1, <3>1, AffordQuiet
  <2>2. CASE PublishCommand(d)
    <3>1. Attempts(c)' <= Attempts(c) /\ (c = d => Attempts(c)' < Attempts(c))
      BY <2>0, <2>2 DEF PublishCommand
    <3> QED BY <1>0, <2>2, <3>1, PublishAfford DEF PublishCommand
  <2>3. CASE PublishCommandError(d)
    <3>1. Attempts(c)' <= Attempts(c) /\ (c = d => Attempts(c)' < Attempts(c))
      BY <2>0, <2>3 DEF PublishCommandError
    <3> QED BY <1>0, <2>3, <3>1, PublishAfford DEF PublishCommandError
  <2>4. CASE ConnectError(d) \/ RecordSent(d) \/ RecordUnsent(d)
    <3>1. Attempts(c)' <= Attempts(c) /\ UNCHANGED <<writes, edge, wire>>
      BY <2>0, <2>4 DEF ConnectError, RecordSent, RecordUnsent
    <3>2. Attempts(c)' \in Nat
      OBVIOUS
    <3> HIDE DEF Attempts
    <3>3. Copies(wire', c) + Attempts(c)' <= Copies(wire, c) + Attempts(c)
      BY <1>1, <3>1, <3>2
    <3> QED BY <1>0, <3>1, <3>3, AffordQuiet
  <2> QED BY <1>4, <2>1, <2>2, <2>3, <2>4 DEF Request
<1>5. CASE Receive
  <2>1. /\ Head(wire) \in Commands
        /\ Copies(wire', c) + OneIf(Head(wire) = c) <= Copies(wire, c)
        /\ Copies(wire', c) \in Nat
    BY <1>0, <1>5, TakeElements, TakeCopies, PositionsAreFinite DEF Receive, TypeOK
  <2>2. InHand(c)' <= OneIf(Head(wire) = c) /\ InHand(c)' \in {0, 1}
    BY <1>5 DEF Receive, InHand, OneIf
  <2>3. InHand(c) = 0 /\ UNCHANGED <<handler, writes>> /\ OneIf(Head(wire) = c) \in {0, 1}
    BY <1>5 DEF Receive, InHand, OneIf
  <2>4. Copies(wire', c) + InHand(c)' <= Due(c)
    BY <1>1, <2>1, <2>2, <2>3 DEF Due
  <2> QED BY <1>0, <2>3, <2>4, AffordQuiet
<1>6. CASE WriteRegister \/ WriteError
  <2>1. /\ edge.pc = "working" /\ edge.cmd \in Commands
        /\ edge'.pc # "working"
        /\ UNCHANGED <<handler, wire>>
    BY <1>0, <1>6, ListenerRecord DEF WriteRegister, WriteError, TypeOK, EdgeStates
  <2>2. PICK n \in 0 .. MaxSends : Reach(n)
    BY <1>6, SendsAssumption DEF WriteRegister, WriteError
  <2>3. InHand(c) = OneIf(edge.cmd = c) /\ InHand(c)' = 0
    BY <2>1 DEF InHand, OneIf
  <2>4. Attempts(c)' = Attempts(c)
    BY <2>1 DEF Attempts
  <2>5. CASE edge.cmd = c
    <3>1. writes'[c] <= writes[c] + MaxSends
      BY <1>0, <1>1, <2>1, <2>2, <2>5, SendsAssumption DEF Reach, TypeOK
    <3>2. Left(c)' + 1 <= Left(c)
      BY <1>1, <2>1, <2>3, <2>4, <2>5 DEF Left, Due, OneIf
    <3> QED BY <1>0, <3>1, <3>2, Afford
  <2>6. CASE edge.cmd # c
    <3>1. writes'[c] = writes[c]
      BY <1>0, <2>1, <2>2, <2>6 DEF Reach, TypeOK
    <3>2. Left(c)' <= Left(c)
      BY <1>1, <2>1, <2>3, <2>4, <2>6 DEF Left, Due, OneIf
    <3> QED BY <1>0, <3>1, <3>2, Afford
  <2> QED BY <2>5, <2>6
<1>7. CASE PublishAck \/ PublishAckError \/ EdgeRestart
  <2>1. edge'.pc # "working" /\ UNCHANGED <<handler, writes>>
    BY <1>0, <1>7, ListenerRecord DEF PublishAck, PublishAckError, EdgeRestart, TypeOK
  <2>2. Copies(wire', c) <= Copies(wire, c) /\ Copies(wire', c) \in Nat
    <3>1. CASE UNCHANGED wire
      BY <1>1, <3>1
    <3>2. CASE wire' = <<>>
      <4>1. Positions(wire', c) = {}
        BY <3>2 DEF Positions
      <4> QED BY <1>1, <4>1, FS_EmptySet DEF Copies
    <3> QED BY <1>7, <3>1, <3>2 DEF PublishAck, PublishAckError, EdgeRestart
  <2>3. InHand(c)' = 0
    BY <2>1 DEF InHand, OneIf
  <2>4. Copies(wire', c) + InHand(c)' <= Due(c)
    BY <1>1, <2>1, <2>2, <2>3 DEF Due
  <2> QED BY <1>0, <2>1, <2>4, AffordQuiet
<1>8. CASE EdgeDisconnect
  <2>1. Copies(wire', c) <= Copies(wire, c)
    BY <1>0, <1>8, KeptCopies DEF EdgeDisconnect, TypeOK
  <2> QED BY <1>2, <1>8, <2>1 DEF EdgeDisconnect
<1>9. CASE CoreRestart
  <2>1. UNCHANGED <<writes, edge, wire>>
    BY <1>9 DEF CoreRestart
  <2>2. Attempts(c)' <= Attempts(c) /\ Attempts(c)' \in Nat
    BY <1>0, <1>9 DEF CoreRestart, TypeOK, Attempts, OneIf
  <2>3. Copies(wire', c) + Attempts(c)' <= Copies(wire, c) + Attempts(c)
    BY <1>1, <2>1, <2>2
  <2> QED BY <1>0, <2>1, <2>3, AffordQuiet
<1>10. CASE \/ HandleAck \/ \E z \in Zones : EditZones(z)
            \/ RefreshZones \/ EdgeSubscribe \/ CoreDisconnect \/ CoreSubscribe
            \/ UNCHANGED vars
  BY <1>3, <1>10 DEF HandleAck, EditZones, RefreshZones, EdgeSubscribe, CoreDisconnect,
                     CoreSubscribe, vars
<1> QED BY <1>4, <1>5, <1>6, <1>7, <1>8, <1>9, <1>10 DEF Next, Listener, Environment

(* write_register is called at most twice for a command, so its register   *)
(* is reached at most 2 * MaxSends times, for any number of commands and   *)
(* whatever is retried, lost or restarted.                                 *)
THEOREM AtMostTwoCalls == Spec => []DuplicatesBounded
<1> DEFINE Budgets == \A c \in Commands : Budget(c)
<1>1. IInv /\ Budgets /\ IInv' /\ [Next]_vars => Budgets'
  BY NextBudget
<1>2. Spec => []Budgets
  BY <1>1, InitBudget, SpecInv, PTL DEF Spec
<1>3. IInv /\ Budgets => DuplicatesBounded
  <2> SUFFICES ASSUME IInv, NEW c \in Commands, Budget(c)
               PROVE  writes[c] + MaxSends * CallsDue(c) <= 2 * MaxSends
    BY DEF DuplicatesBounded
  <2>1. /\ writes[c] \in Nat /\ Attempts(c) \in 0..2
        /\ Due(c) \in Nat /\ Left(c) \in Nat
    BY BudgetTypes DEF IInv
  <2>2. CallsDue(c) = Due(c)
    BY DEF CallsDue, CopiesOnWire, Due, InHand, OneIf, Copies, Positions
  <2>3. Due(c) <= Left(c)
    BY <2>1 DEF Left
  <2>4. MaxSends * Due(c) <= MaxSends * Left(c)
    BY <2>1, <2>3, Sent
  <2>5. MaxSends * Due(c) \in Nat /\ MaxSends * Left(c) \in Nat
    BY <2>1, Sent
  <2> QED BY <2>1, <2>2, <2>4, <2>5, SendsAssumption DEF Budget
<1> QED BY <1>2, <1>3, SpecInv, PTL
===============================================================================
