-------------------------- MODULE SessionTypeProofs --------------------------
(***************************************************************************)
(* Type correctness of SessionCommands, for every set of threads, stores,  *)
(* commands and writes and every number of calls.                          *)
(***************************************************************************)
EXTENDS SessionCommands, SequenceTheorems, TLAPS

USE DEF At, SessionHead, LastSeq

-----------------------------------------------------------------------------
(* Types.                                                                  *)

LEMMA ApplyOperationType ==
  ASSUME NEW mem \in [MemKeys -> Memory \cup {Absent}],
         NEW op \in Operation, WellFormed(op), op.type # "CONFIRM",
         NEW seq \in Nat, NEW ev \in Nat
  PROVE  ApplyOperation(mem, op, seq, ev) \in [MemKeys -> Memory \cup {Absent}]
<1>1. CASE Superseded(mem, op, seq) \/ op.type = "FORGET"
  BY <1>1 DEF ApplyOperation
<1>2. CASE ~Superseded(mem, op, seq) /\ op.type \in {"REMEMBER", "UPDATE"}
  <2>1. op.key \in MemKeys
    BY <1>2 DEF WellFormed, Operation
  <2>2. Written(mem, op, seq, ev) \in Memory
    BY <2>1, AbsentAssumption DEF Written, Memory, Operation
  <2> QED BY <1>2, <2>1, <2>2 DEF ApplyOperation
<1> QED BY <1>1, <1>2 DEF Operation, OperationTypes

LEMMA LastNType ==
  ASSUME NEW s \in Seq(Nat), NEW n \in Nat \ {0}
  PROVE  LastN(s, n) \in Seq(Nat)
<1>1. Len(s) \in Nat
  OBVIOUS
<1>2. CASE Len(s) > n
  BY <1>1, <1>2, SubSeqProperties DEF LastN
<1>3. CASE Len(s) <= n
  BY <1>1, <1>3, SubSeqProperties DEF LastN
<1> QED BY <1>1, <1>2, <1>3

LEMMA BodyTypes ==
  ASSUME NEW body \in CommandBody \cup PlainBody
  PROVE  body.kind = "command" => body.op \in Operation /\ WellFormed(body.op)
BY DEF CommandBody, PlainBody

\* Applying an event gives a view, at that event.
LEMMA AppliedType ==
  ASSUME NEW view \in View, NEW seq \in Nat,
         NEW body \in CommandBody \cup PlainBody
  PROVE  /\ Applied(view, seq, body) \in View
         /\ Applied(view, seq, body).last = seq
<1> DEFINE recent == IF body.kind \in {"command", "message"}
                     THEN LastN(Append(view.recent, seq), RecentLimit)
                     ELSE view.recent
           mem == IF body.kind = "command" /\ ~Unapplicable(view, seq, body)
                  THEN ApplyOperation(view.mem, body.op, seq, seq)
                  ELSE view.mem
<1>1. view.recent \in Seq(Nat) /\ view.mem \in [MemKeys -> Memory \cup {Absent}]
  BY DEF View
<1>2. recent \in Seq(Nat)
  <2>1. Append(view.recent, seq) \in Seq(Nat)
    BY <1>1
  <2> QED BY <1>1, <2>1, LastNType, RecentLimitAssumption
<1>3. mem \in [MemKeys -> Memory \cup {Absent}]
  <2>1. CASE body.kind = "command" /\ ~Unapplicable(view, seq, body)
    <3>1. body.op \in Operation /\ WellFormed(body.op) /\ body.op.type # "CONFIRM"
      BY <2>1, BodyTypes DEF Unapplicable, Refused
    <3> QED BY <1>1, <2>1, <3>1, ApplyOperationType
  <2> QED BY <1>1, <2>1
<1> HIDE DEF recent, mem
<1>4. Applied(view, seq, body) = [last |-> seq, recent |-> recent, mem |-> mem]
  BY DEF Applied, recent, mem
<1> QED BY <1>2, <1>3, <1>4 DEF View

\* Types of the fields of calls and events.
LEMMA RequestTypes ==
  ASSUME NEW r \in Commands \cup PlainWrites
  PROVE  /\ r \in Request
         /\ r.body \in CommandBody \cup PlainBody
         /\ r.stream \in Streams
         /\ r \in Commands => r.stream = Session
BY CommandsAssumption, PlainWritesAssumption DEF Request

LEMMA NewEventType ==
  ASSUME TypeOK, NEW r \in Request
  PROVE  NewEvent(r) \in Event
BY DEF TypeOK, Request, Event, NewEvent, NextSeq

LEMMA LocalTypes ==
  ASSUME TypeOK, NEW T \in SUBSET Threads, Reset(T)
  PROVE  /\ pc' \in [Threads -> Places]
         /\ cmd' \in [Threads -> Commands \cup {None}]
         /\ \A t \in Threads :
              /\ pc'[t] # "idle" => cmd'[t] \in Commands
              /\ pc'[t] \in {"project", "reproject"} => event'[t] \in Event
         /\ token' \in [Threads -> Nat]
         /\ target' \in [Threads -> Nat]
         /\ seen' \in [Threads -> Nat]
         /\ listed' \in [Threads -> SUBSET Event]
         /\ event' \in [Threads -> Event \cup {None}]
         /\ outcome' \in [Threads -> Outcomes]
BY DEF TypeOK, Reset, Places, Outcomes

LEMMA RecordedType ==
  ASSUME TypeOK, NEW r \in Commands \cup PlainWrites, Recorded(r),
         heads' \in [Streams -> Nat],
         heads'[Session] = IF r.stream = Session /\ Earlier(r) = {}
                           THEN heads[Session] + 1 ELSE heads[Session]
  PROVE  views' \in [0..heads'[Session] -> View]
<1>1. r.body \in CommandBody \cup PlainBody
  BY RequestTypes
<1>2. heads[Session] \in Nat /\ views \in [0..heads[Session] -> View]
  BY SessionAssumption DEF TypeOK
<1>3. CASE r.stream = Session /\ Earlier(r) = {}
  <2>1. views[heads[Session]] \in View /\ heads[Session] + 1 \in Nat
    BY <1>2
  <2>2. Applied(views[heads[Session]], heads[Session] + 1, r.body) \in View
    BY <1>1, <2>1, AppliedType
  <2> QED BY <1>2, <1>3, <2>2 DEF Recorded
<1> QED BY <1>2, <1>3 DEF Recorded

LEMMA AppendType ==
  ASSUME TypeOK, NEW r \in Commands \cup PlainWrites, NEW e, AppendEvent(r, e),
         Recorded(r)
  PROVE  /\ events' \subseteq Event
         /\ heads' \in [Streams -> Nat]
         /\ views' \in [0..heads'[Session] -> View]
         /\ e \in Event
<1>1. r \in Request /\ r.stream \in Streams /\ NewEvent(r) \in Event
  BY RequestTypes, NewEventType
<1>2. CASE e \in Earlier(r) /\ UNCHANGED storeVars
  <2>1. e \in events /\ Earlier(r) # {}
    BY <1>2 DEF Earlier, SameId, SameKey
  <2> QED BY <1>2, <2>1, RecordedType DEF TypeOK, storeVars
<1>3. CASE Earlier(r) = {} /\ e = NewEvent(r) /\ Insert(r)
  <2>1. events' \subseteq Event /\ heads' \in [Streams -> Nat] /\ e \in Event
    BY <1>1, <1>3 DEF Insert, NextSeq, TypeOK
  <2>2. heads'[Session] = IF r.stream = Session THEN heads[Session] + 1
                          ELSE heads[Session]
    BY <1>1, <1>3, SessionAssumption DEF Insert, NextSeq, TypeOK
  <2> QED BY <1>3, <2>1, <2>2, RecordedType
<1> QED BY <1>2, <1>3 DEF AppendEvent

LEMMA ProjectType ==
  ASSUME TypeOK, NEW e \in Event, Project(e)
  PROVE  proj' \in View /\ receipts' \subseteq Event
<1>1. e.seq \in Nat /\ e.body \in CommandBody \cup PlainBody
  BY BodiesAssumption DEF Event
<1> QED BY <1>1, AppliedType DEF TypeOK, Project

LEMMA ApplyEventType ==
  ASSUME TypeOK, NEW e \in Event, ApplyEvent(e)
  PROVE  proj' \in View /\ receipts' \subseteq Event /\ proj'.last \in Nat
<1>1. proj' \in View /\ receipts' \subseteq Event
  BY ProjectType DEF ApplyEvent, TypeOK, table
<1> QED BY <1>1 DEF View

LEMMA EmptyViewType == EmptyView \in View
BY DEF EmptyView, View

LEMMA InitType == Init => TypeOK
<1> SUFFICES ASSUME Init PROVE TypeOK
  OBVIOUS
<1>1. heads[Session] = 0
  BY SessionAssumption DEF Init, StoreInit
<1>2. views \in [0..heads[Session] -> View]
  BY <1>1, EmptyViewType DEF Init
<1> QED BY <1>2, EmptyViewType, MaxCallsAssumption
        DEF Init, StoreInit, TypeOK, Places, Outcomes

\* The thread's steps before and after its work under the lease.
LEMMA FrameType ==
  ASSUME TypeOK, NEW t \in Threads,
         Begin(t) \/ AcquireLease(t) \/ LeaseTimeout(t) \/ Release(t) \/ ReleaseFails(t)
  PROVE  TypeOK'
<1>1. ASSUME Begin(t) PROVE TypeOK'
  BY <1>1 DEF Begin, Goto, TypeOK, Places, storeVars, table
<1>2. ASSUME AcquireLease(t) PROVE TypeOK'
  <2>1. lease.token + 1 \in Nat /\ Home[t] \in Stores
    BY HomeAssumption DEF TypeOK
  <2>2. lease' \in [token : Nat, owner : Stores \cup {None}, live : BOOLEAN]
    BY <1>2, <2>1 DEF AcquireLease
  <2>3. token' \in [Threads -> Nat]
    BY <1>2, <2>1 DEF AcquireLease, TypeOK
  <2> QED BY <1>2, <2>2, <2>3 DEF AcquireLease, Goto, TypeOK, Places, storeVars, table
<1>3. ASSUME LeaseTimeout(t) PROVE TypeOK'
  <2>1. Reset({t})
    BY <1>3 DEF LeaseTimeout
  <2> QED BY <1>3, <2>1, LocalTypes DEF LeaseTimeout, TypeOK, storeVars, table
<1>4. ASSUME Release(t) PROVE TypeOK'
  <2>1. Reset({t})
    BY <1>4 DEF Release
  <2>2. lease' \in [token : Nat, owner : Stores \cup {None}, live : BOOLEAN]
    <3>1. lease \in [token : Nat, owner : Stores \cup {None}, live : BOOLEAN]
      BY DEF TypeOK
    <3>2. lease' = lease \/ lease' = [lease EXCEPT !.live = FALSE]
      BY <1>4 DEF Release
    <3> QED BY <3>1, <3>2
  <2>3. releaseErr' \in [Stores -> Nat]
    <3>1. releaseErr \in [Stores -> Nat] /\ Home[t] \in Stores
      BY HomeAssumption DEF TypeOK
    <3>2. \/ releaseErr' = releaseErr
          \/ releaseErr' = [releaseErr EXCEPT ![Home[t]] = IF @ <= token[t] THEN 0 ELSE @]
      BY <1>4 DEF Release
    <3> QED BY <3>1, <3>2
  <2> QED BY <1>4, <2>1, <2>2, <2>3, LocalTypes DEF Release, TypeOK, storeVars, table
<1>5. ASSUME ReleaseFails(t) PROVE TypeOK'
  <2>1. Reset({t})
    BY <1>5 DEF ReleaseFails
  <2>2. releaseErr' \in [Stores -> Nat]
    BY <1>5, HomeAssumption DEF ReleaseFails, TypeOK
  <2> QED BY <1>5, <2>1, <2>2, LocalTypes DEF ReleaseFails, TypeOK, storeVars, table
<1> QED BY <1>1, <1>2, <1>3, <1>4, <1>5

\* Reading steps of the thread.
LEMMA ReadingType ==
  ASSUME TypeOK, NEW t \in Threads,
         \/ ReadTarget(t) \/ ReadState(t) \/ ListEvents(t) \/ FindEarlier(t)
         \/ Validate(t) \/ StatementFails(t)
  PROVE  TypeOK'
<1>1. ASSUME ReadTarget(t) PROVE TypeOK'
  BY <1>1, SessionAssumption DEF ReadTarget, Goto, TypeOK, Places, storeVars, table
<1>2. ASSUME ReadState(t) PROVE TypeOK'
  <2>1. proj.last \in Nat
    BY DEF TypeOK, View
  <2> QED BY <1>2, <2>1
          DEF ReadState, End, Goto, TypeOK, Places, Outcomes, storeVars, table
<1>3. ASSUME ListEvents(t) PROVE TypeOK'
  BY <1>3 DEF ListEvents, ListAfter, End, Goto, TypeOK, Places, Outcomes, storeVars,
              table
<1>4. ASSUME FindEarlier(t) PROVE TypeOK'
  BY <1>4 DEF FindEarlier, Goto, TypeOK, Places, storeVars, table
<1>5. ASSUME Validate(t) PROVE TypeOK'
  BY <1>5 DEF Validate, End, Goto, TypeOK, Places, Outcomes, storeVars, table
<1>6. ASSUME StatementFails(t) PROVE TypeOK'
  BY <1>6 DEF StatementFails, Critical, End, Goto, TypeOK, Places, Outcomes,
              storeVars, table
<1> QED BY <1>1, <1>2, <1>3, <1>4, <1>5, <1>6

\* Writing steps of the thread.
LEMMA WritingType ==
  ASSUME TypeOK, NEW t \in Threads,
         ApplyListed(t) \/ AppendCommand(t) \/ ProjectCommand(t)
  PROVE  TypeOK'
<1>1. ASSUME ApplyListed(t) PROVE TypeOK'
  <2>1. PICK e \in listed[t] :
          \/ /\ LeaseHeld(t)
             /\ ApplyEvent(e)
             /\ listed' = [listed EXCEPT ![t] = @ \ {e}]
             /\ IF listed[t] = {e} THEN Goto(t, "target") ELSE UNCHANGED pc
             /\ UNCHANGED outcome
          \/ /\ Refuses(t, e) \/ Verdict(e) = "gap"
             /\ End(t, "failed")
             /\ UNCHANGED <<table, listed>>
    BY <1>1 DEF ApplyListed
  <2>2. e \in Event
    BY DEF TypeOK
  <2>3. CASE ApplyEvent(e) /\ listed' = [listed EXCEPT ![t] = @ \ {e}]
             /\ (IF listed[t] = {e} THEN Goto(t, "target") ELSE UNCHANGED pc)
             /\ UNCHANGED outcome
    BY <1>1, <2>2, <2>3, ApplyEventType
       DEF ApplyListed, Goto, TypeOK, Places, storeVars
  <2>4. CASE End(t, "failed") /\ UNCHANGED <<table, listed>>
    BY <1>1, <2>4 DEF ApplyListed, End, Goto, TypeOK, Places, Outcomes, storeVars, table
  <2> QED BY <2>1, <2>3, <2>4
<1>2. ASSUME AppendCommand(t) PROVE TypeOK'
  <2>1. cmd[t] \in Commands
    BY <1>2 DEF AppendCommand, TypeOK
  <2>2. ASSUME NEW e, AppendEvent(cmd[t], e), event' = [event EXCEPT ![t] = e],
               Goto(t, "project"), Recorded(cmd[t]), UNCHANGED outcome
        PROVE  TypeOK'
    BY <1>2, <2>1, <2>2, AppendType DEF AppendCommand, Goto, TypeOK, Places, table
  <2>3. CASE End(t, "failed") /\ UNCHANGED <<storeVars, event, views>>
    BY <1>2, <2>3 DEF AppendCommand, End, Goto, TypeOK, Places, Outcomes, storeVars,
                      table
  <2> QED BY <1>2, <2>2, <2>3 DEF AppendCommand
<1>3. ASSUME ProjectCommand(t) PROVE TypeOK'
  <2> event[t] \in Event
    BY <1>3 DEF ProjectCommand, TypeOK
  <2>1. CASE /\ ApplyEvent(event[t]) /\ seen' = [seen EXCEPT ![t] = proj'.last]
             /\ End(t, "ok")
    BY <1>3, <2>1, ApplyEventType
       DEF ProjectCommand, End, Goto, TypeOK, Places, Outcomes, storeVars
  <2>2. CASE Goto(t, "target") /\ UNCHANGED <<table, seen, outcome>>
    BY <1>3, <2>2 DEF ProjectCommand, Goto, TypeOK, Places, storeVars, table
  <2>3. CASE End(t, "failed") /\ UNCHANGED <<table, seen>>
    BY <1>3, <2>3 DEF ProjectCommand, End, Goto, TypeOK, Places, Outcomes, storeVars,
                      table
  <2> QED BY <1>3, <2>1, <2>2, <2>3 DEF ProjectCommand
<1> QED BY <1>1, <1>2, <1>3

\* Steps of the processes, of time and of the other users of the tables.
LEMMA EnvironmentType ==
  ASSUME TypeOK,
         \/ \E s \in Stores : Crash(s)
         \/ LeaseRunsOut \/ AppendPlain \/ RuntimeApplies \/ LoseSnapshot
  PROVE  TypeOK'
<1>0. lease \in [token : Nat, owner : Stores \cup {None}, live : BOOLEAN]
  BY DEF TypeOK
<1>1. ASSUME NEW s \in Stores, Crash(s) PROVE TypeOK'
  <2> DEFINE T == {t \in Threads : Home[t] = s}
  <2>1. T \in SUBSET Threads /\ Reset(T)
    BY <1>1 DEF Crash
  <2>2. lease' \in [token : Nat, owner : Stores \cup {None}, live : BOOLEAN]
    BY <1>0, <1>1 DEF Crash
  <2>3. releaseErr' \in [Stores -> Nat]
    BY <1>1 DEF Crash, TypeOK
  <2> HIDE DEF T
  <2> QED BY <1>1, <2>1, <2>2, <2>3, LocalTypes DEF Crash, TypeOK, storeVars, table
<1>2. ASSUME LeaseRunsOut PROVE TypeOK'
  <2>1. lease' \in [token : Nat, owner : Stores \cup {None}, live : BOOLEAN]
    BY <1>0, <1>2 DEF LeaseRunsOut
  <2> QED BY <1>2, <2>1 DEF LeaseRunsOut, TypeOK, storeVars, table, local
<1>3. ASSUME AppendPlain PROVE TypeOK'
  <2>1. PICK r \in PlainWrites : \E e : AppendEvent(r, e) /\ Recorded(r)
    BY <1>3 DEF AppendPlain
  <2>2. PICK e : AppendEvent(r, e) /\ Recorded(r)
    BY <2>1
  <2> QED BY <1>3, <2>2, AppendType DEF AppendPlain, TypeOK, table, local
<1>4. ASSUME RuntimeApplies PROVE TypeOK'
  <2>1. PICK e \in SessionEvents : Project(e)
    BY <1>4 DEF RuntimeApplies
  <2>2. e \in Event
    BY DEF SessionEvents, TypeOK
  <2> QED BY <1>4, <2>1, <2>2, ProjectType DEF RuntimeApplies, TypeOK, storeVars, local
<1>5. ASSUME LoseSnapshot PROVE TypeOK'
  BY <1>5, EmptyViewType DEF LoseSnapshot, TypeOK, storeVars, local
<1> QED BY <1>1, <1>2, <1>3, <1>4, <1>5

LEMMA StepType == TypeOK /\ [Next]_vars => TypeOK'
<1> SUFFICES ASSUME TypeOK, [Next]_vars PROVE TypeOK'
  OBVIOUS
<1>1. CASE UNCHANGED vars
  BY <1>1 DEF TypeOK, vars, storeVars, table, local
<1>2. CASE Next
  BY <1>2, FrameType, ReadingType, WritingType, EnvironmentType DEF Next, Step
<1> QED BY <1>1, <1>2

\* Every table and every local variable has its type in every reachable state:
\* in particular the projection stays a well-formed snapshot whatever sequence
\* of operations, failures and restarts is applied to it.
THEOREM TypeCorrect == Spec => []TypeOK
BY InitType, StepType, PTL DEF Spec
=============================================================================
