------------------------ MODULE SessionCommandsProofs ------------------------
(***************************************************************************)
(* The safety of SessionCommands, for every set of threads, stores,        *)
(* commands and writes and every number of calls.                          *)
(*                                                                         *)
(* 1. The log: StreamsContiguous and IdentitiesUnique are inductive.       *)
(* 2. The projection: what is listed or appended is an event of the log,   *)
(*    so receipts and snapshot follow the log.                             *)
(* 3. Answers and fencing: what a call answers is in the log and in the    *)
(*    projection, and it writes the projection under the newest token.     *)
(* 4. The lease and its diagnostics: tokens are drawn once, so a lease     *)
(*    left behind is one its store reports.                                *)
(***************************************************************************)
EXTENDS SessionTypeProofs

USE DEF At, SessionHead, LastSeq

-----------------------------------------------------------------------------
(* 1. The log.                                                             *)

Writes == Commands \cup PlainWrites

\* The log changes only by an append.
LEMMA StoreSteps ==
  ASSUME TypeOK, [Next]_vars
  PROVE  \/ UNCHANGED <<storeVars, views>>
         \/ \E r \in Writes : \E e : AppendEvent(r, e) /\ Recorded(r)
<1> USE DEF Writes
<1>1. CASE UNCHANGED vars
  BY <1>1 DEF vars
<1>2. ASSUME NEW t \in Threads, AppendCommand(t)
      PROVE  \/ UNCHANGED <<storeVars, views>>
             \/ \E r \in Writes : \E e : AppendEvent(r, e) /\ Recorded(r)
  <2>1. cmd[t] \in Commands
    BY <1>2 DEF AppendCommand, TypeOK
  <2>2. \/ \E e : AppendEvent(cmd[t], e) /\ Recorded(cmd[t])
        \/ UNCHANGED <<storeVars, views>>
    BY <1>2 DEF AppendCommand
  <2> QED BY <2>1, <2>2
<1>3. CASE AppendPlain
  BY <1>3 DEF AppendPlain
<1>4. ASSUME NEW t \in Threads,
             Begin(t) \/ Step(t) \/ LeaseTimeout(t) \/ StatementFails(t) \/ ReleaseFails(t),
             ~AppendCommand(t)
      PROVE  UNCHANGED <<storeVars, views>>
  BY <1>4 DEF Begin, Step, LeaseTimeout, StatementFails, ReleaseFails, AcquireLease,
              ReadTarget, ReadState, ListEvents, ApplyListed, FindEarlier, Validate,
              ProjectCommand, Release
<1>5. CASE (\E s \in Stores : Crash(s)) \/ LeaseRunsOut \/ RuntimeApplies \/ LoseSnapshot
  BY <1>5 DEF Crash, LeaseRunsOut, RuntimeApplies, LoseSnapshot
<1> QED BY <1>1, <1>2, <1>3, <1>4, <1>5 DEF Next

\* An append finds the row of an earlier attempt, or inserts the next one.
LEMMA AppendCases ==
  ASSUME TypeOK, NEW r \in Writes, NEW e, AppendEvent(r, e)
  PROVE  /\ r.stream \in Streams /\ heads[r.stream] \in Nat
         /\ SameValues(e, r)
         /\ \/ e \in events /\ Earlier(r) # {} /\ UNCHANGED storeVars
            \/ /\ Earlier(r) = {} /\ e = NewEvent(r) /\ e \in Event
               /\ events' = events \cup {e}
               /\ heads' = [heads EXCEPT ![r.stream] = heads[r.stream] + 1]
<1>1. r \in Request /\ r.stream \in Streams /\ NewEvent(r) \in Event
  BY RequestTypes, NewEventType DEF Writes
<1>2. heads[r.stream] \in Nat
  BY <1>1 DEF TypeOK
<1>3. CASE e \in Earlier(r) /\ UNCHANGED storeVars
  BY <1>1, <1>2, <1>3 DEF AppendEvent, AppendRefused, Earlier, SameId, SameKey
<1>4. CASE Earlier(r) = {} /\ e = NewEvent(r) /\ Insert(r)
  BY <1>1, <1>2, <1>4 DEF SameValues, NewEvent, Insert, NextSeq
<1> QED BY <1>1, <1>3, <1>4 DEF AppendEvent

LEMMA ContiguousStep ==
  ASSUME TypeOK, StreamsContiguous, [Next]_vars
  PROVE  StreamsContiguous'
<1>1. CASE UNCHANGED storeVars
  BY <1>1 DEF StreamsContiguous, storeVars
<1>2. ASSUME NEW r \in Writes, NEW e, AppendEvent(r, e) PROVE StreamsContiguous'
  <2>1. CASE UNCHANGED storeVars
    BY <2>1 DEF StreamsContiguous, storeVars
  <2>2. CASE /\ Earlier(r) = {} /\ e = NewEvent(r) /\ e \in Event
             /\ events' = events \cup {e}
             /\ heads' = [heads EXCEPT ![r.stream] = heads[r.stream] + 1]
    <3>1. e.stream = r.stream /\ e.seq = heads[r.stream] + 1 /\ r.stream \in Streams
          /\ heads[r.stream] \in Nat
      BY <1>2, <2>2, AppendCases DEF NewEvent, NextSeq
    <3>2. \A f \in events : f.stream \in Streams /\ f.seq \in Nat
      BY DEF TypeOK, Event
    <3>3. \A f \in events : f.seq <= heads[f.stream]
      BY DEF StreamsContiguous
    <3>4. \A f \in events' : f.seq <= heads'[f.stream]
      BY <2>2, <3>1, <3>2, <3>3 DEF TypeOK
    <3>5. ASSUME NEW s \in Streams, NEW n \in 1..heads'[s]
          PROVE  \E f \in events' : f.stream = s /\ f.seq = n
      <4>1. CASE s = r.stream /\ n = heads[s] + 1
        BY <2>2, <3>1, <4>1
      <4>2. CASE n \in 1..heads[s]
        BY <2>2, <4>2 DEF StreamsContiguous
      <4> QED BY <2>2, <3>1, <4>1, <4>2 DEF TypeOK
    <3>6. ASSUME NEW f \in events, f.stream = e.stream PROVE f.seq # e.seq
      BY <3>1, <3>2, <3>3, <3>6
    <3>7. \A f, g \in events' : f.stream = g.stream /\ f.seq = g.seq => f = g
      BY <2>2, <3>6 DEF StreamsContiguous
    <3> QED BY <3>4, <3>5, <3>7 DEF StreamsContiguous
  <2> QED BY <1>2, <2>1, <2>2, AppendCases
<1> QED BY <1>1, <1>2, StoreSteps

LEMMA UniqueStep ==
  ASSUME TypeOK, IdentitiesUnique, [Next]_vars
  PROVE  IdentitiesUnique'
<1>1. CASE UNCHANGED storeVars
  BY <1>1 DEF IdentitiesUnique, storeVars
<1>2. ASSUME NEW r \in Writes, NEW e, AppendEvent(r, e) PROVE IdentitiesUnique'
  <2>1. CASE UNCHANGED storeVars
    BY <2>1 DEF IdentitiesUnique, storeVars
  <2>2. CASE /\ Earlier(r) = {} /\ e = NewEvent(r) /\ events' = events \cup {e}
    <3>1. e.stream = r.stream /\ e.id = r.id /\ e.key = r.key
      BY <2>2 DEF NewEvent
    <3>2. ASSUME NEW f \in events
          PROVE  /\ ~(e.id # None /\ f.id = e.id)
                 /\ ~(e.key # None /\ f.key = e.key /\ f.stream = e.stream)
      BY <2>2, <3>1 DEF Earlier, SameId, SameKey
    <3> QED BY <2>2, <3>2 DEF IdentitiesUnique
  <2> QED BY <1>2, <2>1, <2>2, AppendCases
<1> QED BY <1>1, <1>2, StoreSteps

\* Sequence numbers of every stream are 1, 2, 3, ... with one event each, for
\* any number of racing writers.
THEOREM LogIsContiguous == Spec => []StreamsContiguous
<1>1. Init => StreamsContiguous
  BY DEF Init, StoreInit, StreamsContiguous
<1>2. TypeOK /\ StreamsContiguous /\ [Next]_vars => StreamsContiguous'
  BY ContiguousStep
<1> QED BY <1>1, <1>2, TypeCorrect, PTL DEF Spec

\* A retry under the same event id or idempotency key never commits a second
\* event, for any number of racing writers.
THEOREM RetriesCommitOnce == Spec => []IdentitiesUnique
<1>1. Init => IdentitiesUnique
  BY DEF Init, StoreInit, IdentitiesUnique
<1>2. TypeOK /\ IdentitiesUnique /\ [Next]_vars => IdentitiesUnique'
  BY UniqueStep
<1> QED BY <1>1, <1>2, TypeCorrect, PTL DEF Spec

-----------------------------------------------------------------------------
(* 2. The projection.                                                      *)

\* What a thread has listed, or has from append, is an event of the session.
Handled ==
  \A t \in Threads :
    /\ listed[t] \subseteq SessionEvents
    /\ event[t] = None \/ event[t] \in SessionEvents
    /\ pc[t] \in {"project", "reproject"} => event[t] \in SessionEvents

LEMMA LogGrows ==
  ASSUME TypeOK, [Next]_vars
  PROVE  events \subseteq events'
BY StoreSteps, AppendCases DEF storeVars

LEMMA ResetHandled ==
  ASSUME Handled, NEW T \in SUBSET Threads, Reset(T), UNCHANGED storeVars
  PROVE  Handled'
BY DEF Handled, Reset, SessionEvents, storeVars

LEMMA HandledStep ==
  ASSUME TypeOK, Handled, [Next]_vars
  PROVE  Handled'
<1>1. CASE UNCHANGED <<pc, listed, event>>
  BY <1>1, LogGrows DEF Handled, SessionEvents
<1>2. ASSUME NEW t \in Threads, UNCHANGED storeVars, UNCHANGED <<listed, event>>,
             NEW l \in Places, Goto(t, l), l \in {"project", "reproject"} => event[t] # None
      PROVE  Handled'
  <2>1. pc \in [Threads -> Places]
    BY DEF TypeOK
  <2> QED BY <1>2, <2>1 DEF Handled, SessionEvents, storeVars, Goto
<1>3. ASSUME NEW t \in Threads,
             Begin(t) \/ AcquireLease(t) \/ ReadTarget(t) \/ ReadState(t)
             \/ FindEarlier(t) \/ Validate(t) \/ StatementFails(t)
      PROVE  Handled'
  <2>1. PICK l \in Places : Goto(t, l)
             /\ (l \in {"project", "reproject"} => event[t] # None)
    BY <1>3 DEF Begin, AcquireLease, ReadTarget, ReadState, FindEarlier, Validate,
                StatementFails, End, Goto, Places
  <2>2. UNCHANGED storeVars /\ UNCHANGED <<listed, event>>
    BY <1>3 DEF Begin, AcquireLease, ReadTarget, ReadState, FindEarlier, Validate,
                StatementFails
  <2> QED BY <1>2, <2>1, <2>2
<1>4. ASSUME NEW t \in Threads, LeaseTimeout(t) \/ Release(t) \/ ReleaseFails(t)
      PROVE  Handled'
  <2>1. Reset({t}) /\ UNCHANGED storeVars
    BY <1>4 DEF LeaseTimeout, Release, ReleaseFails
  <2> QED BY <2>1, ResetHandled
<1>5. ASSUME NEW s \in Stores, Crash(s) PROVE Handled'
  <2>1. Reset({t \in Threads : Home[t] = s}) /\ UNCHANGED storeVars
    BY <1>5 DEF Crash
  <2> QED BY <2>1, ResetHandled
<1>6. ASSUME NEW t \in Threads, ListEvents(t) PROVE Handled'
  <2>1. ListAfter(Session, seen[t]) \subseteq SessionEvents
    BY DEF ListAfter, SessionEvents
  <2> QED BY <1>6, <2>1
          DEF ListEvents, Handled, SessionEvents, storeVars, End, Goto, TypeOK
<1>7. ASSUME NEW t \in Threads, ApplyListed(t) PROVE Handled'
  <2>1. PICK e \in listed[t] :
          \/ /\ listed' = [listed EXCEPT ![t] = @ \ {e}]
             /\ UNCHANGED pc \/ Goto(t, "target")
          \/ End(t, "failed") /\ UNCHANGED listed
    BY <1>7 DEF ApplyListed
  <2>2. /\ UNCHANGED storeVars /\ UNCHANGED event
        /\ UNCHANGED pc \/ Goto(t, "target") \/ Goto(t, "release")
    BY <1>7, <2>1 DEF ApplyListed, End
  <2>3. listed \in [Threads -> SUBSET Event] /\ pc \in [Threads -> Places]
    BY DEF TypeOK
  <2>4. \A u \in Threads : listed'[u] \subseteq listed[u]
    BY <2>1, <2>3
  <2> QED BY <2>2, <2>3, <2>4 DEF Handled, SessionEvents, storeVars, Goto
<1>8. ASSUME NEW t \in Threads, AppendCommand(t) PROVE Handled'
  <2>1. CASE End(t, "failed") /\ UNCHANGED <<storeVars, event, views>>
    BY <1>8, <2>1 DEF AppendCommand, Handled, SessionEvents, storeVars, End, Goto, TypeOK
  <2>2. ASSUME NEW e, AppendEvent(cmd[t], e), event' = [event EXCEPT ![t] = e],
               Goto(t, "project")
        PROVE  Handled'
    <3>1. cmd[t] \in Commands /\ cmd[t].stream = Session
      BY <1>8, RequestTypes DEF AppendCommand, TypeOK
    <3>2. e \in events' /\ e.stream = Session /\ events \subseteq events'
      BY <2>2, <3>1, AppendCases, LogGrows DEF SameValues, Writes, storeVars
    <3> QED BY <1>8, <2>2, <3>2 DEF AppendCommand, Handled, SessionEvents, Goto, TypeOK
  <2> QED BY <1>8, <2>1, <2>2 DEF AppendCommand
<1>9. ASSUME NEW t \in Threads, ProjectCommand(t) PROVE Handled'
  <2>1. /\ UNCHANGED storeVars /\ UNCHANGED <<listed, event>>
        /\ Goto(t, "target") \/ Goto(t, "release")
    BY <1>9 DEF ProjectCommand, End
  <2> QED BY <1>2, <2>1 DEF Places
<1>10. CASE LeaseRunsOut \/ AppendPlain \/ RuntimeApplies \/ LoseSnapshot \/ UNCHANGED vars
  BY <1>1, <1>10 DEF LeaseRunsOut, AppendPlain, RuntimeApplies, LoseSnapshot, local, vars
<1> QED BY <1>3, <1>4, <1>5, <1>6, <1>7, <1>8, <1>9, <1>10 DEF Next, Step

\* A step that writes the projection applies one event of the session, or drops
\* the snapshot; it leaves the log alone.
Projects(e) == Verdict(e) = "apply" /\ Project(e)

LEMMA TableSteps ==
  ASSUME TypeOK, Handled, [Next]_vars
  PROVE  \/ UNCHANGED table
         \/ UNCHANGED <<storeVars, views>> /\ \E e \in SessionEvents : Projects(e)
         \/ UNCHANGED <<storeVars, views, receipts>> /\ proj' = EmptyView
<1>1. ASSUME NEW t \in Threads, ApplyListed(t) \/ ProjectCommand(t)
      PROVE  \/ UNCHANGED table
             \/ UNCHANGED <<storeVars, views>> /\ \E e \in SessionEvents : Projects(e)
  <2>1. UNCHANGED table \/ \E e \in listed[t] \cup {event[t]} :
          Projects(e) /\ (e = event[t] => pc[t] \in {"project", "reproject"} \/ e \in listed[t])
    BY <1>1 DEF ApplyListed, ProjectCommand, ApplyEvent, Projects
  <2> QED BY <1>1, <2>1 DEF ApplyListed, ProjectCommand, Handled
<1>2. ASSUME NEW t \in Threads,
             Begin(t) \/ Step(t) \/ LeaseTimeout(t) \/ StatementFails(t) \/ ReleaseFails(t),
             ~ApplyListed(t), ~ProjectCommand(t)
      PROVE  UNCHANGED table
  BY <1>2 DEF Begin, Step, LeaseTimeout, StatementFails, ReleaseFails, AcquireLease,
              ReadTarget, ReadState, ListEvents, AppendCommand, FindEarlier, Validate,
              Release
<1>3. CASE (\E s \in Stores : Crash(s)) \/ LeaseRunsOut \/ AppendPlain \/ UNCHANGED vars
  BY <1>3 DEF Crash, LeaseRunsOut, AppendPlain, vars
<1>4. CASE RuntimeApplies
  BY <1>4 DEF RuntimeApplies, Projects
<1>5. CASE LoseSnapshot
  BY <1>5 DEF LoseSnapshot
<1> QED BY <1>1, <1>2, <1>3, <1>4, <1>5 DEF Next

\* The history variable is the replay of the log from the empty session.
ViewsReplay ==
  /\ views[0] = EmptyView
  /\ \A e \in SessionEvents : views[e.seq] = Applied(views[e.seq - 1], e.seq, e.body)

LEMMA EventNumbers ==
  ASSUME TypeOK, StreamsContiguous, NEW e \in SessionEvents
  PROVE  /\ e.seq \in 1..SessionHead /\ e.seq - 1 \in 0..SessionHead
         /\ e.body \in Bodies
BY SessionAssumption DEF TypeOK, StreamsContiguous, SessionEvents, Event

\* An append to the session adds one view, any other append adds none.
LEMMA ViewsGrow ==
  ASSUME TypeOK, NEW r \in Writes, NEW e, AppendEvent(r, e), Recorded(r)
  PROVE  /\ SessionHead' >= SessionHead
         /\ \A n \in 0..SessionHead : views'[n] = views[n]
         /\ \A f \in SessionEvents' \ SessionEvents :
              /\ f.seq = SessionHead + 1 /\ SessionHead' = SessionHead + 1
              /\ views'[f.seq] = Applied(views[SessionHead], f.seq, f.body)
<1>1. SessionHead \in Nat
  BY SessionAssumption DEF TypeOK
<1>2. CASE UNCHANGED storeVars /\ UNCHANGED views
  BY <1>1, <1>2 DEF storeVars, SessionEvents
<1>3. CASE /\ Earlier(r) = {} /\ e = NewEvent(r)
           /\ events' = events \cup {e}
           /\ heads' = [heads EXCEPT ![r.stream] = heads[r.stream] + 1]
  <2>1. CASE r.stream # Session
    <3>1. SessionHead' = SessionHead /\ views' = views
      BY <1>3, <2>1 DEF Recorded, TypeOK
    <3>2. SessionEvents' = SessionEvents
      BY <1>3, <2>1 DEF SessionEvents, NewEvent
    <3> QED BY <1>1, <3>1, <3>2
  <2>2. CASE r.stream = Session
    <3>1. SessionHead' = SessionHead + 1
      BY <1>3, <2>2, SessionAssumption DEF TypeOK
    <3>2. e.seq = SessionHead + 1 /\ e.body = r.body
      BY <1>3, <2>2 DEF NewEvent, NextSeq
    <3>3. views' = [n \in 0..SessionHead + 1 |->
                      IF n <= SessionHead THEN views[n]
                      ELSE Applied(views[SessionHead], SessionHead + 1, r.body)]
      BY <1>3, <2>2 DEF Recorded
    <3>4. \A n \in 0..SessionHead : views'[n] = views[n]
      BY <1>1, <3>3
    <3>5. views'[SessionHead + 1] = Applied(views[SessionHead], SessionHead + 1, r.body)
      BY <1>1, <3>3
    <3>6. \A f \in SessionEvents' \ SessionEvents : f = e
      BY <1>3 DEF SessionEvents
    <3> QED BY <1>1, <3>1, <3>2, <3>4, <3>5, <3>6
  <2> QED BY <2>1, <2>2
<1>4. UNCHANGED storeVars => UNCHANGED views \/ Earlier(r) = {}
  BY DEF Recorded
<1>5. \/ Earlier(r) # {} /\ UNCHANGED storeVars
      \/ /\ Earlier(r) = {} /\ e = NewEvent(r)
         /\ events' = events \cup {e}
         /\ heads' = [heads EXCEPT ![r.stream] = heads[r.stream] + 1]
  BY AppendCases
<1> QED BY <1>2, <1>3, <1>4, <1>5

\* No step rewrites history: the log and its replay only grow.
LEMMA HistoryGrows ==
  ASSUME TypeOK, [Next]_vars
  PROVE  /\ SessionHead' >= SessionHead
         /\ \A n \in 0..SessionHead : views'[n] = views[n]
<1>1. CASE UNCHANGED <<storeVars, views>>
  <2>1. SessionHead \in Nat /\ SessionHead' = SessionHead
    BY <1>1, SessionAssumption DEF TypeOK, storeVars
  <2> QED BY <1>1, <2>1
<1> QED BY <1>1, StoreSteps, ViewsGrow

LEMMA ViewsReplayStep ==
  ASSUME TypeOK, StreamsContiguous, ViewsReplay, [Next]_vars
  PROVE  ViewsReplay'
<1>1. CASE UNCHANGED <<storeVars, views>>
  BY <1>1 DEF ViewsReplay, SessionEvents, storeVars
<1>2. ASSUME NEW r \in Writes, NEW e, AppendEvent(r, e), Recorded(r)
      PROVE  ViewsReplay'
  <2>1. SessionHead \in Nat
    BY SessionAssumption DEF TypeOK
  <2>2. views'[0] = EmptyView
    BY <1>2, <2>1, ViewsGrow DEF ViewsReplay
  <2>3. ASSUME NEW f \in SessionEvents
        PROVE  views'[f.seq] = Applied(views'[f.seq - 1], f.seq, f.body)
    <3>1. views'[f.seq] = views[f.seq] /\ views'[f.seq - 1] = views[f.seq - 1]
      BY <1>2, EventNumbers, ViewsGrow
    <3> QED BY <3>1 DEF ViewsReplay
  <2>4. ASSUME NEW f \in SessionEvents' \ SessionEvents
        PROVE  views'[f.seq] = Applied(views'[f.seq - 1], f.seq, f.body)
    <3>1. f.seq - 1 = SessionHead /\ views'[SessionHead] = views[SessionHead]
      BY <1>2, <2>1, ViewsGrow
    <3> QED BY <1>2, <3>1, ViewsGrow
  <2>5. \A f \in SessionEvents' :
          views'[f.seq] = Applied(views'[f.seq - 1], f.seq, f.body)
    BY <2>3, <2>4
  <2> QED BY <2>2, <2>5 DEF ViewsReplay
<1> QED BY <1>1, <1>2, StoreSteps

LEMMA ReceiptsStep ==
  ASSUME TypeOK, StreamsContiguous, Handled, ReceiptsProveSnapshot, [Next]_vars
  PROVE  ReceiptsProveSnapshot'
<1>1. SessionEvents \subseteq SessionEvents' /\ SessionHead' >= SessionHead
      /\ SessionHead \in Nat /\ SessionHead' \in Nat
  BY LogGrows, HistoryGrows, StepType, SessionAssumption DEF SessionEvents, TypeOK
<1>2. proj.last \in Nat /\ \A e \in SessionEvents : e.seq \in 1..SessionHead
  BY EventNumbers DEF TypeOK, View
<1>3. CASE UNCHANGED table
  BY <1>1, <1>2, <1>3 DEF ReceiptsProveSnapshot, PrefixReceipted, table
<1>4. ASSUME UNCHANGED <<storeVars, views>>, NEW e \in SessionEvents, Projects(e)
      PROVE  ReceiptsProveSnapshot'
  <2>1. e.seq = proj.last + 1 /\ receipts' = receipts \cup {e}
    BY <1>4 DEF Projects, Verdict, Project
  <2>5. e.seq \in Nat /\ e.body \in Bodies
    BY <1>2, <1>4, EventNumbers
  <2>6. proj' = Applied(proj, e.seq, e.body) /\ proj \in View
    BY <1>4 DEF Projects, Project, TypeOK
  <2>2. proj'.last = e.seq
    BY <2>5, <2>6, BodiesAssumption, AppliedType
  <2>3. receipts' \subseteq SessionEvents' /\ proj'.last <= SessionHead'
    BY <1>1, <1>2, <2>1, <2>2 DEF ReceiptsProveSnapshot
  <2>4. ASSUME NEW n \in 1..proj'.last PROVE \E x \in receipts' : x.seq = n
    <3>1. CASE n = e.seq
      BY <2>1, <3>1
    <3>2. CASE n \in 1..proj.last
      BY <2>1, <3>2 DEF ReceiptsProveSnapshot, PrefixReceipted
    <3> QED BY <1>2, <2>1, <2>2, <3>1, <3>2
  <2> QED BY <2>3, <2>4 DEF ReceiptsProveSnapshot, PrefixReceipted
<1>5. CASE UNCHANGED <<storeVars, views, receipts>> /\ proj' = EmptyView
  BY <1>1, <1>5 DEF ReceiptsProveSnapshot, PrefixReceipted, EmptyView
<1> QED BY <1>3, <1>4, <1>5, TableSteps

LEMMA ProjectionStep ==
  ASSUME TypeOK, StreamsContiguous, Handled, ViewsReplay, ReceiptsProveSnapshot,
         ProjectionIsReplay, [Next]_vars
  PROVE  ProjectionIsReplay'
<1>1. proj.last \in 0..SessionHead
  BY SessionAssumption DEF TypeOK, View, ReceiptsProveSnapshot
<1>2. CASE UNCHANGED table
  <2>1. views'[proj.last] = views[proj.last]
    BY <1>1, HistoryGrows
  <2> QED BY <1>2, <2>1 DEF ProjectionIsReplay, table
<1>3. ASSUME UNCHANGED <<storeVars, views>>, NEW e \in SessionEvents, Projects(e)
      PROVE  ProjectionIsReplay'
  <2>1. e.seq = proj.last + 1 /\ e.seq \in Nat /\ e.body \in CommandBody \cup PlainBody
    BY <1>3, BodiesAssumption, EventNumbers DEF Projects, Verdict
  <2>2. proj' = Applied(proj, e.seq, e.body) /\ proj'.last = e.seq
    BY <1>3, <2>1, AppliedType DEF Projects, Project, TypeOK
  <2>3. views[e.seq] = Applied(views[proj.last], e.seq, e.body)
    BY <1>1, <2>1 DEF ViewsReplay
  <2> QED BY <1>3, <2>2, <2>3 DEF ProjectionIsReplay
<1>4. CASE UNCHANGED <<storeVars, views, receipts>> /\ proj' = EmptyView
  BY <1>4 DEF ProjectionIsReplay, ViewsReplay, EmptyView
<1> QED BY <1>2, <1>3, <1>4, TableSteps

\* What makes the log's replay inductive.
ReplayInv ==
  /\ StreamsContiguous
  /\ Handled
  /\ ViewsReplay
  /\ ReceiptsProveSnapshot
  /\ ProjectionIsReplay

LEMMA ReplayInvariant == Spec => []ReplayInv
<1>1. Init => ReplayInv
  BY SessionAssumption
     DEF Init, StoreInit, ReplayInv, StreamsContiguous, Handled, ViewsReplay,
         SessionEvents, ReceiptsProveSnapshot, PrefixReceipted, ProjectionIsReplay,
         EmptyView
<1>2. TypeOK /\ ReplayInv /\ [Next]_vars => ReplayInv'
  BY ContiguousStep, HandledStep, ViewsReplayStep, ReceiptsStep, ProjectionStep
     DEF ReplayInv
<1> QED BY <1>1, <1>2, TypeCorrect, PTL DEF Spec

\* Whatever races and fails, the receipts prove the snapshot.
THEOREM ReceiptsAlwaysProve == Spec => []ReceiptsProveSnapshot
<1>1. ReplayInv => ReceiptsProveSnapshot
  BY DEF ReplayInv
<1> QED BY <1>1, ReplayInvariant, PTL

\* Whatever races and fails, the snapshot is the replay of a prefix of the log.
THEOREM ProjectionReplays == Spec => []ProjectionIsReplay
<1>1. ReplayInv => ProjectionIsReplay
  BY DEF ReplayInv
<1> QED BY <1>1, ReplayInvariant, PTL

-----------------------------------------------------------------------------
(* 3. Answers and fencing.                                                 *)

\* What a call knows of its own event: nothing before the append, then an event
\* with the values of the command, and in the answer a state at or past it.
Answered(t) ==
  /\ pc[t] \in {"idle", "lease"} => event[t] = None
  /\ event[t] # None \/ pc[t] \in {"project", "reproject"} =>
       SameValues(event[t], cmd[t])
  /\ outcome[t] = "ok" =>
       /\ At(t, "release")
       /\ event[t] \in events
       /\ SameValues(event[t], cmd[t])
       /\ seen[t] >= event[t].seq

Answers == \A t \in Threads : Answered(t)

\* A thread that a step leaves alone keeps its answer.
LEMMA BystanderAnswered ==
  ASSUME Answers, NEW t \in Threads, events \subseteq events',
         pc'[t] = pc[t], cmd'[t] = cmd[t], seen'[t] = seen[t], event'[t] = event[t],
         outcome'[t] = outcome[t]
  PROVE  Answered(t)'
BY DEF Answers, Answered, SameValues

\* A thread that lost its local state has none.
LEMMA ResetAnswered ==
  ASSUME Answers, events \subseteq events', NEW T \in SUBSET Threads, Reset(T)
  PROVE  Answers'
<1>1. ASSUME NEW t \in Threads, t \in T PROVE Answered(t)'
  <2>1. pc'[t] = "idle" /\ event'[t] = None /\ outcome'[t] = "none"
    BY <1>1 DEF Reset
  <2> QED BY <2>1 DEF Answered
<1>2. ASSUME NEW t \in Threads, t \notin T PROVE Answered(t)'
  <2>1. /\ pc'[t] = pc[t] /\ cmd'[t] = cmd[t] /\ seen'[t] = seen[t]
        /\ event'[t] = event[t] /\ outcome'[t] = outcome[t]
    BY <1>2 DEF Reset
  <2> QED BY <2>1, BystanderAnswered
<1> QED BY <1>1, <1>2 DEF Answers

\* The projection that answers a call is at or past the call's event.
LEMMA AppliedIsSeen ==
  ASSUME TypeOK, StreamsContiguous, NEW e \in SessionEvents, ApplyEvent(e)
  PROVE  proj'.last >= e.seq
<1>1. e.seq \in Nat /\ e.body \in CommandBody \cup PlainBody /\ proj \in View
  BY EventNumbers, BodiesAssumption, SessionAssumption DEF TypeOK
<1>2. CASE Verdict(e) = "apply" /\ Project(e)
  BY <1>1, <1>2 DEF Project, Applied
<1>3. CASE Verdict(e) = "known" /\ UNCHANGED table
  BY <1>1, <1>3 DEF Verdict, table
<1> QED BY <1>2, <1>3 DEF ApplyEvent

LEMMA AnswersStep ==
  ASSUME TypeOK, StreamsContiguous, Handled, Answers, [Next]_vars
  PROVE  Answers'
<1>1. events \subseteq events'
  BY LogGrows
<1>2. ASSUME NEW t \in Threads,
             Begin(t) \/ AcquireLease(t) \/ ReadTarget(t) \/ ReadState(t) \/ ListEvents(t)
             \/ ApplyListed(t) \/ FindEarlier(t) \/ Validate(t) \/ StatementFails(t)
      PROVE  Answers'
  <2>1. /\ UNCHANGED event
        /\ pc'[t] \notin {"idle"}
        /\ pc'[t] = "lease" => At(t, "idle")
        /\ pc'[t] \notin {"project"}
        /\ pc'[t] = "reproject" => event[t] # None
        /\ cmd'[t] = cmd[t] \/ At(t, "idle")
        /\ outcome'[t] # "ok"
    BY <1>2 DEF Begin, AcquireLease, ReadTarget, ReadState, ListEvents, ApplyListed,
                FindEarlier, Validate, StatementFails, Goto, End, TypeOK, Answers, Answered,
                Critical
  <2>2. Answered(t)'
    BY <2>1 DEF Answers, Answered
  <2>3. ASSUME NEW u \in Threads, u # t PROVE Answered(u)'
    <3>1. /\ pc'[u] = pc[u] /\ cmd'[u] = cmd[u] /\ seen'[u] = seen[u]
          /\ event'[u] = event[u] /\ outcome'[u] = outcome[u]
      BY <1>2, <2>3 DEF Begin, AcquireLease, ReadTarget, ReadState, ListEvents, ApplyListed,
                FindEarlier, Validate, StatementFails, Goto, End, TypeOK
    <3> QED BY <1>1, <3>1, BystanderAnswered
  <2> QED BY <2>2, <2>3 DEF Answers
<1>3. ASSUME NEW t \in Threads, AppendCommand(t) PROVE Answers'
  <2>1. cmd[t] \in Writes /\ UNCHANGED <<cmd, seen>>
    BY <1>3 DEF AppendCommand, TypeOK, Writes
  <2>2. \/ \E e : AppendEvent(cmd[t], e) /\ event'[t] = e /\ pc'[t] = "project"
                  /\ outcome'[t] = outcome[t]
        \/ event'[t] = event[t] /\ pc'[t] = "release" /\ outcome'[t] = "failed"
    BY <1>3 DEF AppendCommand, Goto, End, TypeOK
  <2>3. Answered(t)'
    <3>1. outcome[t] # "ok"
      BY <1>3 DEF AppendCommand, Answers, Answered
    <3> QED BY <2>1, <2>2, <3>1, AppendCases DEF Answers, Answered
  <2>4. ASSUME NEW u \in Threads, u # t PROVE Answered(u)'
    <3>1. pc'[u] = pc[u] /\ event'[u] = event[u] /\ outcome'[u] = outcome[u]
      BY <1>3, <2>4 DEF AppendCommand, Goto, End, TypeOK
    <3> QED BY <1>1, <2>1, <3>1, BystanderAnswered
  <2> QED BY <2>3, <2>4 DEF Answers
<1>4. ASSUME NEW t \in Threads, ProjectCommand(t) PROVE Answers'
  <2>1. UNCHANGED <<storeVars, cmd, event>> /\ pc[t] \in {"project", "reproject"}
    BY <1>4 DEF ProjectCommand
  <2>2. event[t] \in SessionEvents /\ SameValues(event[t], cmd[t])
    BY <2>1 DEF Handled, Answers, Answered
  <2>3. \/ /\ ApplyEvent(event[t]) /\ seen'[t] = proj'.last
           /\ pc'[t] = "release" /\ outcome'[t] = "ok"
        \/ pc'[t] \in {"target", "release"} /\ outcome'[t] # "ok"
    BY <1>4 DEF ProjectCommand, Goto, End, TypeOK, Answers, Answered
  <2>4. Answered(t)'
    BY <2>1, <2>2, <2>3, AppliedIsSeen DEF Answered, SessionEvents, storeVars
  <2>5. ASSUME NEW u \in Threads, u # t PROVE Answered(u)'
    <3>1. pc'[u] = pc[u] /\ seen'[u] = seen[u] /\ outcome'[u] = outcome[u]
      BY <1>4, <2>5 DEF ProjectCommand, Goto, End, TypeOK
    <3> QED BY <1>1, <2>1, <3>1, BystanderAnswered
  <2> QED BY <2>4, <2>5 DEF Answers
<1>5. ASSUME NEW t \in Threads, LeaseTimeout(t) \/ Release(t) \/ ReleaseFails(t)
      PROVE  Answers'
  <2>1. Reset({t})
    BY <1>5 DEF LeaseTimeout, Release, ReleaseFails
  <2> QED BY <1>1, <2>1, ResetAnswered
<1>6. ASSUME NEW s \in Stores, Crash(s) PROVE Answers'
  <2>1. Reset({t \in Threads : Home[t] = s})
    BY <1>6 DEF Crash
  <2> QED BY <1>1, <2>1, ResetAnswered
<1>7. CASE LeaseRunsOut \/ AppendPlain \/ RuntimeApplies \/ LoseSnapshot \/ UNCHANGED vars
  <2>1. UNCHANGED local
    BY <1>7 DEF LeaseRunsOut, AppendPlain, RuntimeApplies, LoseSnapshot, vars, local
  <2> QED BY <1>1, <2>1, BystanderAnswered DEF local, Answers
<1> QED BY <1>2, <1>3, <1>4, <1>5, <1>6, <1>7 DEF Next, Step

\* Read-your-writes, whatever races and fails and however late a lease holder
\* is: a call of append_explicit that succeeds answers with its own event, from
\* the log, and with a projection that includes it.
THEOREM SuccessShowsItself == Spec => []SuccessIsVisible
<1>1. Init => Answers
  BY DEF Init, Answers, Answered
<1>2. TypeOK /\ ReplayInv /\ Answers /\ [Next]_vars => Answers'
  BY AnswersStep DEF ReplayInv
<1>3. Answers => SuccessIsVisible
  BY DEF Answers, Answered, SuccessIsVisible
<1> QED BY <1>1, <1>2, <1>3, TypeCorrect, ReplayInvariant, PTL DEF Spec

\* Fencing, for any number of threads and stores: what a thread of
\* append_explicit writes to the projection it writes under the newest token.
THEOREM WritesAreFenced == Spec => StaleThreadsNeverWrite
<1>1. ASSUME TypeOK, Next, NEW t \in Threads, pc[t] \in {"apply", "project", "reproject"},
             <<pc[t], listed[t]>> # <<pc'[t], listed'[t]>>, proj' # proj
      PROVE  token[t] = lease.token
  <2>1. CASE ApplyListed(t) \/ ProjectCommand(t)
    BY <1>1, <2>1 DEF ApplyListed, ProjectCommand, LeaseHeld, table
  <2>2. ASSUME NEW u \in Threads, u # t, ApplyListed(u) \/ ProjectCommand(u) PROVE FALSE
    BY <1>1, <2>2 DEF ApplyListed, ProjectCommand, Goto, End, TypeOK
  <2>3. ASSUME NEW u \in Threads,
               Begin(u) \/ AcquireLease(u) \/ ReadTarget(u) \/ ReadState(u) \/ ListEvents(u)
               \/ FindEarlier(u) \/ Validate(u) \/ AppendCommand(u) \/ Release(u)
               \/ LeaseTimeout(u) \/ StatementFails(u) \/ ReleaseFails(u)
        PROVE  FALSE
    BY <1>1, <2>3 DEF Begin, AcquireLease, ReadTarget, ReadState, ListEvents, FindEarlier,
                      Validate, AppendCommand, Release, LeaseTimeout, StatementFails,
                      ReleaseFails, table
  <2>4. CASE (\E s \in Stores : Crash(s)) \/ LeaseRunsOut \/ AppendPlain
    BY <1>1, <2>4 DEF Crash, LeaseRunsOut, AppendPlain, table
  <2>5. CASE RuntimeApplies \/ LoseSnapshot
    BY <1>1, <2>5 DEF RuntimeApplies, LoseSnapshot, local
  <2> QED BY <1>1, <2>1, <2>2, <2>3, <2>4, <2>5 DEF Next, Step
<1>2. TypeOK /\ [Next]_vars =>
        [\A t \in Threads :
           /\ pc[t] \in {"apply", "project", "reproject"}
           /\ <<pc[t], listed[t]>> # <<pc'[t], listed'[t]>>
           /\ proj' # proj
           => token[t] = lease.token]_vars
  BY <1>1
<1> QED BY <1>2, TypeCorrect, PTL DEF Spec, StaleThreadsNeverWrite

-----------------------------------------------------------------------------
(* 4. The lease and its diagnostics.                                       *)

\* Tokens are drawn once: no thread and no report has one the row has not given
\* out, and the newest token is known to the store the row names.
Tokens ==
  /\ \A s \in Stores : releaseErr[s] <= lease.token
  /\ \A t \in Threads : Critical(t) =>
       /\ token[t] <= lease.token
       /\ token[t] = lease.token => lease.owner = Home[t]

Reports == Tokens /\ OrphanLeaseReported

\* A step that leaves the lease and its reports alone and keeps who is critical.
LEMMA QuietReports ==
  ASSUME Reports, UNCHANGED <<lease, releaseErr, token>>,
         \A t \in Threads : Critical(t)' <=> Critical(t)
  PROVE  Reports'
BY DEF Reports, Tokens, OrphanLeaseReported

LEMMA ReportsStep ==
  ASSUME TypeOK, Reports, [Next]_vars
  PROVE  Reports'
<1> DEFINE Numbers == /\ lease.token \in Nat
                      /\ \A s \in Stores : releaseErr[s] \in Nat
                      /\ \A u \in Threads : token[u] \in Nat
<1>0. Numbers
  BY DEF TypeOK
<1>1. ASSUME NEW t \in Threads,
             Begin(t) \/ ReadTarget(t) \/ ReadState(t) \/ ListEvents(t) \/ ApplyListed(t)
             \/ FindEarlier(t) \/ Validate(t) \/ AppendCommand(t) \/ ProjectCommand(t)
             \/ StatementFails(t)
      PROVE  Reports'
  <2>1. UNCHANGED <<lease, releaseErr, token>>
    BY <1>1 DEF Begin, ReadTarget, ReadState, ListEvents, ApplyListed, FindEarlier,
                Validate, AppendCommand, ProjectCommand, StatementFails
  <2>2. UNCHANGED pc \/ \E l \in Places : /\ Goto(t, l)
                                          /\ l \notin {"idle", "lease"} <=> Critical(t)
    BY <1>1 DEF Begin, ReadTarget, ReadState, ListEvents, ApplyListed, FindEarlier,
                Validate, AppendCommand, ProjectCommand, StatementFails, End, Goto,
                Places, Critical
  <2>3. \A u \in Threads : Critical(u)' <=> Critical(u)
    BY <2>2 DEF Goto, Critical, TypeOK
  <2> QED BY <2>1, <2>3, QuietReports
<1>2. ASSUME NEW t \in Threads, AcquireLease(t) PROVE Reports'
  <2>1. /\ lease.token \in Nat /\ UNCHANGED releaseErr
        /\ lease' = [token |-> lease.token + 1, owner |-> Home[t], live |-> TRUE]
        /\ token'[t] = lease.token + 1 /\ Critical(t)'
    BY <1>2 DEF AcquireLease, Goto, Critical, TypeOK
  <2>2. \A u \in Threads \ {t} : token'[u] = token[u] /\ (Critical(u)' <=> Critical(u))
    BY <1>2 DEF AcquireLease, Goto, Critical, TypeOK
  <2>3. \A s \in Stores : releaseErr'[s] <= lease'.token
    BY <2>1 DEF Reports, Tokens, TypeOK
  <2>5. lease'.token = lease.token + 1 /\ lease'.owner = Home[t]
    BY <2>1
  <2>4. \A u \in Threads \ {t} : Critical(u)' =>
          token'[u] <= lease.token /\ token'[u] \in Nat
    BY <1>0, <2>2 DEF Reports, Tokens
  <2>6. Tokens'
    <3>1. \A u \in Threads : Critical(u)' =>
            token'[u] <= lease'.token /\ (token'[u] = lease'.token => u = t)
      BY <1>0, <2>1, <2>2, <2>4, <2>5
    <3> QED BY <2>3, <2>5, <3>1 DEF Tokens
  <2>7. OrphanLeaseReported'
    BY <2>1, <2>5 DEF OrphanLeaseReported
  <2> QED BY <2>6, <2>7 DEF Reports
<1>3. ASSUME NEW T \in SUBSET Threads, Reset(T)
      PROVE  \A u \in Threads : /\ Critical(u)' <=> Critical(u) /\ u \notin T
                                /\ u \notin T => token'[u] = token[u]
  BY <1>3 DEF Reset, Critical
<1>4. ASSUME NEW t \in Threads, Release(t) PROVE Reports'
  <2>1. Reset({t}) /\ Critical(t)
    BY <1>4 DEF Release, Critical
  <2>2. CASE lease.token = token[t] /\ lease.owner = Home[t]
    <3>1. /\ lease'.token = lease.token /\ lease'.owner = lease.owner /\ ~lease'.live
          /\ \A s \in Stores : releaseErr'[s] \in {0, releaseErr[s]}
      BY <1>4, <2>2 DEF Release, TypeOK
    <3>2. \A s \in Stores : releaseErr'[s] <= lease'.token
      BY <1>0, <3>1 DEF Reports, Tokens
    <3> QED BY <1>3, <2>1, <3>1, <3>2 DEF Reports, Tokens, OrphanLeaseReported
  <2>3. CASE ~(lease.token = token[t] /\ lease.owner = Home[t])
    <3>1. UNCHANGED <<lease, releaseErr>> /\ token[t] # lease.token
      BY <1>4, <2>1, <2>3 DEF Release, Reports, Tokens
    <3> QED BY <1>3, <2>1, <3>1 DEF Reports, Tokens, OrphanLeaseReported
  <2> QED BY <2>2, <2>3
<1>5. ASSUME NEW t \in Threads, ReleaseFails(t) PROVE Reports'
  <2>1. Reset({t}) /\ Critical(t) /\ UNCHANGED lease /\ Home[t] \in Stores
    BY <1>5, HomeAssumption DEF ReleaseFails, Critical
  <2>2. /\ releaseErr'[Home[t]] = IF token[t] >= releaseErr[Home[t]] THEN token[t]
                                  ELSE releaseErr[Home[t]]
        /\ \A s \in Stores \ {Home[t]} : releaseErr'[s] = releaseErr[s]
    BY <1>5, <2>1 DEF ReleaseFails, TypeOK
  <2>3. /\ lease.token \in Nat /\ token[t] \in Nat /\ releaseErr[Home[t]] \in Nat
        /\ releaseErr[Home[t]] <= lease.token
        /\ token[t] <= lease.token
        /\ token[t] = lease.token => lease.owner = Home[t]
    BY <2>1 DEF Reports, Tokens, TypeOK
  <2>4. Tokens'
    <3>1. \A s \in Stores : releaseErr'[s] <= lease.token
      BY <2>2, <2>3 DEF Reports, Tokens
    <3> QED BY <1>3, <2>1, <3>1 DEF Reports, Tokens
  <2>5. CASE token[t] = lease.token
    BY <2>1, <2>2, <2>3, <2>4, <2>5 DEF Reports, OrphanLeaseReported
  <2>6. CASE token[t] < lease.token
    <3>1. \A s \in Stores : releaseErr[s] = lease.token => releaseErr'[s] = lease.token
      BY <2>2, <2>3, <2>6
    <3>2. lease.owner # None => lease.owner \in Stores
      BY DEF TypeOK
    <3>3. ASSUME NEW u \in Threads, Critical(u), token[u] = lease.token
          PROVE  Critical(u)' /\ token'[u] = lease.token
      BY <1>3, <2>1, <2>3, <2>6, <3>3
    <3> QED BY <2>1, <2>4, <3>1, <3>2, <3>3 DEF Reports, OrphanLeaseReported
  <2> QED BY <2>3, <2>5, <2>6
<1>6. ASSUME NEW t \in Threads, LeaseTimeout(t) PROVE Reports'
  <2>1. Reset({t}) /\ ~Critical(t) /\ UNCHANGED <<lease, releaseErr>>
    BY <1>6 DEF LeaseTimeout, Critical
  <2> QED BY <1>3, <2>1 DEF Reports, Tokens, OrphanLeaseReported
<1>7. ASSUME NEW s \in Stores, Crash(s) PROVE Reports'
  <2>1. /\ lease'.token = lease.token /\ lease'.live = lease.live
        /\ lease'.owner = IF lease.owner = s THEN None ELSE lease.owner
        /\ releaseErr'[s] = 0 /\ \A o \in Stores \ {s} : releaseErr'[o] = releaseErr[o]
    BY <1>7 DEF Crash, TypeOK
  <2>2. \A u \in Threads : /\ Critical(u)' <=> Critical(u) /\ Home[u] # s
                           /\ Home[u] # s => token'[u] = token[u]
    BY <1>3, <1>7 DEF Crash
  <2>3. Tokens'
    <3>1. \A o \in Stores : releaseErr'[o] <= lease'.token
      BY <1>0, <2>1 DEF Reports, Tokens
    <3> QED BY <2>1, <2>2, <3>1 DEF Reports, Tokens
  <2>4. OrphanLeaseReported'
    <3>1. SUFFICES ASSUME lease.live, lease.owner # s, lease.owner \in Stores
                   PROVE  \/ \E t \in Threads : Critical(t)' /\ token'[t] = lease.token
                          \/ releaseErr'[lease.owner] = lease.token
      BY <2>1 DEF OrphanLeaseReported, TypeOK
    <3>2. lease.owner # None
      BY <3>1, NobodyAssumption
    <3>3. CASE releaseErr[lease.owner] = lease.token
      BY <2>1, <3>1, <3>3
    <3>4. ASSUME NEW t \in Threads, Critical(t), token[t] = lease.token
          PROVE  Critical(t)' /\ token'[t] = lease.token
      BY <2>2, <3>1, <3>4 DEF Reports, Tokens
    <3> QED BY <3>1, <3>2, <3>3, <3>4 DEF Reports, OrphanLeaseReported
  <2> QED BY <2>3, <2>4 DEF Reports
<1>8. CASE LeaseRunsOut
  <2>1. /\ lease'.token = lease.token /\ lease'.owner = lease.owner /\ ~lease'.live
        /\ UNCHANGED <<releaseErr, token, pc>>
    BY <1>8 DEF LeaseRunsOut, local, TypeOK
  <2> QED BY <2>1 DEF Reports, Tokens, OrphanLeaseReported, Critical
<1>9. CASE AppendPlain \/ RuntimeApplies \/ LoseSnapshot \/ UNCHANGED vars
  <2>1. UNCHANGED <<lease, releaseErr, token, pc>>
    BY <1>9 DEF AppendPlain, RuntimeApplies, LoseSnapshot, vars, local
  <2> QED BY <2>1, QuietReports DEF Critical
<1> QED BY <1>1, <1>2, <1>4, <1>5, <1>6, <1>7, <1>8, <1>9 DEF Next, Step

\* A lease that nobody uses any more while it keeps others waiting is reported
\* by the live process that left it, even when commands outlive their leases.
THEOREM OrphanLeasesAreReported == Spec => []OrphanLeaseReported
<1>1. Init => Reports
  BY DEF Init, Reports, Tokens, OrphanLeaseReported, Critical
<1>2. TypeOK /\ Reports /\ [Next]_vars => Reports'
  BY ReportsStep
<1>3. Reports => OrphanLeaseReported
  BY DEF Reports
<1> QED BY <1>1, <1>2, <1>3, TypeCorrect, PTL DEF Spec
=============================================================================
