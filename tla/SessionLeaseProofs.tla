------------------------- MODULE SessionLeaseProofs -------------------------
(***************************************************************************)
(* What SessionCommands promises as long as commands finish before their   *)
(* lease runs out (PausesOutliveLease = FALSE), for every set of threads,  *)
(* stores, commands and writes and every number of calls.                  *)
(*                                                                         *)
(* 1. The lease: whoever is inside command_lease holds it, so commands     *)
(*    exclude each other.                                                  *)
(* 2. The preflight: between reading the target and the append only plain  *)
(*    events join the log, and those leave the memories as they are.  So   *)
(*    what was validated against the snapshot still applies at the head.   *)
(* 3. The refinement: an event that joins the session is a Commit of       *)
(*    SessionHistory, an event applied to the projection is a ProjectNext, *)
(*    a lost snapshot is a StartOver, and every other step stutters.       *)
(***************************************************************************)
EXTENDS SessionCommandsProofs

USE DEF At, SessionHead, LastSeq

-----------------------------------------------------------------------------
(* 1. The lease.                                                           *)

HoldersOwnLease == \A t \in Threads : Critical(t) => LeaseHeld(t)

Tenure == HoldersOwnLease /\ CommandsExclusive

\* A step that leaves the lease alone and lets nobody in.
LEMMA NobodyEnters ==
  ASSUME Tenure, UNCHANGED <<lease, token>>,
         \A t \in Threads : Critical(t)' => Critical(t)
  PROVE  Tenure'
BY DEF Tenure, HoldersOwnLease, CommandsExclusive, LeaseHeld

\* The threads of T leave, and nobody of another store loses its lease.
LEMMA ResetTenure ==
  ASSUME Tenure, NEW T \in SUBSET Threads, Reset(T),
         \A t \in Threads \ T : Critical(t) =>
            /\ lease'.token = lease.token
            /\ lease'.live = lease.live
            /\ lease'.owner = lease.owner
  PROVE  Tenure'
<1>1. \A t \in Threads : Critical(t)' => t \notin T /\ Critical(t) /\ token'[t] = token[t]
  BY DEF Reset, Critical
<1> QED BY <1>1 DEF Tenure, HoldersOwnLease, CommandsExclusive, LeaseHeld

LEMMA TenureStep ==
  ASSUME PausesOutliveLease = FALSE, TypeOK, Tenure, [Next]_vars
  PROVE  Tenure'
<1>1. ASSUME NEW t \in Threads,
             Begin(t) \/ ReadTarget(t) \/ ReadState(t) \/ ListEvents(t) \/ ApplyListed(t)
             \/ FindEarlier(t) \/ Validate(t) \/ AppendCommand(t) \/ ProjectCommand(t)
             \/ StatementFails(t)
      PROVE  Tenure'
  <2>1. UNCHANGED <<lease, token>>
    BY <1>1 DEF Begin, ReadTarget, ReadState, ListEvents, ApplyListed, FindEarlier,
                Validate, AppendCommand, ProjectCommand, StatementFails
  <2>2. UNCHANGED pc \/ \E l \in Places : Goto(t, l) /\ (l = "lease" \/ Critical(t))
    BY <1>1 DEF Begin, ReadTarget, ReadState, ListEvents, ApplyListed, FindEarlier,
                Validate, AppendCommand, ProjectCommand, StatementFails, End, Goto,
                Places, Critical
  <2>3. \A u \in Threads : Critical(u)' => Critical(u)
    BY <2>2 DEF Goto, Critical, TypeOK
  <2> QED BY <2>1, <2>3, NobodyEnters
<1>2. ASSUME NEW t \in Threads, AcquireLease(t) PROVE Tenure'
  <2>1. \A u \in Threads : ~Critical(u)
    BY <1>2 DEF AcquireLease, Tenure, HoldersOwnLease, LeaseHeld
  <2>2. \A u \in Threads : Critical(u)' => u = t
    BY <1>2, <2>1 DEF AcquireLease, Goto, Critical, TypeOK
  <2>3. LeaseHeld(t)'
    BY <1>2 DEF AcquireLease, LeaseHeld, TypeOK
  <2> QED BY <2>2, <2>3 DEF Tenure, HoldersOwnLease, CommandsExclusive
<1>3. ASSUME NEW t \in Threads, Release(t) \/ ReleaseFails(t) PROVE Tenure'
  <2>1. Reset({t}) /\ \A u \in Threads \ {t} : ~Critical(u)
    BY <1>3 DEF Release, ReleaseFails, Critical, Tenure, CommandsExclusive
  <2> QED BY <2>1, ResetTenure
<1>4. ASSUME NEW t \in Threads, LeaseTimeout(t) PROVE Tenure'
  BY <1>4, ResetTenure DEF LeaseTimeout
<1>5. ASSUME NEW s \in Stores, Crash(s) PROVE Tenure'
  <2> DEFINE T == {t \in Threads : Home[t] = s}
  <2>1. \A t \in Threads \ T : Critical(t) => lease.owner # s
    BY DEF Tenure, HoldersOwnLease, LeaseHeld
  <2>2. /\ lease'.token = lease.token /\ lease'.live = lease.live
        /\ lease.owner # s => lease'.owner = lease.owner
    BY <1>5 DEF Crash, TypeOK
  <2>3. Reset(T)
    BY <1>5 DEF Crash
  <2> QED BY <2>1, <2>2, <2>3, ResetTenure
<1>6. CASE LeaseRunsOut
  <2>1. \A t \in Threads : ~Critical(t)
    BY <1>6 DEF LeaseRunsOut, Tenure, HoldersOwnLease, LeaseHeld
  <2>2. UNCHANGED pc
    BY <1>6 DEF LeaseRunsOut, local
  <2> QED BY <2>1, <2>2 DEF Tenure, HoldersOwnLease, CommandsExclusive, Critical
<1>7. CASE AppendPlain \/ RuntimeApplies \/ LoseSnapshot \/ UNCHANGED vars
  <2>1. UNCHANGED <<lease, token, pc>>
    BY <1>7 DEF AppendPlain, RuntimeApplies, LoseSnapshot, vars, local
  <2> QED BY <2>1, NobodyEnters DEF Critical
<1> QED BY <1>1, <1>2, <1>3, <1>4, <1>5, <1>6, <1>7 DEF Next, Step

LEMMA TenureInvariant ==
  ASSUME PausesOutliveLease = FALSE PROVE Spec => []Tenure
<1>1. Init => Tenure
  BY DEF Init, Tenure, HoldersOwnLease, CommandsExclusive, Critical
<1>2. TypeOK /\ Tenure /\ [Next]_vars => Tenure'
  BY TenureStep
<1> QED BY <1>1, <1>2, TypeCorrect, PTL DEF Spec

\* Commands that finish before their lease runs out never overlap, however
\* many processes there are and however they crash.
THEOREM CommandsExclude ==
  ASSUME PausesOutliveLease = FALSE PROVE Spec => []CommandsExclusive
<1>1. Tenure => CommandsExclusive
  BY DEF Tenure
<1> QED BY <1>1, TenureInvariant, PTL

-----------------------------------------------------------------------------
(* 2. The preflight.                                                       *)

\* Records come from events up to n.
RecordsUpTo(mem, n) ==
  \A k \in MemKeys : mem[k] # Absent => mem[k].id \in 1..n /\ mem[k].src \in 1..n

MemoriesAreOld == \A n \in 0..SessionHead : RecordsUpTo(views[n].mem, n)

Memories == [MemKeys -> Memory \cup {Absent}]

\* An operation that comes after all records is judged by the memories alone,
\* not by its sequence number or by the identity a new record would get: the
\* verdict of the preflight (identity 0) is the verdict of the projection.
LEMMA VerdictOfMemories ==
  ASSUME NEW mem \in Memories, NEW n \in Nat, RecordsUpTo(mem, n),
         NEW op \in Operation, NEW seq \in Nat, NEW ev \in Nat, seq > n,
         ev = 0 \/ ev > n, NEW seq2 \in Nat, NEW ev2 \in Nat, seq2 > n, ev2 = 0 \/ ev2 > n
  PROVE  Refused(mem, op, seq, ev) <=> Refused(mem, op, seq2, ev2)
<1>1. ById(mem, ev) = {} /\ ById(mem, ev2) = {}
  BY DEF ById, RecordsUpTo
<1>2. \A k \in Existing(mem, op) : /\ seq > mem[k].src /\ seq2 > mem[k].src
                                   /\ seq >= mem[k].src /\ seq2 >= mem[k].src
                                   /\ seq # mem[k].src /\ seq2 # mem[k].src
  BY DEF Existing, ById, RecordsUpTo
<1>3. ForgetRefused(mem, op, seq, ev) <=> ForgetRefused(mem, op, seq2, ev2)
  BY <1>2 DEF ForgetRefused
<1>4. WriteRefused(mem, op, seq, ev) <=> WriteRefused(mem, op, seq2, ev2)
  BY <1>1, <1>2 DEF WriteRefused
<1> QED BY <1>3, <1>4 DEF Refused

LEMMA AppliedRecords ==
  ASSUME NEW view \in View, NEW n \in Nat, RecordsUpTo(view.mem, n),
         NEW body \in CommandBody \cup PlainBody
  PROVE  RecordsUpTo(Applied(view, n + 1, body).mem, n + 1)
<1> DEFINE mem == Applied(view, n + 1, body).mem
<1>1. view.mem \in Memories
  BY DEF View, Memories
<1>2. RecordsUpTo(view.mem, n + 1)
  BY DEF RecordsUpTo
<1>3. CASE mem = view.mem
  BY <1>2, <1>3
<1>4. CASE body.kind = "command" /\ ~Refused(view.mem, body.op, n + 1, n + 1)
           /\ ~Superseded(view.mem, body.op, n + 1)
           /\ mem = ApplyOperation(view.mem, body.op, n + 1, n + 1)
  <2>1. CASE body.op.type = "FORGET"
    BY <1>2, <1>4, <2>1 DEF ApplyOperation, RecordsUpTo
  <2>2. CASE body.op.type # "FORGET"
    <3>1. body.op.key \in MemKeys
      BY <1>4, <2>2, BodyTypes DEF Refused, WellFormed, Operation, OperationTypes
    <3>2. mem = [view.mem EXCEPT ![body.op.key] =
                   Written(view.mem, body.op, n + 1, n + 1)]
      BY <1>4, <2>2 DEF ApplyOperation
    <3>3. Written(view.mem, body.op, n + 1, n + 1).src = n + 1
          /\ Written(view.mem, body.op, n + 1, n + 1).id \in 1..(n + 1)
      BY <1>2, <3>1 DEF Written, RecordsUpTo
    <3> QED BY <1>1, <1>2, <3>1, <3>2, <3>3 DEF RecordsUpTo, Memories
  <2> QED BY <2>1, <2>2
<1>5. mem = IF body.kind = "command" /\ ~Unapplicable(view, n + 1, body)
            THEN ApplyOperation(view.mem, body.op, n + 1, n + 1)
            ELSE view.mem
  BY DEF Applied
<1> QED BY <1>3, <1>4, <1>5 DEF Unapplicable, ApplyOperation

\* An append leaves the session alone or gives it one more view.
LEMMA AppendToSession ==
  ASSUME TypeOK, NEW r \in Writes, NEW e, AppendEvent(r, e), Recorded(r)
  PROVE  \/ UNCHANGED <<SessionHead, views>>
         \/ /\ SessionHead' = SessionHead + 1
            /\ views'[SessionHead + 1] = Applied(views[SessionHead], SessionHead + 1, r.body)
<1>1. SessionHead \in Nat
  BY SessionAssumption DEF TypeOK
<1>2. CASE Earlier(r) # {} \/ r.stream # Session
  BY <1>2, AppendCases, SessionAssumption DEF Recorded, TypeOK, storeVars
<1>3. CASE Earlier(r) = {} /\ r.stream = Session
  <2>1. SessionHead' = SessionHead + 1
    BY <1>3, AppendCases, SessionAssumption DEF TypeOK
  <2>2. views' = [n \in 0..SessionHead + 1 |->
                    IF n <= SessionHead THEN views[n]
                    ELSE Applied(views[SessionHead], SessionHead + 1, r.body)]
    BY <1>3 DEF Recorded
  <2>3. SessionHead + 1 \in 0..SessionHead + 1 /\ ~(SessionHead + 1 <= SessionHead)
    BY <1>1
  <2> QED BY <2>1, <2>2, <2>3
<1> QED BY <1>2, <1>3

LEMMA MemoriesStep ==
  ASSUME TypeOK, StreamsContiguous, MemoriesAreOld, [Next]_vars
  PROVE  MemoriesAreOld'
<1>1. SessionHead \in Nat /\ views \in [0..SessionHead -> View] /\ views' \in [0..SessionHead' -> View]
  BY StepType, SessionAssumption DEF TypeOK
<1>2. CASE UNCHANGED <<storeVars, views>>
  BY <1>2 DEF MemoriesAreOld, storeVars
<1>3. ASSUME NEW r \in Writes, NEW e, AppendEvent(r, e), Recorded(r)
      PROVE  MemoriesAreOld'
  <2>1. \/ UNCHANGED <<SessionHead, views>>
        \/ /\ SessionHead' = SessionHead + 1
           /\ views'[SessionHead + 1] = Applied(views[SessionHead], SessionHead + 1, r.body)
    BY <1>3, AppendToSession
  <2>2. r.body \in CommandBody \cup PlainBody
    BY BodiesAssumption, RequestTypes DEF Writes
  <2>3. \A n \in 0..SessionHead : views'[n] = views[n]
    BY <1>3, ViewsGrow
  <2>4. CASE UNCHANGED <<SessionHead, views>>
    BY <2>4 DEF MemoriesAreOld
  <2>5. CASE /\ SessionHead' = SessionHead + 1
             /\ views'[SessionHead + 1] = Applied(views[SessionHead], SessionHead + 1, r.body)
    <3>1. RecordsUpTo(views'[SessionHead + 1].mem, SessionHead + 1)
      BY <1>1, <2>2, <2>5, AppliedRecords DEF MemoriesAreOld
    <3> QED BY <1>1, <2>3, <2>5, <3>1 DEF MemoriesAreOld
  <2> QED BY <2>1, <2>4, <2>5
<1> QED BY <1>2, <1>3, StoreSteps

\* No command is among the session's events above n.
SameMemories(n) == \A m \in n..SessionHead : views[m].mem = views[SessionHead].mem

AppliesAtHead(r) ==
  ~Refused(views[SessionHead].mem, r.body.op, SessionHead + 1, SessionHead + 1)

Preflighted(t) ==
  /\ At(t, "state") => SameMemories(target[t])
  /\ pc[t] \in {"find", "validate"} => SameMemories(proj.last)
  /\ At(t, "append") => Earlier(cmd[t]) # {} \/ AppliesAtHead(cmd[t])

Preflights == \A t \in Threads : Preflighted(t)

Checking == {"state", "find", "validate", "append"}

\* A thread keeps what it knows while the log rests and the projection moves on.
LEMMA StaysPreflighted ==
  ASSUME TypeOK, NEW t \in Threads, Preflighted(t), UNCHANGED <<storeVars, views>>,
         proj'.last \in Nat, proj'.last >= proj.last,
         \/ pc'[t] \notin Checking
         \/ pc'[t] = pc[t] /\ target'[t] = target[t] /\ cmd'[t] = cmd[t]
  PROVE  Preflighted(t)'
<1>1. proj.last \in Nat /\ SessionHead \in Nat
  BY SessionAssumption DEF TypeOK, View
<1>2. SessionHead' = SessionHead /\ views' = views /\ events' = events
  BY DEF storeVars
<1>3. SameMemories(proj.last) => SameMemories(proj.last)'
  BY <1>1, <1>2 DEF SameMemories
<1> QED BY <1>2, <1>3 DEF Preflighted, Checking, SameMemories, AppliesAtHead, Earlier,
                         SameId, SameKey

\* Plain events change no memories, so they take nothing back.
LEMMA PlainKeepsMemories ==
  ASSUME TypeOK, NEW r \in PlainWrites, NEW e, AppendEvent(r, e), Recorded(r)
  PROVE  /\ SessionHead' \in Nat /\ SessionHead' >= SessionHead
         /\ views'[SessionHead'].mem = views[SessionHead].mem
         /\ \A n \in Nat : SameMemories(n) => SameMemories(n)'
<1>1. SessionHead \in Nat /\ views \in [0..SessionHead -> View]
  BY SessionAssumption DEF TypeOK
<1>2. r \in Writes /\ r.body \in PlainBody
  BY PlainWritesAssumption DEF Writes
<1>3. \A n \in 0..SessionHead : views'[n] = views[n]
  BY <1>2, ViewsGrow
<1>4. CASE UNCHANGED <<SessionHead, views>>
  BY <1>1, <1>4 DEF SameMemories
<1>5. CASE /\ SessionHead' = SessionHead + 1
           /\ views'[SessionHead + 1] = Applied(views[SessionHead], SessionHead + 1, r.body)
  <2>1. views'[SessionHead + 1].mem = views[SessionHead].mem
    BY <1>2, <1>5 DEF Applied, PlainBody
  <2>2. ASSUME NEW n \in Nat, SameMemories(n) PROVE SameMemories(n)'
    <3>1. \A m \in n..SessionHead : views'[m].mem = views[SessionHead].mem
      BY <1>1, <1>3, <2>2 DEF SameMemories
    <3>2. SUFFICES ASSUME NEW m \in n..(SessionHead + 1)
                   PROVE  views'[m].mem = views'[SessionHead + 1].mem
      BY <1>5 DEF SameMemories
    <3>3. m = SessionHead + 1 \/ m \in n..SessionHead
      BY <1>1
    <3> QED BY <2>1, <3>1, <3>3
  <2> QED BY <1>1, <1>5, <2>1, <2>2
<1>6. \/ UNCHANGED <<SessionHead, views>>
      \/ /\ SessionHead' = SessionHead + 1
         /\ views'[SessionHead + 1] = Applied(views[SessionHead], SessionHead + 1, r.body)
  BY <1>1, <1>2, AppendToSession
<1> QED BY <1>4, <1>5, <1>6

\* The snapshot a thread validates against has the memories of the head, and
\* the command applies there too.
LEMMA ValidatedApplies ==
  ASSUME TypeOK, ReplayInv, MemoriesAreOld, SameMemories(proj.last),
         NEW r \in Commands, ~Refused(proj.mem, r.body.op, proj.last + 1, 0)
  PROVE  AppliesAtHead(r)
<1> DEFINE mem == views[SessionHead].mem
<1>1. proj.last \in 0..SessionHead /\ SessionHead \in Nat
  BY SessionAssumption DEF TypeOK, View, ReplayInv, ReceiptsProveSnapshot
<1>2. proj.mem = mem
  BY <1>1 DEF SameMemories, ReplayInv, ProjectionIsReplay
<1>3. views[SessionHead].mem \in Memories
  BY <1>1 DEF TypeOK, View, Memories
<1>4. RecordsUpTo(mem, SessionHead) /\ RecordsUpTo(mem, proj.last)
  BY <1>1, <1>2 DEF MemoriesAreOld, ReplayInv, ProjectionIsReplay
<1>5. r.body.op \in Operation
  BY CommandsAssumption DEF CommandBody
<1>6. Refused(mem, r.body.op, proj.last + 1, 0) <=>
      Refused(mem, r.body.op, SessionHead + 1, 0)
  BY <1>1, <1>3, <1>4, <1>5, VerdictOfMemories
<1>7. Refused(mem, r.body.op, SessionHead + 1, 0) <=>
      Refused(mem, r.body.op, SessionHead + 1, SessionHead + 1)
  BY <1>1, <1>3, <1>4, <1>5, VerdictOfMemories
<1> QED BY <1>2, <1>6, <1>7 DEF AppliesAtHead

LEMMA PlainStep ==
  ASSUME TypeOK, MemoriesAreOld, Preflights, AppendPlain
  PROVE  Preflights'
<1>1. PICK r \in PlainWrites : \E e : AppendEvent(r, e) /\ Recorded(r)
  BY DEF AppendPlain
<1>2. UNCHANGED <<pc, target, cmd, proj>> /\ events \subseteq events'
  BY LogGrows DEF AppendPlain, local, table, Next
<1>3. /\ SessionHead' \in Nat /\ SessionHead' >= SessionHead
      /\ views'[SessionHead'].mem = views[SessionHead].mem
      /\ \A n \in Nat : SameMemories(n) => SameMemories(n)'
  BY <1>1, PlainKeepsMemories
<1>4. SessionHead \in Nat /\ proj.last \in Nat /\ target \in [Threads -> Nat]
  BY SessionAssumption DEF TypeOK, View
<1>5. ASSUME NEW c \in Commands, AppliesAtHead(c) PROVE AppliesAtHead(c)'
  <2> DEFINE mem == views[SessionHead].mem
  <2>1. mem \in Memories /\ RecordsUpTo(mem, SessionHead)
    BY <1>4 DEF TypeOK, View, Memories, MemoriesAreOld
  <2>2. c.body.op \in Operation
    BY CommandsAssumption DEF CommandBody
  <2>3. Refused(mem, c.body.op, SessionHead + 1, SessionHead + 1) <=>
        Refused(mem, c.body.op, SessionHead' + 1, SessionHead' + 1)
    BY <1>3, <1>4, <2>1, <2>2, VerdictOfMemories
  <2> QED BY <1>3, <1>5, <2>3 DEF AppliesAtHead
<1>6. ASSUME NEW c, Earlier(c) # {} PROVE Earlier(c)' # {}
  BY <1>2, <1>6 DEF Earlier, SameId, SameKey
<1>7. ASSUME NEW t \in Threads PROVE Preflighted(t)'
  <2>1. Preflighted(t)
    BY DEF Preflights
  <2>2. At(t, "append") => cmd[t] \in Commands
    BY DEF TypeOK
  <2> QED BY <1>2, <1>3, <1>4, <1>5, <1>6, <2>1, <2>2 DEF Preflighted
<1> QED BY <1>7 DEF Preflights

LEMMA PreflightStep ==
  ASSUME PausesOutliveLease = FALSE, TypeOK, ReplayInv, MemoriesAreOld, Tenure,
         Preflights, [Next]_vars
  PROVE  Preflights'
<1> USE DEF Preflights
<1>1. proj.last \in Nat /\ proj'.last \in Nat
  BY StepType DEF TypeOK, View
<1>2. ASSUME NEW t \in Threads,
             Begin(t) \/ AcquireLease(t) \/ ListEvents(t) \/ Release(t) \/ LeaseTimeout(t)
             \/ StatementFails(t) \/ ReleaseFails(t)
      PROVE  Preflights'
  <2>1. UNCHANGED <<storeVars, views, proj>>
    BY <1>2 DEF Begin, AcquireLease, ListEvents, Release, LeaseTimeout, StatementFails,
                ReleaseFails, table
  <2>2. ASSUME NEW u \in Threads
        PROVE  \/ pc'[u] \notin Checking
               \/ pc'[u] = pc[u] /\ target'[u] = target[u] /\ cmd'[u] = cmd[u]
    BY <1>2 DEF Begin, AcquireLease, ListEvents, Release, LeaseTimeout, StatementFails,
                ReleaseFails, Reset, Goto, End, Checking, TypeOK
  <2> QED BY <1>1, <2>1, <2>2, StaysPreflighted
<1>3. ASSUME NEW t \in Threads, ApplyListed(t) \/ ProjectCommand(t) PROVE Preflights'
  <2>1. UNCHANGED <<storeVars, views, target, cmd>>
    BY <1>3 DEF ApplyListed, ProjectCommand
  <2>2. proj'.last >= proj.last
    <3>1. CASE UNCHANGED table
      BY <1>1, <3>1 DEF table
    <3>2. ASSUME NEW e \in SessionEvents, Projects(e) PROVE proj'.last >= proj.last
      <4>1. e.seq = proj.last + 1 /\ proj' = Applied(proj, e.seq, e.body)
        BY <3>2 DEF Projects, Verdict, Project
      <4> QED BY <1>1, <4>1 DEF Applied
    <3>3. ~At(t, "idle")
      BY <1>3 DEF ApplyListed, ProjectCommand
    <3>4. UNCHANGED table \/ \E e \in SessionEvents : Projects(e)
      BY <1>3, TableSteps DEF ApplyListed, ProjectCommand, ReplayInv, Handled, ApplyEvent,
                              Projects
    <3> QED BY <3>1, <3>2, <3>4
  <2>3. ASSUME NEW u \in Threads
        PROVE  pc'[u] \notin Checking \/ pc'[u] = pc[u]
    BY <1>3 DEF ApplyListed, ProjectCommand, Goto, End, Checking, TypeOK
  <2> QED BY <1>1, <2>1, <2>2, <2>3, StaysPreflighted
<1>4. CASE RuntimeApplies
  <2>1. PICK e \in SessionEvents : Projects(e)
    BY <1>4 DEF RuntimeApplies, Projects
  <2>2. proj'.last >= proj.last
    BY <1>1, <2>1 DEF Projects, Verdict, Project, Applied
  <2>3. UNCHANGED <<storeVars, views, pc, target, cmd>>
    BY <1>4 DEF RuntimeApplies, local
  <2> QED BY <1>1, <2>2, <2>3, StaysPreflighted
<1>5. CASE LoseSnapshot
  BY <1>5 DEF LoseSnapshot, local, Preflighted
<1>6. CASE AppendPlain
  BY <1>6, PlainStep
<1>7. CASE LeaseRunsOut \/ UNCHANGED vars
  <2>1. UNCHANGED <<storeVars, views, pc, target, cmd, proj>>
    BY <1>7 DEF LeaseRunsOut, local, vars, table
  <2> QED BY <1>1, <2>1, StaysPreflighted
<1>8. ASSUME NEW s \in Stores, Crash(s) PROVE Preflights'
  <2>1. UNCHANGED <<storeVars, views, proj>>
    BY <1>8 DEF Crash, table
  <2>2. ASSUME NEW u \in Threads
        PROVE  \/ pc'[u] \notin Checking
               \/ pc'[u] = pc[u] /\ target'[u] = target[u] /\ cmd'[u] = cmd[u]
    BY <1>8 DEF Crash, Reset, Checking
  <2> QED BY <1>1, <2>1, <2>2, StaysPreflighted
<1>9. ASSUME NEW t \in Threads,
             ReadTarget(t) \/ ReadState(t) \/ FindEarlier(t) \/ Validate(t)
      PROVE  Preflights'
  <2>1. UNCHANGED <<storeVars, views, proj, cmd>>
    BY <1>9 DEF ReadTarget, ReadState, FindEarlier, Validate, table
  <2>2. ASSUME NEW u \in Threads, u # t PROVE Preflighted(u)'
    <3>1. pc'[u] = pc[u] /\ target'[u] = target[u] /\ cmd'[u] = cmd[u]
      BY <1>9, <2>2 DEF ReadTarget, ReadState, FindEarlier, Validate, Goto, End, TypeOK
    <3> QED BY <1>1, <2>1, <3>1, StaysPreflighted
  <2>3. Preflighted(t)'
    <3>1. SessionHead \in Nat /\ SessionHead' = SessionHead /\ proj' = proj
          /\ views' = views /\ events' = events
      BY <2>1, SessionAssumption DEF TypeOK, storeVars
    <3>2. CASE ReadTarget(t)
      <4>1. pc'[t] = "state" /\ target'[t] = SessionHead
        BY <3>2 DEF ReadTarget, Goto, TypeOK
      <4> QED BY <3>1, <4>1 DEF Preflighted, SameMemories
    <3>3. CASE ReadState(t)
      <4>1. /\ At(t, "state")
            /\ \/ pc'[t] \in {"release", "list", "reproject"}
               \/ pc'[t] = "find" /\ proj.last = target[t]
        BY <3>3 DEF ReadState, Goto, End, TypeOK
      <4> QED BY <3>1, <4>1 DEF Preflighted, SameMemories
    <3>4. CASE FindEarlier(t)
      <4>1. /\ At(t, "find")
            /\ \/ pc'[t] = "validate"
               \/ pc'[t] = "append" /\ FindExisting(cmd[t]) # {}
        BY <3>4 DEF FindEarlier, Goto, TypeOK
      <4>2. FindExisting(cmd[t]) # {} => Earlier(cmd[t]) # {}
        BY DEF FindExisting, Earlier, SameId
      <4> QED BY <2>1, <3>1, <4>1, <4>2
              DEF Preflighted, SameMemories, Earlier, SameId, SameKey
    <3>5. CASE Validate(t)
      <4>1. /\ At(t, "validate")
            /\ \/ pc'[t] = "release"
               \/ pc'[t] = "append" /\ ~Refused(proj.mem, cmd[t].body.op, proj.last + 1, 0)
        BY <3>5 DEF Validate, Goto, End, TypeOK
      <4>2. cmd[t] \in Commands /\ SameMemories(proj.last)
        BY <4>1 DEF TypeOK, Preflighted
      <4>3. pc'[t] = "append" => AppliesAtHead(cmd[t])
        BY <4>1, <4>2, ValidatedApplies
      <4> QED BY <2>1, <3>1, <4>1, <4>3 DEF Preflighted, AppliesAtHead
    <3> QED BY <1>9, <3>2, <3>3, <3>4, <3>5
  <2> QED BY <2>2, <2>3
<1>10. ASSUME NEW t \in Threads, AppendCommand(t) PROVE Preflights'
  <2>1. \A u \in Threads \ {t} : ~Critical(u)
    BY <1>10 DEF AppendCommand, Critical, Tenure, CommandsExclusive
  <2>2. \A u \in Threads : pc'[u] \notin Checking
    BY <1>10, <2>1 DEF AppendCommand, Critical, Goto, End, Checking, TypeOK
  <2> QED BY <2>2 DEF Preflighted, Checking
<1> QED BY <1>2, <1>3, <1>4, <1>5, <1>6, <1>7, <1>8, <1>9, <1>10 DEF Next, Step

LEMMA CommittedStep ==
  ASSUME TypeOK, ReplayInv, Preflights, CommittedEventsApply, [Next]_vars
  PROVE  CommittedEventsApply'
<1>1. CASE UNCHANGED <<storeVars, views>>
  BY <1>1 DEF CommittedEventsApply, SessionEvents, storeVars
<1>2. ASSUME NEW r \in Writes, NEW e, AppendEvent(r, e), Recorded(r),
             r.stream = Session /\ Earlier(r) = {} =>
               ~Unapplicable(views[SessionHead], SessionHead + 1, r.body)
      PROVE  CommittedEventsApply'
  <2>1. SessionHead \in Nat
    BY SessionAssumption DEF TypeOK
  <2>2. \A n \in 0..SessionHead : views'[n] = views[n]
    BY <1>2, ViewsGrow
  <2>3. ASSUME NEW f \in SessionEvents
        PROVE  ~Unapplicable(views'[f.seq - 1], f.seq, f.body)
    BY <2>2, EventNumbers DEF ReplayInv, CommittedEventsApply
  <2>4. ASSUME NEW f \in SessionEvents' \ SessionEvents
        PROVE  ~Unapplicable(views'[f.seq - 1], f.seq, f.body)
    <3>1. Earlier(r) = {} /\ f = NewEvent(r) /\ r.stream = Session
      BY <1>2, <2>4, AppendCases DEF SessionEvents, storeVars, SameValues
    <3>2. f.seq = SessionHead + 1 /\ f.body = r.body
      BY <3>1 DEF NewEvent, NextSeq
    <3> QED BY <1>2, <2>1, <2>2, <3>1, <3>2
  <2> QED BY <2>3, <2>4 DEF CommittedEventsApply
<1>3. ASSUME NEW t \in Threads, AppendCommand(t) PROVE CommittedEventsApply'
  <2>1. CASE UNCHANGED <<storeVars, views>>
    BY <1>1, <2>1
  <2>2. ASSUME NEW e, AppendEvent(cmd[t], e), Recorded(cmd[t]) PROVE CommittedEventsApply'
    <3>1. cmd[t] \in Commands /\ cmd[t] \in Writes
      BY <1>3 DEF AppendCommand, TypeOK, Writes
    <3>2. Earlier(cmd[t]) = {} => AppliesAtHead(cmd[t])
      BY <1>3 DEF AppendCommand, Preflights, Preflighted
    <3> QED BY <1>2, <2>2, <3>1, <3>2 DEF AppliesAtHead, Unapplicable
  <2> QED BY <1>3, <2>1, <2>2 DEF AppendCommand
<1>4. CASE AppendPlain
  <2>1. PICK r \in PlainWrites : \E e : AppendEvent(r, e) /\ Recorded(r)
    BY <1>4 DEF AppendPlain
  <2>2. r \in Writes /\ r.body.kind # "command"
    BY PlainWritesAssumption DEF Writes, PlainBody
  <2> QED BY <1>2, <2>1, <2>2 DEF Unapplicable
<1>5. ASSUME ~AppendPlain, \A t \in Threads : ~AppendCommand(t)
      PROVE  UNCHANGED <<storeVars, views>>
  BY <1>5 DEF Next, Begin, Step, LeaseTimeout, StatementFails, ReleaseFails, AcquireLease,
              ReadTarget, ReadState, ListEvents, ApplyListed, FindEarlier, Validate,
              ProjectCommand, Release, Crash, LeaseRunsOut, RuntimeApplies, LoseSnapshot,
              vars
<1> QED BY <1>1, <1>3, <1>4, <1>5

PreflightInv ==
  /\ Tenure
  /\ MemoriesAreOld
  /\ Preflights
  /\ CommittedEventsApply

LEMMA PreflightInvariant ==
  ASSUME PausesOutliveLease = FALSE PROVE Spec => []PreflightInv
<1>1. ASSUME Init PROVE PreflightInv
  <2>1. \A t \in Threads : pc[t] = "idle"
    BY <1>1 DEF Init
  <2>2. Tenure /\ Preflights
    BY <2>1 DEF Tenure, HoldersOwnLease, CommandsExclusive, Critical, Preflights, Preflighted
  <2>3. SessionHead = 0 /\ views[0] = EmptyView /\ SessionEvents = {}
    BY <1>1, SessionAssumption DEF Init, StoreInit, SessionEvents
  <2>4. MemoriesAreOld
    BY <2>3 DEF MemoriesAreOld, RecordsUpTo, EmptyView
  <2>5. CommittedEventsApply
    BY <2>3 DEF CommittedEventsApply
  <2> QED BY <2>2, <2>4, <2>5 DEF PreflightInv
<1>2. ASSUME TypeOK, ReplayInv, PreflightInv, [Next]_vars PROVE PreflightInv'
  <2>1. Tenure /\ MemoriesAreOld /\ Preflights /\ CommittedEventsApply /\ StreamsContiguous
    BY <1>2 DEF PreflightInv, ReplayInv
  <2>2. Tenure' /\ MemoriesAreOld'
    BY <1>2, <2>1, TenureStep, MemoriesStep
  <2>3. Preflights' /\ CommittedEventsApply'
    BY <1>2, <2>1, PreflightStep, CommittedStep
  <2> QED BY <2>2, <2>3 DEF PreflightInv
<1> QED BY <1>1, <1>2, TypeCorrect, ReplayInvariant, PTL DEF Spec

\* A command that is committed can be applied when the projection reaches it,
\* as long as commands finish before their lease runs out: the preflight, the
\* exclusion of other commands and the harmlessness of plain events suffice.
THEOREM CommittedCommandsApply ==
  ASSUME PausesOutliveLease = FALSE PROVE Spec => []CommittedEventsApply
<1>1. PreflightInv => CommittedEventsApply
  BY DEF PreflightInv
<1> QED BY <1>1, PreflightInvariant, PTL

-----------------------------------------------------------------------------
(* 3. The refinement of SessionHistory.                                    *)

\* SessionHistory has its own copy of SessionOperations, with the same constants.
LEMMA SameOperations ==
  ASSUME NEW view, NEW seq, NEW body
  PROVE  /\ History!Unapplicable(view, seq, body) <=> Unapplicable(view, seq, body)
         /\ History!Applied(view, seq, body) = Applied(view, seq, body)
         /\ History!EmptyView = EmptyView
<1>1. \A mem, op : /\ History!Existing(mem, op) = Existing(mem, op)
                   /\ \A i : History!ById(mem, i) = ById(mem, i)
  BY DEF History!Existing, History!ById, Existing, ById
<1>2. ASSUME NEW mem, NEW op, NEW ev
      PROVE  /\ History!ForgetRefused(mem, op, seq, ev) <=> ForgetRefused(mem, op, seq, ev)
             /\ History!WriteRefused(mem, op, seq, ev) <=> WriteRefused(mem, op, seq, ev)
             /\ History!Misidentified(mem, op) <=> Misidentified(mem, op)
  <2>1. History!Existing(mem, op) = Existing(mem, op)
        /\ \A i : History!ById(mem, i) = ById(mem, i)
    BY <1>1
  <2>2. History!ForgetRefused(mem, op, seq, ev) <=> ForgetRefused(mem, op, seq, ev)
    BY <2>1 DEF History!ForgetRefused, History!VersionMismatch, ForgetRefused, VersionMismatch
  <2>3. History!WriteRefused(mem, op, seq, ev) <=> WriteRefused(mem, op, seq, ev)
    BY <2>1 DEF History!WriteRefused, History!VersionMismatch, WriteRefused, VersionMismatch
  <2>4. History!Misidentified(mem, op) <=> Misidentified(mem, op)
    BY <2>1 DEF History!Misidentified, Misidentified
  <2> QED BY <2>2, <2>3, <2>4
<1>3. \A mem, op, ev : History!Refused(mem, op, seq, ev) <=> Refused(mem, op, seq, ev)
  BY <1>2 DEF History!Refused, Refused
<1>4. History!Unapplicable(view, seq, body) <=> Unapplicable(view, seq, body)
  BY <1>3 DEF History!Unapplicable, Unapplicable
<1>5. \A mem, op, ev : /\ History!Superseded(mem, op, seq) <=> Superseded(mem, op, seq)
                       /\ History!Written(mem, op, seq, ev) = Written(mem, op, seq, ev)
  BY <1>1 DEF History!Superseded, History!Written, Superseded, Written
<1>6. \A mem, op, ev : History!ApplyOperation(mem, op, seq, ev) = ApplyOperation(mem, op, seq, ev)
  BY <1>1, <1>5 DEF History!ApplyOperation, ApplyOperation
<1>7. \A s, n : History!LastN(s, n) = LastN(s, n)
  BY DEF History!LastN, LastN
<1>8. History!Applied(view, seq, body) = Applied(view, seq, body)
  BY <1>4, <1>6, <1>7 DEF History!Applied, Applied
<1> QED BY <1>4, <1>8 DEF History!EmptyView, EmptyView

\* The log of the history is the session's, event by event.
LogMatches ==
  /\ SessionLog \in Seq(Bodies)
  /\ Len(SessionLog) = SessionHead
  /\ \A e \in SessionEvents : SessionLog[e.seq] = e.body

LEMMA LogOfEvents ==
  ASSUME TypeOK, StreamsContiguous
  PROVE  LogMatches
<1>1. SessionHead \in Nat
  BY SessionAssumption DEF TypeOK
<1>2. ASSUME NEW n \in 1..SessionHead
      PROVE  (CHOOSE e \in SessionEvents : e.seq = n).body \in Bodies
  <2>1. \E e \in SessionEvents : e.seq = n
    BY SessionAssumption DEF StreamsContiguous, SessionEvents
  <2> QED BY <2>1, EventNumbers
<1>3. SessionLog \in [1..SessionHead -> Bodies]
  BY <1>2 DEF SessionLog
<1>4. SessionLog \in Seq(Bodies) /\ Len(SessionLog) = SessionHead
  BY <1>1, <1>3
<1>5. ASSUME NEW e \in SessionEvents PROVE SessionLog[e.seq] = e.body
  <2>1. e.seq \in 1..SessionHead
    BY EventNumbers
  <2>2. \A f \in SessionEvents : f.seq = e.seq => f = e
    BY DEF StreamsContiguous, SessionEvents
  <2>3. (CHOOSE f \in SessionEvents : f.seq = e.seq) = e
    BY <2>2
  <2> QED BY <2>1, <2>3 DEF SessionLog
<1> QED BY <1>4, <1>5 DEF LogMatches

\* The log rests when no event of the session is appended.
LEMMA LogRests ==
  ASSUME UNCHANGED <<SessionHead, SessionEvents>>
  PROVE  SessionLog' = SessionLog
BY DEF SessionLog

\* An event that joins the session is the history's next commit.
LEMMA CommitStep ==
  ASSUME TypeOK, TypeOK', ReplayInv, ReplayInv', CommittedEventsApply', LogMatches, LogMatches',
         UNCHANGED proj,
         SessionHead' = SessionHead + 1, SessionEvents \subseteq SessionEvents',
         \A n \in 0..SessionHead : views'[n] = views[n]
  PROVE  \E body \in Bodies : History!Commit(body)
<1>1. SessionHead \in Nat /\ SessionHead + 1 \in 1..SessionHead'
  BY SessionAssumption DEF TypeOK
<1>2. PICK e \in SessionEvents' : e.seq = SessionHead + 1
  BY <1>1, SessionAssumption DEF ReplayInv, StreamsContiguous, SessionEvents
<1>3. /\ SessionLog \in Seq(Bodies) /\ Len(SessionLog) = SessionHead
      /\ \A f \in SessionEvents : SessionLog[f.seq] = f.body
  BY DEF LogMatches
<1>4. /\ SessionLog' \in Seq(Bodies) /\ Len(SessionLog)' = SessionHead'
      /\ \A f \in SessionEvents' : SessionLog'[f.seq] = f.body
  BY DEF LogMatches
<1>5. e.body \in Bodies
  BY <1>2 DEF TypeOK, SessionEvents, Event
<1>6. SessionLog' = Append(SessionLog, e.body)
  <2>1. ASSUME NEW n \in 1..SessionHead PROVE SessionLog'[n] = SessionLog[n]
    <3>1. PICK f \in SessionEvents : f.seq = n
      BY SessionAssumption DEF ReplayInv, StreamsContiguous, SessionEvents
    <3> QED BY <1>3, <1>4, <3>1
  <2>2. SessionLog'[SessionHead + 1] = e.body
    BY <1>2, <1>4
  <2>3. /\ Append(SessionLog, e.body) \in Seq(Bodies)
        /\ Len(Append(SessionLog, e.body)) = SessionHead + 1
        /\ \A n \in 1..SessionHead : Append(SessionLog, e.body)[n] = SessionLog[n]
        /\ Append(SessionLog, e.body)[SessionHead + 1] = e.body
    BY <1>3, <1>5, AppendProperties
  <2>4. \A n \in 1..(SessionHead + 1) : SessionLog'[n] = Append(SessionLog, e.body)[n]
    BY <1>1, <2>1, <2>2, <2>3
  <2> QED BY <1>4, <2>3, <2>4, SeqEqual
<1>7. views'[SessionHead'] = Applied(views[SessionHead], SessionHead + 1, e.body)
  BY <1>1, <1>2 DEF ReplayInv, ViewsReplay
<1>8. ~Unapplicable(views[SessionHead], SessionHead + 1, e.body)
  BY <1>1, <1>2 DEF CommittedEventsApply
<1>9. /\ ~History!Unapplicable(views[SessionHead], Len(SessionLog) + 1, e.body)
      /\ views'[SessionHead'] = History!Applied(views[SessionHead], Len(SessionLog) + 1, e.body)
  BY <1>3, <1>7, <1>8, SameOperations
<1>10. History!Commit(e.body)
  BY <1>6, <1>9 DEF History!Commit
<1> QED BY <1>5, <1>10

\* Init starts the history empty.
LEMMA HistoryStarts ==
  ASSUME Init
  PROVE  History!HistoryInit
<1>1. SessionHead = 0 /\ views[0] = EmptyView /\ proj = EmptyView
  BY SessionAssumption DEF Init, StoreInit
<1>2. SessionLog = <<>>
  <2>1. SessionLog = [n \in 1..0 |-> (CHOOSE e \in SessionEvents : e.seq = n).body]
    BY <1>1 DEF SessionLog
  <2>2. SessionLog \in [1..0 -> {}]
    BY <2>1
  <2>3. SessionLog \in Seq({}) /\ Len(SessionLog) = 0
    BY <2>2
  <2> QED BY <2>3, EmptySeq
<1> QED BY <1>1, <1>2, SameOperations DEF History!HistoryInit

\* What a step does to the log: nothing, or it adds the next event.
LEMMA LogSteps ==
  ASSUME TypeOK, TypeOK', [Next]_vars
  PROVE  /\ SessionEvents \subseteq SessionEvents'
         /\ \A n \in 0..SessionHead : views'[n] = views[n]
         /\ \/ UNCHANGED <<SessionHead, SessionEvents, views>>
            \/ SessionHead' = SessionHead + 1 /\ ~UNCHANGED storeVars
<1>1. SessionEvents \subseteq SessionEvents'
  BY LogGrows DEF SessionEvents
<1>2. \A n \in 0..SessionHead : views'[n] = views[n]
  BY HistoryGrows
<1>3. CASE UNCHANGED <<storeVars, views>>
  BY <1>1, <1>2, <1>3 DEF storeVars, SessionEvents
<1>4. ASSUME NEW r \in Writes, NEW e, AppendEvent(r, e), Recorded(r)
      PROVE  \/ UNCHANGED <<SessionHead, SessionEvents, views>>
             \/ SessionHead' = SessionHead + 1 /\ ~UNCHANGED storeVars
  <2>1. SessionHead \in Nat
    BY SessionAssumption DEF TypeOK
  <2>2. CASE SessionHead' = SessionHead + 1
    BY <2>1, <2>2 DEF storeVars
  <2>3. CASE UNCHANGED <<SessionHead, views>>
    <3>1. SessionEvents' \ SessionEvents = {}
      BY <1>4, <2>1, <2>3, ViewsGrow
    <3> QED BY <1>1, <2>3, <3>1
  <2> QED BY <1>4, <2>2, <2>3, AppendToSession
<1> QED BY <1>1, <1>2, <1>3, <1>4, StoreSteps

LEMMA HistoryStep ==
  ASSUME TypeOK, TypeOK', ReplayInv, ReplayInv', CommittedEventsApply',
         LogMatches, LogMatches', [Next]_vars
  PROVE  [History!HistoryNext]_(History!historyVars)
<1> USE DEF ReplayInv
<1>1. CASE UNCHANGED <<SessionHead, SessionEvents, views>> /\ UNCHANGED table
  <2>1. SessionLog' = SessionLog /\ views'[SessionHead'] = views[SessionHead] /\ proj' = proj
    BY <1>1, LogRests DEF table
  <2> QED BY <2>1 DEF History!historyVars
<1>2. CASE SessionHead' = SessionHead + 1 /\ UNCHANGED table
  BY <1>2, CommitStep, LogSteps DEF History!HistoryNext, table
<1>3. ASSUME UNCHANGED <<storeVars, views>>, NEW e \in SessionEvents, Projects(e)
      PROVE  History!ProjectNext
  <2>1. /\ e.seq = proj.last + 1 /\ ~Unapplicable(proj, e.seq, e.body)
        /\ proj' = Applied(proj, e.seq, e.body)
    BY <1>3 DEF Projects, Verdict, Project
  <2>2. e.seq \in 1..SessionHead /\ proj.last \in Nat /\ SessionHead \in Nat
    BY EventNumbers, SessionAssumption DEF TypeOK, View
  <2>3. Len(SessionLog) = SessionHead /\ SessionLog[proj.last + 1] = e.body
    BY <2>1 DEF LogMatches
  <2>4. SessionLog' = SessionLog /\ views'[SessionHead'] = views[SessionHead]
    BY <1>3, LogRests DEF storeVars, SessionEvents
  <2>5. proj.last < Len(SessionLog)
    BY <2>1, <2>2, <2>3
  <2> QED BY <2>1, <2>3, <2>4, <2>5, SameOperations DEF History!ProjectNext
<1>4. CASE UNCHANGED <<storeVars, views, receipts>> /\ proj' = EmptyView
  <2>1. SessionLog' = SessionLog /\ views'[SessionHead'] = views[SessionHead]
    BY <1>4, LogRests DEF storeVars, SessionEvents
  <2> QED BY <1>4, <2>1, SameOperations DEF History!StartOver, History!HistoryNext
<1> QED BY <1>1, <1>2, <1>3, <1>4, LogSteps, TableSteps DEF History!HistoryNext

\* Coordinators, plain writers, projection runtime and failures together
\* implement one append-only history of applicable events with a projection that
\* follows it, as long as commands finish before their lease runs out.
THEOREM SessionImplementsHistory ==
  ASSUME PausesOutliveLease = FALSE PROVE Spec => ImplementsHistory
<1>1. Init => History!HistoryInit
  BY HistoryStarts
<1>2. TypeOK /\ ReplayInv => LogMatches
  BY LogOfEvents DEF ReplayInv
<1>3. PreflightInv => CommittedEventsApply
  BY DEF PreflightInv
<1>4. TypeOK /\ TypeOK' /\ ReplayInv /\ ReplayInv' /\ CommittedEventsApply'
      /\ LogMatches /\ LogMatches' /\ [Next]_vars
      => [History!HistoryNext]_(History!historyVars)
  BY HistoryStep
<1> QED BY <1>1, <1>2, <1>3, <1>4, TypeCorrect, ReplayInvariant, PreflightInvariant, PTL
        DEF Spec, ImplementsHistory, History!HistorySpec
=============================================================================
