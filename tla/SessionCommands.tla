--------------------------- MODULE SessionCommands ---------------------------
(***************************************************************************)
(* Explicit memory commands of one session, session.py: threads of several *)
(* processes call SessionCommandCoordinator.append_explicit, which takes   *)
(* the command lock of its SessionStore and the session's database lease,  *)
(* projects the events committed so far, validates the command against the *)
(* projection, appends it to the event authority and projects it.  Other   *)
(* writers append ordinary events without a lease, and the projection      *)
(* runtime applies events to the session without one.                      *)
(*                                                                         *)
(* Every step is one database transaction or one local decision between    *)
(* two of them.  Time is abstracted to the moment the lease runs out.      *)
(***************************************************************************)
EXTENDS EventStore, SessionOperations

CONSTANTS
  Session,             \* the stream of the session
  Threads,             \* threads that call append_explicit
  Stores,              \* SessionStore instances, one per process
  Home,                \* Home[t]: the store whose coordinator thread t uses
  Commands,            \* the calls of append_explicit that may be made
  PlainWrites,         \* appends by writers that are not coordinators
  MaxCalls,            \* bound: calls and plain appends of a behaviour
  PausesOutliveLease,  \* a running command may take longer than its lease
  SnapshotLosses       \* the session row may be lost while nothing runs

ASSUME HomeAssumption == Home \in [Threads -> Stores]
ASSUME SessionAssumption == Session \in Streams
ASSUME BodiesAssumption == Bodies \subseteq CommandBody \cup PlainBody
ASSUME CommandsAssumption ==
  Commands \subseteq {r \in Request : r.stream = Session /\ r.body \in CommandBody}
ASSUME PlainWritesAssumption ==
  PlainWrites \subseteq {r \in Request : r.body \in PlainBody}
ASSUME MaxCallsAssumption == MaxCalls \in Nat
ASSUME SwitchAssumption == PausesOutliveLease \in BOOLEAN /\ SnapshotLosses \in BOOLEAN
ASSUME NobodyAssumption == None \notin Stores

VARIABLES
  proj,        \* the row of session_states
  receipts,    \* session_event_receipts: the events with a receipt
  lease,       \* the row of session_command_leases; token 0: no row
  releaseErr,  \* per store, the token of _lease_release_errors; 0: no entry
  pc,          \* where each thread is in append_explicit
  cmd,         \* the call each thread is executing
  token,       \* SessionLease.fencing_token of each thread
  target,      \* _catch_up_existing_events: target_seq
  seen,        \* state.last_seq as last read by the thread
  listed,      \* events list_after returned, not applied yet
  event,       \* the event append returned to the thread, or None
  outcome,     \* how the call ended; "none" while it runs
  calls,       \* calls left
  views        \* history: the state after each event, replayed in log order

local == <<pc, cmd, token, target, seen, listed, event, outcome>>
table == <<proj, receipts>>
vars == <<storeVars, table, lease, releaseErr, local, calls, views>>

SessionHead == LastSeq(Session)
SessionEvents == {e \in events : e.stream = Session}

Init ==
  /\ StoreInit
  /\ proj = EmptyView
  /\ receipts = {}
  /\ lease = [token |-> 0, owner |-> None, live |-> FALSE]
  /\ releaseErr = [s \in Stores |-> 0]
  /\ pc = [t \in Threads |-> "idle"]
  /\ cmd = [t \in Threads |-> None]
  /\ token = [t \in Threads |-> 0]
  /\ target = [t \in Threads |-> 0]
  /\ seen = [t \in Threads |-> 0]
  /\ listed = [t \in Threads |-> {}]
  /\ event = [t \in Threads |-> None]
  /\ outcome = [t \in Threads |-> "none"]
  /\ calls = MaxCalls
  /\ views = [n \in {0} |-> EmptyView]

\* The history variable grows with the session's log.
Recorded(r) ==
  views' = IF r.stream = Session /\ Earlier(r) = {}
           THEN [n \in 0..SessionHead + 1 |->
                   IF n <= SessionHead THEN views[n]
                   ELSE Applied(views[SessionHead], SessionHead + 1, r.body)]
           ELSE views

-----------------------------------------------------------------------------
(* SessionStore.apply_event: one transaction, fenced when a lease is given. *)

LeaseHeldByAnyone(t) == lease.live

\* _assert_lease: owner, token and lease_until, in the writing transaction.
LeaseHeld(t) ==
  /\ lease.token = token[t]
  /\ lease.owner = Home[t]
  /\ lease.live

\* _assert_receipt_prefix: receipts cover 1..last_seq.
PrefixReceipted ==
  \A n \in 1..proj.last : \E x \in receipts : x.seq = n

Conflicting(e) == \E x \in receipts : x.seq = e.seq /\ x # e

VerdictReapplies(e) ==
  IF Conflicting(e) \/ ~PrefixReceipted THEN "refuse"
  ELSE IF e.seq > proj.last + 1 THEN "gap"
  ELSE IF Unapplicable(proj, e.seq, e.body) THEN "refuse"
  ELSE "apply"

VerdictSkipsGaps(e) ==
  IF Conflicting(e) \/ ~PrefixReceipted THEN "refuse"
  ELSE IF e \in receipts /\ e.seq <= proj.last THEN "known"
  ELSE IF e.seq <= proj.last THEN "refuse"
  ELSE IF Unapplicable(proj, e.seq, e.body) THEN "refuse"
  ELSE "apply"

\* What apply_event(e) does when its lease, if any, is valid.
Verdict(e) ==
  IF Conflicting(e) \/ ~PrefixReceipted THEN "refuse"
  ELSE IF e \in receipts /\ e.seq <= proj.last THEN "known"
  ELSE IF e.seq <= proj.last THEN "refuse"
  ELSE IF e.seq # proj.last + 1 THEN "gap"
  ELSE IF Unapplicable(proj, e.seq, e.body) THEN "refuse"
  ELSE "apply"

ProjectWithoutReceipt(e) ==
  /\ proj' = Applied(proj, e.seq, e.body)
  /\ receipts' = IF e.body.kind = "command" THEN receipts \cup {e} ELSE receipts

Project(e) ==
  /\ proj' = Applied(proj, e.seq, e.body)
  /\ receipts' = receipts \cup {e}

\* apply_event(e) returns a state: it writes e, or finds e applied already.
ApplyEvent(e) ==
  \/ Verdict(e) = "apply" /\ Project(e)
  \/ Verdict(e) = "known" /\ UNCHANGED table

Refuses(t, e) == ~LeaseHeld(t) \/ Verdict(e) = "refuse"

-----------------------------------------------------------------------------
Goto(t, l) == pc' = [pc EXCEPT ![t] = l]

End(t, how) ==
  /\ Goto(t, "release")
  /\ outcome' = [outcome EXCEPT ![t] = how]

At(t, l) == pc[t] = l

\* The thread is inside "with command_lease".
Critical(t) == pc[t] \notin {"idle", "lease"}

\* append_explicit takes command_lock: one call per store and session.
Begin(t) ==
  /\ \A u \in Threads : Home[u] = Home[t] => At(u, "idle")
  /\ calls > 0
  /\ calls' = calls - 1
  /\ \E r \in Commands : cmd' = [cmd EXCEPT ![t] = r]
  /\ Goto(t, "lease")
  /\ UNCHANGED <<storeVars, table, lease, releaseErr, token, target, seen,
                 listed, event, outcome, views>>

AcquireLeaseAnyway(t) ==
  /\ At(t, "lease")
  /\ lease' = [token |-> lease.token + 1, owner |-> Home[t], live |-> TRUE]
  /\ token' = [token EXCEPT ![t] = lease.token + 1]
  /\ Goto(t, "target")
  /\ UNCHANGED <<storeVars, table, releaseErr, cmd, target, seen, listed,
                 event, outcome, calls, views>>

AcquireLeaseOfOwnStore(t) ==
  /\ At(t, "lease")
  /\ ~lease.live
  /\ lease.token = 0 \/ lease.owner = Home[t]
  /\ lease' = [token |-> lease.token + 1, owner |-> Home[t], live |-> TRUE]
  /\ token' = [token EXCEPT ![t] = lease.token + 1]
  /\ Goto(t, "target")
  /\ UNCHANGED <<storeVars, table, releaseErr, cmd, target, seen, listed,
                 event, outcome, calls, views>>

\* command_lease: insert the first row, or take over a row that ran out.
AcquireLease(t) ==
  /\ At(t, "lease")
  /\ ~lease.live
  /\ lease' = [token |-> lease.token + 1, owner |-> Home[t], live |-> TRUE]
  /\ token' = [token EXCEPT ![t] = lease.token + 1]
  /\ Goto(t, "target")
  /\ UNCHANGED <<storeVars, table, releaseErr, cmd, target, seen, listed,
                 event, outcome, calls, views>>

\* All local state of the thread is gone, and its command_lock is free.
Reset(T) ==
  /\ pc' = [t \in Threads |-> IF t \in T THEN "idle" ELSE pc[t]]
  /\ cmd' = [t \in Threads |-> IF t \in T THEN None ELSE cmd[t]]
  /\ token' = [t \in Threads |-> IF t \in T THEN 0 ELSE token[t]]
  /\ target' = [t \in Threads |-> IF t \in T THEN 0 ELSE target[t]]
  /\ seen' = [t \in Threads |-> IF t \in T THEN 0 ELSE seen[t]]
  /\ listed' = [t \in Threads |-> IF t \in T THEN {} ELSE listed[t]]
  /\ event' = [t \in Threads |-> IF t \in T THEN None ELSE event[t]]
  /\ outcome' = [t \in Threads |-> IF t \in T THEN "none" ELSE outcome[t]]

\* TimeoutError: the row stayed leased, or the database locked, until the
\* deadline.
LeaseTimeout(t) ==
  /\ At(t, "lease")
  /\ Reset({t})
  /\ UNCHANGED <<storeVars, table, lease, releaseErr, calls, views>>

-----------------------------------------------------------------------------
(* _catch_up_existing_events, before the command and, with event[t] set,   *)
(* again when the command's own projection met a gap.                      *)

ReadTarget(t) ==
  /\ At(t, "target")
  /\ target' = [target EXCEPT ![t] = SessionHead]
  /\ Goto(t, "state")
  /\ UNCHANGED <<storeVars, table, lease, releaseErr, cmd, token, seen, listed,
                 event, outcome, calls, views>>

ReadState(t) ==
  /\ At(t, "state")
  /\ seen' = [seen EXCEPT ![t] = proj.last]
  /\ \/ /\ ~PrefixReceipted
        /\ End(t, "failed")
     \/ /\ PrefixReceipted /\ proj.last > target[t]
        /\ End(t, "ahead")
     \/ /\ PrefixReceipted /\ proj.last = target[t]
        /\ Goto(t, IF event[t] = None THEN "find" ELSE "reproject")
        /\ UNCHANGED outcome
     \/ /\ PrefixReceipted /\ proj.last < target[t]
        /\ Goto(t, "list")
        /\ UNCHANGED outcome
  /\ UNCHANGED <<storeVars, table, lease, releaseErr, cmd, token, target,
                 listed, event, calls, views>>

ListEvents(t) ==
  /\ At(t, "list")
  /\ listed' = [listed EXCEPT ![t] = ListAfter(Session, seen[t])]
  /\ \/ /\ ListAfter(Session, seen[t]) = {}
        /\ End(t, "failed")
     \/ /\ ListAfter(Session, seen[t]) # {}
        /\ Goto(t, "apply")
        /\ UNCHANGED outcome
  /\ UNCHANGED <<storeVars, table, lease, releaseErr, cmd, token, target, seen,
                 event, calls, views>>

\* The next listed event in sequence order, under the lease.
ApplyListed(t) ==
  /\ At(t, "apply")
  /\ \E e \in listed[t] :
       /\ \A f \in listed[t] : e.seq <= f.seq
       /\ \/ /\ LeaseHeld(t)
             /\ ApplyEvent(e)
             /\ listed' = [listed EXCEPT ![t] = @ \ {e}]
             /\ IF listed[t] = {e} THEN Goto(t, "target") ELSE UNCHANGED pc
             /\ UNCHANGED outcome
          \/ /\ Refuses(t, e) \/ Verdict(e) = "gap"
             /\ End(t, "failed")
             /\ UNCHANGED <<table, listed>>
  /\ UNCHANGED <<storeVars, lease, releaseErr, cmd, token, target, seen, event,
                 calls, views>>

-----------------------------------------------------------------------------
FindEarlierTrustsIdentity(t) ==
  /\ At(t, "find")
  /\ Goto(t, IF cmd[t].id # None \/ cmd[t].key # None THEN "append" ELSE "validate")
  /\ UNCHANGED <<storeVars, table, lease, releaseErr, cmd, token, target, seen,
                 listed, event, outcome, calls, views>>

\* find_existing is asked when the call carries an identity; an event of
\* another stream does not count.
FindEarlier(t) ==
  /\ At(t, "find")
  /\ Goto(t, IF \E e \in FindExisting(cmd[t]) : e.stream = Session
             THEN "append" ELSE "validate")
  /\ UNCHANGED <<storeVars, table, lease, releaseErr, cmd, token, target, seen,
                 listed, event, outcome, calls, views>>

ValidateNothing(t) ==
  /\ At(t, "validate")
  /\ Goto(t, "append")
  /\ UNCHANGED <<storeVars, table, lease, releaseErr, cmd, token, target, seen,
                 listed, event, outcome, calls, views>>

\* validate_operation: apply the command to a copy of the snapshot.
Validate(t) ==
  /\ At(t, "validate")
  /\ \/ /\ PrefixReceipted
        /\ ~Refused(proj.mem, cmd[t].body.op, proj.last + 1, 0)
        /\ Goto(t, "append")
        /\ UNCHANGED outcome
     \/ /\ ~PrefixReceipted
        /\ End(t, "failed")
     \/ /\ Refused(proj.mem, cmd[t].body.op, proj.last + 1, 0)
        /\ End(t, "rejected")
  /\ UNCHANGED <<storeVars, table, lease, releaseErr, cmd, token, target, seen,
                 listed, event, calls, views>>

\* EventStore.append, not fenced by the lease.
AppendCommand(t) ==
  /\ At(t, "append")
  /\ \/ \E e \in Earlier(cmd[t]) \cup {NewEvent(cmd[t])} :
          /\ AppendEvent(cmd[t], e)
          /\ event' = [event EXCEPT ![t] = e]
          /\ Goto(t, "project")
          /\ Recorded(cmd[t])
          /\ UNCHANGED outcome
     \/ /\ AppendRefused(cmd[t])
        /\ End(t, "failed")
        /\ UNCHANGED <<storeVars, event, views>>
  /\ UNCHANGED <<table, lease, releaseErr, cmd, token, target, seen, listed,
                 calls>>

ProjectCommandIgnoresGap(t) ==
  /\ pc[t] \in {"project", "reproject"}
  /\ \/ /\ LeaseHeld(t)
        /\ ApplyEvent(event[t]) \/ (Verdict(event[t]) = "gap" /\ UNCHANGED table)
        /\ seen' = [seen EXCEPT ![t] = proj'.last]
        /\ End(t, "ok")
     \/ /\ Refuses(t, event[t])
        /\ End(t, "failed")
        /\ UNCHANGED <<table, seen>>
  /\ UNCHANGED <<storeVars, lease, releaseErr, cmd, token, target, listed,
                 event, calls, views>>

\* _apply_command_event; a gap is repaired once by another catch-up.
ProjectCommand(t) ==
  /\ pc[t] \in {"project", "reproject"}
  /\ \/ /\ LeaseHeld(t)
        /\ ApplyEvent(event[t])
        /\ seen' = [seen EXCEPT ![t] = proj'.last]
        /\ End(t, "ok")
     \/ /\ At(t, "project") /\ LeaseHeld(t) /\ Verdict(event[t]) = "gap"
        /\ Goto(t, "target")
        /\ UNCHANGED <<table, seen, outcome>>
     \/ /\ \/ Refuses(t, event[t])
           \/ At(t, "reproject") /\ Verdict(event[t]) = "gap"
        /\ End(t, "failed")
        /\ UNCHANGED <<table, seen>>
  /\ UNCHANGED <<storeVars, lease, releaseErr, cmd, token, target, listed,
                 event, calls, views>>

\* A statement of the thread fails and rolls back: database error.
StatementFails(t) ==
  /\ Critical(t) /\ ~At(t, "release")
  /\ End(t, "failed")
  /\ UNCHANGED <<storeVars, table, lease, releaseErr, cmd, token, target, seen,
                 listed, event, calls, views>>

-----------------------------------------------------------------------------
\* The finally block of command_lease: expire the lease if it is still ours,
\* and forget a release error of an older lease.
Release(t) ==
  /\ At(t, "release")
  /\ IF lease.token = token[t] /\ lease.owner = Home[t]
     THEN /\ lease' = [lease EXCEPT !.live = FALSE]
          /\ releaseErr' = [releaseErr EXCEPT ![Home[t]] =
                              IF @ <= token[t] THEN 0 ELSE @]
     ELSE UNCHANGED <<lease, releaseErr>>
  /\ Reset({t})
  /\ UNCHANGED <<storeVars, table, calls, views>>

ReleaseFailsOnce(t) ==
  /\ At(t, "release")
  /\ releaseErr' = [releaseErr EXCEPT ![Home[t]] = IF @ = 0 THEN token[t] ELSE @]
  /\ Reset({t})
  /\ UNCHANGED <<storeVars, table, lease, calls, views>>

\* The release transaction fails: the lease stays until it runs out, and the
\* store reports it.
ReleaseFails(t) ==
  /\ At(t, "release")
  /\ releaseErr' = [releaseErr EXCEPT ![Home[t]] =
                      IF token[t] >= @ THEN token[t] ELSE @]
  /\ Reset({t})
  /\ UNCHANGED <<storeVars, table, lease, calls, views>>

\* A process dies: its calls and diagnostics vanish, its lease stays with an
\* owner id that no later coordinator has.
Crash(s) ==
  /\ Reset({t \in Threads : Home[t] = s})
  /\ releaseErr' = [releaseErr EXCEPT ![s] = 0]
  /\ lease' = [lease EXCEPT !.owner = IF @ = s THEN None ELSE @]
  /\ UNCHANGED <<storeVars, table, calls, views>>

\* lease_until passes.  PausesOutliveLease = FALSE: never while the command
\* that took the lease is running.
LeaseRunsOut ==
  /\ lease.live
  /\ PausesOutliveLease
     \/ \A t \in Threads : ~(Critical(t) /\ token[t] = lease.token)
  /\ lease' = [lease EXCEPT !.live = FALSE]
  /\ UNCHANGED <<storeVars, table, releaseErr, local, calls, views>>

\* EventStore.append by any other writer.
AppendPlain ==
  /\ calls > 0
  /\ calls' = calls - 1
  /\ \E r \in PlainWrites : \E e \in Earlier(r) \cup {NewEvent(r)} :
       AppendEvent(r, e) /\ Recorded(r)
  /\ UNCHANGED <<table, lease, releaseErr, local>>

\* SessionProjectionBackend.apply: the runtime projects without a lease.
RuntimeApplies ==
  /\ \E e \in SessionEvents : Verdict(e) = "apply" /\ Project(e)
  /\ UNCHANGED <<storeVars, lease, releaseErr, local, calls, views>>

\* The session row is gone, its receipts survive (a restored backup).
LoseSnapshot ==
  /\ SnapshotLosses
  /\ proj.last > 0
  /\ \A t \in Threads : At(t, "idle")
  /\ proj' = EmptyView
  /\ UNCHANGED <<storeVars, receipts, lease, releaseErr, local, calls, views>>

Step(t) ==
  \/ AcquireLease(t) \/ ReadTarget(t) \/ ReadState(t) \/ ListEvents(t)
  \/ ApplyListed(t) \/ FindEarlier(t) \/ Validate(t) \/ AppendCommand(t)
  \/ ProjectCommand(t) \/ Release(t)

Next ==
  \/ \E t \in Threads : \/ Begin(t) \/ Step(t) \/ LeaseTimeout(t)
                        \/ StatementFails(t) \/ ReleaseFails(t)
  \/ \E s \in Stores : Crash(s)
  \/ LeaseRunsOut \/ AppendPlain \/ RuntimeApplies \/ LoseSnapshot

Spec == Init /\ [][Next]_vars

\* Threads that run keep running, leases run out, and the projection runtime
\* keeps publishing; nothing is assumed of failures or of new calls.
Fairness ==
  /\ \A t \in Threads : WF_vars(Step(t))
  /\ WF_vars(LeaseRunsOut)
  /\ WF_vars(RuntimeApplies)

FairSpec == Spec /\ Fairness

-----------------------------------------------------------------------------
Places == {"idle", "lease", "target", "state", "list", "apply", "find",
           "validate", "append", "project", "reproject", "release"}

Outcomes == {"none", "ok", "failed", "ahead", "rejected"}

TypeOK ==
  /\ events \subseteq Event
  /\ heads \in [Streams -> Nat]
  /\ proj \in View
  /\ receipts \subseteq Event
  /\ lease \in [token : Nat, owner : Stores \cup {None}, live : BOOLEAN]
  /\ releaseErr \in [Stores -> Nat]
  /\ pc \in [Threads -> Places]
  /\ cmd \in [Threads -> Commands \cup {None}]
  /\ \A t \in Threads :
       /\ ~At(t, "idle") => cmd[t] \in Commands
       /\ pc[t] \in {"project", "reproject"} => event[t] \in Event
  /\ token \in [Threads -> Nat]
  /\ target \in [Threads -> Nat]
  /\ seen \in [Threads -> Nat]
  /\ listed \in [Threads -> SUBSET Event]
  /\ event \in [Threads -> Event \cup {None}]
  /\ outcome \in [Threads -> Outcomes]
  /\ calls \in Nat
  /\ views \in [0..SessionHead -> View]

\* The receipts always prove the snapshot: they are events of the log, cover
\* the applied prefix without a hole, and never run past the log.  So neither
\* SessionProjectionIntegrityError nor ProjectionConflictError nor a missing
\* receipt is ever met, whatever fails and whoever projects.
ReceiptsProveSnapshot ==
  /\ receipts \subseteq SessionEvents
  /\ PrefixReceipted
  /\ proj.last <= SessionHead

\* The snapshot is the replay of a prefix of the log: no event is applied
\* twice, skipped or applied out of order by racing projectors, by a stale
\* lease holder or by re-projection over surviving receipts.
ProjectionIsReplay == proj = views[proj.last]

\* Preflight (validate_operation): a command in the log can be applied when
\* replay reaches it, so it never blocks the events behind it.
CommittedEventsApply ==
  \A e \in SessionEvents : ~Unapplicable(views[e.seq - 1], e.seq, e.body)

\* Read-your-writes: a call that succeeds answers with its own event, or the
\* equal event of an earlier attempt, from the log, and with a state that
\* includes it.
SuccessIsVisible ==
  \A t \in Threads : outcome[t] = "ok" =>
    /\ event[t] \in events
    /\ SameValues(event[t], cmd[t])
    /\ seen[t] >= event[t].seq

\* No two calls run between lease and release at once, in one process or in
\* two, as long as commands finish before their lease runs out.
CommandsExclusive ==
  \A t, u \in Threads : Critical(t) /\ Critical(u) => t = u

\* A lease nobody is using any more, which will make others wait until it runs
\* out, is shown by lease_release_errors() of the live process that left it.
OrphanLeaseReported ==
  lease.live /\ lease.owner # None =>
    \/ \E t \in Threads : Critical(t) /\ token[t] = lease.token
    \/ releaseErr[lease.owner] = lease.token

\* Fencing: a thread that went past its lease never writes the projection once
\* another call has been given a newer token.
StaleThreadsNeverWrite ==
  [][\A t \in Threads :
       /\ pc[t] \in {"apply", "project", "reproject"}
       /\ <<pc[t], listed[t]>> # <<pc'[t], listed'[t]>>
       /\ proj' # proj
       => token[t] = lease.token]_vars

\* Every call of append_explicit returns, however often processes die with
\* the lease in their hands.
CallsReturn == \A t \in Threads : At(t, "lease") ~> At(t, "idle")

\* Every committed event is eventually part of the projection.
EventuallyProjected ==
  \A n \in 1..MaxCalls : SessionHead >= n ~> proj.last >= n

\* The events of the session in order, without their identities.
SessionLog ==
  [n \in 1..SessionHead |-> (CHOOSE e \in SessionEvents : e.seq = n).body]

History == INSTANCE SessionHistory WITH
  log <- SessionLog, state <- views[SessionHead], view <- proj,
  HistoryBodies <- Bodies

\* Coordinators, plain writers, runtime and failures together implement one
\* append-only history of applicable events with a projection that follows it,
\* as long as commands finish before their lease runs out.
ImplementsHistory == History!HistorySpec

\* "session projection is ahead of event authority" is only said of a
\* projection that is ahead of the log.
AheadIsReal ==
  \A t \in Threads : outcome[t] = "ahead" => proj.last > SessionHead

\* A retry of a command whose idempotency key is committed with the same values
\* is answered with the original event, not judged against the state that the
\* original has changed.
RetryIsNotRejected ==
  \A t \in Threads : outcome[t] = "rejected" =>
    ~\E e \in SameKey(cmd[t]) : SameValues(e, cmd[t])
=============================================================================
