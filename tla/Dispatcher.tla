----------------------------- MODULE Dispatcher -----------------------------
(***************************************************************************)
(* The projection of one stream by processes that share a database:        *)
(* storage/coordinator.py ProjectionDispatcher over the tables of          *)
(* storage/checkpoints.py.  project takes one event to every registered    *)
(* backend in turn.  It reads the checkpoint and the backend's watermark,  *)
(* keeps the event in the process's buffer of pending events, and takes    *)
(* the pending events that follow the checkpoint one by one through three  *)
(* transactions: apply, receipt, checkpoint.  An exception of a backend is *)
(* recorded and swallowed, and what was pending stays pending.             *)
(*                                                                         *)
(* An event is its sequence number: EventStore gives every number of a     *)
(* stream to one event, so the conflicts between different events under    *)
(* one number that the code also looks for do not occur.  The runtime      *)
(* (Projection) keeps the calls of project in one process apart, which is  *)
(* why the dispatcher's own lock has no variable.                          *)
(***************************************************************************)
EXTENDS Integers, FiniteSets, Sequences

CONSTANTS
  Processes,       \* each with a ProjectionDispatcher of its own
  Backends,        \* projections
  Registered,      \* Registered[p]: the backends of p, in registration order
  MaxSeq,          \* bound: events of the stream
  MaxPending,      \* max_pending_events
  MaxPendingTotal  \* max_pending_events_total

ASSUME RegisteredAssumption == Registered \in [Processes -> Seq(Backends) \ {<<>>}]
ASSUME MaxSeqAssumption == MaxSeq \in Nat
ASSUME MaxPendingAssumption == MaxPending \in Nat \ {0}
ASSUME MaxPendingTotalAssumption == MaxPendingTotal \in Nat \ {0}

VARIABLES
  checkpoint,    \* projection_watermarks
  receipts,      \* projection_event_receipts: the events on record
  watermark,     \* the last event each backend has applied
  pending,       \* per process and backend: events that wait
  pendingCount,  \* _pending_count
  errors,        \* per process: the backends with an entry in _errors
  dispatch       \* per process: the call of project under way

tables == <<checkpoint, receipts, watermark>>
memory == <<pending, pendingCount, errors>>
dispatcherVars == <<tables, memory, dispatch>>

Seqs == 1..MaxSeq
Larger(m, n) == IF m > n THEN m ELSE n
Smaller(m, n) == IF m < n THEN m ELSE n

NoBackend == "none"
Dispatch ==
  [at : {"next", "watermark", "drain", "checkpoint"}, event : 0..MaxSeq,
   left : Seq(Backends), backend : Backends \cup {NoBackend},
   checkpoint : 0..MaxSeq, watermark : 0..MaxSeq]

NoDispatch == [at |-> "next", event |-> 0, left |-> <<>>, backend |-> NoBackend,
               checkpoint |-> 0, watermark |-> 0]

BackendsOf(p) == {Registered[p][i] : i \in DOMAIN Registered[p]}

DispatcherInit ==
  /\ checkpoint = [b \in Backends |-> 0]
  /\ receipts = [b \in Backends |-> {}]
  /\ watermark = [b \in Backends |-> 0]
  /\ pending = [p \in Processes |-> [b \in Backends |-> {}]]
  /\ pendingCount = [p \in Processes |-> 0]
  /\ errors = [p \in Processes |-> {}]
  /\ dispatch = [p \in Processes |-> NoDispatch]

\* All that waits in the buffers of a process.
Waiting(p) == {w \in BackendsOf(p) \X Seqs : w[2] \in pending[p][w[1]]}

\* No call of project is under way.
Idle(p) == dispatch[p] = NoDispatch

StartProject(p, s) ==
  dispatch' = [dispatch EXCEPT ![p] = [NoDispatch EXCEPT !.event = s, !.left = Registered[p]]]

\* On to the next backend, or out of project.
LeaveBackend(p) ==
  dispatch' = [dispatch EXCEPT ![p] =
    IF @.left = <<>> THEN NoDispatch
    ELSE [@ EXCEPT !.at = "next", !.backend = NoBackend, !.checkpoint = 0, !.watermark = 0]]

ClearError(p, b) == errors' = [errors EXCEPT ![p] = @ \ {b}]

RecordErrorLogsOnly(p) == LeaveBackend(p) /\ UNCHANGED errors
\* _record_error: the exception goes no further.
RecordError(p) ==
  /\ errors' = [errors EXCEPT ![p] = @ \cup {dispatch[p].backend}]
  /\ LeaveBackend(p)

-----------------------------------------------------------------------------
ReadCheckpoint(p) ==
  /\ dispatch[p].at = "next" /\ dispatch[p].left # <<>>
  /\ LET d == dispatch[p]
         b == Head(d.left)
     IN
       dispatch' = [dispatch EXCEPT ![p] =
         [d EXCEPT !.at = "watermark", !.left = Tail(d.left), !.backend = b,
                   !.checkpoint = checkpoint[b]]]
  /\ UNCHANGED <<tables, memory>>

\* The event is behind the checkpoint and the backend really has it.
Behind(p) ==
  LET d == dispatch[p] IN d.event <= d.checkpoint /\ d.event <= watermark[d.backend]

BoundaryTrustsCheckpoint(p) == dispatch[p].checkpoint
BoundaryBeforeEvent(p) == dispatch[p].event - 1

\* Where to go on from: a checkpoint the backend has fallen behind of is not
\* believed.
Boundary(p) ==
  LET d == dispatch[p] IN
    IF d.event <= d.checkpoint THEN watermark[d.backend] ELSE d.checkpoint

\* An event that does not follow the boundary waits only if there is room.
Full(p) ==
  LET d == dispatch[p] IN
    /\ d.event \notin pending[p][d.backend]
    /\ d.event # Boundary(p) + 1
    /\ \/ Cardinality(pending[p][d.backend]) >= MaxPending
       \/ pendingCount[p] >= MaxPendingTotal

SkipKeepsCount(p) ==
  LET d == dispatch[p] IN
    /\ pending' = [pending EXCEPT ![p][d.backend] = {s \in @ : s > d.checkpoint}]
    /\ ClearError(p, d.backend)
    /\ LeaveBackend(p) /\ UNCHANGED pendingCount

\* Nothing is left to do for the backend but to forget what it waited with.
Skip(p) ==
  LET d == dispatch[p]
      obsolete == {s \in pending[p][d.backend] : s <= d.checkpoint}
  IN
    /\ pending' = [pending EXCEPT ![p][d.backend] = @ \ obsolete]
    /\ pendingCount' = [pendingCount EXCEPT ![p] = @ - Cardinality(obsolete)]
    /\ ClearError(p, d.backend)
    /\ LeaveBackend(p)

EnqueueTrustsCheckpoint(p) ==
  LET d == dispatch[p] IN
    /\ pending' = [pending EXCEPT ![p][d.backend] = @ \cup {d.event}]
    /\ pendingCount' = [pendingCount EXCEPT ![p] =
                          IF d.event \in pending[p][d.backend] THEN @ ELSE @ + 1]
    /\ dispatch' = [dispatch EXCEPT ![p] =
                      [@ EXCEPT !.at = "drain", !.checkpoint = Boundary(p),
                                !.watermark = Boundary(p)]]
    /\ UNCHANGED errors

Enqueue(p) ==
  LET d == dispatch[p] IN
    /\ pending' = [pending EXCEPT ![p][d.backend] = @ \cup {d.event}]
    /\ pendingCount' = [pendingCount EXCEPT ![p] =
                          IF d.event \in pending[p][d.backend] THEN @ ELSE @ + 1]
    /\ dispatch' = [dispatch EXCEPT ![p] =
                      [@ EXCEPT !.at = "drain", !.checkpoint = Boundary(p),
                                !.watermark = watermark[d.backend]]]
    /\ UNCHANGED errors

ReadWatermark(p) ==
  /\ dispatch[p].at = "watermark"
  /\ LET d == dispatch[p] IN
       \/ /\ Behind(p) /\ d.event \in receipts[d.backend]
          /\ Skip(p)
       \/ /\ \/ Behind(p) /\ d.event \notin receipts[d.backend]
             \/ ~Behind(p) /\ Full(p)
          /\ RecordError(p) /\ UNCHANGED <<pending, pendingCount>>
       \/ /\ ~Behind(p) /\ ~Full(p)
          /\ Enqueue(p)
  /\ UNCHANGED tables

-----------------------------------------------------------------------------
NextSeq(p) == dispatch[p].checkpoint + 1

Draining(p) ==
  /\ dispatch[p].at = "drain"
  /\ NextSeq(p) \in pending[p][dispatch[p].backend]

\* A backend applies what follows its watermark, ignores what it has and
\* raises at a gap (SessionProjectionBackend, SessionStore.apply_event).
Apply(p) ==
  /\ Draining(p) /\ dispatch[p].watermark < NextSeq(p)
  /\ LET b == dispatch[p].backend IN
       \/ /\ NextSeq(p) <= watermark[b] + 1
          /\ watermark' = [watermark EXCEPT ![b] = Larger(@, NextSeq(p))]
          /\ dispatch' = [dispatch EXCEPT ![p].watermark = NextSeq(p)]
          /\ UNCHANGED errors
       \/ /\ NextSeq(p) > watermark[b] + 1
          /\ RecordError(p) /\ UNCHANGED watermark
  /\ UNCHANGED <<checkpoint, receipts, pending, pendingCount>>

SaveReceipt(p) ==
  /\ Draining(p) /\ dispatch[p].watermark >= NextSeq(p)
  /\ receipts' = [receipts EXCEPT ![dispatch[p].backend] = @ \cup {NextSeq(p)}]
  /\ dispatch' = [dispatch EXCEPT ![p].at = "checkpoint"]
  /\ UNCHANGED <<checkpoint, watermark, memory>>

\* save_max, and then the event waits no longer.
SaveCheckpoint(p) ==
  /\ dispatch[p].at = "checkpoint"
  /\ LET b == dispatch[p].backend IN
       /\ checkpoint' = [checkpoint EXCEPT ![b] = Larger(@, NextSeq(p))]
       /\ pending' = [pending EXCEPT ![p][b] = @ \ {NextSeq(p)}]
  /\ pendingCount' = [pendingCount EXCEPT ![p] = @ - 1]
  /\ dispatch' = [dispatch EXCEPT ![p] = [@ EXCEPT !.at = "drain", !.checkpoint = NextSeq(p)]]
  /\ UNCHANGED <<receipts, watermark, errors>>

\* The event is projected, or waits for those before it.
FinishBackend(p) ==
  /\ dispatch[p].at = "drain" /\ ~Draining(p)
  /\ IF dispatch[p].event <= dispatch[p].checkpoint
     THEN ClearError(p, dispatch[p].backend)
     ELSE UNCHANGED errors
  /\ LeaveBackend(p)
  /\ UNCHANGED <<tables, pending, pendingCount>>

\* A statement of the checkpoint store or of the backend fails.
DispatchFails(p) ==
  /\ dispatch[p].at \in {"watermark", "checkpoint"} \/ Draining(p)
  /\ RecordError(p)
  /\ UNCHANGED <<tables, pending, pendingCount>>

Project(p) ==
  \/ ReadCheckpoint(p) \/ ReadWatermark(p) \/ Apply(p) \/ SaveReceipt(p)
  \/ SaveCheckpoint(p) \/ FinishBackend(p)

-----------------------------------------------------------------------------
\* clear_pending: not while project has the lock of the backend.
ClearPending(p) ==
  /\ Idle(p)
  /\ pending' = [pending EXCEPT ![p] = [b \in Backends |->
                   IF b \in BackendsOf(p) THEN {} ELSE @[b]]]
  /\ pendingCount' = [pendingCount EXCEPT ![p] = @ - Cardinality(Waiting(p))]
  /\ UNCHANGED <<tables, errors, dispatch>>

\* watermarks(stream_id): a backend that answers loses its error.  This takes
\* no lock that project takes.
ReportWatermarks(p, failing) ==
  /\ errors' = [errors EXCEPT ![p] = (@ \ BackendsOf(p)) \cup failing]
  /\ UNCHANGED <<tables, pending, pendingCount, dispatch>>

IsFirst(s, S) == s \in S /\ \A t \in S : s <= t

\* replay_from: n is where the slowest backend is.
ReplayFrom(p, n) == IsFirst(n, {Smaller(checkpoint[b], watermark[b]) : b \in BackendsOf(p)})

\* validate_checkpoint_receipts against the events 1..audited: receipts and
\* events cover what checkpoint and backend agree on.
ReceiptsValid(p, audited) ==
  \A b \in BackendsOf(p) :
    LET through == Smaller(checkpoint[b], watermark[b]) IN
      through <= audited /\ 1..through \subseteq receipts[b]

DispatcherTypeOK ==
  /\ checkpoint \in [Backends -> 0..MaxSeq]
  /\ receipts \in [Backends -> SUBSET Seqs]
  /\ watermark \in [Backends -> 0..MaxSeq]
  /\ pending \in [Processes -> [Backends -> SUBSET Seqs]]
  /\ pendingCount \in [Processes -> Int]
  /\ errors \in [Processes -> SUBSET Backends]
  /\ dispatch \in [Processes -> Dispatch]
=============================================================================
