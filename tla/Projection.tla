----------------------------- MODULE Projection -----------------------------
(***************************************************************************)
(* The projection runtime of each process, storage/recovery.py: recover    *)
(* replays the stream from the slowest backend's boundary, publish takes   *)
(* live events.  While a stream is RECOVERING live events go to a buffer   *)
(* that the recovery drains at its end; when it is READY they are          *)
(* projected at once; when it FAILED they are refused.  The stream's lock  *)
(* is held by publish and by the draining, so a process has at most one    *)
(* call of project under way.                                              *)
(*                                                                         *)
(* The stream itself is lastSeq: EventStore numbers its events 1..lastSeq  *)
(* (StreamsContiguous), and list_after(n) returns n+1..lastSeq.            *)
(***************************************************************************)
EXTENDS Dispatcher

CONSTANTS
  Commanded,   \* backends that are session projections: explicit commands
               \* apply events to them without a dispatcher
  Maintained,  \* processes where someone clears the buffers
  Monitored,   \* processes where someone calls dispatcher.watermarks
  MaxBuffer,   \* max_buffer_events
  MaxFaults    \* bound: failed statements, crashes, lost rows

ASSUME CommandedAssumption == Commanded \subseteq Backends
ASSUME MaintainedAssumption == Maintained \subseteq Processes
ASSUME MonitoredAssumption == Monitored \subseteq Processes
ASSUME MaxBufferAssumption == MaxBuffer \in Nat \ {0}
ASSUME MaxFaultsAssumption == MaxFaults \in Nat

VARIABLES
  lastSeq,  \* the head of the stream
  state,    \* per process: ProjectionRuntimeState of the stream
  buffer,   \* per process: live events received while recovering
  call,     \* per process: the call of recover or publish under way
  faults,   \* faults left
  damaged   \* history: the backends that ever lost rows

runtimeVars == <<state, buffer, call>>
world == <<lastSeq, faults, damaged>>
projectionVars == <<dispatcherVars, runtimeVars, world>>

Call ==
  [at : {"none", "target", "boundary", "audit", "validate", "list", "replay",
         "drain", "drained", "publish"},
   target : 0..MaxSeq, start : 0..MaxSeq, audited : 0..MaxSeq,
   todo : SUBSET Seqs, replayed : SUBSET Seqs]
NoCall == [at |-> "none", target |-> 0, start |-> 0, audited |-> 0,
           todo |-> {}, replayed |-> {}]

ProjectionInit ==
  /\ DispatcherInit
  /\ lastSeq = 0
  /\ state = [p \in Processes |-> "recovering"]
  /\ buffer = [p \in Processes |-> {}]
  /\ call = [p \in Processes |-> NoCall]
  /\ faults = MaxFaults
  /\ damaged = {}

CallAt(p, l) == call[p].at = l
\* recover does not hold the stream's lock at these points.
Unlocked(p) ==
  call[p].at \in {"none", "target", "boundary", "audit", "validate", "list", "replay"}

\* A call of recover is under way.
Recovering(p) == call[p].at \notin {"none", "publish"}

EventsFrom(n, m) == n..m

\* list_after, when the stream ends at m
EventsAfter(n, m) == (n + 1)..m

-----------------------------------------------------------------------------
(* recover                                                                 *)

BeginRecover(p) ==
  /\ CallAt(p, "none")
  /\ call' = [call EXCEPT ![p].at = "target"]
  /\ state' = [state EXCEPT ![p] = "recovering"]
  /\ UNCHANGED <<dispatcherVars, buffer>>

\* The reads before the replay, each in a transaction of its own.
ReadTarget(p) ==
  /\ CallAt(p, "target")
  /\ call' = [call EXCEPT ![p] = [@ EXCEPT !.at = "boundary", !.target = lastSeq]]
  /\ UNCHANGED <<dispatcherVars, state, buffer>>

ReadBoundary(p) ==
  /\ CallAt(p, "boundary")
  /\ \E n \in 0..MaxSeq :
       /\ ReplayFrom(p, n)
       /\ call' = [call EXCEPT ![p] = [@ EXCEPT !.at = "audit", !.start = n]]
  /\ UNCHANGED <<dispatcherVars, state, buffer>>

ReadAudit(p) ==
  /\ CallAt(p, "audit")
  /\ call' = [call EXCEPT ![p] = [@ EXCEPT !.at = "validate", !.audited = lastSeq]]
  /\ UNCHANGED <<dispatcherVars, state, buffer>>

\* recover raises.
FailCall(p) ==
  /\ state' = [state EXCEPT ![p] = "failed"]
  /\ call' = [call EXCEPT ![p] = NoCall]
  /\ UNCHANGED buffer

Replay(p, events) ==
  call' = [call EXCEPT ![p] = [@ EXCEPT !.at = "replay", !.todo = events, !.replayed = events]]

\* A replay from 0 is the audited events themselves, any other is read anew.
ValidateReceipts(p) ==
  /\ CallAt(p, "validate")
  /\ \/ /\ ReceiptsValid(p, call[p].audited)
        /\ IF call[p].start = 0
           THEN Replay(p, EventsAfter(0, call[p].audited))
           ELSE call' = [call EXCEPT ![p].at = "list"]
        /\ UNCHANGED <<state, buffer>>
     \/ ~ReceiptsValid(p, call[p].audited) /\ FailCall(p)
  /\ UNCHANGED dispatcherVars

ListEvents(p) ==
  /\ CallAt(p, "list")
  /\ Replay(p, EventsAfter(call[p].start, lastSeq))
  /\ UNCHANGED <<dispatcherVars, state, buffer>>

\* _raise_on_dispatch_error, after each event.
Replayed(p) == CallAt(p, "replay") /\ Idle(p)
ErrorSeen(p) == call[p].todo # call[p].replayed /\ errors[p] # {}

ReplayFails(p) ==
  /\ Replayed(p) /\ ErrorSeen(p)
  /\ FailCall(p) /\ UNCHANGED dispatcherVars

ReplayNext(p) ==
  /\ Replayed(p) /\ ~ErrorSeen(p)
  /\ \E s \in Seqs :
       /\ IsFirst(s, call[p].todo)
       /\ StartProject(p, s)
       /\ call' = [call EXCEPT ![p].todo = @ \ {s}]
  /\ UNCHANGED <<tables, memory, state, buffer>>

\* From here on recover holds the stream's lock.
BeginDrain(p) ==
  /\ Replayed(p) /\ ~ErrorSeen(p) /\ call[p].todo = {}
  /\ call' = [call EXCEPT ![p] = [@ EXCEPT !.at = "drain", !.todo = buffer[p]]]
  /\ UNCHANGED <<dispatcherVars, state, buffer>>

Drained(p, s) ==
  /\ buffer' = [buffer EXCEPT ![p] = @ \ {s}]
  /\ LET c == call[p] IN
       call' = [call EXCEPT ![p] = [c EXCEPT !.at = "drain", !.todo = c.todo \ {s},
                                             !.replayed = c.replayed \cup {s}]]

\* A live event that the replay had is dropped, any other is projected.
DrainNext(p) ==
  /\ CallAt(p, "drain")
  /\ \E s \in Seqs :
       /\ IsFirst(s, call[p].todo)
       /\ \/ /\ s \in call[p].replayed
             /\ Drained(p, s) /\ UNCHANGED <<dispatch, state>>
          \/ /\ s \notin call[p].replayed
             /\ StartProject(p, s)
             /\ call' = [call EXCEPT ![p].at = "drained"]
             /\ UNCHANGED <<state, buffer>>
  /\ UNCHANGED <<tables, memory>>

CheckDrained(p) ==
  /\ CallAt(p, "drained") /\ Idle(p)
  /\ \/ errors[p] # {} /\ FailCall(p)
     \/ /\ errors[p] = {}
        /\ \E s \in Seqs : IsFirst(s, call[p].todo) /\ Drained(p, s)
        /\ UNCHANGED state
  /\ UNCHANGED dispatcherVars

\* _covers_target_sequence
CoversTarget(p) == (call[p].start + 1)..call[p].target \subseteq call[p].replayed

FinishRecover(p) ==
  /\ CallAt(p, "drain") /\ call[p].todo = {}
  /\ \/ /\ errors[p] = {} /\ CoversTarget(p)
        /\ state' = [state EXCEPT ![p] = "ready"]
        /\ call' = [call EXCEPT ![p] = NoCall]
        /\ UNCHANGED buffer
     \/ ~(errors[p] = {} /\ CoversTarget(p)) /\ FailCall(p)
  /\ UNCHANGED dispatcherVars

\* A statement outside of project fails.
RecoverFails(p) ==
  /\ call[p].at \in {"target", "boundary", "audit", "validate", "list"}
  /\ FailCall(p)
  /\ UNCHANGED dispatcherVars

-----------------------------------------------------------------------------
(* publish: whoever appended an event hands it on once, late, twice or     *)
(* never.                                                                  *)

PublishBuffered(p, s) ==
  /\ Unlocked(p) /\ state[p] = "recovering"
  /\ Cardinality(buffer[p]) < MaxBuffer
  /\ buffer' = [buffer EXCEPT ![p] = @ \cup {s}]
  /\ UNCHANGED <<dispatcherVars, state, call>>

PublishLive(p, s) ==
  /\ Unlocked(p) /\ state[p] = "ready"
  /\ StartProject(p, s)
  /\ call' = [call EXCEPT ![p].at = "publish"]
  /\ UNCHANGED <<tables, memory, state, buffer>>

FinishPublish(p) ==
  /\ CallAt(p, "publish") /\ Idle(p)
  /\ call' = [call EXCEPT ![p] = NoCall]
  /\ UNCHANGED <<dispatcherVars, state, buffer>>

ClearBuffer(p) ==
  /\ Unlocked(p) /\ buffer[p] # {}
  /\ buffer' = [buffer EXCEPT ![p] = {}]
  /\ UNCHANGED <<dispatcherVars, state, call>>

-----------------------------------------------------------------------------
\* What a call of recover or publish does next.
Step(p) ==
  /\ \/ Project(p) /\ UNCHANGED runtimeVars
     \/ ReadTarget(p) \/ ReadBoundary(p) \/ ReadAudit(p) \/ ValidateReceipts(p)
     \/ ListEvents(p) \/ ReplayNext(p) \/ ReplayFails(p) \/ BeginDrain(p)
     \/ DrainNext(p) \/ CheckDrained(p) \/ FinishRecover(p) \/ FinishPublish(p)
  /\ UNCHANGED world

Publish(p) ==
  /\ \E s \in 1..lastSeq : PublishBuffered(p, s) \/ PublishLive(p, s)
  /\ UNCHANGED world

\* Maintenance by the application.
Maintain(p) ==
  /\ \/ p \in Maintained /\ ClearBuffer(p)
     \/ p \in Maintained /\ ClearPending(p) /\ UNCHANGED runtimeVars
     \/ p \in Monitored /\ ReportWatermarks(p, {}) /\ UNCHANGED runtimeVars
  /\ UNCHANGED world

UseFault == faults > 0 /\ faults' = faults - 1

Fail(p) ==
  /\ UseFault
  /\ \/ DispatchFails(p) /\ UNCHANGED runtimeVars
     \/ RecoverFails(p)
     \/ /\ p \in Monitored
        /\ \E b \in BackendsOf(p) : ReportWatermarks(p, {b})
        /\ UNCHANGED runtimeVars
  /\ UNCHANGED <<lastSeq, damaged>>

\* The process is started anew, with nothing in memory.
Crash(p) ==
  /\ UseFault
  /\ pending' = [pending EXCEPT ![p] = [b \in Backends |-> {}]]
  /\ pendingCount' = [pendingCount EXCEPT ![p] = 0]
  /\ errors' = [errors EXCEPT ![p] = {}]
  /\ dispatch' = [dispatch EXCEPT ![p] = NoDispatch]
  /\ state' = [state EXCEPT ![p] = "recovering"]
  /\ buffer' = [buffer EXCEPT ![p] = {}]
  /\ call' = [call EXCEPT ![p] = NoCall]
  /\ UNCHANGED <<tables, lastSeq, damaged>>

AppendEvent ==
  /\ lastSeq < MaxSeq /\ lastSeq' = lastSeq + 1
  /\ UNCHANGED <<dispatcherVars, runtimeVars, faults, damaged>>

\* append_explicit projects what it appended, and what was missing before it,
\* to the session itself.
CommandApplies(b) ==
  /\ b \in Commanded /\ watermark[b] < lastSeq
  /\ watermark' = [watermark EXCEPT ![b] = @ + 1]
  /\ UNCHANGED <<checkpoint, receipts, memory, dispatch, runtimeVars, world>>

\* The backend's snapshot, or a receipt, is gone after a restore.
LoseRows(b) ==
  /\ UseFault /\ damaged' = damaged \cup {b}
  /\ \/ /\ watermark[b] > 0
        /\ watermark' = [watermark EXCEPT ![b] = 0]
        /\ UNCHANGED receipts
     \/ \E s \in receipts[b] :
          /\ receipts' = [receipts EXCEPT ![b] = @ \ {s}]
          /\ UNCHANGED watermark
  /\ UNCHANGED <<checkpoint, memory, dispatch, runtimeVars, lastSeq>>

Environment == AppendEvent \/ \E b \in Backends : CommandApplies(b) \/ LoseRows(b)
=============================================================================
