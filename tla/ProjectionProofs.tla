-------------------------- MODULE ProjectionProofs --------------------------
(***************************************************************************)
(* Proofs about the projection: types, that a checkpoint never covers an   *)
(* event that was skipped, that a backend is handed its events in order    *)
(* and once, that the counter of a process counts what waits there, and    *)
(* that a stream is ready only when its recovery has covered its target.   *)
(***************************************************************************)
EXTENDS ReadBarrier, FiniteSetTheorems, TLAPS

USE MaxSeqAssumption, MaxFaultsAssumption

-----------------------------------------------------------------------------
(* Types.                                                                  *)

\* A call of project is about an event, has a backend once it has read its
\* checkpoint, and what it is about to record is an event.
InRange(d) ==
  /\ d.at # "next" \/ d.left # <<>> => d.event \in Seqs
  /\ d.at # "next" => d.backend \in Backends
  /\ d.at = "checkpoint" => d.checkpoint < MaxSeq

Ranges == \A p \in Processes : InRange(dispatch[p])

RuntimeTyped ==
  /\ state \in [Processes -> {"recovering", "ready", "failed"}]
  /\ buffer \in [Processes -> SUBSET Seqs]
  /\ call \in [Processes -> Call]

WorldTyped ==
  /\ lastSeq \in 0..MaxSeq
  /\ faults \in Nat
  /\ damaged \in SUBSET Backends

ReadsTyped == read \in [Processes -> Read]

\* What the other parts need of TypeOK, and what makes it inductive.
Typed == DispatcherTypeOK /\ Ranges /\ RuntimeTyped /\ WorldTyped

LEMMA TypeParts ==
  TypeOK <=> DispatcherTypeOK /\ RuntimeTyped /\ WorldTyped /\ ReadsTyped
BY DEF TypeOK, RuntimeTyped, WorldTyped, ReadsTyped

LEMMA RegisteredBackends ==
  ASSUME NEW p \in Processes
  PROVE  /\ Registered[p] \in Seq(Backends)
         /\ BackendsOf(p) \subseteq Backends
         /\ IsFiniteSet(BackendsOf(p))
<1>1. Registered[p] \in Seq(Backends)
  BY RegisteredAssumption
<1>2. DOMAIN Registered[p] = 1..Len(Registered[p]) /\ Len(Registered[p]) \in Nat
      /\ \A i \in 1..Len(Registered[p]) : Registered[p][i] \in Backends
  BY <1>1
<1>3. BackendsOf(p) \subseteq Backends
  BY <1>2 DEF BackendsOf
<1>4. Registered[p] \in Surjection(1..Len(Registered[p]), BackendsOf(p))
  <2>1. Registered[p] \in [1..Len(Registered[p]) -> BackendsOf(p)]
    <3>1. Registered[p] = [i \in 1..Len(Registered[p]) |-> Registered[p][i]]
      BY <1>1, <1>2
    <3>2. \A i \in 1..Len(Registered[p]) : Registered[p][i] \in BackendsOf(p)
      BY <1>2 DEF BackendsOf
    <3> QED BY <3>1, <3>2
  <2>2. \A b \in BackendsOf(p) : \E i \in 1..Len(Registered[p]) : Registered[p][i] = b
    BY <1>2 DEF BackendsOf
  <2> QED BY <2>1, <2>2 DEF Surjection
<1>5. IsFiniteSet(1..Len(Registered[p]))
  BY <1>2, FS_Interval
<1> QED BY <1>1, <1>3, <1>4, <1>5, FS_Surjection

LEMMA WaitingCounts ==
  ASSUME NEW p \in Processes
  PROVE  Cardinality(Waiting(p)) \in Nat
<1>1. IsFiniteSet(BackendsOf(p)) /\ IsFiniteSet(Seqs)
  BY RegisteredBackends, FS_Interval DEF Seqs
<1>2. IsFiniteSet(BackendsOf(p) \X Seqs)
  BY <1>1, FS_Product
<1>3. Waiting(p) \in SUBSET (BackendsOf(p) \X Seqs)
  BY DEF Waiting
<1> QED BY <1>2, <1>3, FS_Subset, FS_CardinalityType

LEMMA SeqsCount ==
  ASSUME NEW S \in SUBSET Seqs
  PROVE  Cardinality(S) \in Nat
<1>1. IsFiniteSet(Seqs)
  BY FS_Interval DEF Seqs
<1>2. IsFiniteSet(S)
  BY <1>1, FS_Subset
<1> QED BY <1>2, FS_CardinalityType

LEMMA NoDispatchTyped == NoDispatch \in Dispatch /\ InRange(NoDispatch)
BY DEF NoDispatch, Dispatch, InRange

\* What a change of one process's call needs to keep the types.
LEMMA DispatchTyped ==
  ASSUME dispatch \in [Processes -> Dispatch], Ranges, NEW p \in Processes,
         NEW d \in Dispatch, InRange(d), dispatch' = [dispatch EXCEPT ![p] = d]
  PROVE  dispatch' \in [Processes -> Dispatch] /\ Ranges'
BY DEF Ranges

LEMMA DispatchFields ==
  ASSUME NEW d \in Dispatch
  PROVE  \A at \in {"next", "watermark", "drain", "checkpoint"},
            b \in Backends \cup {NoBackend}, m \in 0..MaxSeq, n \in 0..MaxSeq :
           [d EXCEPT !.at = at, !.backend = b, !.checkpoint = m, !.watermark = n] \in Dispatch
BY DEF Dispatch

LEMMA LeaveTyped ==
  ASSUME dispatch \in [Processes -> Dispatch], Ranges, NEW p \in Processes, LeaveBackend(p)
  PROVE  dispatch' \in [Processes -> Dispatch] /\ Ranges'
<1> DEFINE next == [dispatch[p] EXCEPT !.at = "next", !.backend = NoBackend,
                                        !.checkpoint = 0, !.watermark = 0]
           d == IF dispatch[p].left = <<>> THEN NoDispatch ELSE next
<1>1. d \in Dispatch /\ InRange(d)
  <2>1. dispatch[p] \in Dispatch
    OBVIOUS
  <2>2. next \in Dispatch /\ InRange(next)
    <3>1. next \in Dispatch
      <4>1. 0 \in 0..MaxSeq /\ NoBackend \in Backends \cup {NoBackend}
        OBVIOUS
      <4> QED BY <2>1, <4>1, DispatchFields
    <3>2. next.at = "next"
      BY <2>1 DEF Dispatch
    <3>3. next.left = dispatch[p].left /\ next.event = dispatch[p].event
      BY <2>1 DEF Dispatch
    <3> HIDE DEF next
    <3> QED BY <3>1, <3>2, <3>3 DEF InRange, Ranges
  <2> HIDE DEF next
  <2> QED BY <2>2, NoDispatchTyped
<1>2. dispatch' = [dispatch EXCEPT ![p] = d]
  BY DEF LeaveBackend
<1> HIDE DEF d
<1> QED BY <1>1, <1>2, DispatchTyped

LEMMA StartTyped ==
  ASSUME dispatch \in [Processes -> Dispatch], Ranges, NEW p \in Processes,
         NEW s \in Seqs, StartProject(p, s)
  PROVE  dispatch' \in [Processes -> Dispatch] /\ Ranges'
<1> DEFINE d == [NoDispatch EXCEPT !.event = s, !.left = Registered[p]]
<1>0. s \in 0..MaxSeq /\ Registered[p] \in Seq(Backends)
      /\ NoDispatch \in Dispatch /\ NoDispatch.at = "next"
  BY RegisteredBackends, NoDispatchTyped DEF Seqs, NoDispatch
<1>1. d \in Dispatch /\ InRange(d)
  BY <1>0 DEF Dispatch, InRange
<1>2. dispatch' = [dispatch EXCEPT ![p] = d]
  BY DEF StartProject
<1> HIDE DEF d
<1> QED BY <1>1, <1>2, DispatchTyped

LEMMA RecordErrorTyped ==
  ASSUME DispatcherTypeOK, Ranges, NEW p \in Processes, dispatch[p].at # "next",
         RecordError(p)
  PROVE  /\ dispatch' \in [Processes -> Dispatch] /\ Ranges'
         /\ errors' \in [Processes -> SUBSET Backends]
<1>1. dispatch[p].backend \in Backends
  BY DEF Ranges, InRange
<1> QED BY <1>1, LeaveTyped DEF RecordError, DispatcherTypeOK

LEMMA ClearErrorTyped ==
  ASSUME DispatcherTypeOK, NEW p \in Processes, NEW b, ClearError(p, b)
  PROVE  errors' \in [Processes -> SUBSET Backends]
BY DEF ClearError, DispatcherTypeOK

LEMMA ReadCheckpointTyped ==
  ASSUME DispatcherTypeOK, Ranges, NEW p \in Processes, ReadCheckpoint(p)
  PROVE  DispatcherTypeOK' /\ Ranges'
<1> DEFINE b == Head(dispatch[p].left)
           d == [dispatch[p] EXCEPT !.at = "watermark", !.left = Tail(@), !.backend = b,
                                    !.checkpoint = checkpoint[b]]
<1>1. dispatch[p] \in Dispatch /\ dispatch[p].left \in Seq(Backends) \ {<<>>}
  BY DEF DispatcherTypeOK, ReadCheckpoint, Dispatch
<1>2. b \in Backends /\ Tail(dispatch[p].left) \in Seq(Backends)
  BY <1>1
<1>3. checkpoint[b] \in 0..MaxSeq
  BY <1>2 DEF DispatcherTypeOK
<1>4. d \in Dispatch /\ InRange(d)
  <2> HIDE DEF b
  <2>1. d \in Dispatch
    BY <1>1, <1>2, <1>3 DEF Dispatch
  <2>2. d.at = "watermark" /\ d.backend = b /\ d.event = dispatch[p].event
    BY <1>1 DEF Dispatch
  <2>3. dispatch[p].event \in Seqs
    BY <1>1 DEF Ranges, InRange
  <2> HIDE DEF d
  <2> QED BY <1>2, <2>1, <2>2, <2>3 DEF InRange
<1>5. dispatch' = [dispatch EXCEPT ![p] = d]
  BY DEF ReadCheckpoint
<1>6. UNCHANGED <<tables, memory>>
  BY DEF ReadCheckpoint
<1> HIDE DEF d
<1> QED BY <1>4, <1>5, <1>6, DispatchTyped DEF DispatcherTypeOK, tables, memory

LEMMA BoundaryTyped ==
  ASSUME DispatcherTypeOK, Ranges, NEW p \in Processes, dispatch[p].at = "watermark"
  PROVE  /\ dispatch[p] \in Dispatch /\ dispatch[p].backend \in Backends
         /\ dispatch[p].event \in 0..MaxSeq /\ dispatch[p].checkpoint \in 0..MaxSeq
         /\ watermark[dispatch[p].backend] \in 0..MaxSeq
         /\ Boundary(p) \in 0..MaxSeq
BY DEF DispatcherTypeOK, Dispatch, Ranges, InRange, Boundary

LEMMA ReadWatermarkTyped ==
  ASSUME DispatcherTypeOK, Ranges, NEW p \in Processes, ReadWatermark(p)
  PROVE  DispatcherTypeOK' /\ Ranges'
<1>1. dispatch[p].at = "watermark" /\ dispatch[p].event \in Seqs /\ UNCHANGED tables
  BY DEF ReadWatermark, Ranges, InRange
<1>2. CASE Skip(p)
  <2> DEFINE obsolete == {s \in pending[p][dispatch[p].backend] : s <= dispatch[p].checkpoint}
  <2>1. obsolete \in SUBSET Seqs
    BY <1>1, BoundaryTyped DEF DispatcherTypeOK
  <2>2. Cardinality(obsolete) \in Nat
    BY <2>1, SeqsCount
  <2>3. pending' = [pending EXCEPT ![p][dispatch[p].backend] = @ \ obsolete]
        /\ pendingCount' = [pendingCount EXCEPT ![p] = @ - Cardinality(obsolete)]
        /\ ClearError(p, dispatch[p].backend) /\ LeaveBackend(p)
    BY <1>2 DEF Skip
  <2> HIDE DEF obsolete
  <2>4. pendingCount' \in [Processes -> Int]
    BY <2>2, <2>3, SMTT(20) DEF DispatcherTypeOK
  <2>5. pending' \in [Processes -> [Backends -> SUBSET Seqs]]
    BY <2>3 DEF DispatcherTypeOK
  <2> QED BY <1>1, <2>3, <2>4, <2>5, LeaveTyped, ClearErrorTyped DEF DispatcherTypeOK, tables
<1>3. CASE RecordError(p) /\ UNCHANGED <<pending, pendingCount>>
  BY <1>1, <1>3, RecordErrorTyped DEF DispatcherTypeOK, tables
<1>4. CASE Enqueue(p)
  <2> DEFINE d == [dispatch[p] EXCEPT !.at = "drain", !.checkpoint = Boundary(p),
                                      !.watermark = watermark[dispatch[p].backend]]
  <2>1. d \in Dispatch /\ InRange(d)
    BY <1>1, BoundaryTyped DEF Dispatch, InRange
  <2>2. dispatch' = [dispatch EXCEPT ![p] = d] /\ UNCHANGED errors
    BY <1>4 DEF Enqueue
  <2> HIDE DEF d
  <2>3. pending' \in [Processes -> [Backends -> SUBSET Seqs]]
    <3> DEFINE b == dispatch[p].backend
               s == dispatch[p].event
    <3>1. pending \in [Processes -> [Backends -> SUBSET Seqs]] /\ s \in Seqs
      BY <1>1 DEF DispatcherTypeOK
    <3>2. pending' = [pending EXCEPT ![p][b] = @ \cup {s}]
      BY <1>4 DEF Enqueue
    <3> HIDE DEF b, s
    <3> QED BY <3>1, <3>2
  <2>4. pendingCount' \in [Processes -> Int]
    <3>1. pendingCount \in [Processes -> Int]
      BY DEF DispatcherTypeOK
    <3> DEFINE waits == dispatch[p].event \in pending[p][dispatch[p].backend]
    <3>2. pendingCount' = [pendingCount EXCEPT ![p] = IF waits THEN @ ELSE @ + 1]
      BY <1>4 DEF Enqueue
    <3> HIDE DEF waits
    <3> QED BY <3>1, <3>2
  <2> QED BY <1>1, <2>1, <2>2, <2>3, <2>4, DispatchTyped DEF DispatcherTypeOK, tables
<1> QED BY <1>2, <1>3, <1>4 DEF ReadWatermark

\* What a step of the draining loop has in its hands.
LEMMA DrainTyped ==
  ASSUME DispatcherTypeOK, Ranges, NEW p \in Processes,
         Draining(p) \/ dispatch[p].at = "checkpoint"
  PROVE  /\ dispatch[p] \in Dispatch /\ dispatch[p].backend \in Backends
         /\ dispatch[p].event \in Seqs /\ NextSeq(p) \in Seqs
         /\ dispatch[p].at # "next"
<1>1. dispatch[p] \in Dispatch /\ dispatch[p].at # "next"
  BY DEF DispatcherTypeOK, Draining
<1>2. dispatch[p].backend \in Backends /\ dispatch[p].event \in Seqs
  BY <1>1 DEF Ranges, InRange
<1>3. CASE Draining(p)
  BY <1>1, <1>2, <1>3 DEF DispatcherTypeOK, Draining
<1>4. CASE dispatch[p].at = "checkpoint"
  BY <1>1, <1>4 DEF Ranges, InRange, NextSeq, Seqs, Dispatch
<1> QED BY <1>1, <1>2, <1>3, <1>4

LEMMA ApplyTyped ==
  ASSUME DispatcherTypeOK, Ranges, NEW p \in Processes, Apply(p)
  PROVE  DispatcherTypeOK' /\ Ranges'
<1> DEFINE b == dispatch[p].backend
           d == [dispatch[p] EXCEPT !.watermark = NextSeq(p)]
<1>1. Draining(p) /\ UNCHANGED <<checkpoint, receipts, pending, pendingCount>>
  BY DEF Apply
<1>2. dispatch[p] \in Dispatch /\ b \in Backends /\ NextSeq(p) \in 0..MaxSeq
      /\ dispatch[p].at = "drain" /\ dispatch[p].event \in Seqs
  BY <1>1, DrainTyped DEF Draining, Seqs
<1>3. CASE /\ watermark' = [watermark EXCEPT ![b] = Larger(@, NextSeq(p))]
           /\ dispatch' = [dispatch EXCEPT ![p].watermark = NextSeq(p)]
           /\ UNCHANGED errors
  <2>1. d \in Dispatch
    BY <1>2 DEF Dispatch
  <2>2. d.at = "drain" /\ d.backend = b /\ d.event = dispatch[p].event
    BY <1>2 DEF Dispatch
  <2>3. dispatch' = [dispatch EXCEPT ![p] = d]
    BY <1>3
  <2>4. InRange(d)
    <3> HIDE DEF d
    <3> QED BY <1>2, <2>2 DEF InRange
  <2> HIDE DEF d
  <2>5. dispatch' \in [Processes -> Dispatch] /\ Ranges'
    BY <2>1, <2>3, <2>4, DispatchTyped DEF DispatcherTypeOK
  <2>6. watermark' \in [Backends -> 0..MaxSeq]
    BY <1>2, <1>3 DEF DispatcherTypeOK, Larger
  <2> QED BY <1>1, <1>3, <2>5, <2>6 DEF DispatcherTypeOK
<1>4. CASE RecordError(p) /\ UNCHANGED watermark
  BY <1>1, <1>2, <1>4, RecordErrorTyped DEF DispatcherTypeOK
<1> QED BY <1>3, <1>4 DEF Apply

LEMMA SaveReceiptTyped ==
  ASSUME DispatcherTypeOK, Ranges, NEW p \in Processes, SaveReceipt(p)
  PROVE  DispatcherTypeOK' /\ Ranges'
<1> DEFINE d == [dispatch[p] EXCEPT !.at = "checkpoint"]
<1>1. Draining(p)
  BY DEF SaveReceipt
<1>2. dispatch[p] \in Dispatch /\ dispatch[p].backend \in Backends
      /\ NextSeq(p) \in Seqs /\ dispatch[p].event \in Seqs
  BY <1>1, DrainTyped
<1>3. dispatch' = [dispatch EXCEPT ![p] = d] /\ UNCHANGED <<checkpoint, watermark, memory>>
  BY DEF SaveReceipt
<1>4. receipts' \in [Backends -> SUBSET Seqs]
  BY <1>2 DEF SaveReceipt, DispatcherTypeOK
<1>5. d \in Dispatch
  BY <1>2 DEF Dispatch
<1>6. d.at = "checkpoint" /\ d.backend = dispatch[p].backend
      /\ d.event = dispatch[p].event /\ d.checkpoint = dispatch[p].checkpoint
  BY <1>2 DEF Dispatch
<1>7. dispatch[p].checkpoint < MaxSeq
  BY <1>2 DEF NextSeq, Seqs, Dispatch
<1> HIDE DEF d
<1>8. InRange(d)
  BY <1>2, <1>6, <1>7 DEF InRange
<1> QED BY <1>3, <1>4, <1>5, <1>8, DispatchTyped DEF DispatcherTypeOK, memory

LEMMA SaveCheckpointTyped ==
  ASSUME DispatcherTypeOK, Ranges, NEW p \in Processes, SaveCheckpoint(p)
  PROVE  DispatcherTypeOK' /\ Ranges'
<1> DEFINE d == [dispatch[p] EXCEPT !.at = "drain", !.checkpoint = NextSeq(p)]
<1>1. dispatch[p].at = "checkpoint"
  BY DEF SaveCheckpoint
<1>2. dispatch[p] \in Dispatch /\ dispatch[p].backend \in Backends
      /\ NextSeq(p) \in 0..MaxSeq /\ dispatch[p].event \in Seqs
  BY <1>1, DrainTyped DEF Seqs
<1>3. dispatch' = [dispatch EXCEPT ![p] = d] /\ UNCHANGED <<receipts, watermark, errors>>
  BY DEF SaveCheckpoint
<1>4. checkpoint' \in [Backends -> 0..MaxSeq]
  BY <1>2 DEF SaveCheckpoint, DispatcherTypeOK, Larger
<1>5. pending' \in [Processes -> [Backends -> SUBSET Seqs]]
  <2> DEFINE b == dispatch[p].backend
             next == NextSeq(p)
  <2>1. pending \in [Processes -> [Backends -> SUBSET Seqs]]
    BY DEF DispatcherTypeOK
  <2>2. pending' = [pending EXCEPT ![p][b] = @ \ {next}]
    BY DEF SaveCheckpoint
  <2> HIDE DEF b, next
  <2> QED BY <2>1, <2>2
<1>6. pendingCount' \in [Processes -> Int]
  BY DEF SaveCheckpoint, DispatcherTypeOK
<1>7. d \in Dispatch
  BY <1>2 DEF Dispatch
<1>8. d.at = "drain" /\ d.backend = dispatch[p].backend /\ d.event = dispatch[p].event
  BY <1>2 DEF Dispatch
<1> HIDE DEF d
<1>9. InRange(d)
  BY <1>2, <1>8 DEF InRange
<1> QED BY <1>3, <1>4, <1>5, <1>6, <1>7, <1>9, DispatchTyped DEF DispatcherTypeOK

LEMMA FinishBackendTyped ==
  ASSUME DispatcherTypeOK, Ranges, NEW p \in Processes, FinishBackend(p)
  PROVE  DispatcherTypeOK' /\ Ranges'
<1>1. LeaveBackend(p) /\ UNCHANGED <<tables, pending, pendingCount>>
      /\ (ClearError(p, dispatch[p].backend) \/ UNCHANGED errors)
  BY DEF FinishBackend
<1>2. dispatch' \in [Processes -> Dispatch] /\ Ranges'
  BY <1>1, LeaveTyped DEF DispatcherTypeOK
<1>3. errors' \in [Processes -> SUBSET Backends]
  BY <1>1, ClearErrorTyped DEF DispatcherTypeOK
<1> QED BY <1>1, <1>2, <1>3 DEF DispatcherTypeOK, tables

LEMMA ProjectTyped ==
  ASSUME DispatcherTypeOK, Ranges, NEW p \in Processes, Project(p)
  PROVE  DispatcherTypeOK' /\ Ranges'
BY ReadCheckpointTyped, ReadWatermarkTyped, ApplyTyped, SaveReceiptTyped,
   SaveCheckpointTyped, FinishBackendTyped DEF Project

LEMMA DispatchFailsTyped ==
  ASSUME DispatcherTypeOK, Ranges, NEW p \in Processes, DispatchFails(p)
  PROVE  DispatcherTypeOK' /\ Ranges'
<1>1. RecordError(p) /\ dispatch[p].at # "next" /\ UNCHANGED <<tables, pending, pendingCount>>
  BY DEF DispatchFails, Draining
<1> QED BY <1>1, RecordErrorTyped DEF DispatcherTypeOK, tables

-----------------------------------------------------------------------------
\* Types of the runtime.
LEMMA DispatcherKeeps ==
  ASSUME DispatcherTypeOK, Ranges, UNCHANGED dispatcherVars
  PROVE  DispatcherTypeOK' /\ Ranges'
BY DEF dispatcherVars, tables, memory, DispatcherTypeOK, Ranges

LEMMA CallTyped ==
  ASSUME RuntimeTyped, NEW p \in Processes, NEW c \in Call, call' = [call EXCEPT ![p] = c]
  PROVE  call' \in [Processes -> Call]
BY DEF RuntimeTyped

LEMMA FailCallTyped ==
  ASSUME RuntimeTyped, NEW p \in Processes, FailCall(p)
  PROVE  RuntimeTyped'
<1>1. NoCall \in Call
  BY DEF NoCall, Call
<1> QED BY <1>1 DEF RuntimeTyped, FailCall

LEMMA ReplayTyped ==
  ASSUME RuntimeTyped, NEW p \in Processes, NEW events \in SUBSET Seqs, Replay(p, events),
         UNCHANGED <<state, buffer>>
  PROVE  RuntimeTyped'
<1> DEFINE c == [call[p] EXCEPT !.at = "replay", !.todo = events, !.replayed = events]
<1>1. c \in Call
  BY DEF RuntimeTyped, Call
<1>2. call' = [call EXCEPT ![p] = c]
  BY DEF Replay
<1> HIDE DEF c
<1> QED BY <1>1, <1>2, CallTyped DEF RuntimeTyped

\* The steps that leave the dispatcher alone.
Quietly(p) ==
  \/ BeginRecover(p) \/ ReadTarget(p) \/ ReadBoundary(p) \/ ReadAudit(p)
  \/ ValidateReceipts(p) \/ ListEvents(p) \/ ReplayFails(p) \/ BeginDrain(p)
  \/ CheckDrained(p) \/ FinishRecover(p) \/ FinishPublish(p) \/ RecoverFails(p)
  \/ ClearBuffer(p)
  \/ \E s \in 1..lastSeq : PublishBuffered(p, s)

LEMMA QuietSteps ==
  ASSUME NEW p \in Processes, Quietly(p)
  PROVE  UNCHANGED dispatcherVars
BY DEF Quietly, BeginRecover, ReadTarget, ReadBoundary, ReadAudit, ValidateReceipts, ListEvents,
       ReplayFails, BeginDrain, CheckDrained, FinishRecover, FinishPublish, RecoverFails,
       ClearBuffer, PublishBuffered

LEMMA DrainedTyped ==
  ASSUME RuntimeTyped, NEW p \in Processes, NEW s \in Seqs, Drained(p, s), UNCHANGED state
  PROVE  RuntimeTyped'
<1> DEFINE c == [call[p] EXCEPT !.at = "drain", !.todo = call[p].todo \ {s},
                                !.replayed = call[p].replayed \cup {s}]
<1>1. c \in Call
  BY DEF RuntimeTyped, Call
<1>2. call' = [call EXCEPT ![p] = c]
  BY DEF Drained
<1>3. buffer' \in [Processes -> SUBSET Seqs]
  BY DEF Drained, RuntimeTyped
<1> HIDE DEF c
<1> QED BY <1>1, <1>2, <1>3, CallTyped DEF RuntimeTyped

LEMMA QuietTyped ==
  ASSUME RuntimeTyped, WorldTyped, NEW p \in Processes, Quietly(p)
  PROVE  RuntimeTyped'
<1>0. call[p] \in Call /\ lastSeq \in 0..MaxSeq /\ buffer[p] \in SUBSET Seqs
  BY DEF RuntimeTyped, WorldTyped
<1>1. CASE BeginRecover(p)
  BY <1>0, <1>1 DEF BeginRecover, RuntimeTyped, Call
<1>2. CASE ReadTarget(p)
  <2>1. [call[p] EXCEPT !.at = "boundary", !.target = lastSeq] \in Call
    BY <1>0 DEF Call
  <2> QED BY <1>2, <2>1, CallTyped DEF ReadTarget, RuntimeTyped
<1>3. CASE ReadBoundary(p)
  <2>1. PICK n \in 0..MaxSeq :
          call' = [call EXCEPT ![p] = [call[p] EXCEPT !.at = "audit", !.start = n]]
    BY <1>3 DEF ReadBoundary
  <2>2. [call[p] EXCEPT !.at = "audit", !.start = n] \in Call
    BY <1>0 DEF Call
  <2> QED BY <1>3, <2>1, <2>2, CallTyped DEF ReadBoundary, RuntimeTyped
<1>4. CASE ReadAudit(p)
  <2>1. [call[p] EXCEPT !.at = "validate", !.audited = lastSeq] \in Call
    BY <1>0 DEF Call
  <2> QED BY <1>4, <2>1, CallTyped DEF ReadAudit, RuntimeTyped
<1>5. CASE ValidateReceipts(p)
  <2>1. CASE FailCall(p)
    BY <2>1, FailCallTyped
  <2>2. CASE Replay(p, EventsAfter(0, call[p].audited)) /\ UNCHANGED <<state, buffer>>
    <3>1. EventsAfter(0, call[p].audited) \in SUBSET Seqs
      BY <1>0 DEF EventsAfter, Seqs, Call
    <3> QED BY <2>2, <3>1, ReplayTyped
  <2>3. CASE call' = [call EXCEPT ![p].at = "list"] /\ UNCHANGED <<state, buffer>>
    <3>1. [call[p] EXCEPT !.at = "list"] \in Call
      BY <1>0 DEF Call
    <3> QED BY <2>3, <3>1 DEF RuntimeTyped
  <2> QED BY <1>5, <2>1, <2>2, <2>3 DEF ValidateReceipts
<1>6. CASE ListEvents(p)
  <2>1. EventsAfter(call[p].start, lastSeq) \in SUBSET Seqs
    BY <1>0 DEF EventsAfter, Seqs, Call
  <2> QED BY <1>6, <2>1, ReplayTyped DEF ListEvents
<1>7. CASE ReplayFails(p)
  BY <1>7, FailCallTyped DEF ReplayFails
<1>8. CASE BeginDrain(p)
  <2>1. [call[p] EXCEPT !.at = "drain", !.todo = buffer[p]] \in Call
    BY <1>0 DEF Call
  <2> QED BY <1>8, <2>1, CallTyped DEF BeginDrain, RuntimeTyped
<1>9. CASE CheckDrained(p)
  BY <1>9, FailCallTyped, DrainedTyped DEF CheckDrained
<1>10. CASE FinishRecover(p)
  <2>1. NoCall \in Call
    BY DEF NoCall, Call
  <2> QED BY <1>10, <2>1, FailCallTyped DEF FinishRecover, RuntimeTyped
<1>11. CASE FinishPublish(p)
  <2>1. NoCall \in Call
    BY DEF NoCall, Call
  <2> QED BY <1>11, <2>1 DEF FinishPublish, RuntimeTyped
<1>12. CASE RecoverFails(p)
  BY <1>12, FailCallTyped DEF RecoverFails
<1>13. CASE ClearBuffer(p)
  BY <1>13 DEF ClearBuffer, RuntimeTyped
<1>14. ASSUME NEW s \in 1..lastSeq, PublishBuffered(p, s) PROVE RuntimeTyped'
  <2>1. s \in Seqs
    BY <1>0 DEF Seqs
  <2> QED BY <1>14, <2>1 DEF PublishBuffered, RuntimeTyped
<1> QED BY <1>1, <1>2, <1>3, <1>4, <1>5, <1>6, <1>7, <1>8, <1>9, <1>10, <1>11, <1>12, <1>13,
           <1>14 DEF Quietly

LEMMA ReplayNextTyped ==
  ASSUME DispatcherTypeOK, Ranges, RuntimeTyped, NEW p \in Processes, ReplayNext(p)
  PROVE  DispatcherTypeOK' /\ Ranges' /\ RuntimeTyped'
<1>1. PICK s \in Seqs : StartProject(p, s) /\ call' = [call EXCEPT ![p].todo = @ \ {s}]
  BY DEF ReplayNext
<1>2. UNCHANGED <<tables, memory, state, buffer>>
  BY DEF ReplayNext
<1>3. dispatch' \in [Processes -> Dispatch] /\ Ranges'
  BY <1>1, StartTyped DEF DispatcherTypeOK
<1>4. [call[p] EXCEPT !.todo = call[p].todo \ {s}] \in Call
  BY DEF RuntimeTyped, Call
<1>5. call' = [call EXCEPT ![p] = [call[p] EXCEPT !.todo = call[p].todo \ {s}]]
  BY <1>1
<1>6. call' \in [Processes -> Call]
  BY <1>4, <1>5, CallTyped
<1> QED BY <1>2, <1>3, <1>6 DEF DispatcherTypeOK, RuntimeTyped, tables, memory

LEMMA DrainNextTyped ==
  ASSUME DispatcherTypeOK, Ranges, RuntimeTyped, NEW p \in Processes, DrainNext(p)
  PROVE  DispatcherTypeOK' /\ Ranges' /\ RuntimeTyped'
<1>1. UNCHANGED <<tables, memory>>
  BY DEF DrainNext
<1>2. PICK s \in Seqs :
        \/ Drained(p, s) /\ UNCHANGED <<dispatch, state>>
        \/ /\ StartProject(p, s)
           /\ call' = [call EXCEPT ![p].at = "drained"]
           /\ UNCHANGED <<state, buffer>>
  BY DEF DrainNext
<1>3. CASE Drained(p, s) /\ UNCHANGED <<dispatch, state>>
  <2>1. DispatcherTypeOK' /\ Ranges'
    BY <1>1, <1>3, DispatcherKeeps DEF dispatcherVars
  <2> QED BY <1>3, <2>1, DrainedTyped
<1>4. CASE /\ StartProject(p, s)
           /\ call' = [call EXCEPT ![p].at = "drained"]
           /\ UNCHANGED <<state, buffer>>
  <2>1. [call[p] EXCEPT !.at = "drained"] \in Call
    BY DEF RuntimeTyped, Call
  <2>2. call' \in [Processes -> Call]
    BY <1>4, <2>1 DEF RuntimeTyped
  <2>3. dispatch' \in [Processes -> Dispatch] /\ Ranges'
    BY <1>4, StartTyped DEF DispatcherTypeOK
  <2> QED BY <1>1, <1>4, <2>2, <2>3 DEF DispatcherTypeOK, RuntimeTyped, tables, memory
<1> QED BY <1>2, <1>3, <1>4

LEMMA PublishLiveTyped ==
  ASSUME DispatcherTypeOK, Ranges, RuntimeTyped, NEW p \in Processes, NEW s \in Seqs,
         PublishLive(p, s)
  PROVE  DispatcherTypeOK' /\ Ranges' /\ RuntimeTyped'
<1>1. dispatch' \in [Processes -> Dispatch] /\ Ranges'
  BY StartTyped DEF DispatcherTypeOK, PublishLive
<1>2. [call[p] EXCEPT !.at = "publish"] \in Call
  BY DEF RuntimeTyped, Call
<1>3. call' \in [Processes -> Call]
  BY <1>2 DEF RuntimeTyped, PublishLive
<1> QED BY <1>1, <1>3 DEF PublishLive, DispatcherTypeOK, RuntimeTyped, tables, memory

LEMMA ClearPendingTyped ==
  ASSUME DispatcherTypeOK, Ranges, NEW p \in Processes, ClearPending(p)
  PROVE  DispatcherTypeOK' /\ Ranges'
<1>1. Cardinality(Waiting(p)) \in Nat
  BY WaitingCounts
<1>2. pendingCount' \in [Processes -> Int]
  BY <1>1 DEF ClearPending, DispatcherTypeOK
<1>3. pending' \in [Processes -> [Backends -> SUBSET Seqs]]
  BY DEF ClearPending, DispatcherTypeOK
<1> QED BY <1>2, <1>3 DEF ClearPending, DispatcherTypeOK, tables, Ranges

LEMMA ReportWatermarksTyped ==
  ASSUME DispatcherTypeOK, Ranges, NEW p \in Processes, NEW failing \in SUBSET BackendsOf(p),
         ReportWatermarks(p, failing)
  PROVE  DispatcherTypeOK' /\ Ranges'
<1>1. errors' \in [Processes -> SUBSET Backends]
  BY RegisteredBackends DEF ReportWatermarks, DispatcherTypeOK
<1> QED BY <1>1 DEF ReportWatermarks, DispatcherTypeOK, tables, Ranges

LEMMA CrashTyped ==
  ASSUME DispatcherTypeOK, Ranges, RuntimeTyped, NEW p \in Processes, Crash(p)
  PROVE  DispatcherTypeOK' /\ Ranges' /\ RuntimeTyped'
<1>1. dispatch' \in [Processes -> Dispatch] /\ Ranges'
  BY NoDispatchTyped, DispatchTyped DEF Crash, DispatcherTypeOK
<1>2. NoCall \in Call
  BY DEF NoCall, Call
<1>3. RuntimeTyped'
  BY <1>2 DEF Crash, RuntimeTyped
<1>4. pending' \in [Processes -> [Backends -> SUBSET Seqs]]
  BY DEF Crash, DispatcherTypeOK
<1>5. pendingCount' \in [Processes -> Int] /\ errors' \in [Processes -> SUBSET Backends]
  BY DEF Crash, DispatcherTypeOK
<1> QED BY <1>1, <1>3, <1>4, <1>5 DEF Crash, DispatcherTypeOK, tables

LEMMA EnvironmentTyped ==
  ASSUME Typed, Environment
  PROVE  Typed'
<1>1. CASE AppendEvent
  <2>1. WorldTyped'
    BY <1>1 DEF AppendEvent, Typed, WorldTyped
  <2>2. UNCHANGED dispatcherVars /\ RuntimeTyped'
    BY <1>1 DEF AppendEvent, Typed, RuntimeTyped, runtimeVars
  <2> QED BY <2>1, <2>2, DispatcherKeeps DEF Typed
<1>2. ASSUME NEW b \in Backends, CommandApplies(b) PROVE Typed'
  <2>1. watermark' \in [Backends -> 0..MaxSeq]
    BY <1>2 DEF CommandApplies, Typed, DispatcherTypeOK, WorldTyped
  <2>2. DispatcherTypeOK' /\ Ranges'
    BY <1>2, <2>1 DEF CommandApplies, Typed, DispatcherTypeOK, Ranges, memory
  <2> QED BY <1>2, <2>2 DEF CommandApplies, Typed, RuntimeTyped, WorldTyped, runtimeVars, world
<1>3. ASSUME NEW b \in Backends, LoseRows(b) PROVE Typed'
  <2>1. watermark' \in [Backends -> 0..MaxSeq] /\ receipts' \in [Backends -> SUBSET Seqs]
    <3>1. CASE watermark' = [watermark EXCEPT ![b] = 0] /\ UNCHANGED receipts
      BY <3>1 DEF Typed, DispatcherTypeOK
    <3>2. ASSUME NEW s \in receipts[b], receipts' = [receipts EXCEPT ![b] = @ \ {s}],
                 UNCHANGED watermark
          PROVE  receipts' \in [Backends -> SUBSET Seqs]
      BY <3>2 DEF Typed, DispatcherTypeOK
    <3> QED BY <1>3, <3>1, <3>2 DEF LoseRows, Typed, DispatcherTypeOK
  <2>2. DispatcherTypeOK' /\ Ranges'
    BY <1>3, <2>1 DEF LoseRows, Typed, DispatcherTypeOK, Ranges, memory
  <2>3. WorldTyped'
    BY <1>3 DEF LoseRows, UseFault, Typed, WorldTyped
  <2> QED BY <1>3, <2>2, <2>3 DEF LoseRows, Typed, RuntimeTyped, runtimeVars
<1> QED BY <1>1, <1>2, <1>3 DEF Environment

LEMMA StepTyped ==
  ASSUME Typed, NEW p \in Processes, Step(p)
  PROVE  Typed'
<1>1. WorldTyped'
  BY DEF Step, world, Typed, WorldTyped
<1>2. CASE Project(p) /\ UNCHANGED runtimeVars
  BY <1>1, <1>2, ProjectTyped DEF Typed, runtimeVars, RuntimeTyped
<1>3. CASE Quietly(p)
  BY <1>1, <1>3, QuietSteps, QuietTyped, DispatcherKeeps DEF Typed
<1>4. CASE ReplayNext(p)
  BY <1>1, <1>4, ReplayNextTyped DEF Typed
<1>5. CASE DrainNext(p)
  BY <1>1, <1>5, DrainNextTyped DEF Typed
<1> QED BY <1>2, <1>3, <1>4, <1>5 DEF Step, Quietly

LEMMA PublishTyped ==
  ASSUME Typed, NEW p \in Processes, Publish(p)
  PROVE  Typed'
<1>1. WorldTyped'
  BY DEF Publish, world, Typed, WorldTyped
<1>2. PICK s \in 1..lastSeq : PublishBuffered(p, s) \/ PublishLive(p, s)
  BY DEF Publish
<1>3. s \in Seqs
  BY DEF Typed, WorldTyped, Seqs
<1>4. CASE PublishBuffered(p, s)
  <2>1. Quietly(p)
    BY <1>4 DEF Quietly
  <2> QED BY <1>1, <2>1, QuietSteps, QuietTyped, DispatcherKeeps DEF Typed
<1>5. CASE PublishLive(p, s)
  BY <1>1, <1>3, <1>5, PublishLiveTyped DEF Typed
<1> QED BY <1>2, <1>4, <1>5

LEMMA MaintainTyped ==
  ASSUME Typed, NEW p \in Processes, Maintain(p)
  PROVE  Typed'
<1>1. WorldTyped'
  BY DEF Maintain, world, Typed, WorldTyped
<1>2. CASE ClearBuffer(p)
  <2>1. Quietly(p)
    BY <1>2 DEF Quietly
  <2> QED BY <1>1, <2>1, QuietSteps, QuietTyped, DispatcherKeeps DEF Typed
<1>3. CASE ClearPending(p) /\ UNCHANGED runtimeVars
  BY <1>1, <1>3, ClearPendingTyped DEF Typed, runtimeVars, RuntimeTyped
<1>4. CASE ReportWatermarks(p, {}) /\ UNCHANGED runtimeVars
  BY <1>1, <1>4, ReportWatermarksTyped DEF Typed, runtimeVars, RuntimeTyped
<1> QED BY <1>2, <1>3, <1>4 DEF Maintain

LEMMA FailTyped ==
  ASSUME Typed, NEW p \in Processes, Fail(p)
  PROVE  Typed'
<1>1. WorldTyped'
  BY DEF Fail, UseFault, Typed, WorldTyped
<1>2. CASE DispatchFails(p) /\ UNCHANGED runtimeVars
  BY <1>1, <1>2, DispatchFailsTyped DEF Typed, runtimeVars, RuntimeTyped
<1>3. CASE RecoverFails(p)
  <2>1. Quietly(p)
    BY <1>3 DEF Quietly
  <2> QED BY <1>1, <2>1, QuietSteps, QuietTyped, DispatcherKeeps DEF Typed
<1>4. ASSUME NEW b \in BackendsOf(p), ReportWatermarks(p, {b}), UNCHANGED runtimeVars
      PROVE  Typed'
  <2>1. {b} \in SUBSET BackendsOf(p)
    OBVIOUS
  <2> QED BY <1>1, <1>4, <2>1, ReportWatermarksTyped DEF Typed, runtimeVars, RuntimeTyped
<1> QED BY <1>2, <1>3, <1>4 DEF Fail

\* The steps of readers outside recover.
Reads(p) == BeginRead(p) \/ Answer(p) \/ \E n \in Seqs \cup {lastSeq} : Compare(p, n)

LEMMA KeepTyped ==
  ASSUME Typed, UNCHANGED projectionVars
  PROVE  Typed'
<1>1. UNCHANGED <<dispatcherVars, runtimeVars, world>>
  BY DEF projectionVars
<1>2. RuntimeTyped' /\ WorldTyped'
  BY <1>1 DEF Typed, RuntimeTyped, WorldTyped, runtimeVars, world
<1> QED BY <1>1, <1>2, DispatcherKeeps DEF Typed

LEMMA ReadTyped ==
  ASSUME Typed, ReadsTyped, NEW p \in Processes,
         \/ Reads(p)
         \/ CatchUp(p)
  PROVE  ReadsTyped'
<1>1. \A l \in {"none", "compare", "catch_up", "recovering"} :
        [NoRead EXCEPT !.at = l] \in Read
  BY DEF NoRead, Read
<1>2. CASE \E l \in {"none", "compare", "catch_up", "recovering"} : ReadGoto(p, l)
  BY <1>1, <1>2 DEF ReadGoto, ReadsTyped
<1>3. CASE BeginRead(p)
  <2>1. Session(p) \in 0..MaxSeq
    BY SessionOfAssumption DEF Session, Typed, DispatcherTypeOK
  <2> QED BY <1>3, <2>1 DEF BeginRead, ReadsTyped, Read
<1> QED BY <1>2, <1>3 DEF Reads, Answer, Compare, CatchUp

LEMMA CatchUpTyped ==
  ASSUME Typed, NEW p \in Processes, CatchUp(p)
  PROVE  Typed'
<1>1. WorldTyped'
  BY DEF CatchUp, world, Typed, WorldTyped
<1>2. CASE BeginRecover(p)
  <2>1. Quietly(p)
    BY <1>2 DEF Quietly
  <2> QED BY <1>1, <2>1, QuietSteps, QuietTyped, DispatcherKeeps DEF Typed
<1>3. CASE UNCHANGED <<dispatcherVars, runtimeVars>>
  BY <1>1, <1>3, DispatcherKeeps DEF Typed, RuntimeTyped, runtimeVars
<1> QED BY <1>2, <1>3 DEF CatchUp

LEMMA NextTyped ==
  ASSUME Typed, ReadsTyped, Next
  PROVE  Typed' /\ ReadsTyped'
<1>1. CASE Environment /\ UNCHANGED read
  BY <1>1, EnvironmentTyped DEF ReadsTyped
<1>2. ASSUME NEW p \in Processes, Step(p), UNCHANGED read PROVE Typed' /\ ReadsTyped'
  BY <1>2, StepTyped DEF ReadsTyped
<1>3. ASSUME NEW p \in Processes, Reads(p) PROVE Typed' /\ ReadsTyped'
  <2>1. UNCHANGED projectionVars
    BY <1>3 DEF Reads, BeginRead, Answer, Compare
  <2> QED BY <1>3, <2>1, KeepTyped, ReadTyped
<1>4. ASSUME NEW p \in Processes, CatchUp(p) PROVE Typed' /\ ReadsTyped'
  BY <1>4, CatchUpTyped, ReadTyped
<1>5. ASSUME NEW p \in Processes, Application(p) PROVE Typed' /\ ReadsTyped'
  <2>1. CASE BeginRecover(p) /\ UNCHANGED world
    <3>1. Quietly(p)
      BY <2>1 DEF Quietly
    <3>2. Typed'
      BY <2>1, <3>1, QuietSteps, QuietTyped, DispatcherKeeps DEF Typed, world, WorldTyped
    <3> QED BY <1>5, <3>2 DEF Application, ReadsTyped
  <2>2. CASE Publish(p) \/ Maintain(p) \/ Fail(p)
    BY <1>5, <2>2, PublishTyped, MaintainTyped, FailTyped DEF Application, ReadsTyped
  <2> QED BY <1>5, <2>1, <2>2 DEF Application
<1>6. ASSUME NEW p \in Processes, Restart(p) PROVE Typed' /\ ReadsTyped'
  <2>1. WorldTyped'
    BY <1>6 DEF Restart, Crash, UseFault, Typed, WorldTyped
  <2>2. Typed'
    BY <1>6, <2>1, CrashTyped DEF Restart, Typed
  <2>3. NoRead \in Read
    BY DEF NoRead, Read
  <2> QED BY <1>6, <2>2, <2>3 DEF Restart, ReadsTyped
<1> QED BY <1>1, <1>2, <1>3, <1>4, <1>5, <1>6 DEF Next, Reads

LEMMA InitTyped == Init => Typed /\ ReadsTyped
<1> SUFFICES ASSUME Init PROVE Typed /\ ReadsTyped
  OBVIOUS
<1>1. DispatcherTypeOK /\ Ranges
  BY NoDispatchTyped DEF Init, ProjectionInit, DispatcherInit, DispatcherTypeOK, Ranges
<1>2. NoCall \in Call /\ NoRead \in Read
  BY DEF NoCall, Call, NoRead, Read
<1> QED BY <1>1, <1>2 DEF Init, ProjectionInit, Typed, RuntimeTyped, WorldTyped, ReadsTyped

\* Every variable of ReadBarrier keeps its type, whatever the number of
\* processes, backends and events.
THEOREM ProjectionTypeCorrect == Spec => []TypeOK
<1>1. Typed /\ ReadsTyped /\ [Next]_vars => Typed' /\ ReadsTyped'
  <2> SUFFICES ASSUME Typed, ReadsTyped, [Next]_vars PROVE Typed' /\ ReadsTyped'
    OBVIOUS
  <2>1. CASE UNCHANGED vars
    BY <2>1, KeepTyped DEF vars, ReadsTyped
  <2> QED BY <2>1, NextTyped
<1>2. Typed /\ ReadsTyped => TypeOK
  BY TypeParts DEF Typed
<1> QED BY <1>1, <1>2, InitTyped, PTL DEF Spec

-----------------------------------------------------------------------------
(* No checkpoint covers an event that was skipped.                         *)

\* What a call of project relies on, of a backend that kept its rows: what it
\* has read is still true, because the tables only grow.
Held(p) ==
  LET d == dispatch[p]
      b == d.backend
  IN
    d.at # "next" /\ b \notin damaged =>
      /\ d.checkpoint <= checkpoint[b]
      /\ d.at \in {"drain", "checkpoint"} => d.watermark <= watermark[b]
      /\ d.at = "checkpoint" => NextSeq(p) \in receipts[b] /\ NextSeq(p) <= watermark[b]

AllHeld == \A p \in Processes : Held(p)

\* The tables of a backend that keeps its rows only grow.
TablesGrow ==
  /\ damaged \subseteq damaged'
  /\ \A b \in Backends \ damaged' :
       /\ checkpoint[b] <= checkpoint'[b]
       /\ watermark[b] <= watermark'[b]
       /\ receipts[b] \subseteq receipts'[b]

LEMMA HeldStays ==
  ASSUME Typed, Typed', TablesGrow, NEW p \in Processes, Held(p),
         dispatch'[p] = dispatch[p] \/ dispatch'[p].at = "next"
  PROVE  Held(p)'
<1>1. CASE dispatch'[p].at = "next"
  BY <1>1 DEF Held
<1>2. CASE dispatch'[p] = dispatch[p] /\ dispatch[p].at # "next"
                             /\ dispatch[p].backend \notin damaged'
  <2> DEFINE b == dispatch[p].backend
  <2>1. b \in Backends /\ b \notin damaged
    BY <1>2 DEF Typed, Ranges, InRange, TablesGrow
  <2>2. /\ dispatch[p].checkpoint \in Int /\ dispatch[p].watermark \in Int
        /\ checkpoint[b] \in Int /\ checkpoint'[b] \in Int
        /\ watermark[b] \in Int /\ watermark'[b] \in Int
    BY <2>1 DEF Typed, DispatcherTypeOK, Dispatch
  <2>3. checkpoint[b] <= checkpoint'[b] /\ watermark[b] <= watermark'[b]
        /\ receipts[b] \subseteq receipts'[b]
    BY <1>2, <2>1 DEF TablesGrow
  <2> QED BY <1>2, <2>1, <2>2, <2>3 DEF Held, NextSeq
<1> QED BY <1>1, <1>2 DEF Held

\* A step that moves no table.
LEMMA SameTablesGrow ==
  ASSUME Typed, UNCHANGED <<tables, damaged>>
  PROVE  TablesGrow
BY DEF Typed, DispatcherTypeOK, TablesGrow, tables

LEMMA OnlyOwnDispatch ==
  ASSUME Typed, NEW p \in Processes, NEW q \in Processes, q # p,
         Project(p) \/ DispatchFails(p)
  PROVE  dispatch'[q] = dispatch[q]
<1>1. \E d : dispatch' = [dispatch EXCEPT ![p] = d]
  BY DEF Project, DispatchFails, ReadCheckpoint, ReadWatermark, Apply, SaveReceipt,
         SaveCheckpoint, FinishBackend, Skip, Enqueue, RecordError, LeaveBackend
<1> QED BY <1>1 DEF Typed, DispatcherTypeOK

LEMMA LeavesAtNext ==
  ASSUME Typed, NEW p \in Processes, LeaveBackend(p)
  PROVE  dispatch'[p].at = "next"
<1>1. dispatch[p] \in Dispatch
  BY DEF Typed, DispatcherTypeOK
<1>2. dispatch'[p] = NoDispatch
      \/ dispatch'[p] = [dispatch[p] EXCEPT !.at = "next", !.backend = NoBackend,
                                            !.checkpoint = 0, !.watermark = 0]
  BY DEF LeaveBackend, Typed, DispatcherTypeOK
<1>3. [dispatch[p] EXCEPT !.at = "next", !.backend = NoBackend,
                           !.checkpoint = 0, !.watermark = 0].at = "next"
  BY <1>1 DEF Dispatch
<1>4. NoDispatch.at = "next"
  BY DEF NoDispatch
<1> QED BY <1>2, <1>3, <1>4

\* A checkpoint that is read is where the backend is, at most.
LEMMA BoundaryHeld ==
  ASSUME Typed, CheckpointsProven, NEW p \in Processes, Held(p),
         dispatch[p].at = "watermark", ~Behind(p),
         dispatch[p].backend \in Backends \ damaged
  PROVE  Boundary(p) <= checkpoint[dispatch[p].backend]
<1> DEFINE b == dispatch[p].backend
<1>1. /\ dispatch[p].event \in Int /\ dispatch[p].checkpoint \in Int
      /\ watermark[b] \in Int /\ checkpoint[b] \in Int
  BY BoundaryTyped DEF Typed, DispatcherTypeOK
<1>2. dispatch[p].checkpoint <= checkpoint[b] /\ checkpoint[b] <= watermark[b]
  BY DEF Held, CheckpointsProven
<1> QED BY <1>1, <1>2 DEF Boundary, Behind

LEMMA ReadCheckpointHeld ==
  ASSUME Typed, NEW p \in Processes, ReadCheckpoint(p)
  PROVE  Held(p)'
<1> DEFINE b == Head(dispatch[p].left)
<1>1. dispatch[p] \in Dispatch /\ b \in Backends
  BY DEF Typed, DispatcherTypeOK, ReadCheckpoint, Dispatch
<1>2. dispatch'[p] = [dispatch[p] EXCEPT !.at = "watermark", !.left = Tail(dispatch[p].left),
                                         !.backend = b, !.checkpoint = checkpoint[b]]
  BY DEF ReadCheckpoint, Typed, DispatcherTypeOK
<1>3. dispatch'[p].at = "watermark" /\ dispatch'[p].backend = b
      /\ dispatch'[p].checkpoint = checkpoint[b]
  <2> HIDE DEF b
  <2> QED BY <1>1, <1>2 DEF Dispatch
<1>4. checkpoint'[b] = checkpoint[b] /\ checkpoint[b] \in Int
  BY <1>1 DEF ReadCheckpoint, tables, Typed, DispatcherTypeOK
<1> QED BY <1>3, <1>4 DEF Held

LEMMA ReadWatermarkHeld ==
  ASSUME Typed, CheckpointsProven, NEW p \in Processes, Held(p), ReadWatermark(p),
         UNCHANGED damaged
  PROVE  Held(p)'
<1>1. CASE Skip(p) \/ RecordError(p)
  BY <1>1, LeavesAtNext DEF Held, Skip, RecordError
<1>2. CASE ~Behind(p) /\ Enqueue(p)
  <2> DEFINE b == dispatch[p].backend
  <2>1. dispatch[p].at = "watermark" /\ UNCHANGED tables
    BY DEF ReadWatermark
  <2>2. dispatch[p] \in Dispatch /\ b \in Backends
    BY <2>1, BoundaryTyped DEF Typed
  <2>3. dispatch'[p] = [dispatch[p] EXCEPT !.at = "drain", !.checkpoint = Boundary(p),
                                           !.watermark = watermark[b]]
    BY <1>2 DEF Enqueue, Typed, DispatcherTypeOK
  <2>4. dispatch'[p].at = "drain" /\ dispatch'[p].backend = b
        /\ dispatch'[p].checkpoint = Boundary(p) /\ dispatch'[p].watermark = watermark[b]
    BY <2>2, <2>3 DEF Dispatch
  <2>5. checkpoint' = checkpoint /\ watermark' = watermark /\ watermark[b] \in Int
    BY <2>1, <2>2 DEF tables, Typed, DispatcherTypeOK
  <2>6. b \notin damaged => Boundary(p) <= checkpoint[b]
    BY <1>2, <2>1, <2>2, BoundaryHeld
  <2> HIDE DEF b
  <2> QED BY <2>4, <2>5, <2>6 DEF Held
<1> QED BY <1>1, <1>2 DEF ReadWatermark

LEMMA ApplyHeld ==
  ASSUME Typed, NEW p \in Processes, Held(p), Apply(p), UNCHANGED damaged
  PROVE  TablesGrow /\ Held(p)'
<1> DEFINE b == dispatch[p].backend
<1>1. /\ dispatch[p] \in Dispatch /\ b \in Backends /\ NextSeq(p) \in Seqs
      /\ dispatch[p].at = "drain" /\ UNCHANGED <<checkpoint, receipts>>
  BY DrainTyped DEF Typed, Apply, Draining
<1>2. CASE RecordError(p) /\ UNCHANGED watermark
  <2>1. TablesGrow
    BY <1>1, <1>2, SameTablesGrow DEF tables
  <2> QED BY <1>2, <2>1, LeavesAtNext DEF Held, RecordError
<1>3. CASE /\ watermark' = [watermark EXCEPT ![b] = Larger(@, NextSeq(p))]
           /\ dispatch' = [dispatch EXCEPT ![p].watermark = NextSeq(p)]
  <2>1. NextSeq(p) \in Int /\ \A a \in Backends : watermark[a] \in Int /\ checkpoint[a] \in Int
    BY <1>1 DEF Seqs, Typed, DispatcherTypeOK
  <2>2. \A a \in Backends : watermark[a] <= watermark'[a]
    BY <1>3, <2>1 DEF Larger, Typed, DispatcherTypeOK
  <2>3. NextSeq(p) <= watermark'[b]
    BY <1>1, <1>3, <2>1 DEF Larger, Typed, DispatcherTypeOK
  <2>4. TablesGrow
    BY <1>1, <2>1, <2>2 DEF TablesGrow
  <2>5. dispatch'[p] = [dispatch[p] EXCEPT !.watermark = NextSeq(p)]
    BY <1>3 DEF Typed, DispatcherTypeOK
  <2>6. dispatch'[p].at = "drain" /\ dispatch'[p].backend = b
        /\ dispatch'[p].checkpoint = dispatch[p].checkpoint
        /\ dispatch'[p].watermark = NextSeq(p)
    BY <1>1, <2>5 DEF Dispatch
  <2> HIDE DEF b
  <2>7. b \notin damaged => dispatch[p].checkpoint <= checkpoint[b]
    BY <1>1 DEF Held, b
  <2> QED BY <1>1, <2>3, <2>4, <2>6, <2>7 DEF Held
<1> QED BY <1>2, <1>3 DEF Apply

LEMMA SaveReceiptHeld ==
  ASSUME Typed, NEW p \in Processes, Held(p), SaveReceipt(p), UNCHANGED damaged
  PROVE  TablesGrow /\ Held(p)'
<1> DEFINE b == dispatch[p].backend
<1>1. /\ dispatch[p] \in Dispatch /\ b \in Backends /\ NextSeq(p) \in Seqs
      /\ dispatch[p].at = "drain" /\ dispatch[p].watermark >= NextSeq(p)
      /\ UNCHANGED <<checkpoint, watermark, damaged>>
  BY DrainTyped DEF Typed, SaveReceipt, Draining
<1>2. receipts' = [receipts EXCEPT ![b] = @ \cup {NextSeq(p)}]
  BY DEF SaveReceipt
<1>3. NextSeq(p) \in receipts'[b] /\ \A a \in Backends : receipts[a] \subseteq receipts'[a]
  BY <1>1, <1>2 DEF Typed, DispatcherTypeOK
<1>4. NextSeq(p) \in Int /\ \A a \in Backends : watermark[a] \in Int /\ checkpoint[a] \in Int
  BY <1>1 DEF Seqs, Typed, DispatcherTypeOK
<1>5. TablesGrow
  BY <1>1, <1>3, <1>4 DEF TablesGrow
<1>6. dispatch'[p] = [dispatch[p] EXCEPT !.at = "checkpoint"]
  BY DEF SaveReceipt, Typed, DispatcherTypeOK
<1>7. dispatch'[p].at = "checkpoint" /\ dispatch'[p].backend = b
      /\ dispatch'[p].checkpoint = dispatch[p].checkpoint
      /\ dispatch'[p].watermark = dispatch[p].watermark
  BY <1>1, <1>6 DEF Dispatch
<1>8. NextSeq(p)' = NextSeq(p)
  BY <1>7 DEF NextSeq
<1>9. b \notin damaged => /\ dispatch[p].checkpoint <= checkpoint[b]
                          /\ dispatch[p].watermark <= watermark[b]
  BY <1>1 DEF Held
<1>10. dispatch[p].watermark \in Int
  BY <1>1 DEF Dispatch
<1>11. b \notin damaged => NextSeq(p) <= watermark[b]
  BY <1>1, <1>4, <1>9, <1>10
<1> HIDE DEF b
<1> QED BY <1>1, <1>3, <1>5, <1>7, <1>8, <1>9, <1>11 DEF Held

LEMMA SaveCheckpointHeld ==
  ASSUME Typed, NEW p \in Processes, Held(p), SaveCheckpoint(p), UNCHANGED damaged
  PROVE  TablesGrow /\ Held(p)'
<1> DEFINE b == dispatch[p].backend
<1>1. /\ dispatch[p] \in Dispatch /\ b \in Backends /\ NextSeq(p) \in Seqs
      /\ dispatch[p].at = "checkpoint" /\ UNCHANGED <<receipts, watermark>>
  BY DrainTyped DEF Typed, SaveCheckpoint
<1>2. checkpoint' = [checkpoint EXCEPT ![b] = Larger(@, NextSeq(p))]
  BY DEF SaveCheckpoint
<1>3. NextSeq(p) \in Int /\ \A a \in Backends : watermark[a] \in Int /\ checkpoint[a] \in Int
  BY <1>1 DEF Seqs, Typed, DispatcherTypeOK
<1>4. NextSeq(p) <= checkpoint'[b] /\ \A a \in Backends : checkpoint[a] <= checkpoint'[a]
  BY <1>1, <1>2, <1>3 DEF Larger, Typed, DispatcherTypeOK
<1>5. TablesGrow
  BY <1>1, <1>3, <1>4 DEF TablesGrow
<1>6. dispatch'[p] = [dispatch[p] EXCEPT !.at = "drain", !.checkpoint = NextSeq(p)]
  BY DEF SaveCheckpoint, Typed, DispatcherTypeOK
<1>7. dispatch'[p].at = "drain" /\ dispatch'[p].backend = b
      /\ dispatch'[p].checkpoint = NextSeq(p)
      /\ dispatch'[p].watermark = dispatch[p].watermark
  BY <1>1, <1>6 DEF Dispatch
<1>8. b \notin damaged => dispatch[p].watermark <= watermark[b]
  BY <1>1 DEF Held
<1> HIDE DEF b
<1> QED BY <1>1, <1>4, <1>5, <1>7, <1>8 DEF Held

LEMMA ProvenStays ==
  ASSUME Typed, Typed', CheckpointsProven, TablesGrow, UNCHANGED checkpoint
  PROVE  CheckpointsProven'
<1> SUFFICES ASSUME NEW b \in Backends \ damaged'
             PROVE  checkpoint'[b] <= watermark'[b] /\ 1..checkpoint'[b] \subseteq receipts'[b]
  BY DEF CheckpointsProven
<1>1. b \in Backends \ damaged /\ watermark[b] <= watermark'[b]
      /\ receipts[b] \subseteq receipts'[b]
  BY DEF TablesGrow
<1>2. checkpoint[b] <= watermark[b] /\ 1..checkpoint[b] \subseteq receipts[b]
  BY <1>1 DEF CheckpointsProven
<1>3. checkpoint[b] \in Int /\ watermark[b] \in Int /\ watermark'[b] \in Int
  BY DEF Typed, DispatcherTypeOK
<1> QED BY <1>1, <1>2, <1>3

\* The argument for the checkpoint: the events before the one it moves to were
\* covered when project read it, and that one has its receipt.
LEMMA SaveCheckpointProven ==
  ASSUME Typed, CheckpointsProven, NEW p \in Processes, Held(p), SaveCheckpoint(p),
         UNCHANGED damaged
  PROVE  CheckpointsProven'
<1> DEFINE b == dispatch[p].backend
<1>1. /\ dispatch[p] \in Dispatch /\ b \in Backends /\ NextSeq(p) \in Seqs
      /\ dispatch[p].at = "checkpoint" /\ UNCHANGED <<receipts, watermark>>
  BY DrainTyped DEF Typed, SaveCheckpoint
<1>2. checkpoint' = [checkpoint EXCEPT ![b] = Larger(@, NextSeq(p))]
  BY DEF SaveCheckpoint
<1>3. \A a \in Backends : checkpoint[a] \in 0..MaxSeq /\ watermark[a] \in 0..MaxSeq
  BY DEF Typed, DispatcherTypeOK
<1> SUFFICES ASSUME NEW a \in Backends \ damaged
             PROVE  checkpoint'[a] <= watermark[a] /\ 1..checkpoint'[a] \subseteq receipts[a]
  BY <1>1 DEF CheckpointsProven
<1>4. checkpoint[a] <= watermark[a] /\ 1..checkpoint[a] \subseteq receipts[a]
  BY DEF CheckpointsProven
<1>5. CASE a # b \/ checkpoint'[a] = checkpoint[a]
  BY <1>2, <1>4, <1>5 DEF Typed, DispatcherTypeOK
<1>6. CASE a = b /\ checkpoint'[a] = NextSeq(p)
  <2>1. /\ dispatch[p].checkpoint <= checkpoint[a]
        /\ NextSeq(p) \in receipts[a] /\ NextSeq(p) <= watermark[a]
    BY <1>1, <1>6 DEF Held
  <2>2. NextSeq(p) = dispatch[p].checkpoint + 1 /\ dispatch[p].checkpoint \in 0..MaxSeq
    BY <1>1 DEF NextSeq, Dispatch
  <2>3. \A n \in 1..NextSeq(p) : n \in 1..checkpoint[a] \/ n = NextSeq(p)
    BY <1>3, <2>1, <2>2
  <2> QED BY <1>4, <1>6, <2>1, <2>3
<1>7. checkpoint'[b] = checkpoint[b] \/ checkpoint'[b] = NextSeq(p)
  BY <1>1, <1>2 DEF Larger, Typed, DispatcherTypeOK
<1> QED BY <1>5, <1>6, <1>7

LEMMA ProjectGrows ==
  ASSUME Typed, CheckpointsProven, NEW p \in Processes, Held(p), Project(p),
         UNCHANGED damaged
  PROVE  TablesGrow /\ Held(p)'
<1>1. CASE ReadCheckpoint(p)
  BY <1>1, ReadCheckpointHeld, SameTablesGrow DEF ReadCheckpoint
<1>2. CASE ReadWatermark(p)
  BY <1>2, ReadWatermarkHeld, SameTablesGrow DEF ReadWatermark
<1>3. CASE Apply(p)
  BY <1>3, ApplyHeld
<1>4. CASE SaveReceipt(p)
  BY <1>4, SaveReceiptHeld
<1>5. CASE SaveCheckpoint(p)
  BY <1>5, SaveCheckpointHeld
<1>6. CASE FinishBackend(p)
  BY <1>6, SameTablesGrow, LeavesAtNext DEF FinishBackend, Held
<1> QED BY <1>1, <1>2, <1>3, <1>4, <1>5, <1>6 DEF Project

LEMMA ProjectProven ==
  ASSUME Typed, Typed', CheckpointsProven, AllHeld, NEW p \in Processes, Project(p),
         UNCHANGED damaged
  PROVE  AllHeld' /\ CheckpointsProven'
<1>1. TablesGrow /\ Held(p)'
  BY ProjectGrows DEF AllHeld
<1>2. AllHeld'
  BY <1>1, HeldStays, OnlyOwnDispatch DEF AllHeld
<1>3. CASE SaveCheckpoint(p)
  BY <1>2, <1>3, SaveCheckpointProven DEF AllHeld
<1>4. CASE ~SaveCheckpoint(p)
  <2>1. UNCHANGED checkpoint
    BY <1>4 DEF Project, ReadCheckpoint, ReadWatermark, Apply, SaveReceipt, FinishBackend,
                tables
  <2> QED BY <1>1, <1>2, <2>1, ProvenStays
<1> QED BY <1>3, <1>4

\* A step that changes calls of project only to begin or to end them.
Bystander ==
  /\ UNCHANGED <<tables, damaged>>
  /\ \A q \in Processes :
       \/ dispatch'[q] = dispatch[q]
       \/ dispatch'[q] = NoDispatch
       \/ LeaveBackend(q)
       \/ \E s : StartProject(q, s)

LEMMA StartsAtNext ==
  ASSUME Typed, NEW p \in Processes, NEW s, StartProject(p, s)
  PROVE  dispatch'[p].at = "next" /\ dispatch'[p].left = Registered[p]
<1> DEFINE d == [NoDispatch EXCEPT !.event = s, !.left = Registered[p]]
<1>1. d.at = "next" /\ d.left = Registered[p]
  BY DEF NoDispatch
<1>2. dispatch'[p] = d
  BY DEF StartProject, Typed, DispatcherTypeOK
<1> HIDE DEF d
<1> QED BY <1>1, <1>2

LEMMA BystanderProven ==
  ASSUME Typed, Typed', CheckpointsProven, AllHeld, Bystander
  PROVE  AllHeld' /\ CheckpointsProven'
<1>1. TablesGrow /\ UNCHANGED checkpoint
  BY SameTablesGrow DEF Bystander, tables
<1>2. \A q \in Processes : dispatch'[q] = dispatch[q] \/ dispatch'[q].at = "next"
  BY LeavesAtNext, StartsAtNext DEF Bystander, NoDispatch
<1> QED BY <1>1, <1>2, ProvenStays, HeldStays DEF AllHeld

LEMMA StartIsBystander ==
  ASSUME Typed, NEW p \in Processes, NEW s, StartProject(p, s), UNCHANGED <<tables, damaged>>
  PROVE  Bystander
BY DEF StartProject, Bystander, Typed, DispatcherTypeOK

LEMMA ProcessBystander ==
  ASSUME Typed, NEW p \in Processes,
         \/ Step(p) /\ ~(Project(p) /\ UNCHANGED runtimeVars)
         \/ CatchUp(p)
         \/ Application(p)
         \/ Restart(p)
  PROVE  Bystander
<1>1. CASE UNCHANGED <<tables, dispatch, damaged>>
  BY <1>1 DEF Bystander
<1>2. CASE Quietly(p) /\ UNCHANGED damaged
  BY <1>1, <1>2, QuietSteps DEF dispatcherVars
<1>3. ASSUME NEW s, StartProject(p, s), UNCHANGED <<tables, damaged>> PROVE Bystander
  BY <1>3, StartIsBystander
<1>4. CASE Step(p) /\ ~(Project(p) /\ UNCHANGED runtimeVars)
  <2>1. UNCHANGED damaged
    BY <1>4 DEF Step, world
  <2>2. CASE ReplayNext(p)
    BY <1>3, <2>1, <2>2 DEF ReplayNext
  <2>3. CASE DrainNext(p)
    BY <1>1, <1>3, <2>1, <2>3 DEF DrainNext
  <2> QED BY <1>2, <1>4, <2>1, <2>2, <2>3 DEF Step, Quietly
<1>5. CASE CatchUp(p)
  BY <1>1, <1>2, <1>5 DEF CatchUp, world, dispatcherVars, Quietly
<1>6. CASE Application(p)
  <2>1. CASE BeginRecover(p) /\ UNCHANGED world
    BY <1>2, <2>1 DEF Quietly, world
  <2>2. CASE Publish(p)
    BY <1>2, <1>3, <2>2 DEF Publish, PublishLive, Quietly, world
  <2>3. CASE Maintain(p)
    BY <1>1, <1>2, <2>3 DEF Maintain, ClearPending, ReportWatermarks, Quietly, world
  <2>4. CASE Fail(p)
    <3>1. CASE DispatchFails(p)
      <4>1. UNCHANGED <<tables, damaged>> /\ LeaveBackend(p)
        BY <2>4, <3>1 DEF Fail, DispatchFails, RecordError
      <4> QED BY <3>1, <4>1, OnlyOwnDispatch DEF Bystander
    <3> QED BY <1>1, <1>2, <2>4, <3>1 DEF Fail, ReportWatermarks, Quietly
  <2> QED BY <1>6, <2>1, <2>2, <2>3, <2>4 DEF Application
<1>7. CASE Restart(p)
  BY <1>7 DEF Restart, Crash, Bystander, Typed, DispatcherTypeOK
<1> QED BY <1>4, <1>5, <1>6, <1>7

LEMMA EnvironmentGrows ==
  ASSUME Typed, Environment
  PROVE  TablesGrow /\ UNCHANGED <<checkpoint, dispatch>>
<1>1. CASE AppendEvent
  BY <1>1, SameTablesGrow DEF AppendEvent, dispatcherVars, tables
<1>2. ASSUME NEW b \in Backends, CommandApplies(b) PROVE TablesGrow /\ UNCHANGED <<checkpoint, dispatch>>
  BY <1>2 DEF CommandApplies, world, TablesGrow, Typed, DispatcherTypeOK
<1>3. ASSUME NEW b \in Backends, LoseRows(b) PROVE TablesGrow /\ UNCHANGED <<checkpoint, dispatch>>
  <2>1. \A a \in Backends : a # b => watermark'[a] = watermark[a] /\ receipts'[a] = receipts[a]
    BY <1>3 DEF LoseRows, Typed, DispatcherTypeOK
  <2> QED BY <1>3, <2>1 DEF LoseRows, TablesGrow, Typed, DispatcherTypeOK
<1> QED BY <1>1, <1>2, <1>3 DEF Environment

LEMMA EnvironmentProven ==
  ASSUME Typed, Typed', CheckpointsProven, AllHeld, Environment
  PROVE  AllHeld' /\ CheckpointsProven'
BY EnvironmentGrows, ProvenStays, HeldStays DEF AllHeld

CheckpointInv == Typed /\ ReadsTyped /\ AllHeld /\ CheckpointsProven

LEMMA NextProven ==
  ASSUME CheckpointInv, Next
  PROVE  CheckpointInv'
<1>1. Typed' /\ ReadsTyped'
  BY NextTyped DEF CheckpointInv
<1>2. CASE Environment
  BY <1>1, <1>2, EnvironmentProven DEF CheckpointInv
<1>3. CASE Bystander
  BY <1>1, <1>3, BystanderProven DEF CheckpointInv
<1>4. ASSUME NEW p \in Processes, Step(p) PROVE CheckpointInv'
  <2>1. CASE Project(p) /\ UNCHANGED runtimeVars
    BY <1>1, <1>4, <2>1, ProjectProven DEF CheckpointInv, Step, world
  <2> QED BY <1>3, <1>4, <2>1, ProcessBystander DEF CheckpointInv
<1>5. ASSUME NEW p \in Processes, Reads(p) PROVE Bystander
  BY <1>5 DEF Reads, BeginRead, Answer, Compare, projectionVars, dispatcherVars, world, Bystander
<1>6. ASSUME NEW p \in Processes, CatchUp(p) \/ Application(p) \/ Restart(p) PROVE Bystander
  BY <1>6, ProcessBystander DEF CheckpointInv
<1> QED BY <1>2, <1>3, <1>4, <1>5, <1>6 DEF Next, Reads

LEMMA InitProven == Init => CheckpointInv
<1> SUFFICES ASSUME Init PROVE CheckpointInv
  OBVIOUS
<1>1. AllHeld
  BY DEF Init, ProjectionInit, DispatcherInit, AllHeld, Held, NoDispatch
<1>2. CheckpointsProven
  BY DEF Init, ProjectionInit, DispatcherInit, CheckpointsProven
<1> QED BY <1>1, <1>2, InitTyped DEF CheckpointInv

LEMMA CheckpointInvariant == Spec => []CheckpointInv
<1>1. CheckpointInv /\ [Next]_vars => CheckpointInv'
  <2> SUFFICES ASSUME CheckpointInv, [Next]_vars PROVE CheckpointInv'
    OBVIOUS
  <2>1. CASE UNCHANGED vars
    <3>1. Typed' /\ ReadsTyped'
      BY <2>1, KeepTyped DEF vars, CheckpointInv, ReadsTyped
    <3>2. Bystander
      BY <2>1 DEF vars, projectionVars, dispatcherVars, world, Bystander
    <3> QED BY <3>1, <3>2, BystanderProven DEF CheckpointInv
  <2> QED BY <2>1, NextProven
<1> QED BY <1>1, InitProven, PTL DEF Spec

\* For any number of processes and backends: as long as a backend keeps its
\* rows, its checkpoint covers only what it has applied and has receipts for.
THEOREM CheckpointsNeverSkip == Spec => []CheckpointsProven
<1>1. CheckpointInv => CheckpointsProven
  BY DEF CheckpointInv
<1> QED BY <1>1, CheckpointInvariant, PTL

\* ... and no dispatcher hands it an event before those that precede it.
THEOREM BackendsSeeOrder == Spec => []AppliedInOrder
<1>1. CheckpointInv => AppliedInOrder
  <2> SUFFICES ASSUME CheckpointInv, NEW p \in Processes,
                      dispatch[p].backend \notin damaged, Draining(p)
               PROVE  NextSeq(p) <= watermark[dispatch[p].backend] + 1
    BY DEF AppliedInOrder
  <2> DEFINE b == dispatch[p].backend
  <2>1. /\ dispatch[p] \in Dispatch /\ b \in Backends \ damaged /\ dispatch[p].at # "next"
    BY DrainTyped DEF CheckpointInv, Typed
  <2>2. dispatch[p].checkpoint <= checkpoint[b] /\ checkpoint[b] <= watermark[b]
    BY <2>1 DEF CheckpointInv, AllHeld, Held, CheckpointsProven
  <2>3. dispatch[p].checkpoint \in Int /\ checkpoint[b] \in Int /\ watermark[b] \in Int
    BY <2>1 DEF CheckpointInv, Typed, DispatcherTypeOK, Dispatch
  <2> HIDE DEF b
  <2> QED BY <2>2, <2>3 DEF NextSeq, b
<1> QED BY <1>1, CheckpointInvariant, PTL

-----------------------------------------------------------------------------
(* A backend of one dispatcher is handed every event once.                 *)

\* No two processes project to the same backend.
OwnBackends ==
  \A p, q \in Processes : p # q => BackendsOf(p) \cap BackendsOf(q) = {}

\* A call of project visits the backends of its process.
Visits(p) ==
  /\ \A i \in DOMAIN dispatch[p].left : dispatch[p].left[i] \in BackendsOf(p)
  /\ dispatch[p].at # "next" => dispatch[p].backend \in BackendsOf(p)

\* The watermark that project read is still the backend's: nobody else feeds it.
Current(p) ==
  LET d == dispatch[p] IN
    d.at \in {"drain", "checkpoint"} /\ d.backend \notin damaged \cup Commanded
    => d.watermark = watermark[d.backend]

OnceInv == Typed /\ ReadsTyped /\ \A p \in Processes : Visits(p) /\ Current(p)

LEMMA VisitsNext ==
  ASSUME Typed, NEW p \in Processes, Visits(p), LeaveBackend(p)
  PROVE  Visits(p)' /\ Current(p)'
<1>1. dispatch'[p].at = "next"
  BY LeavesAtNext
<1>2. dispatch'[p].left = <<>> \/ dispatch'[p].left = dispatch[p].left
  <2>1. CASE dispatch'[p] = NoDispatch
    BY <2>1 DEF NoDispatch
  <2>2. CASE dispatch'[p] = [dispatch[p] EXCEPT !.at = "next", !.backend = NoBackend,
                                                !.checkpoint = 0, !.watermark = 0]
    BY <2>2 DEF Typed, DispatcherTypeOK, Dispatch
  <2> QED BY <2>1, <2>2 DEF LeaveBackend, Typed, DispatcherTypeOK
<1>3. DOMAIN <<>> = {}
  OBVIOUS
<1> QED BY <1>1, <1>2, <1>3 DEF Visits, Current

LEMMA VisitsStart ==
  ASSUME Typed, NEW p \in Processes, NEW s, StartProject(p, s)
  PROVE  Visits(p)' /\ Current(p)'
<1>1. \A i \in DOMAIN Registered[p] : Registered[p][i] \in BackendsOf(p)
  BY DEF BackendsOf
<1> QED BY <1>1, StartsAtNext DEF Visits, Current

LEMMA ProjectOnce ==
  ASSUME Typed, NEW p \in Processes, Visits(p), Project(p), UNCHANGED damaged
  PROVE  Visits(p)' /\ (Current(p) => Current(p)')
<1>0. dispatch[p] \in Dispatch /\ \A b \in Backends : watermark[b] \in Int
  BY DEF Typed, DispatcherTypeOK
<1>1. CASE ReadCheckpoint(p)
  <2> DEFINE b == Head(dispatch[p].left)
  <2>1. dispatch[p].left \in Seq(Backends) /\ dispatch[p].left # <<>>
    BY <1>0, <1>1 DEF ReadCheckpoint, Dispatch
  <2>2. /\ DOMAIN Tail(dispatch[p].left) = 1..(Len(dispatch[p].left) - 1)
        /\ DOMAIN dispatch[p].left = 1..Len(dispatch[p].left)
        /\ Len(dispatch[p].left) \in Nat \ {0}
        /\ b = dispatch[p].left[1]
        /\ \A i \in 1..(Len(dispatch[p].left) - 1) :
             Tail(dispatch[p].left)[i] = dispatch[p].left[i + 1]
    BY <2>1
  <2>3. b \in BackendsOf(p)
        /\ \A i \in DOMAIN Tail(dispatch[p].left) : Tail(dispatch[p].left)[i] \in BackendsOf(p)
    BY <2>2 DEF Visits
  <2>4. dispatch'[p] = [dispatch[p] EXCEPT !.at = "watermark", !.left = Tail(dispatch[p].left),
                                           !.backend = b, !.checkpoint = checkpoint[b]]
    BY <1>1 DEF ReadCheckpoint, Typed, DispatcherTypeOK
  <2> HIDE DEF b
  <2>5. dispatch'[p].at = "watermark" /\ dispatch'[p].backend = b
        /\ dispatch'[p].left = Tail(dispatch[p].left)
    BY <1>0, <2>4 DEF Dispatch
  <2> QED BY <2>3, <2>5 DEF Visits, Current
<1>2. CASE LeaveBackend(p)
  BY <1>2, VisitsNext
<1>3. CASE ReadWatermark(p) /\ Enqueue(p)
  <2>1. dispatch'[p] = [dispatch[p] EXCEPT !.at = "drain", !.checkpoint = Boundary(p),
                                           !.watermark = watermark[dispatch[p].backend]]
    BY <1>3 DEF Enqueue, Typed, DispatcherTypeOK
  <2>2. /\ dispatch'[p].backend = dispatch[p].backend
        /\ dispatch'[p].left = dispatch[p].left
        /\ dispatch'[p].watermark = watermark[dispatch[p].backend]
    BY <1>0, <2>1 DEF Dispatch
  <2>3. watermark' = watermark /\ dispatch[p].at = "watermark"
    BY <1>3 DEF ReadWatermark, tables
  <2> QED BY <2>2, <2>3 DEF Visits, Current
<1>4. CASE Apply(p) /\ ~LeaveBackend(p)
  <2> DEFINE b == dispatch[p].backend
  <2>1. /\ dispatch[p].at = "drain" /\ b \in Backends /\ NextSeq(p) \in Int
        /\ dispatch[p].watermark < NextSeq(p) /\ dispatch[p].watermark \in Int
    BY <1>0, <1>4, DrainTyped DEF Apply, Draining, Typed, Seqs, Dispatch
  <2>2. /\ watermark' = [watermark EXCEPT ![b] = Larger(@, NextSeq(p))]
        /\ dispatch' = [dispatch EXCEPT ![p].watermark = NextSeq(p)]
    BY <1>4 DEF Apply, RecordError
  <2>3. dispatch'[p] = [dispatch[p] EXCEPT !.watermark = NextSeq(p)]
    BY <2>2 DEF Typed, DispatcherTypeOK
  <2>4. /\ dispatch'[p].at = "drain" /\ dispatch'[p].backend = b
        /\ dispatch'[p].left = dispatch[p].left /\ dispatch'[p].watermark = NextSeq(p)
    BY <1>0, <2>1, <2>3 DEF Dispatch
  <2>5. Current(p) /\ b \notin damaged \cup Commanded => watermark'[b] = NextSeq(p)
    BY <1>0, <2>1, <2>2 DEF Current, Larger, Typed, DispatcherTypeOK
  <2> HIDE DEF b
  <2> QED BY <2>1, <2>4, <2>5 DEF Visits, Current, b
<1>5. CASE SaveReceipt(p) \/ SaveCheckpoint(p)
  <2>1. \/ dispatch'[p] = [dispatch[p] EXCEPT !.at = "checkpoint"]
        \/ dispatch'[p] = [dispatch[p] EXCEPT !.at = "drain", !.checkpoint = NextSeq(p)]
    BY <1>5 DEF SaveReceipt, SaveCheckpoint, Typed, DispatcherTypeOK
  <2>2. /\ dispatch'[p].backend = dispatch[p].backend
        /\ dispatch'[p].left = dispatch[p].left
        /\ dispatch'[p].watermark = dispatch[p].watermark
    BY <1>0, <2>1 DEF Dispatch
  <2>3. watermark' = watermark /\ dispatch[p].at \in {"drain", "checkpoint"}
    BY <1>5 DEF SaveReceipt, SaveCheckpoint, Draining
  <2> QED BY <2>2, <2>3 DEF Visits, Current
<1> QED BY <1>1, <1>2, <1>3, <1>4, <1>5
        DEF Project, ReadWatermark, Skip, RecordError, FinishBackend

\* Another process's call feeds other backends.
LEMMA OthersOnce ==
  ASSUME OwnBackends, Typed, Typed', NEW p \in Processes, NEW q \in Processes, p # q,
         Visits(p), Visits(q), Current(q), Project(p), UNCHANGED damaged
  PROVE  Visits(q)' /\ Current(q)'
<1>1. dispatch'[q] = dispatch[q]
  BY OnlyOwnDispatch
<1>2. Visits(q)'
  BY <1>1 DEF Visits
<1>3. dispatch[q].at \in {"drain", "checkpoint"}
      => watermark'[dispatch[q].backend] = watermark[dispatch[q].backend]
  <2>1. CASE Apply(p) /\ watermark' # watermark
    <3>1. dispatch[p].backend \in BackendsOf(p)
      BY <2>1 DEF Visits, Apply, Draining
    <3>2. dispatch[q].at \in {"drain", "checkpoint"}
          => dispatch[q].backend \in BackendsOf(q) /\ dispatch[q].backend # dispatch[p].backend
      BY <3>1 DEF Visits, OwnBackends
    <3>3. watermark' = [watermark EXCEPT ![dispatch[p].backend] = Larger(@, NextSeq(p))]
      BY <2>1 DEF Apply
    <3> QED BY <3>2, <3>3, RegisteredBackends DEF Typed, DispatcherTypeOK
  <2>2. CASE ~Apply(p)
    BY <2>2 DEF Project, ReadCheckpoint, ReadWatermark, SaveReceipt, SaveCheckpoint,
                FinishBackend, tables
  <2> QED BY <2>1, <2>2
<1> QED BY <1>1, <1>2, <1>3 DEF Current

LEMMA BystanderOnce ==
  ASSUME Typed, NEW q \in Processes, Visits(q), Bystander
  PROVE  Visits(q)' /\ (Current(q) => Current(q)')
<1>1. CASE dispatch'[q] = dispatch[q]
  BY <1>1 DEF Visits, Current, Bystander, tables
<1>2. CASE dispatch'[q] = NoDispatch
  <2>1. dispatch'[q].at = "next" /\ dispatch'[q].left = <<>> /\ DOMAIN <<>> = {}
    BY <1>2 DEF NoDispatch
  <2> QED BY <2>1 DEF Visits, Current
<1> QED BY <1>1, <1>2, VisitsNext, VisitsStart DEF Bystander

\* Explicit commands feed commanded backends, lost rows damage theirs.
LEMMA EnvironmentOnce ==
  ASSUME Typed, NEW q \in Processes, Visits(q), Environment
  PROVE  Visits(q)' /\ (Current(q) => Current(q)')
<1>1. dispatch' = dispatch
  BY DEF Environment, AppendEvent, CommandApplies, LoseRows, dispatcherVars
<1>2. damaged \subseteq damaged'
      /\ \A b \in Backends \ (damaged' \cup Commanded) : watermark'[b] = watermark[b]
  BY DEF Environment, AppendEvent, CommandApplies, LoseRows, dispatcherVars, tables, world,
         Typed, DispatcherTypeOK
<1>3. dispatch[q].at # "next" => dispatch[q].backend \in Backends
  BY RegisteredBackends DEF Visits
<1> QED BY <1>1, <1>2, <1>3 DEF Visits, Current

LEMMA NextOnce ==
  ASSUME OwnBackends, OnceInv, Next
  PROVE  OnceInv'
<1>1. Typed /\ Typed' /\ ReadsTyped'
  BY NextTyped DEF OnceInv
<1>2. CASE Environment
  BY <1>1, <1>2, EnvironmentOnce DEF OnceInv
<1>3. CASE Bystander
  BY <1>1, <1>3, BystanderOnce DEF OnceInv
<1>4. ASSUME NEW p \in Processes, Step(p) PROVE OnceInv'
  <2>1. CASE Project(p) /\ UNCHANGED runtimeVars
    <3>1. UNCHANGED damaged
      BY <1>4 DEF Step, world
    <3> QED BY <1>1, <2>1, <3>1, ProjectOnce, OthersOnce DEF OnceInv
  <2> QED BY <1>1, <1>3, <1>4, <2>1, ProcessBystander
<1>5. ASSUME NEW p \in Processes, Reads(p) PROVE Bystander
  BY <1>5 DEF Reads, BeginRead, Answer, Compare, projectionVars, dispatcherVars, world, Bystander
<1>6. ASSUME NEW p \in Processes, CatchUp(p) \/ Application(p) \/ Restart(p) PROVE Bystander
  BY <1>1, <1>6, ProcessBystander
<1> QED BY <1>2, <1>3, <1>4, <1>5, <1>6 DEF Next, Reads

\* If every backend is fed by one dispatcher only, none is handed an event that
\* it has, whatever stopped between applying the event and recording that.
THEOREM BackendsSeeEventsOnce ==
  ASSUME OwnBackends
  PROVE  Spec => []AppliedOnce
<1>1. Init => OnceInv
  <2> SUFFICES ASSUME Init PROVE OnceInv
    OBVIOUS
  <2>1. \A p \in Processes : dispatch[p].at = "next" /\ dispatch[p].left = <<>>
    BY DEF Init, ProjectionInit, DispatcherInit, NoDispatch
  <2>2. DOMAIN <<>> = {}
    OBVIOUS
  <2> QED BY <2>1, <2>2, InitTyped DEF OnceInv, Visits, Current
<1>2. OnceInv /\ [Next]_vars => OnceInv'
  <2> SUFFICES ASSUME OnceInv, [Next]_vars PROVE OnceInv'
    OBVIOUS
  <2>1. CASE UNCHANGED vars
    <3>1. Typed' /\ ReadsTyped'
      BY <2>1, KeepTyped DEF vars, OnceInv, ReadsTyped
    <3>2. Bystander
      BY <2>1 DEF vars, projectionVars, dispatcherVars, world, Bystander
    <3> QED BY <3>1, <3>2, BystanderOnce DEF OnceInv
  <2> QED BY <2>1, NextOnce
<1>3. OnceInv => AppliedOnce
  <2> SUFFICES ASSUME OnceInv, NEW p \in Processes,
                      dispatch[p].backend \notin damaged \cup Commanded, Draining(p),
                      dispatch[p].watermark < NextSeq(p)
               PROVE  NextSeq(p) > watermark[dispatch[p].backend]
    BY DEF AppliedOnce
  <2>1. dispatch[p].watermark = watermark[dispatch[p].backend]
    BY DEF OnceInv, Current, Draining
  <2>2. NextSeq(p) \in Int /\ dispatch[p].watermark \in Int
    BY DrainTyped DEF OnceInv, Typed, Dispatch, Seqs
  <2> QED BY <2>1, <2>2
<1> QED BY <1>1, <1>2, <1>3, PTL DEF Spec

-----------------------------------------------------------------------------
(* The counter of what waits.                                              *)

\* The places of a buffer that are taken, for some of the backends.
Places(B, waits) == {w \in B \X Seqs : w[2] \in waits[w[1]]}

LEMMA PlacesFinite ==
  ASSUME NEW B, IsFiniteSet(B), NEW waits
  PROVE  IsFiniteSet(Places(B, waits)) /\ Cardinality(Places(B, waits)) \in Nat
<1>1. IsFiniteSet(B \X Seqs)
  <2>1. IsFiniteSet(Seqs)
    BY FS_Interval DEF Seqs
  <2> QED BY <2>1, FS_Product
<1>2. Places(B, waits) \subseteq B \X Seqs
  BY DEF Places
<1> QED BY <1>1, <1>2, FS_Subset, FS_CardinalityType

\* What leaves the buffer of one backend leaves that many places free.
LEMMA PlacesFreed ==
  ASSUME NEW B \in SUBSET Backends, IsFiniteSet(B), NEW b \in B,
         NEW waits \in [Backends -> SUBSET Seqs], NEW S \in SUBSET waits[b]
  PROVE  Cardinality(Places(B, [waits EXCEPT ![b] = @ \ S]))
           = Cardinality(Places(B, waits)) - Cardinality(S)
<1> DEFINE after == [waits EXCEPT ![b] = @ \ S]
<1>1. IsFiniteSet(S) /\ Cardinality(S) \in Nat
  <2>1. IsFiniteSet(Seqs) /\ S \in SUBSET Seqs
    BY FS_Interval DEF Seqs
  <2> QED BY <2>1, FS_Subset, FS_CardinalityType
<1>2. IsFiniteSet({b} \X S) /\ Cardinality({b} \X S) = Cardinality(S)
  <2>1. IsFiniteSet({b}) /\ Cardinality({b}) = 1
    BY FS_Singleton
  <2>2. IsFiniteSet({b} \X S) /\ Cardinality({b} \X S) = 1 * Cardinality(S)
    BY <1>1, <2>1, FS_Product
  <2> QED BY <1>1, <2>2
<1>3. \A a \in Backends : after[a] = IF a = b THEN waits[a] \ S ELSE waits[a]
  OBVIOUS
<1>4. Places(B, waits) = Places(B, after) \cup ({b} \X S)
  <2> HIDE DEF after
  <2>1. \A a \in B, s \in Seqs : s \in waits[a] <=> s \in after[a] \/ (a = b /\ s \in S)
    BY <1>3
  <2> QED BY <2>1 DEF Places
<1>5. Places(B, after) \cap ({b} \X S) = {}
  <2> HIDE DEF after
  <2> QED BY <1>3 DEF Places
<1>6. IsFiniteSet(Places(B, after)) /\ Cardinality(Places(B, after)) \in Nat
  BY PlacesFinite
<1> HIDE DEF after
<1>7. Cardinality(Places(B, waits))
        = Cardinality(Places(B, after)) + Cardinality({b} \X S) - Cardinality({})
  BY <1>2, <1>4, <1>5, <1>6, FS_Union
<1>8. Cardinality({}) = 0
  BY FS_EmptySet
<1> QED BY <1>1, <1>2, <1>6, <1>7, <1>8 DEF after

LEMMA PlaceTaken ==
  ASSUME NEW B \in SUBSET Backends, IsFiniteSet(B), NEW b \in B,
         NEW waits \in [Backends -> SUBSET Seqs], NEW s \in Seqs, s \notin waits[b]
  PROVE  Cardinality(Places(B, [waits EXCEPT ![b] = @ \cup {s}]))
           = Cardinality(Places(B, waits)) + 1
<1> DEFINE after == [waits EXCEPT ![b] = @ \cup {s}]
<1>1. after \in [Backends -> SUBSET Seqs] /\ {s} \in SUBSET after[b]
  OBVIOUS
<1>2. waits = [after EXCEPT ![b] = @ \ {s}]
  OBVIOUS
<1>3. Cardinality(Places(B, after)) \in Nat
  BY PlacesFinite
<1> HIDE DEF after
<1>4. Cardinality(Places(B, [after EXCEPT ![b] = @ \ {s}]))
        = Cardinality(Places(B, after)) - Cardinality({s})
  <2> DEFINE S == {s}
  <2>1. S \in SUBSET after[b]
    BY <1>1
  <2> HIDE DEF S
  <2>2. Cardinality(Places(B, [after EXCEPT ![b] = @ \ S]))
          = Cardinality(Places(B, after)) - Cardinality(S)
    BY <1>1, <2>1, PlacesFreed, ZenonT(30)
  <2> QED BY <2>2 DEF S
<1>5. Cardinality({s}) = 1
  BY FS_Singleton
<1>6. Cardinality(Places(B, waits)) = Cardinality(Places(B, after)) - 1
  <2>1. Cardinality(Places(B, waits)) = Cardinality(Places(B, [after EXCEPT ![b] = @ \ {s}]))
    BY <1>2
  <2> QED BY <1>4, <1>5, <2>1
<1>7. Cardinality(Places(B, after)) = Cardinality(Places(B, waits)) + 1
  BY <1>3, <1>6
<1> QED BY <1>7 DEF after

\* The counter counts, and the event whose checkpoint is saved still waits: it
\* is subtracted once.
Counted(p) ==
  /\ pendingCount[p] = Cardinality(Places(BackendsOf(p), pending[p]))
  /\ dispatch[p].at = "checkpoint" => NextSeq(p) \in pending[p][dispatch[p].backend]

CountInv == Typed /\ ReadsTyped /\ \A p \in Processes : Visits(p) /\ Counted(p)

LEMMA CountKept ==
  ASSUME NEW p \in Processes, Counted(p), pending'[p] = pending[p],
         pendingCount'[p] = pendingCount[p],
         dispatch'[p] = dispatch[p] \/ dispatch'[p].at # "checkpoint"
  PROVE  Counted(p)'
BY DEF Counted, BackendsOf, NextSeq

LEMMA SkipCounted ==
  ASSUME Typed, NEW p \in Processes, Visits(p), Counted(p), ReadWatermark(p), Skip(p)
  PROVE  Counted(p)'
<1> DEFINE b == dispatch[p].backend
           obsolete == {s \in pending[p][b] : s <= dispatch[p].checkpoint}
<1>1. b \in BackendsOf(p) /\ BackendsOf(p) \in SUBSET Backends /\ IsFiniteSet(BackendsOf(p))
  BY RegisteredBackends DEF Visits, ReadWatermark
<1>2. pending[p] \in [Backends -> SUBSET Seqs] /\ obsolete \in SUBSET pending[p][b]
  BY DEF Typed, DispatcherTypeOK
<1>3. /\ pending'[p] = [pending[p] EXCEPT ![b] = @ \ obsolete]
      /\ pendingCount'[p] = pendingCount[p] - Cardinality(obsolete)
  BY DEF Skip, Typed, DispatcherTypeOK
<1>4. dispatch'[p].at = "next"
  BY LeavesAtNext DEF Skip
<1> HIDE DEF obsolete, b
<1>5. Cardinality(Places(BackendsOf(p), [pending[p] EXCEPT ![b] = @ \ obsolete]))
        = Cardinality(Places(BackendsOf(p), pending[p])) - Cardinality(obsolete)
  BY <1>1, <1>2, PlacesFreed
<1> QED BY <1>3, <1>4, <1>5 DEF Counted, BackendsOf

LEMMA EnqueueCounted ==
  ASSUME Typed, NEW p \in Processes, Visits(p), Counted(p), ReadWatermark(p), Enqueue(p)
  PROVE  Counted(p)'
<1> DEFINE b == dispatch[p].backend
           s == dispatch[p].event
<1>1. b \in BackendsOf(p) /\ BackendsOf(p) \in SUBSET Backends /\ IsFiniteSet(BackendsOf(p))
  BY RegisteredBackends DEF Visits, ReadWatermark
<1>2. pending[p] \in [Backends -> SUBSET Seqs] /\ s \in Seqs /\ b \in Backends
  BY <1>1 DEF Typed, DispatcherTypeOK, Ranges, InRange, ReadWatermark
<1>3. /\ pending'[p] = [pending[p] EXCEPT ![b] = @ \cup {s}]
      /\ pendingCount'[p] = IF s \in pending[p][b] THEN pendingCount[p] ELSE pendingCount[p] + 1
  BY DEF Enqueue, Typed, DispatcherTypeOK
<1>4. dispatch'[p].at = "drain"
  <2>1. dispatch'[p] = [dispatch[p] EXCEPT !.at = "drain", !.checkpoint = Boundary(p),
                                           !.watermark = watermark[dispatch[p].backend]]
    BY DEF Enqueue, Typed, DispatcherTypeOK
  <2> QED BY <2>1 DEF Typed, DispatcherTypeOK, Dispatch
<1> HIDE DEF b, s
<1>5. CASE s \in pending[p][b]
  <2>1. pending'[p] = pending[p]
    BY <1>2, <1>3, <1>5
  <2> QED BY <1>3, <1>4, <1>5, <2>1, CountKept
<1>6. CASE s \notin pending[p][b]
  <2>1. Cardinality(Places(BackendsOf(p), [pending[p] EXCEPT ![b] = @ \cup {s}]))
          = Cardinality(Places(BackendsOf(p), pending[p])) + 1
    BY <1>1, <1>2, <1>6, PlaceTaken
  <2> QED BY <1>3, <1>4, <1>6, <2>1 DEF Counted, BackendsOf
<1> QED BY <1>5, <1>6

LEMMA SaveCheckpointCounted ==
  ASSUME Typed, NEW p \in Processes, Visits(p), Counted(p), SaveCheckpoint(p)
  PROVE  Counted(p)'
<1> DEFINE b == dispatch[p].backend
           s == NextSeq(p)
<1>1. b \in BackendsOf(p) /\ BackendsOf(p) \in SUBSET Backends /\ IsFiniteSet(BackendsOf(p))
  BY RegisteredBackends DEF Visits, SaveCheckpoint
<1>2. pending[p] \in [Backends -> SUBSET Seqs] /\ {s} \in SUBSET pending[p][b]
  BY DEF Typed, DispatcherTypeOK, Counted, SaveCheckpoint
<1>3. /\ pending'[p] = [pending[p] EXCEPT ![b] = @ \ {s}]
      /\ pendingCount'[p] = pendingCount[p] - 1
  BY DEF SaveCheckpoint, Typed, DispatcherTypeOK
<1>4. dispatch'[p].at = "drain"
  <2>1. dispatch'[p] = [dispatch[p] EXCEPT !.at = "drain", !.checkpoint = s]
    BY DEF SaveCheckpoint, Typed, DispatcherTypeOK
  <2> QED BY <2>1 DEF Typed, DispatcherTypeOK, Dispatch
<1> HIDE DEF b, s
<1>5. Cardinality(Places(BackendsOf(p), [pending[p] EXCEPT ![b] = @ \ {s}]))
        = Cardinality(Places(BackendsOf(p), pending[p])) - Cardinality({s})
  BY <1>1, <1>2, PlacesFreed
<1>6. Cardinality({s}) = 1
  BY FS_Singleton
<1> QED BY <1>3, <1>4, <1>5, <1>6 DEF Counted, BackendsOf

LEMMA SaveReceiptCounted ==
  ASSUME Typed, NEW p \in Processes, Counted(p), SaveReceipt(p)
  PROVE  Counted(p)'
<1>1. dispatch'[p] = [dispatch[p] EXCEPT !.at = "checkpoint"] /\ dispatch[p] \in Dispatch
  BY DEF SaveReceipt, Typed, DispatcherTypeOK
<1>2. dispatch'[p].backend = dispatch[p].backend
      /\ dispatch'[p].checkpoint = dispatch[p].checkpoint
  BY <1>1 DEF Dispatch
<1>3. pending' = pending /\ pendingCount' = pendingCount
      /\ NextSeq(p) \in pending[p][dispatch[p].backend]
  BY DEF SaveReceipt, memory, Draining
<1> QED BY <1>2, <1>3 DEF Counted, BackendsOf, NextSeq

LEMMA ProjectCounted ==
  ASSUME Typed, NEW p \in Processes, Visits(p), Counted(p), Project(p)
  PROVE  Counted(p)'
<1>1. CASE LeaveBackend(p) /\ UNCHANGED <<pending, pendingCount>>
  BY <1>1, LeavesAtNext, CountKept
<1>2. CASE ReadCheckpoint(p)
  <2>1. dispatch'[p] = [dispatch[p] EXCEPT
                          !.at = "watermark", !.left = Tail(dispatch[p].left),
                          !.backend = Head(dispatch[p].left),
                          !.checkpoint = checkpoint[Head(dispatch[p].left)]]
    BY <1>2 DEF ReadCheckpoint, Typed, DispatcherTypeOK
  <2>2. dispatch'[p].at = "watermark"
    BY <2>1 DEF Typed, DispatcherTypeOK, Dispatch
  <2> QED BY <1>2, <2>2, CountKept DEF ReadCheckpoint, memory
<1>3. CASE Apply(p) /\ ~LeaveBackend(p)
  <2>1. dispatch'[p] = [dispatch[p] EXCEPT !.watermark = NextSeq(p)] /\ dispatch[p].at = "drain"
    BY <1>3 DEF Apply, RecordError, Draining, Typed, DispatcherTypeOK
  <2>2. dispatch'[p].at = "drain"
    BY <2>1 DEF Typed, DispatcherTypeOK, Dispatch
  <2> QED BY <1>3, <2>2, CountKept DEF Apply
<1> QED BY <1>1, <1>2, <1>3, SkipCounted, EnqueueCounted, SaveCheckpointCounted,
           SaveReceiptCounted
        DEF Project, ReadWatermark, Apply, RecordError, FinishBackend

\* Clearing the buffers of a process, by maintenance or by a crash.
LEMMA ClearCounted ==
  ASSUME Typed, NEW p \in Processes, Counted(p), ClearPending(p) \/ Crash(p)
  PROVE  Counted(p)'
<1>1. dispatch'[p].at = "next"
  BY DEF ClearPending, Crash, Idle, NoDispatch, Typed, DispatcherTypeOK
<1>2. \A b \in BackendsOf(p) : pending'[p][b] = {}
  BY RegisteredBackends DEF ClearPending, Crash, Typed, DispatcherTypeOK
<1>3. Places(BackendsOf(p), pending'[p]) = {}
  BY <1>2 DEF Places
<1>4. Cardinality({}) = 0
  BY FS_EmptySet
<1>5. pendingCount'[p] = 0
  <2>1. CASE Crash(p)
    BY <2>1 DEF Crash, Typed, DispatcherTypeOK
  <2>2. CASE ClearPending(p)
    <3>1. Waiting(p) = Places(BackendsOf(p), pending[p])
      BY DEF Waiting, Places
    <3>2. pendingCount'[p] = pendingCount[p] - Cardinality(Waiting(p))
          /\ pendingCount[p] \in Int
      BY <2>2 DEF ClearPending, Typed, DispatcherTypeOK
    <3> QED BY <3>1, <3>2 DEF Counted
  <2> QED BY <2>1, <2>2
<1> QED BY <1>1, <1>3, <1>4, <1>5 DEF Counted, BackendsOf

\* The other processes keep what they have.
OthersMemory(p) ==
  \A q \in Processes \ {p} : pending'[q] = pending[q] /\ pendingCount'[q] = pendingCount[q]

LEMMA ProcessMemory ==
  ASSUME Typed, NEW p \in Processes, Step(p) \/ CatchUp(p) \/ Application(p) \/ Restart(p)
  PROVE  /\ OthersMemory(p)
         /\ \/ Project(p) /\ UNCHANGED runtimeVars
            \/ UNCHANGED <<pending, pendingCount>>
            \/ ClearPending(p)
            \/ Crash(p)
<1>1. CASE UNCHANGED <<pending, pendingCount>>
  BY <1>1 DEF OthersMemory
<1>2. CASE Quietly(p)
  BY <1>1, <1>2, QuietSteps DEF dispatcherVars, memory
<1>3. CASE ClearPending(p) \/ Crash(p)
  BY <1>3 DEF OthersMemory, ClearPending, Crash, Typed, DispatcherTypeOK
<1>4. CASE Step(p)
  <2>1. CASE Project(p) /\ UNCHANGED runtimeVars
    <3>1. OthersMemory(p)
      BY <2>1 DEF OthersMemory, Project, ReadCheckpoint, ReadWatermark, Skip, RecordError,
                  Enqueue, Apply, SaveReceipt, SaveCheckpoint, FinishBackend, memory, Typed,
                  DispatcherTypeOK
    <3> QED BY <2>1, <3>1
  <2>2. CASE ReplayNext(p) \/ DrainNext(p)
    BY <1>1, <2>2 DEF ReplayNext, DrainNext, memory
  <2> QED BY <1>2, <1>4, <2>1, <2>2 DEF Step, Quietly
<1>5. CASE CatchUp(p)
  BY <1>1, <1>2, <1>5 DEF CatchUp, dispatcherVars, memory, Quietly
<1>6. CASE Application(p)
  <2>1. CASE Publish(p)
    BY <1>1, <1>2, <2>1 DEF Publish, PublishLive, Quietly, memory
  <2>2. CASE Maintain(p)
    BY <1>1, <1>2, <1>3, <2>2 DEF Maintain, ReportWatermarks, Quietly
  <2>3. CASE Fail(p)
    BY <1>1, <1>2, <2>3 DEF Fail, DispatchFails, ReportWatermarks, Quietly
  <2> QED BY <1>2, <1>6, <2>1, <2>2, <2>3 DEF Application, Quietly
<1> QED BY <1>3, <1>4, <1>5, <1>6 DEF Restart

LEMMA BystanderCounted ==
  ASSUME Typed, NEW q \in Processes, Counted(q), Bystander, pending'[q] = pending[q],
         pendingCount'[q] = pendingCount[q]
  PROVE  Counted(q)'
<1>1. dispatch'[q] = dispatch[q] \/ dispatch'[q].at = "next"
  BY LeavesAtNext, StartsAtNext DEF Bystander, NoDispatch
<1> QED BY <1>1, CountKept

LEMMA NextCounted ==
  ASSUME CountInv, Next
  PROVE  CountInv'
<1>1. Typed /\ Typed' /\ ReadsTyped'
  BY NextTyped DEF CountInv
<1>2. CASE Environment
  <2>1. \A q \in Processes : Visits(q)'
    BY <1>1, <1>2, EnvironmentOnce DEF CountInv
  <2>2. UNCHANGED <<pending, pendingCount, dispatch>>
    BY <1>2 DEF Environment, AppendEvent, CommandApplies, LoseRows, dispatcherVars, memory
  <2> QED BY <1>1, <2>1, <2>2, CountKept DEF CountInv
<1>3. CASE Bystander /\ UNCHANGED <<pending, pendingCount>>
  BY <1>1, <1>3, BystanderOnce, BystanderCounted DEF CountInv
<1>4. ASSUME NEW p \in Processes, Step(p) \/ CatchUp(p) \/ Application(p) \/ Restart(p)
      PROVE  CountInv'
  <2>1. CASE Project(p) /\ UNCHANGED runtimeVars /\ Step(p)
    <3>1. UNCHANGED damaged
      BY <2>1 DEF Step, world
    <3>2. Visits(p)' /\ Counted(p)'
      BY <1>1, <2>1, <3>1, ProjectOnce, ProjectCounted DEF CountInv
    <3>3. ASSUME NEW q \in Processes, q # p PROVE Visits(q)' /\ Counted(q)'
      <4>1. dispatch'[q] = dispatch[q]
        BY <1>1, <2>1, <3>3, OnlyOwnDispatch
      <4>2. pending'[q] = pending[q] /\ pendingCount'[q] = pendingCount[q]
        BY <1>1, <1>4, <3>3, ProcessMemory DEF OthersMemory
      <4> QED BY <4>1, <4>2, CountKept DEF CountInv, Visits, BackendsOf
    <3> QED BY <1>1, <3>2, <3>3 DEF CountInv
  <2>2. CASE ~(Step(p) /\ Project(p) /\ UNCHANGED runtimeVars)
    <3>1. Bystander
      BY <1>1, <1>4, <2>2, ProcessBystander
    <3>2. \A q \in Processes : Visits(q)'
      BY <1>1, <3>1, BystanderOnce DEF CountInv
    <3>3. ASSUME NEW q \in Processes, q # p PROVE Counted(q)'
      BY <1>1, <1>4, <3>1, <3>3, ProcessMemory, BystanderCounted DEF CountInv, OthersMemory
    <3>4. Counted(p)'
      <4>1. CASE ClearPending(p) \/ Crash(p)
        BY <1>1, <4>1, ClearCounted DEF CountInv
      <4>2. CASE UNCHANGED <<pending, pendingCount>>
        BY <1>1, <3>1, <4>2, BystanderCounted DEF CountInv
      <4>3. CASE Project(p) /\ UNCHANGED runtimeVars
        BY <1>1, <4>3, ProjectCounted DEF CountInv
      <4> QED BY <1>1, <1>4, <4>1, <4>2, <4>3, ProcessMemory
    <3> QED BY <1>1, <3>2, <3>3, <3>4 DEF CountInv
  <2> QED BY <2>1, <2>2
<1>5. ASSUME NEW p \in Processes, Reads(p) PROVE Bystander /\ UNCHANGED <<pending, pendingCount>>
  BY <1>5 DEF Reads, BeginRead, Answer, Compare, projectionVars, dispatcherVars, memory, world,
              Bystander
<1> QED BY <1>2, <1>3, <1>4, <1>5 DEF Next, Reads

LEMMA CountInvariant == Spec => []CountInv
<1>1. Init => CountInv
  <2> SUFFICES ASSUME Init PROVE CountInv
    OBVIOUS
  <2>1. \A p \in Processes : dispatch[p].at = "next" /\ dispatch[p].left = <<>>
    BY DEF Init, ProjectionInit, DispatcherInit, NoDispatch
  <2>2. DOMAIN <<>> = {} /\ Cardinality({}) = 0
    BY FS_EmptySet
  <2>3. \A p \in Processes : Places(BackendsOf(p), pending[p]) = {} /\ pendingCount[p] = 0
    BY RegisteredBackends DEF Init, ProjectionInit, DispatcherInit, Places
  <2> QED BY <2>1, <2>2, <2>3, InitTyped DEF CountInv, Visits, Counted
<1>2. CountInv /\ [Next]_vars => CountInv'
  <2> SUFFICES ASSUME CountInv, [Next]_vars PROVE CountInv'
    OBVIOUS
  <2>1. CASE UNCHANGED vars
    <3>1. Typed' /\ ReadsTyped'
      BY <2>1, KeepTyped DEF vars, CountInv, ReadsTyped
    <3> QED BY <2>1, <3>1, CountKept
            DEF vars, projectionVars, dispatcherVars, memory, CountInv, Visits, BackendsOf
  <2> QED BY <2>1, NextCounted
<1> QED BY <1>1, <1>2, PTL DEF Spec

\* The counter that bounds the memory of a dispatcher counts exactly what its
\* buffers hold, through skips, failures, clearing and restarts.
THEOREM CountersAgree == Spec => []PendingCounted
<1>1. CountInv => PendingCounted
  BY DEF CountInv, Counted, PendingCounted, Places, Waiting
<1> QED BY <1>1, CountInvariant, PTL

-----------------------------------------------------------------------------
(* A recovery covers its target.                                           *)

\* The backends of p that kept their rows have their checkpoints at n.
Reached(p, n) == \A b \in BackendsOf(p) \ damaged : n <= checkpoint[b]

\* No backend is left out of the call of project for event n: its turn comes,
\* or it is having it, or it failed, or its checkpoint is there.
Accounted(p, n) ==
  \A b \in BackendsOf(p) \ damaged :
    \/ \E i \in DOMAIN dispatch[p].left : dispatch[p].left[i] = b
    \/ dispatch[p].at # "next" /\ dispatch[p].backend = b
    \/ b \in errors[p]
    \/ n <= checkpoint[b]

\* Event n follows the checkpoint that was read, so that it does not wait.
Follows(p, n) ==
  dispatch[p].at # "next" /\ dispatch[p].backend \notin damaged =>
    /\ n - 1 <= dispatch[p].checkpoint
    /\ dispatch[p].at \in {"drain", "checkpoint"} =>
         n <= dispatch[p].checkpoint \/ n \in pending[p][dispatch[p].backend]

\* A replay that handed out the events up to n, of those up to m.
ReplayedTo(p, n, m) ==
  /\ call[p].start <= n /\ call[p].target <= m
  /\ call[p].replayed = EventsAfter(call[p].start, m)
  /\ call[p].todo = EventsAfter(n, m)
  /\ Idle(p) /\ (n = call[p].start \/ errors[p] = {}) => Reached(p, n)
  /\ ~Idle(p) =>
       /\ call[p].start < n /\ dispatch[p].event = n
       /\ Reached(p, n - 1) /\ Accounted(p, n) /\ Follows(p, n)

Recovery(p) ==
  /\ Recovering(p) => state[p] = "recovering"
  /\ call[p].at \notin {"replay", "drained", "publish"} => Idle(p)
  /\ call[p].at \in {"boundary", "audit", "validate", "list"} => call[p].target <= lastSeq
  /\ call[p].at \in {"validate", "list"} => call[p].target <= call[p].audited
  /\ call[p].at \in {"audit", "validate", "list", "replay"} => Reached(p, call[p].start)
  /\ CallAt(p, "replay") => \E n, m \in 0..MaxSeq : ReplayedTo(p, n, m)
  /\ call[p].at \in {"drain", "drained"} => Reached(p, call[p].target)

LEMMA ReachedStays ==
  ASSUME Typed, Typed', TablesGrow, NEW p \in Processes
  PROVE  \A n \in Int : Reached(p, n) => \A b \in BackendsOf(p) \ damaged' : n <= checkpoint'[b]
<1> SUFFICES ASSUME NEW n \in Int, Reached(p, n), NEW b \in BackendsOf(p) \ damaged'
             PROVE  n <= checkpoint'[b]
  OBVIOUS
<1>1. b \in Backends /\ b \notin damaged /\ checkpoint[b] <= checkpoint'[b]
  BY RegisteredBackends DEF TablesGrow
<1>2. checkpoint[b] \in Int /\ checkpoint'[b] \in Int
  BY <1>1 DEF Typed, DispatcherTypeOK
<1> QED BY <1>1, <1>2 DEF Reached

\* A dispatcher leaves a backend: it has the event, or an error is on record.
LEMMA LeaveReplay ==
  ASSUME Typed, Typed', TablesGrow, NEW p \in Processes, NEW n \in 0..MaxSeq,
         NEW m \in 0..MaxSeq, ReplayedTo(p, n, m), ~Idle(p), LeaveBackend(p),
         UNCHANGED <<call, damaged, checkpoint>>,
         \/ errors'[p] = errors[p] \cup {dispatch[p].backend}
         \/ /\ errors'[p] = errors[p] \/ errors'[p] = errors[p] \ {dispatch[p].backend}
            /\ dispatch[p].backend \in BackendsOf(p) \ damaged
               => n <= checkpoint[dispatch[p].backend]
  PROVE  ReplayedTo(p, n, m)'
<1> DEFINE b == dispatch[p].backend
<1>1. call[p].start < n /\ dispatch[p].event = n /\ Reached(p, n - 1) /\ Accounted(p, n)
  BY DEF ReplayedTo
<1>2. /\ call'[p].start <= n /\ call'[p].target <= m
      /\ call'[p].replayed = EventsAfter(call'[p].start, m)
      /\ call'[p].todo = EventsAfter(n, m)
      /\ Reached(p, n - 1)'
  BY <1>1 DEF ReplayedTo, Reached, BackendsOf
<1>3. dispatch[p] \in Dispatch /\ call[p].start \in Int
  BY DEF Typed, DispatcherTypeOK, RuntimeTyped, Call
<1>4. CASE dispatch[p].left = <<>>
  <2>1. dispatch'[p] = NoDispatch
    BY <1>4 DEF LeaveBackend, Typed, DispatcherTypeOK
  <2>2. ASSUME errors'[p] = {}, NEW a \in BackendsOf(p) \ damaged PROVE n <= checkpoint[a]
    <3>1. DOMAIN <<>> = {}
      OBVIOUS
    <3> QED BY <1>1, <1>4, <2>2, <3>1 DEF Accounted
  <2> QED BY <1>1, <1>2, <1>3, <2>1, <2>2 DEF ReplayedTo, Idle, Reached, BackendsOf
<1>5. CASE dispatch[p].left # <<>>
  <2>1. dispatch'[p] = [dispatch[p] EXCEPT !.at = "next", !.backend = NoBackend,
                                           !.checkpoint = 0, !.watermark = 0]
    BY <1>5 DEF LeaveBackend, Typed, DispatcherTypeOK
  <2>2. /\ dispatch'[p].at = "next" /\ dispatch'[p].event = n
        /\ dispatch'[p].left = dispatch[p].left
    BY <1>1, <1>3, <2>1 DEF Dispatch
  <2>3. ~Idle(p)'
    BY <1>5, <2>2 DEF Idle, NoDispatch
  <2>4. Accounted(p, n)'
    <3>1. ASSUME NEW a \in BackendsOf(p) \ damaged
          PROVE  \/ \E i \in DOMAIN dispatch'[p].left : dispatch'[p].left[i] = a
                 \/ a \in errors'[p]
                 \/ n <= checkpoint'[a]
      BY <1>1, <2>2 DEF Accounted
    <3> QED BY <3>1 DEF Accounted, BackendsOf
  <2>5. Follows(p, n)'
    BY <2>2 DEF Follows
  <2> QED BY <1>1, <1>2, <2>2, <2>3, <2>4, <2>5 DEF ReplayedTo
<1> QED BY <1>4, <1>5

\* A dispatcher goes on with a backend.
LEMMA StayReplay ==
  ASSUME Typed, Typed', TablesGrow, NEW p \in Processes, NEW n \in 0..MaxSeq,
         NEW m \in 0..MaxSeq, ReplayedTo(p, n, m), ~Idle(p), UNCHANGED <<call, damaged>>,
         dispatch'[p].at # "next", dispatch'[p].event = dispatch[p].event,
         \/ Accounted(p, n)'
         \/ /\ errors'[p] = errors[p] /\ dispatch[p].at # "next"
            /\ dispatch'[p].backend = dispatch[p].backend
            /\ dispatch'[p].left = dispatch[p].left,
         Follows(p, n)'
  PROVE  ReplayedTo(p, n, m)'
<1>1. call[p].start < n /\ dispatch[p].event = n /\ Reached(p, n - 1) /\ Accounted(p, n)
  BY DEF ReplayedTo
<1>2. Reached(p, n - 1)'
  <2>1. n - 1 \in Int
    OBVIOUS
  <2> QED BY <1>1, <2>1, ReachedStays DEF Reached, BackendsOf
<1>3. ~Idle(p)'
  BY DEF Idle, NoDispatch
<1>4. Accounted(p, n)'
  <2> SUFFICES ASSUME errors'[p] = errors[p], dispatch[p].at # "next",
                      dispatch'[p].backend = dispatch[p].backend,
                      dispatch'[p].left = dispatch[p].left,
                      NEW a \in BackendsOf(p) \ damaged
               PROVE  \/ \E i \in DOMAIN dispatch'[p].left : dispatch'[p].left[i] = a
                      \/ dispatch'[p].at # "next" /\ dispatch'[p].backend = a
                      \/ a \in errors'[p]
                      \/ n <= checkpoint'[a]
    BY DEF Accounted, BackendsOf
  <2>1. a \in Backends /\ checkpoint[a] <= checkpoint'[a]
    BY RegisteredBackends DEF TablesGrow
  <2>2. checkpoint[a] \in Int /\ checkpoint'[a] \in Int
    BY <2>1 DEF Typed, DispatcherTypeOK
  <2> QED BY <1>1, <2>1, <2>2 DEF Accounted
<1> QED BY <1>1, <1>2, <1>3, <1>4 DEF ReplayedTo

\* Where the call of a replay stands with the backend in its hands.
LEMMA FollowsHere ==
  ASSUME Typed, CheckpointsProven, NEW p \in Processes, Visits(p), Held(p),
         NEW n \in 0..MaxSeq, Follows(p, n), dispatch[p].at # "next",
         dispatch[p].backend \notin damaged
  PROVE  /\ dispatch[p].backend \in BackendsOf(p) \cap Backends
         /\ n - 1 <= dispatch[p].checkpoint
         /\ dispatch[p].checkpoint <= checkpoint[dispatch[p].backend]
         /\ checkpoint[dispatch[p].backend] <= watermark[dispatch[p].backend]
         /\ dispatch[p].checkpoint \in Int
         /\ checkpoint[dispatch[p].backend] \in Int
         /\ watermark[dispatch[p].backend] \in Int
<1>1. dispatch[p].backend \in BackendsOf(p) \cap Backends
  BY RegisteredBackends DEF Visits
<1> QED BY <1>1 DEF Follows, Held, CheckpointsProven, Typed, DispatcherTypeOK, Dispatch

LEMMA ReadCheckpointReplays ==
  ASSUME Typed, Typed', TablesGrow, NEW p \in Processes, Visits(p), ReadCheckpoint(p),
         UNCHANGED <<call, damaged>>, ~Idle(p), NEW n \in 0..MaxSeq, NEW m \in 0..MaxSeq,
         ReplayedTo(p, n, m)
  PROVE  ReplayedTo(p, n, m)'
<1> DEFINE b == Head(dispatch[p].left)
<1>1. dispatch[p].at = "next" /\ dispatch[p] \in Dispatch
      /\ dispatch[p].left \in Seq(Backends) /\ dispatch[p].left # <<>>
  BY DEF ReadCheckpoint, Typed, DispatcherTypeOK, Dispatch
<1>2. /\ DOMAIN Tail(dispatch[p].left) = 1..(Len(dispatch[p].left) - 1)
      /\ DOMAIN dispatch[p].left = 1..Len(dispatch[p].left)
      /\ Len(dispatch[p].left) \in Nat \ {0}
      /\ b = dispatch[p].left[1]
      /\ \A i \in 1..(Len(dispatch[p].left) - 1) :
           Tail(dispatch[p].left)[i] = dispatch[p].left[i + 1]
  BY <1>1
<1>3. b \in BackendsOf(p) /\ b \in Backends
  BY <1>2, RegisteredBackends DEF Visits
<1>4. dispatch'[p] = [dispatch[p] EXCEPT !.at = "watermark", !.left = Tail(dispatch[p].left),
                                         !.backend = b, !.checkpoint = checkpoint[b]]
  BY DEF ReadCheckpoint, Typed, DispatcherTypeOK
<1> HIDE DEF b
<1>5. /\ dispatch'[p].at = "watermark" /\ dispatch'[p].backend = b
      /\ dispatch'[p].left = Tail(dispatch[p].left) /\ dispatch'[p].checkpoint = checkpoint[b]
      /\ dispatch'[p].event = dispatch[p].event
  BY <1>1, <1>4 DEF Dispatch
<1>6. UNCHANGED <<checkpoint, errors>>
  BY DEF ReadCheckpoint, tables, memory
<1>7. Accounted(p, n)'
  <2>1. ASSUME NEW a \in BackendsOf(p) \ damaged, a # b, NEW i \in DOMAIN dispatch[p].left,
               dispatch[p].left[i] = a
        PROVE  \E j \in DOMAIN Tail(dispatch[p].left) : Tail(dispatch[p].left)[j] = a
    <3>1. i \in 2..Len(dispatch[p].left)
      BY <1>2, <2>1
    <3>2. i - 1 \in 1..(Len(dispatch[p].left) - 1) /\ (i - 1) + 1 = i
      BY <1>2, <3>1
    <3>3. i - 1 \in DOMAIN Tail(dispatch[p].left) /\ Tail(dispatch[p].left)[i - 1] = a
      BY <1>2, <2>1, <3>2
    <3> QED BY <3>3
  <2>2. Accounted(p, n)
    BY DEF ReplayedTo
  <2>3. ASSUME NEW a \in BackendsOf(p) \ damaged
        PROVE  \/ \E i \in DOMAIN Tail(dispatch[p].left) : Tail(dispatch[p].left)[i] = a
               \/ b = a
               \/ a \in errors[p]
               \/ n <= checkpoint[a]
    BY <1>1, <2>1, <2>2 DEF Accounted
  <2> QED BY <1>5, <1>6, <2>3 DEF Accounted, BackendsOf
<1>8. Follows(p, n)'
  <2>1. b \notin damaged => n - 1 <= checkpoint[b]
    BY <1>3 DEF ReplayedTo, Reached
  <2> QED BY <1>5, <2>1 DEF Follows
<1> QED BY <1>5, <1>7, <1>8, StayReplay

LEMMA ReadWatermarkReplays ==
  ASSUME Typed, Typed', CheckpointsProven, TablesGrow, NEW p \in Processes, Visits(p), Held(p),
         ReadWatermark(p), UNCHANGED <<call, damaged>>, ~Idle(p), NEW n \in 0..MaxSeq,
         NEW m \in 0..MaxSeq, ReplayedTo(p, n, m)
  PROVE  ReplayedTo(p, n, m)'
<1>1. dispatch[p].at = "watermark" /\ dispatch[p].event = n /\ Follows(p, n)
      /\ UNCHANGED tables /\ dispatch[p] \in Dispatch
  BY DEF ReadWatermark, ReplayedTo, Typed, DispatcherTypeOK
<1>2. CASE RecordError(p)
  <2>1. errors'[p] = errors[p] \cup {dispatch[p].backend} /\ LeaveBackend(p)
    BY <1>2 DEF RecordError, Typed, DispatcherTypeOK
  <2> QED BY <1>1, <2>1, LeaveReplay DEF tables
<1>3. CASE Behind(p) /\ Skip(p)
  <2>1. errors'[p] = errors[p] \ {dispatch[p].backend} /\ LeaveBackend(p)
    BY <1>3 DEF Skip, ClearError, Typed, DispatcherTypeOK
  <2>2. dispatch[p].backend \in BackendsOf(p) \ damaged
        => n <= checkpoint[dispatch[p].backend]
    BY <1>1, <1>3, FollowsHere DEF Behind
  <2> QED BY <1>1, <2>1, <2>2, LeaveReplay DEF tables
<1>4. CASE ~Behind(p) /\ Enqueue(p)
  <2> DEFINE b == dispatch[p].backend
  <2>1. dispatch'[p] = [dispatch[p] EXCEPT !.at = "drain", !.checkpoint = Boundary(p),
                                           !.watermark = watermark[b]]
    BY <1>4 DEF Enqueue, Typed, DispatcherTypeOK
  <2>2. /\ dispatch'[p].at = "drain" /\ dispatch'[p].backend = b
        /\ dispatch'[p].left = dispatch[p].left
        /\ dispatch'[p].event = dispatch[p].event /\ dispatch'[p].checkpoint = Boundary(p)
    BY <1>1, <2>1 DEF Dispatch
  <2>3. b \in Backends => n \in pending'[p][b]
    BY <1>1, <1>4 DEF Enqueue, Typed, DispatcherTypeOK
  <2>4. b \notin damaged => b \in Backends /\ n - 1 <= Boundary(p)
    BY <1>1, <1>4, FollowsHere DEF Behind, Boundary
  <2>5. Follows(p, n)'
    BY <2>2, <2>3, <2>4 DEF Follows
  <2>6. errors'[p] = errors[p]
    BY <1>4 DEF Enqueue
  <2> HIDE DEF b
  <2> QED BY <1>1, <2>2, <2>5, <2>6, StayReplay DEF b
<1> QED BY <1>2, <1>3, <1>4 DEF ReadWatermark

LEMMA ApplyReplays ==
  ASSUME Typed, Typed', TablesGrow, NEW p \in Processes, Apply(p),
         UNCHANGED <<call, damaged>>, ~Idle(p), NEW n \in 0..MaxSeq,
         NEW m \in 0..MaxSeq, ReplayedTo(p, n, m)
  PROVE  ReplayedTo(p, n, m)'
<1>1. dispatch[p].at = "drain" /\ Follows(p, n) /\ UNCHANGED <<checkpoint, pending>>
      /\ dispatch[p] \in Dispatch
  BY DEF Apply, Draining, ReplayedTo, Typed, DispatcherTypeOK
<1>2. CASE RecordError(p)
  <2>1. errors'[p] = errors[p] \cup {dispatch[p].backend} /\ LeaveBackend(p)
    BY <1>2 DEF RecordError, Typed, DispatcherTypeOK
  <2> QED BY <1>1, <2>1, LeaveReplay
<1>3. CASE dispatch' = [dispatch EXCEPT ![p].watermark = NextSeq(p)] /\ UNCHANGED errors
  <2>1. dispatch'[p] = [dispatch[p] EXCEPT !.watermark = NextSeq(p)]
    BY <1>3 DEF Typed, DispatcherTypeOK
  <2>2. /\ dispatch'[p].at = "drain" /\ dispatch'[p].backend = dispatch[p].backend
        /\ dispatch'[p].left = dispatch[p].left
        /\ dispatch'[p].event = dispatch[p].event
        /\ dispatch'[p].checkpoint = dispatch[p].checkpoint
    BY <1>1, <2>1 DEF Dispatch
  <2>3. Follows(p, n)'
    BY <1>1, <2>2 DEF Follows
  <2> QED BY <1>1, <1>3, <2>2, <2>3, StayReplay
<1> QED BY <1>2, <1>3 DEF Apply

LEMMA SaveReplays ==
  ASSUME Typed, Typed', TablesGrow, NEW p \in Processes, SaveReceipt(p) \/ SaveCheckpoint(p),
         UNCHANGED <<call, damaged>>, ~Idle(p), NEW n \in 0..MaxSeq,
         NEW m \in 0..MaxSeq, ReplayedTo(p, n, m)
  PROVE  ReplayedTo(p, n, m)'
<1>1. Follows(p, n) /\ UNCHANGED errors /\ dispatch[p] \in Dispatch
      /\ dispatch[p].at \in {"drain", "checkpoint"}
  BY DEF SaveReceipt, SaveCheckpoint, Draining, memory, ReplayedTo, Typed, DispatcherTypeOK
<1>2. CASE SaveReceipt(p)
  <2>1. dispatch'[p] = [dispatch[p] EXCEPT !.at = "checkpoint"] /\ UNCHANGED pending
    BY <1>2 DEF SaveReceipt, memory, Typed, DispatcherTypeOK
  <2>2. /\ dispatch'[p].at = "checkpoint" /\ dispatch'[p].backend = dispatch[p].backend
        /\ dispatch'[p].left = dispatch[p].left
        /\ dispatch'[p].event = dispatch[p].event
        /\ dispatch'[p].checkpoint = dispatch[p].checkpoint
    BY <1>1, <2>1 DEF Dispatch
  <2>3. Follows(p, n)'
    BY <1>1, <2>1, <2>2 DEF Follows
  <2> QED BY <1>1, <2>2, <2>3, StayReplay
<1>3. CASE SaveCheckpoint(p)
  <2> DEFINE b == dispatch[p].backend
  <2>1. dispatch'[p] = [dispatch[p] EXCEPT !.at = "drain", !.checkpoint = NextSeq(p)]
    BY <1>3 DEF SaveCheckpoint, Typed, DispatcherTypeOK
  <2>2. /\ dispatch'[p].at = "drain" /\ dispatch'[p].backend = b
        /\ dispatch'[p].left = dispatch[p].left
        /\ dispatch'[p].event = dispatch[p].event /\ dispatch'[p].checkpoint = NextSeq(p)
    BY <1>1, <2>1 DEF Dispatch
  <2>3. pending'[p][b] = pending[p][b] \ {NextSeq(p)}
    <3>1. b \in Backends
      BY <1>3, DrainTyped DEF SaveCheckpoint, Typed
    <3> QED BY <1>3, <3>1 DEF SaveCheckpoint, Typed, DispatcherTypeOK
  <2>4. dispatch[p].checkpoint \in Int /\ NextSeq(p) = dispatch[p].checkpoint + 1
    BY <1>1 DEF Dispatch, NextSeq
  <2>5. b \notin damaged => /\ n - 1 <= dispatch[p].checkpoint
                            /\ n <= dispatch[p].checkpoint \/ n \in pending[p][b]
    BY <1>1 DEF Follows
  <2> HIDE DEF b
  <2>6. b \notin damaged => n <= NextSeq(p)
    BY <2>4, <2>5
  <2>7. Follows(p, n)'
    BY <2>2, <2>4, <2>6 DEF Follows
  <2> QED BY <1>1, <2>2, <2>7, StayReplay DEF b
<1> QED BY <1>2, <1>3

LEMMA FinishReplays ==
  ASSUME Typed, Typed', CheckpointsProven, TablesGrow, NEW p \in Processes, Visits(p), Held(p),
         FinishBackend(p), UNCHANGED <<call, damaged>>, ~Idle(p), NEW n \in 0..MaxSeq,
         NEW m \in 0..MaxSeq, ReplayedTo(p, n, m)
  PROVE  ReplayedTo(p, n, m)'
<1> DEFINE b == dispatch[p].backend
<1>1. /\ dispatch[p].at = "drain" /\ NextSeq(p) \notin pending[p][b]
      /\ Follows(p, n) /\ LeaveBackend(p) /\ UNCHANGED checkpoint
  BY DEF FinishBackend, Draining, ReplayedTo, tables
<1>2. errors'[p] = errors[p] \/ errors'[p] = errors[p] \ {b}
  BY DEF FinishBackend, ClearError, Typed, DispatcherTypeOK
<1>3. ASSUME b \in BackendsOf(p) \ damaged PROVE n <= checkpoint[b]
  <2>1. /\ n - 1 <= dispatch[p].checkpoint /\ dispatch[p].checkpoint <= checkpoint[b]
        /\ dispatch[p].checkpoint \in Int /\ checkpoint[b] \in Int
    BY <1>1, <1>3, FollowsHere
  <2>2. n <= dispatch[p].checkpoint \/ n \in pending[p][b]
    BY <1>1, <1>3 DEF Follows
  <2>3. n # NextSeq(p) \/ n <= dispatch[p].checkpoint
    BY <1>1, <2>2
  <2> HIDE DEF b
  <2> QED BY <2>1, <2>3 DEF NextSeq
<1> QED BY <1>1, <1>2, <1>3, LeaveReplay

LEMMA ProjectReplays ==
  ASSUME Typed, Typed', CheckpointsProven, NEW p \in Processes, Visits(p), Held(p), Project(p),
         UNCHANGED <<call, damaged>>, NEW n \in 0..MaxSeq, NEW m \in 0..MaxSeq,
         ReplayedTo(p, n, m)
  PROVE  ReplayedTo(p, n, m)'
<1>1. TablesGrow
  BY ProjectGrows
<1>2. ~Idle(p)
  BY DEF Idle, NoDispatch, Project, ReadCheckpoint, ReadWatermark, Apply, SaveReceipt,
         SaveCheckpoint, FinishBackend, Draining
<1> QED BY <1>1, <1>2, ReadCheckpointReplays, ReadWatermarkReplays, ApplyReplays, SaveReplays,
           FinishReplays DEF Project

\* Nothing of the process changes, but the tables may grow.
LEMMA RecoveryStays ==
  ASSUME Typed, Typed', TablesGrow, lastSeq <= lastSeq', NEW p \in Processes, Recovery(p),
         dispatch'[p] = dispatch[p], pending'[p] = pending[p], errors'[p] = errors[p],
         call'[p] = call[p], state'[p] = state[p]
  PROVE  Recovery(p)'
<1>1. call[p] \in Call /\ lastSeq \in Int /\ lastSeq' \in Int
  BY DEF Typed, RuntimeTyped, WorldTyped
<1>2. call[p].start \in Int /\ call[p].target \in Int
  BY <1>1 DEF Call
<1>3. Idle(p)' <=> Idle(p)
  BY DEF Idle
<1>4. \A n \in Int : Reached(p, n) => \A b \in BackendsOf(p) \ damaged' : n <= checkpoint'[b]
  BY ReachedStays
<1>5. /\ Reached(p, call[p].start) => Reached(p, call[p].start)'
      /\ Reached(p, call[p].target) => Reached(p, call[p].target)'
  BY <1>2, <1>4 DEF Reached, BackendsOf
<1>6. ASSUME NEW n \in 0..MaxSeq, NEW m \in 0..MaxSeq, ReplayedTo(p, n, m)
      PROVE  ReplayedTo(p, n, m)'
  <2>1. n \in Int /\ n - 1 \in Int
    OBVIOUS
  <2>2. (Reached(p, n) => Reached(p, n)') /\ (Reached(p, n - 1) => Reached(p, n - 1)')
    BY <1>4, <2>1 DEF Reached, BackendsOf
  <2>3. damaged \subseteq damaged'
    BY DEF TablesGrow
  <2>4. Accounted(p, n) => Accounted(p, n)'
    <3>1. \A b \in BackendsOf(p) \ damaged' : n <= checkpoint[b] => n <= checkpoint'[b]
      BY RegisteredBackends, <2>1 DEF TablesGrow, Typed, DispatcherTypeOK
    <3> QED BY <2>3, <3>1 DEF Accounted, BackendsOf
  <2>5. Follows(p, n) => Follows(p, n)'
    BY <2>3 DEF Follows
  <2>6. /\ call'[p].start <= n /\ call'[p].target <= m
        /\ call'[p].replayed = EventsAfter(call'[p].start, m)
        /\ call'[p].todo = EventsAfter(n, m)
    BY <1>6 DEF ReplayedTo
  <2>7. Idle(p)' /\ (n = call'[p].start \/ errors'[p] = {}) => Reached(p, n)'
    BY <1>3, <1>6, <2>2 DEF ReplayedTo
  <2>8. ~Idle(p)' => /\ call'[p].start < n /\ dispatch'[p].event = n
                     /\ Reached(p, n - 1)' /\ Accounted(p, n)' /\ Follows(p, n)'
    BY <1>3, <1>6, <2>2, <2>4, <2>5 DEF ReplayedTo
  <2> QED BY <2>6, <2>7, <2>8 DEF ReplayedTo
<1>7. CallAt(p, "replay") => \E n, m \in 0..MaxSeq : ReplayedTo(p, n, m)'
  BY <1>6 DEF Recovery
<1>8. lastSeq <= lastSeq' /\ (call[p].target <= lastSeq => call[p].target <= lastSeq')
  BY <1>1, <1>2
<1> QED BY <1>3, <1>5, <1>7, <1>8 DEF Recovery, Recovering, CallAt

LEMMA EmptyRange ==
  ASSUME NEW n \in Int, NEW m \in Int, EventsAfter(n, m) = {}
  PROVE  m <= n
<1>1. n < m => n + 1 \in EventsAfter(n, m)
  BY DEF EventsAfter
<1> QED BY <1>1

\* A process with no call under way, whatever happened to the last one.
LEMMA NoCallRecovers ==
  ASSUME NEW p \in Processes, call'[p].at = "none", Idle(p)'
  PROVE  Recovery(p)'
BY DEF Recovery, Recovering, CallAt

LEMMA FailCallRecovers ==
  ASSUME Typed, NEW p \in Processes, Idle(p), FailCall(p), dispatch' = dispatch
  PROVE  Recovery(p)'
<1>1. call'[p].at = "none"
  BY DEF FailCall, NoCall, Typed, RuntimeTyped
<1> QED BY <1>1, NoCallRecovers DEF Idle

\* The replay begins where the slowest backend is.
LEMMA ReplayBegins ==
  ASSUME Typed, NEW p \in Processes, Recovery(p), call[p].at \in {"validate", "list"},
         NEW m \in 0..MaxSeq, call[p].target <= m, Replay(p, EventsAfter(call[p].start, m)),
         UNCHANGED <<dispatcherVars, state, buffer, damaged>>
  PROVE  Recovery(p)'
<1> DEFINE events == EventsAfter(call[p].start, m)
           c == [call[p] EXCEPT !.at = "replay", !.todo = events, !.replayed = events]
<1>1. call[p] \in Call /\ call[p].start \in 0..MaxSeq
  BY DEF Typed, RuntimeTyped, Call
<1>2. call'[p] = c
  BY DEF Replay, Typed, RuntimeTyped
<1> HIDE DEF events
<1>3. /\ c.at = "replay" /\ c.todo = events /\ c.replayed = events
      /\ c.start = call[p].start /\ c.target = call[p].target
  BY <1>1 DEF Call
<1> HIDE DEF c
<1>4. Idle(p) /\ Reached(p, call[p].start) /\ state[p] = "recovering"
  BY DEF Recovery, Recovering
<1>5. UNCHANGED <<dispatch, checkpoint, errors>>
  BY DEF dispatcherVars, tables, memory
<1>6. Idle(p)' /\ Reached(p, call[p].start)'
  BY <1>2, <1>3, <1>4, <1>5 DEF Idle, Reached, BackendsOf
<1>7. PICK n \in 0..MaxSeq : n = call[p].start
  BY <1>1
<1>8. ReplayedTo(p, n, m)'
  <2>1. Reached(p, n)'
    BY <1>4, <1>5, <1>7 DEF Reached, BackendsOf
  <2> QED BY <1>1, <1>2, <1>3, <1>6, <1>7, <2>1 DEF ReplayedTo, events
<1> QED BY <1>2, <1>3, <1>4, <1>6, <1>8 DEF Recovery, Recovering, CallAt

\* The replay is over: every event that it listed was handed out, and none
\* left an error.
LEMMA BeginDrainRecovers ==
  ASSUME Typed, NEW p \in Processes, Recovery(p), BeginDrain(p), UNCHANGED damaged
  PROVE  Recovery(p)'
<1>1. call[p] \in Call /\ call[p].start \in Int /\ call[p].target \in Int
  BY DEF Typed, RuntimeTyped, Call
<1>2. CallAt(p, "replay") /\ Idle(p) /\ ~ErrorSeen(p) /\ call[p].todo = {}
      /\ UNCHANGED <<dispatcherVars, state>>
  BY DEF BeginDrain, Replayed
<1>3. PICK n \in 0..MaxSeq, m \in 0..MaxSeq : ReplayedTo(p, n, m)
  BY <1>2 DEF Recovery
<1>4. Reached(p, call[p].start) /\ state[p] = "recovering"
  BY <1>2 DEF Recovery, Recovering, CallAt
<1>5. call[p].target <= m /\ m <= n
  BY <1>2, <1>3, EmptyRange DEF ReplayedTo
<1>6. Reached(p, call[p].target)
  <2>1. PICK l \in Int : Reached(p, l) /\ call[p].target <= l
    <3>1. CASE errors[p] = {}
      <4>1. Reached(p, n) /\ n \in Int /\ call[p].target <= n
        BY <1>1, <1>2, <1>3, <1>5, <3>1 DEF ReplayedTo
      <4> QED BY <4>1
    <3>2. CASE errors[p] # {}
      <4>1. EventsAfter(call[p].start, m) = {}
        BY <1>2, <1>3, <3>2 DEF ErrorSeen, ReplayedTo
      <4>2. m <= call[p].start
        BY <1>1, <4>1, EmptyRange
      <4>3. call[p].target <= call[p].start
        BY <1>1, <1>5, <4>2
      <4> QED BY <1>1, <1>4, <4>3
    <3> QED BY <3>1, <3>2
  <2>2. \A b \in BackendsOf(p) : checkpoint[b] \in Int
    BY RegisteredBackends DEF Typed, DispatcherTypeOK
  <2> QED BY <1>1, <2>1, <2>2 DEF Reached
<1>7. call'[p] = [call[p] EXCEPT !.at = "drain", !.todo = buffer[p]]
  BY DEF BeginDrain, Typed, RuntimeTyped
<1>8. call'[p].at = "drain" /\ call'[p].target = call[p].target
  BY <1>1, <1>7 DEF Call
<1>9. UNCHANGED <<dispatch, checkpoint>>
  BY <1>2 DEF dispatcherVars, tables
<1>10. Idle(p)' /\ Reached(p, call[p].target)'
  BY <1>2, <1>6, <1>8, <1>9 DEF Idle, Reached, BackendsOf
<1> QED BY <1>2, <1>4, <1>8, <1>10 DEF Recovery, Recovering, CallAt

\* The reads before the replay.
LEMMA ReadsRecover ==
  ASSUME Typed, NEW p \in Processes, Recovery(p), UNCHANGED <<lastSeq, damaged>>,
         ReadTarget(p) \/ ReadBoundary(p) \/ ReadAudit(p)
  PROVE  Recovery(p)'
<1>1. call[p] \in Call /\ lastSeq \in Int
  BY DEF Typed, RuntimeTyped, WorldTyped
<1>2. Idle(p) /\ Idle(p)' /\ state[p] = "recovering" /\ state' = state /\ checkpoint' = checkpoint
  BY DEF ReadTarget, ReadBoundary, ReadAudit, CallAt, Recovery, Recovering, Idle, dispatcherVars,
         tables
<1>3. CASE ReadTarget(p)
  <2>1. call'[p] = [call[p] EXCEPT !.at = "boundary", !.target = lastSeq]
    BY <1>3 DEF ReadTarget, Typed, RuntimeTyped
  <2>2. call'[p].at = "boundary" /\ call'[p].target = lastSeq
    BY <1>1, <2>1 DEF Call
  <2> QED BY <1>1, <1>2, <2>2 DEF Recovery, Recovering, CallAt
<1>4. CASE ReadBoundary(p)
  <2>1. PICK n \in 0..MaxSeq :
          ReplayFrom(p, n) /\ call' = [call EXCEPT ![p] = [@ EXCEPT !.at = "audit", !.start = n]]
    BY <1>4 DEF ReadBoundary
  <2>2. call'[p] = [call[p] EXCEPT !.at = "audit", !.start = n]
    BY <2>1 DEF Typed, RuntimeTyped
  <2>3. call'[p].at = "audit" /\ call'[p].start = n /\ call'[p].target = call[p].target
    BY <1>1, <2>2 DEF Call
  <2>4. \A b \in BackendsOf(p) : n <= checkpoint[b]
    <3>1. \A b \in BackendsOf(p) : n <= Smaller(checkpoint[b], watermark[b])
      BY <2>1 DEF ReplayFrom, IsFirst
    <3> QED BY <3>1, RegisteredBackends DEF Smaller, Typed, DispatcherTypeOK
  <2>5. Reached(p, call[p].start)'
    BY <1>2, <2>3, <2>4 DEF Reached, BackendsOf
  <2>6. call[p].target <= lastSeq
    BY <1>4 DEF ReadBoundary, CallAt, Recovery
  <2> QED BY <1>2, <2>3, <2>5, <2>6 DEF Recovery, Recovering, CallAt
<1>5. CASE ReadAudit(p)
  <2>1. call'[p] = [call[p] EXCEPT !.at = "validate", !.audited = lastSeq]
    BY <1>5 DEF ReadAudit, Typed, RuntimeTyped
  <2>2. /\ call'[p].at = "validate" /\ call'[p].audited = lastSeq
        /\ call'[p].target = call[p].target /\ call'[p].start = call[p].start
    BY <1>1, <2>1 DEF Call
  <2>3. Reached(p, call[p].start) /\ call[p].target <= lastSeq
    BY <1>5 DEF ReadAudit, CallAt, Recovery
  <2>4. Reached(p, call[p].start)'
    BY <1>2, <2>2, <2>3 DEF Reached, BackendsOf
  <2> QED BY <1>2, <2>2, <2>3, <2>4 DEF Recovery, Recovering, CallAt
<1> QED BY <1>3, <1>4, <1>5

LEMMA ValidateRecovers ==
  ASSUME Typed, NEW p \in Processes, Recovery(p), UNCHANGED <<lastSeq, damaged>>,
         ValidateReceipts(p) \/ ListEvents(p)
  PROVE  Recovery(p)'
<1>1. call[p] \in Call /\ call[p].audited \in 0..MaxSeq /\ lastSeq \in 0..MaxSeq
  BY DEF Typed, RuntimeTyped, WorldTyped, Call
<1>2. call[p].at \in {"validate", "list"} /\ Idle(p) /\ UNCHANGED dispatcherVars
  BY DEF ValidateReceipts, ListEvents, CallAt, Recovery
<1>3. call[p].target <= lastSeq /\ call[p].target <= call[p].audited
  BY <1>2 DEF Recovery
<1>4. CASE ListEvents(p)
  BY <1>1, <1>2, <1>3, <1>4, ReplayBegins DEF ListEvents
<1>5. CASE FailCall(p)
  BY <1>2, <1>5, FailCallRecovers DEF dispatcherVars
<1>6. CASE /\ call[p].start = 0 /\ Replay(p, EventsAfter(0, call[p].audited))
           /\ UNCHANGED <<state, buffer>>
  BY <1>1, <1>2, <1>3, <1>6, ReplayBegins
<1>7. CASE call' = [call EXCEPT ![p].at = "list"] /\ UNCHANGED <<state, buffer>>
  <2>1. call'[p] = [call[p] EXCEPT !.at = "list"]
    BY <1>7 DEF Typed, RuntimeTyped
  <2>2. /\ call'[p].at = "list" /\ call'[p].start = call[p].start
        /\ call'[p].target = call[p].target /\ call'[p].audited = call[p].audited
    BY <1>1, <2>1 DEF Call
  <2>3. Reached(p, call[p].start) /\ state[p] = "recovering"
    BY <1>2 DEF Recovery, Recovering
  <2>4. Idle(p)' /\ Reached(p, call[p].start)'
    BY <1>2, <2>2, <2>3 DEF Idle, Reached, BackendsOf, dispatcherVars, tables
  <2> QED BY <1>3, <1>7, <2>2, <2>3, <2>4 DEF Recovery, Recovering, CallAt
<1> QED BY <1>4, <1>5, <1>6, <1>7 DEF ValidateReceipts

\* A live event in the buffer is drained after the replay reached the target.
LEMMA DrainRecovers ==
  ASSUME Typed, NEW p \in Processes, Recovery(p), UNCHANGED damaged,
         \/ DrainNext(p)
         \/ CheckDrained(p) /\ errors[p] = {}
  PROVE  Recovery(p)'
<1>1. call[p] \in Call
  BY DEF Typed, RuntimeTyped
<1>2. /\ call[p].at \in {"drain", "drained"} /\ UNCHANGED tables
      /\ Reached(p, call[p].target) /\ state[p] = "recovering"
  BY DEF DrainNext, CheckDrained, CallAt, Recovery, Recovering, dispatcherVars
<1>3. CASE CheckDrained(p) /\ FailCall(p)
  BY <1>3, FailCallRecovers DEF CheckDrained, dispatcherVars
<1>4. ASSUME NEW s \in Seqs, Drained(p, s), UNCHANGED <<dispatch, state>>, Idle(p)
      PROVE  Recovery(p)'
  <2>1. call'[p] = [call[p] EXCEPT !.at = "drain", !.todo = call[p].todo \ {s},
                                   !.replayed = call[p].replayed \cup {s}]
    BY <1>4 DEF Drained, Typed, RuntimeTyped
  <2>2. call'[p].at = "drain" /\ call'[p].target = call[p].target
    BY <1>1, <2>1 DEF Call
  <2>3. Reached(p, call[p].target)' /\ Idle(p)'
    BY <1>2, <1>4, <2>2 DEF Reached, BackendsOf, tables, Idle
  <2> QED BY <1>2, <1>4, <2>2, <2>3 DEF Recovery, Recovering, CallAt
<1>5. CASE DrainNext(p) /\ call' = [call EXCEPT ![p].at = "drained"] /\ UNCHANGED state
  <2>1. call'[p] = [call[p] EXCEPT !.at = "drained"]
    BY <1>5 DEF Typed, RuntimeTyped
  <2>2. call'[p].at = "drained" /\ call'[p].target = call[p].target
    BY <1>1, <2>1 DEF Call
  <2>3. Reached(p, call[p].target)'
    BY <1>2, <2>2 DEF Reached, BackendsOf, tables
  <2> QED BY <1>2, <1>5, <2>2, <2>3 DEF Recovery, Recovering, CallAt
<1>6. CASE DrainNext(p)
  <2>1. Idle(p)
    BY <1>6 DEF DrainNext, CallAt, Recovery
  <2> QED BY <1>4, <1>5, <1>6, <2>1 DEF DrainNext
<1> QED BY <1>3, <1>4, <1>6 DEF CheckDrained, dispatcherVars

\* The next event of a replay follows the one before it.
LEMMA ReplayNextRecovers ==
  ASSUME Typed, NEW p \in Processes, Recovery(p), ReplayNext(p), UNCHANGED damaged
  PROVE  Recovery(p)'
<1>1. call[p] \in Call /\ call[p].start \in Int /\ dispatch[p] \in Dispatch
  BY DEF Typed, RuntimeTyped, DispatcherTypeOK, Call
<1>2. CallAt(p, "replay") /\ Idle(p) /\ ~ErrorSeen(p) /\ UNCHANGED <<tables, memory, state>>
  BY DEF ReplayNext, Replayed
<1>3. PICK s \in Seqs : /\ IsFirst(s, call[p].todo) /\ StartProject(p, s)
                        /\ call' = [call EXCEPT ![p].todo = @ \ {s}]
  BY DEF ReplayNext
<1>4. PICK n \in 0..MaxSeq, m \in 0..MaxSeq : ReplayedTo(p, n, m)
  BY <1>2 DEF Recovery
<1>5. /\ call[p].start <= n /\ call[p].target <= m
      /\ call[p].replayed = EventsAfter(call[p].start, m)
      /\ call[p].todo = EventsAfter(n, m)
      /\ n = call[p].start \/ errors[p] = {} => Reached(p, n)
  BY <1>2, <1>4 DEF ReplayedTo
<1>6. s = n + 1 /\ n + 1 \in EventsAfter(n, m)
  BY <1>3, <1>5 DEF IsFirst, EventsAfter, Seqs
<1>7. Reached(p, n)
  <2>1. CASE call[p].todo = call[p].replayed
    <3>1. n = call[p].start
      <4>1. call[p].start < n => call[p].start + 1 \in EventsAfter(call[p].start, m)
        BY <1>1, <1>6 DEF EventsAfter
      <4>2. call[p].start < n => call[p].start + 1 \notin EventsAfter(n, m)
        BY <1>1 DEF EventsAfter
      <4> QED BY <1>1, <1>5, <2>1, <4>1, <4>2
    <3> QED BY <1>5, <3>1
  <2>2. CASE errors[p] = {}
    BY <1>5, <2>2
  <2> QED BY <1>2, <2>1, <2>2 DEF ErrorSeen
<1>8. call'[p] = [call[p] EXCEPT !.todo = call[p].todo \ {s}]
  BY <1>3 DEF Typed, RuntimeTyped
<1>9. /\ call'[p].at = "replay" /\ call'[p].start = call[p].start
      /\ call'[p].target = call[p].target /\ call'[p].replayed = call[p].replayed
      /\ call'[p].todo = EventsAfter(n, m) \ {n + 1}
  BY <1>1, <1>2, <1>5, <1>6, <1>8 DEF Call, CallAt
<1>10. dispatch'[p] = [NoDispatch EXCEPT !.event = s, !.left = Registered[p]]
  BY <1>3 DEF StartProject, Typed, DispatcherTypeOK
<1>11. dispatch'[p].at = "next" /\ dispatch'[p].event = s /\ dispatch'[p].left = Registered[p]
  BY <1>10 DEF NoDispatch
<1>12. ~Idle(p)'
  BY <1>11, RegisteredAssumption DEF Idle, NoDispatch
<1>13. PICK k \in 0..MaxSeq : k = n + 1
  BY <1>3, <1>6 DEF Seqs
<1>14. ReplayedTo(p, k, m)'
  <2>1. EventsAfter(n, m) \ {n + 1} = EventsAfter(k, m)
    BY <1>13 DEF EventsAfter
  <2>2. Reached(p, k - 1)'
    <3>1. k - 1 = n
      BY <1>13
    <3>2. \A b \in BackendsOf(p) \ damaged' : k - 1 <= checkpoint'[b]
      BY <1>2, <1>7, <3>1 DEF Reached, tables
    <3> QED BY <3>2 DEF Reached, BackendsOf
  <2>3. Accounted(p, k)'
    BY <1>11 DEF Accounted, BackendsOf
  <2>4. Follows(p, k)'
    BY <1>11 DEF Follows
  <2>5. call'[p].start < k /\ call'[p].start <= k /\ dispatch'[p].event = k
    BY <1>1, <1>5, <1>6, <1>9, <1>11, <1>13
  <2> QED BY <1>5, <1>9, <1>12, <2>1, <2>2, <2>3, <2>4, <2>5 DEF ReplayedTo
<1>15. Reached(p, call[p].start)'
  BY <1>2, <1>9 DEF Recovery, CallAt, Reached, BackendsOf, tables
<1>16. state'[p] = "recovering"
  BY <1>2 DEF Recovery, Recovering, CallAt
<1> QED BY <1>9, <1>14, <1>15, <1>16 DEF Recovery, Recovering, CallAt

\* A call of project that recover or publish waits for.
LEMMA DispatchRecovers ==
  ASSUME Typed, Typed', CheckpointsProven, NEW p \in Processes, Visits(p), Held(p), Recovery(p),
         Project(p) \/ DispatchFails(p), UNCHANGED <<runtimeVars, lastSeq, damaged>>
  PROVE  Recovery(p)'
<1>1. ~Idle(p)
  BY DEF Idle, NoDispatch, Project, ReadCheckpoint, ReadWatermark, Apply, SaveReceipt,
         SaveCheckpoint, FinishBackend, DispatchFails, Draining
<1>2. call[p].at \in {"replay", "drained", "publish"} /\ call' = call /\ state' = state
  BY <1>1 DEF Recovery, runtimeVars
<1>3. TablesGrow
  BY ProjectGrows, SameTablesGrow DEF DispatchFails
<1>4. call[p].start \in Int /\ call[p].target \in Int
  BY DEF Typed, RuntimeTyped, Call
<1>5. /\ Reached(p, call[p].start) => Reached(p, call[p].start)'
      /\ Reached(p, call[p].target) => Reached(p, call[p].target)'
  BY <1>2, <1>3, <1>4, ReachedStays DEF Reached, BackendsOf
<1>6. ASSUME NEW n \in 0..MaxSeq, NEW m \in 0..MaxSeq, ReplayedTo(p, n, m)
      PROVE  ReplayedTo(p, n, m)'
  <2>1. CASE Project(p)
    BY <1>2, <1>6, <2>1, ProjectReplays
  <2>2. CASE DispatchFails(p)
    <3>1. /\ errors'[p] = errors[p] \cup {dispatch[p].backend} /\ LeaveBackend(p)
          /\ UNCHANGED checkpoint
      BY <2>2 DEF DispatchFails, RecordError, tables, Typed, DispatcherTypeOK
    <3> QED BY <1>1, <1>2, <1>3, <1>6, <3>1, LeaveReplay
  <2> QED BY <2>1, <2>2
<1>7. CallAt(p, "replay") => \E n, m \in 0..MaxSeq : ReplayedTo(p, n, m)'
  BY <1>6 DEF Recovery
<1> QED BY <1>2, <1>5, <1>7 DEF Recovery, Recovering, CallAt

\* Buffers are cleared between calls of project.
LEMMA ClearPendingRecovers ==
  ASSUME Typed, NEW p \in Processes, Recovery(p), ClearPending(p), UNCHANGED <<runtimeVars, world>>
  PROVE  Recovery(p)'
<1>1. Idle(p) /\ Idle(p)' /\ UNCHANGED <<checkpoint, errors, call, state, damaged, lastSeq>>
  BY DEF ClearPending, Idle, tables, runtimeVars, world
<1>2. \A n, m \in 0..MaxSeq : ReplayedTo(p, n, m) => ReplayedTo(p, n, m)'
  BY <1>1 DEF ReplayedTo, Reached, BackendsOf
<1> QED BY <1>1, <1>2 DEF Recovery, Recovering, CallAt, Reached, BackendsOf

LEMMA OwnRecovery ==
  ASSUME Typed, Typed', CheckpointsProven, NEW p \in Processes \ Monitored, Visits(p), Held(p),
         Recovery(p), Step(p) \/ CatchUp(p) \/ Application(p) \/ Restart(p)
  PROVE  Recovery(p)'
<1>1. CASE Project(p) /\ UNCHANGED <<runtimeVars, world>>
  BY <1>1, DispatchRecovers DEF world
<1>2. CASE BeginRecover(p)
  <2>1. call'[p].at = "target" /\ state'[p] = "recovering" /\ Idle(p)'
    BY <1>2 DEF BeginRecover, Typed, RuntimeTyped, Call, CallAt, Recovery, Idle, dispatcherVars
  <2> QED BY <2>1 DEF Recovery, Recovering, CallAt
<1>3. CASE Quietly(p) /\ UNCHANGED <<lastSeq, damaged>>
  <2>1. CASE ReadTarget(p) \/ ReadBoundary(p) \/ ReadAudit(p)
    BY <1>3, <2>1, ReadsRecover
  <2>2. CASE ValidateReceipts(p) \/ ListEvents(p)
    BY <1>3, <2>2, ValidateRecovers
  <2>3. CASE ReplayFails(p)
    BY <2>3, FailCallRecovers DEF ReplayFails, Replayed, dispatcherVars
  <2>4. CASE BeginDrain(p)
    BY <1>3, <2>4, BeginDrainRecovers
  <2>5. CASE CheckDrained(p)
    <3>1. CASE errors[p] # {}
      BY <2>5, <3>1, FailCallRecovers DEF CheckDrained, dispatcherVars
    <3> QED BY <1>3, <2>5, <3>1, DrainRecovers
  <2>6. CASE FinishRecover(p) \/ FinishPublish(p) \/ RecoverFails(p)
    <3>1. Idle(p) /\ dispatch' = dispatch
      BY <2>6 DEF FinishRecover, FinishPublish, RecoverFails, CallAt, Recovery, dispatcherVars
    <3>2. call'[p].at = "none"
      BY <2>6 DEF FinishRecover, FinishPublish, RecoverFails, FailCall, NoCall, Typed,
                  RuntimeTyped
    <3> QED BY <3>1, <3>2, NoCallRecovers DEF Idle
  <2>7. CASE ClearBuffer(p) \/ \E s \in 1..lastSeq : PublishBuffered(p, s)
    <3>1. UNCHANGED <<dispatcherVars, call, state>>
      BY <2>7 DEF ClearBuffer, PublishBuffered
    <3>2. UNCHANGED <<tables, pending, errors, dispatch>>
      BY <3>1 DEF dispatcherVars, memory
    <3>3. TablesGrow
      BY <1>3, <3>2, SameTablesGrow
    <3>4. lastSeq <= lastSeq'
      BY <1>3 DEF Typed, WorldTyped
    <3> QED BY <3>1, <3>2, <3>3, <3>4, RecoveryStays
  <2> QED BY <1>2, <1>3, <2>1, <2>2, <2>3, <2>4, <2>5, <2>6, <2>7 DEF Quietly
<1>4. CASE Step(p)
  <2>1. UNCHANGED <<lastSeq, damaged, world>>
    BY <1>4 DEF Step, world
  <2>2. CASE ReplayNext(p)
    BY <2>1, <2>2, ReplayNextRecovers
  <2>3. CASE DrainNext(p)
    BY <2>1, <2>3, DrainRecovers
  <2> QED BY <1>1, <1>2, <1>3, <1>4, <2>1, <2>2, <2>3 DEF Step, Quietly
<1>5. CASE CatchUp(p)
  <2>1. CASE UNCHANGED <<dispatcherVars, runtimeVars>>
    <3>1. UNCHANGED <<tables, pending, errors, dispatch, call, state, lastSeq, damaged>>
      BY <1>5, <2>1 DEF dispatcherVars, memory, runtimeVars, CatchUp, world
    <3>2. TablesGrow /\ lastSeq <= lastSeq'
      BY <3>1, SameTablesGrow DEF Typed, WorldTyped
    <3> QED BY <3>1, <3>2, RecoveryStays
  <2> QED BY <1>2, <1>5, <2>1 DEF CatchUp
<1>6. ASSUME NEW s, PublishLive(p, s) PROVE Recovery(p)'
  <2>1. call[p].at = "none"
    BY <1>6 DEF PublishLive, Unlocked, Recovery, Recovering
  <2>2. call'[p].at = "publish"
    BY <1>6 DEF PublishLive, Typed, RuntimeTyped, Call
  <2> QED BY <2>2 DEF Recovery, Recovering, CallAt
<1>7. CASE Application(p)
  <2>1. CASE Publish(p)
    <3>1. PICK s \in 1..lastSeq : PublishBuffered(p, s) \/ PublishLive(p, s)
      BY <2>1 DEF Publish
    <3>2. CASE PublishBuffered(p, s)
      <4>1. Quietly(p)
        BY <3>2 DEF Quietly
      <4> QED BY <1>3, <2>1, <4>1 DEF Publish, world
    <3> QED BY <1>6, <3>1, <3>2
  <2>2. CASE Maintain(p)
    <3>1. UNCHANGED <<lastSeq, damaged, world>>
      BY <2>2 DEF Maintain, world
    <3>2. CASE ClearBuffer(p)
      <4>1. Quietly(p)
        BY <3>2 DEF Quietly
      <4> QED BY <1>3, <3>1, <4>1
    <3> QED BY <2>2, <3>1, <3>2, ClearPendingRecovers DEF Maintain
  <2>3. CASE Fail(p)
    <3>1. UNCHANGED <<lastSeq, damaged>>
      BY <2>3 DEF Fail
    <3>2. CASE RecoverFails(p)
      <4>1. Quietly(p)
        BY <3>2 DEF Quietly
      <4> QED BY <1>3, <3>1, <4>1
    <3>3. CASE DispatchFails(p) /\ UNCHANGED runtimeVars
      BY <3>1, <3>3, DispatchRecovers
    <3> QED BY <2>3, <3>2, <3>3 DEF Fail
  <2> QED BY <1>2, <1>7, <2>1, <2>2, <2>3 DEF Application
<1>8. CASE Restart(p)
  <2>1. call'[p].at = "none" /\ Idle(p)'
    BY <1>8 DEF Restart, Crash, NoCall, Idle, Typed, RuntimeTyped, DispatcherTypeOK
  <2> QED BY <2>1, NoCallRecovers
<1> QED BY <1>4, <1>5, <1>7, <1>8

\* A step of one process is none of another.
OthersKeep(p) ==
  \A q \in Processes \ {p} :
    /\ dispatch'[q] = dispatch[q] /\ pending'[q] = pending[q] /\ errors'[q] = errors[q]
    /\ call'[q] = call[q] /\ state'[q] = state[q]

LEMMA ProjectOthersKeep ==
  ASSUME Typed, NEW p \in Processes, Project(p) \/ DispatchFails(p), UNCHANGED runtimeVars
  PROVE  OthersKeep(p)
<1>1. \A q \in Processes \ {p} : dispatch'[q] = dispatch[q]
  BY OnlyOwnDispatch
<1>2. \A q \in Processes \ {p} : pending'[q] = pending[q]
  BY DEF Project, ReadCheckpoint, ReadWatermark, Skip, Enqueue, Apply, SaveReceipt,
         SaveCheckpoint, FinishBackend, DispatchFails, memory, Typed, DispatcherTypeOK
<1>3. \A q \in Processes \ {p} : errors'[q] = errors[q]
  BY DEF Project, ReadCheckpoint, ReadWatermark, Skip, RecordError, ClearError, Enqueue, Apply,
         SaveReceipt, SaveCheckpoint, FinishBackend, DispatchFails, memory, Typed,
         DispatcherTypeOK
<1> QED BY <1>1, <1>2, <1>3 DEF OthersKeep, runtimeVars

LEMMA QuietOthersKeep ==
  ASSUME Typed, NEW p \in Processes, Quietly(p)
  PROVE  OthersKeep(p)
<1>1. UNCHANGED <<dispatch, pending, errors>>
  BY QuietSteps DEF dispatcherVars, memory
<1>2. \A q \in Processes \ {p} : call'[q] = call[q] /\ state'[q] = state[q]
  BY DEF Quietly, BeginRecover, ReadTarget, ReadBoundary, ReadAudit, ValidateReceipts, ListEvents,
         ReplayFails, BeginDrain, CheckDrained, FinishRecover, FinishPublish, RecoverFails,
         ClearBuffer, PublishBuffered, FailCall, Replay, Drained, Typed, RuntimeTyped
<1> QED BY <1>1, <1>2 DEF OthersKeep

LEMMA ProcessOthersKeep ==
  ASSUME Typed, NEW p \in Processes, Step(p) \/ CatchUp(p) \/ Application(p) \/ Restart(p)
  PROVE  OthersKeep(p)
<1>1. CASE UNCHANGED <<dispatcherVars, runtimeVars>>
  BY <1>1 DEF OthersKeep, dispatcherVars, memory, runtimeVars
<1>2. CASE Quietly(p)
  BY <1>2, QuietOthersKeep
<1>3. CASE Step(p)
  <2>1. CASE ReplayNext(p) \/ DrainNext(p)
    BY <2>1 DEF ReplayNext, DrainNext, StartProject, Drained, memory, OthersKeep, Typed,
                DispatcherTypeOK, RuntimeTyped
  <2> QED BY <1>2, <1>3, <2>1, ProjectOthersKeep DEF Step, Quietly
<1>4. CASE CatchUp(p)
  BY <1>1, <1>2, <1>4 DEF CatchUp, Quietly
<1>5. CASE Application(p)
  <2>1. CASE Publish(p)
    <3>1. PICK s \in 1..lastSeq : PublishBuffered(p, s) \/ PublishLive(p, s)
      BY <2>1 DEF Publish
    <3>2. CASE PublishLive(p, s)
      BY <3>2 DEF PublishLive, StartProject, memory, OthersKeep, Typed, DispatcherTypeOK,
                  RuntimeTyped
    <3> QED BY <1>2, <3>1, <3>2 DEF Quietly
  <2>2. CASE (ClearPending(p) \/ \E S : ReportWatermarks(p, S)) /\ UNCHANGED runtimeVars
    BY <2>2 DEF ClearPending, ReportWatermarks, runtimeVars, OthersKeep, Typed, DispatcherTypeOK
  <2>3. CASE Maintain(p)
    BY <1>2, <2>2, <2>3 DEF Maintain, Quietly
  <2>4. CASE Fail(p)
    BY <1>2, <2>2, <2>4, ProjectOthersKeep DEF Fail, Quietly
  <2> QED BY <1>2, <1>5, <2>1, <2>3, <2>4 DEF Application, Quietly
<1>6. CASE Restart(p)
  BY <1>6 DEF Restart, Crash, OthersKeep, Typed, DispatcherTypeOK, RuntimeTyped
<1> QED BY <1>3, <1>4, <1>5, <1>6

RecoverInv == CheckpointInv /\ CountInv /\ \A p \in Processes \ Monitored : Recovery(p)

LEMMA NextRecovers ==
  ASSUME RecoverInv, CheckpointInv', Next, NEW q \in Processes \ Monitored
  PROVE  Recovery(q)'
<1>1. /\ Typed /\ Typed' /\ CheckpointsProven
      /\ \A p \in Processes : Held(p) /\ Visits(p)
      /\ \A p \in Processes \ Monitored : Recovery(p)
  BY DEF RecoverInv, CheckpointInv, CountInv, AllHeld
<1>2. CASE TablesGrow /\ lastSeq <= lastSeq' /\ UNCHANGED <<memory, dispatch, runtimeVars>>
  BY <1>1, <1>2, RecoveryStays DEF memory, runtimeVars
<1>3. CASE Environment
  <2>1. TablesGrow
    BY <1>1, <1>3, EnvironmentGrows
  <2>2. lastSeq <= lastSeq'
    <3>1. lastSeq' = lastSeq \/ lastSeq' = lastSeq + 1
      BY <1>3 DEF Environment, AppendEvent, CommandApplies, LoseRows, world
    <3> QED BY <1>1, <3>1 DEF Typed, WorldTyped
  <2>3. UNCHANGED <<memory, dispatch, runtimeVars>>
    BY <1>3 DEF Environment, AppendEvent, CommandApplies, LoseRows, dispatcherVars
  <2> QED BY <1>2, <2>1, <2>2, <2>3
<1>4. ASSUME NEW p \in Processes, Step(p) \/ CatchUp(p) \/ Application(p) \/ Restart(p)
      PROVE  Recovery(q)'
  <2>1. CASE q = p
    BY <1>1, <1>4, <2>1, OwnRecovery
  <2>2. CASE q # p
    <3>1. TablesGrow
      <4>1. CASE Step(p) /\ Project(p)
        BY <1>1, <4>1, ProjectGrows DEF Step, world
      <4>2. CASE ~(Step(p) /\ Project(p))
        <5>1. Bystander
          BY <1>1, <1>4, <4>2, ProcessBystander
        <5> QED BY <1>1, <5>1, SameTablesGrow DEF Bystander
      <4> QED BY <4>1, <4>2
    <3>2. lastSeq <= lastSeq'
      <4>1. lastSeq' = lastSeq
        BY <1>4 DEF Step, CatchUp, Application, Publish, Maintain, Fail, Restart, Crash, world
      <4> QED BY <1>1, <4>1 DEF Typed, WorldTyped
    <3>3. /\ dispatch'[q] = dispatch[q] /\ pending'[q] = pending[q] /\ errors'[q] = errors[q]
          /\ call'[q] = call[q] /\ state'[q] = state[q]
      BY <1>1, <1>4, <2>2, ProcessOthersKeep DEF OthersKeep
    <3> QED BY <1>1, <3>1, <3>2, <3>3, RecoveryStays
  <2> QED BY <2>1, <2>2
<1>5. ASSUME NEW p \in Processes, Reads(p) PROVE Recovery(q)'
  <2>1. UNCHANGED <<tables, damaged, lastSeq, memory, dispatch, runtimeVars>>
    BY <1>5 DEF Reads, BeginRead, Answer, Compare, projectionVars, dispatcherVars, world
  <2>2. TablesGrow /\ lastSeq <= lastSeq'
    BY <1>1, <2>1, SameTablesGrow DEF Typed, WorldTyped
  <2> QED BY <1>2, <2>1, <2>2
<1> QED BY <1>3, <1>4, <1>5 DEF Next, Reads

\* What ReadyCovers says, of the processes where nobody calls
\* dispatcher.watermarks, which forgets the errors that a recovery looks for.
UnmonitoredReadyCovers ==
  [][\A p \in Processes \ Monitored : \A b \in BackendsOf(p) \ damaged :
       BecomesReady(p) => watermark[b] >= call[p].target]_vars

\* A recovery that makes a stream READY has brought every backend that kept its
\* rows to where the stream was when it began, whatever other processes, failed
\* statements and restarts did meanwhile, in every process whose errors nobody
\* clears behind its back.
THEOREM RecoveriesCoverTargets == Spec => UnmonitoredReadyCovers
<1>1. Init => \A p \in Processes \ Monitored : Recovery(p)
  BY DEF Init, ProjectionInit, DispatcherInit, NoCall, Recovery, Recovering, CallAt, Idle
<1>2. RecoverInv /\ CheckpointInv' /\ CountInv' /\ [Next]_vars => RecoverInv'
  <2> SUFFICES ASSUME RecoverInv, CheckpointInv', CountInv', [Next]_vars,
                      NEW q \in Processes \ Monitored
               PROVE  Recovery(q)'
    BY DEF RecoverInv
  <2>1. CASE UNCHANGED vars
    <3>1. UNCHANGED <<tables, damaged, lastSeq, memory, dispatch, runtimeVars>>
      BY <2>1 DEF vars, projectionVars, dispatcherVars, world
    <3>2. Typed /\ Typed' /\ Recovery(q)
      BY DEF RecoverInv, CheckpointInv
    <3>3. TablesGrow /\ lastSeq <= lastSeq'
      BY <3>1, <3>2, SameTablesGrow DEF Typed, WorldTyped
    <3> QED BY <3>1, <3>2, <3>3, RecoveryStays DEF memory, runtimeVars
  <2> QED BY <2>1, NextRecovers
<1>3. RecoverInv =>
        [\A p \in Processes \ Monitored : \A b \in BackendsOf(p) \ damaged :
           BecomesReady(p) => watermark[b] >= call[p].target]_vars
  <2> SUFFICES ASSUME RecoverInv, NEW p \in Processes \ Monitored, NEW b \in BackendsOf(p) \ damaged,
                      BecomesReady(p)
               PROVE  watermark[b] >= call[p].target
    OBVIOUS
  <2>1. call[p].at = "drain"
    BY DEF BecomesReady, FinishRecover, CallAt
  <2>2. call[p].target <= checkpoint[b]
    BY <2>1 DEF RecoverInv, Recovery, Reached
  <2>3. b \in Backends /\ checkpoint[b] <= watermark[b]
    BY RegisteredBackends DEF RecoverInv, CheckpointInv, CheckpointsProven
  <2>4. call[p].target \in Int /\ checkpoint[b] \in Int /\ watermark[b] \in Int
    BY <2>3 DEF RecoverInv, CheckpointInv, Typed, RuntimeTyped, DispatcherTypeOK, Call
  <2> QED BY <2>2, <2>3, <2>4
<1>4. RecoverInv <=> CheckpointInv /\ CountInv /\ \A p \in Processes \ Monitored : Recovery(p)
  BY DEF RecoverInv
<1> QED BY <1>1, <1>2, <1>3, <1>4, CheckpointInvariant, CountInvariant, PTL
   DEF Spec, UnmonitoredReadyCovers

\* A stream becomes READY only when every backend that kept its rows has all
\* events up to the head of the stream at the beginning of the recovery,
\* provided that nobody calls dispatcher.watermarks.
THEOREM ReadyStreamsCovered ==
  ASSUME Monitored = {}
  PROVE  Spec => ReadyCovers
<1>1. [\A p \in Processes \ Monitored : \A b \in BackendsOf(p) \ damaged :
         BecomesReady(p) => watermark[b] >= call[p].target]_vars
      => [\A p \in Processes : \A b \in BackendsOf(p) \ damaged :
            BecomesReady(p) => watermark[b] >= call[p].target]_vars
  OBVIOUS
<1> QED BY <1>1, RecoveriesCoverTargets, PTL DEF UnmonitoredReadyCovers, ReadyCovers
=============================================================================
