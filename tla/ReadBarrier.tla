---------------------------- MODULE ReadBarrier -----------------------------
(***************************************************************************)
(* Reads of a session through the projection runtime of the process,       *)
(* session.py SessionReadBarrier.read: it compares the session with the    *)
(* head of the stream, recovers the stream if the session is behind, and   *)
(* looks again.                                                            *)
(*                                                                         *)
(* What is answered is the session as it was read last, and whether it     *)
(* lags behind the request; nothing depends on it here, and it has no      *)
(* variable.  A session that get() refuses is answered without recovery;   *)
(* SessionCommands has those.                                              *)
(***************************************************************************)
EXTENDS Projection

CONSTANTS
  Readers,    \* processes where sessions are read
  SessionOf   \* SessionOf[p]: the backend that is p's session store

ASSUME ReadersAssumption == Readers \subseteq Processes
ASSUME SessionOfAssumption == SessionOf \in [Processes -> Backends]

VARIABLE read   \* per process: the read under way

vars == <<projectionVars, read>>

Read == [at : {"none", "compare", "catch_up", "recovering"}, applied : 0..MaxSeq]
NoRead == [at |-> "none", applied |-> 0]

Init ==
  /\ ProjectionInit
  /\ read = [p \in Processes |-> NoRead]

ReadAt(p, l) == read[p].at = l
ReadGoto(p, l) == read' = [read EXCEPT ![p] = [NoRead EXCEPT !.at = l]]
Session(p) == watermark[SessionOf[p]]

BeginRead(p) ==
  /\ p \in Readers /\ ReadAt(p, "none")
  /\ read' = [read EXCEPT ![p] = [at |-> "compare", applied |-> Session(p)]]
  /\ UNCHANGED projectionVars

\* Compare with what the caller asks for, which need not exist yet, or with
\* the head of the stream as it is now.
Compare(p, requested) ==
  /\ ReadAt(p, "compare")
  /\ ReadGoto(p, IF read[p].applied < requested THEN "catch_up" ELSE "none")
  /\ UNCHANGED projectionVars

\* catch_up recovers, unless a recovery is under way: that raises.
CatchUp(p) ==
  /\ ReadAt(p, "catch_up")
  /\ \/ BeginRecover(p) /\ ReadGoto(p, "recovering")
     \/ /\ Recovering(p) /\ Unlocked(p)
        /\ ReadGoto(p, "none")
        /\ UNCHANGED <<dispatcherVars, runtimeVars>>
  /\ UNCHANGED world

\* Whether catch_up returned or raised, the answer is the session read again.
Answer(p) ==
  /\ ReadAt(p, "recovering") /\ ~Recovering(p)
  /\ ReadGoto(p, "none")
  /\ UNCHANGED projectionVars

-----------------------------------------------------------------------------
\* Recovery at the start of the application, live events, maintenance.
Application(p) ==
  /\ \/ BeginRecover(p) /\ UNCHANGED world
     \/ Publish(p) \/ Maintain(p) \/ Fail(p)
  /\ UNCHANGED read

Restart(p) ==
  /\ Crash(p)
  /\ read' = [read EXCEPT ![p] = NoRead]

Next ==
  \/ Environment /\ UNCHANGED read
  \/ \E p \in Processes :
       \/ Step(p) /\ UNCHANGED read
       \/ BeginRead(p) \/ CatchUp(p) \/ Answer(p) \/ Application(p) \/ Restart(p)
       \/ \E n \in Seqs \cup {lastSeq} : Compare(p, n)

Spec == Init /\ [][Next]_vars

\* The calls go on, and readers come again and again who ask for the head of
\* the stream.  A reader who waits for the lock of the stream gets it if it is
\* free again and again.
Fairness ==
  \A p \in Processes :
    /\ WF_vars(Step(p) /\ UNCHANGED read)
    /\ WF_vars(BeginRead(p)) /\ SF_vars(Compare(p, lastSeq))
    /\ SF_vars(CatchUp(p)) /\ WF_vars(Answer(p))

FairSpec == Spec /\ Fairness

-----------------------------------------------------------------------------
\* The variables have their types.
TypeOK ==
  /\ DispatcherTypeOK
  /\ lastSeq \in 0..MaxSeq
  /\ state \in [Processes -> {"recovering", "ready", "failed"}]
  /\ buffer \in [Processes -> SUBSET Seqs]
  /\ call \in [Processes -> Call]
  /\ faults \in Nat
  /\ damaged \in SUBSET Backends
  /\ read \in [Processes -> Read]

\* Nothing is skipped: a checkpoint never covers an event that the backend has
\* not applied or that has no receipt, whatever fails between the three
\* transactions and however the projectors overtake each other.
CheckpointsProven ==
  \A b \in Backends \ damaged :
    checkpoint[b] <= watermark[b] /\ 1..checkpoint[b] \subseteq receipts[b]

\* No backend is handed an event before the ones that precede it.
AppliedInOrder ==
  \A p \in Processes :
    LET d == dispatch[p] IN
      d.backend \notin damaged /\ Draining(p) /\ d.watermark < NextSeq(p)
      => NextSeq(p) <= watermark[d.backend] + 1

\* A backend that only one dispatcher feeds is handed every event once, even
\* if the process stopped between applying it and recording that.
AppliedOnce ==
  \A p \in Processes :
    LET d == dispatch[p] IN
      d.backend \notin damaged \cup Commanded /\ Draining(p) /\ d.watermark < NextSeq(p)
      => NextSeq(p) > watermark[d.backend]

\* The counter behind max_pending_events_total counts what waits.
PendingCounted == \A p \in Processes : pendingCount[p] = Cardinality(Waiting(p))

BecomesReady(p) == FinishRecover(p) /\ state'[p] = "ready"

\* A stream becomes READY only when every backend that kept its rows has all
\* events up to the target its recovery began with.
ReadyCovers ==
  [][\A p \in Processes : \A b \in BackendsOf(p) \ damaged :
       BecomesReady(p) => watermark[b] >= call[p].target]_vars

\* While sessions are read, every event gets into the session, through crashes,
\* failed statements and lost snapshots, unless a receipt is missing.
EventuallyVisible ==
  \A p \in Readers, s \in Seqs :
    s <= lastSeq ~> Session(p) >= s \/ ~ReceiptsValid(p, MaxSeq)
=============================================================================
