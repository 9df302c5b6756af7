---------------------------- MODULE StartupProofs ----------------------------
(***************************************************************************)
(* Proofs about the start of a database: what the migrations accept they   *)
(* leave proven, what they left they accept again, and a process that      *)
(* comes late changes nothing.                                             *)
(***************************************************************************)
EXTENDS Startup, TLAPS

-----------------------------------------------------------------------------
(* The migrations.                                                         *)

\* The receipt of an event, and that of a projection.
ReceiptOf(e) == [stream |-> e.stream, seq |-> e.seq, event |-> e.event]

ProjectionReceiptOf(c, e) ==
  [projection |-> c.projection, stream |-> e.stream, seq |-> e.seq, event |-> e.event]

LogUnique(d) == \A e, f \in d.log : SamePlace(e, f) => e = f

\* What 0007 keeps: the log, the receipts, and snapshots that can be named.
LEMMA ResetFacts ==
  ASSUME NEW d \in Database
  PROVE  /\ Reset(d) \in Database
         /\ Reset(d).applied = d.applied
         /\ Reset(d).log = d.log
         /\ Reset(d).receipts = d.receipts
         /\ Reset(d).projected = d.projected
         /\ Reset(d).snapshots \subseteq d.snapshots
         /\ Reset(d).checkpoints \subseteq d.checkpoints
         /\ Nameable(Reset(d))
<1> DEFINE extended == {e.stream : e \in d.log} \cap Extended
           canonical == {CanonicalOf[s] : s \in extended}
           snapshots == {x \in d.snapshots : Resolved(x) /\ x.stream \notin canonical}
           leases == {x \in d.leases : Resolved(x) /\ x.stream \notin canonical}
           checkpoints == {c \in d.checkpoints : c.stream \notin extended \cup canonical}
<1>1. Reset(d) = [d EXCEPT !.snapshots = snapshots, !.leases = leases,
                           !.checkpoints = checkpoints]
  BY DEF Reset
<1>2. snapshots \subseteq d.snapshots /\ leases \subseteq d.leases
      /\ checkpoints \subseteq d.checkpoints
  OBVIOUS
<1>3. \A x \in snapshots : Resolved(x)
  OBVIOUS
<1> HIDE DEF snapshots, leases, checkpoints
<1>4. Reset(d) \in Database
  BY <1>1, <1>2 DEF Database
<1>5. /\ Reset(d).snapshots = snapshots /\ Reset(d).checkpoints = checkpoints
      /\ Reset(d).applied = d.applied /\ Reset(d).log = d.log
      /\ Reset(d).receipts = d.receipts /\ Reset(d).projected = d.projected
  BY <1>1 DEF Database
<1>6. Nameable(Reset(d))
  BY <1>3, <1>5 DEF Nameable
<1> QED
  BY <1>2, <1>4, <1>5, <1>6

\* 0008 and 0011 add receipts of the log, and change nothing else.
LEMMA BackfillSnapshotsFacts ==
  ASSUME NEW d \in Database
  PROVE  LET b == BackfillSnapshots(d)
         IN /\ b \in Database
            /\ b.applied = d.applied /\ b.log = d.log /\ b.snapshots = d.snapshots
            /\ b.checkpoints = d.checkpoints /\ b.projected = d.projected
            /\ d.receipts \subseteq b.receipts
            /\ \A e \in SnapshotEvents(d) : ReceiptOf(e) \in b.receipts
            /\ \A r \in b.receipts : r \in d.receipts \/ \E e \in SnapshotEvents(d) : r = ReceiptOf(e)
            /\ SnapshotEvents(d) \subseteq d.log
<1> DEFINE new == {ReceiptOf(e) : e \in SnapshotEvents(d)}
           receipts == d.receipts \cup new
<1>1. SnapshotEvents(d) \subseteq d.log
  BY DEF SnapshotEvents, Prefix
<1>2. new \subseteq [stream : Streams, seq : Nat \ {0}, event : Events]
  <2>1. d.log \subseteq [stream : Streams, seq : Nat \ {0}, event : Events]
    BY DEF Database
  <2> QED
    BY <1>1, <2>1 DEF ReceiptOf
<1>3. BackfillSnapshots(d) = [d EXCEPT !.receipts = receipts]
  BY DEF BackfillSnapshots, ReceiptOf
<1>4. receipts \subseteq [stream : Streams, seq : Nat \ {0}, event : Events]
  BY <1>2 DEF Database
<1>5. \A r \in receipts : r \in d.receipts \/ \E e \in SnapshotEvents(d) : r = ReceiptOf(e)
  OBVIOUS
<1>6. d.receipts \subseteq receipts /\ \A e \in SnapshotEvents(d) : ReceiptOf(e) \in receipts
  OBVIOUS
<1> HIDE DEF receipts
<1>7. BackfillSnapshots(d) \in Database
  BY <1>3, <1>4 DEF Database
<1>8. /\ BackfillSnapshots(d).applied = d.applied /\ BackfillSnapshots(d).log = d.log
      /\ BackfillSnapshots(d).snapshots = d.snapshots
      /\ BackfillSnapshots(d).checkpoints = d.checkpoints
      /\ BackfillSnapshots(d).projected = d.projected
      /\ BackfillSnapshots(d).receipts = receipts
  BY <1>3 DEF Database
<1> QED
  BY <1>1, <1>5, <1>6, <1>7, <1>8

\* 0009 and 0010 add receipts of the log, and change nothing else.
LEMMA BackfillCheckpointsFacts ==
  ASSUME NEW d \in Database
  PROVE  LET b == BackfillCheckpoints(d)
         IN /\ b \in Database
            /\ b.applied = d.applied /\ b.log = d.log /\ b.snapshots = d.snapshots
            /\ b.checkpoints = d.checkpoints /\ b.receipts = d.receipts
            /\ d.projected \subseteq b.projected
            /\ \A c \in d.checkpoints : \A e \in Prefix(d, c.stream, c.last) :
                 ProjectionReceiptOf(c, e) \in b.projected
            /\ \A r \in b.projected :
                 \/ r \in d.projected
                 \/ \E c \in d.checkpoints : \E e \in Prefix(d, c.stream, c.last) :
                      r = ProjectionReceiptOf(c, e)
<1> DEFINE of(c) == {ProjectionReceiptOf(c, e) : e \in Prefix(d, c.stream, c.last)}
           projected == d.projected \cup UNION {of(c) : c \in d.checkpoints}
           Rows == [projection : Projections, stream : Streams, seq : Nat \ {0}, event : Events]
<1>1. \A c \in d.checkpoints : \A e \in Prefix(d, c.stream, c.last) :
        ProjectionReceiptOf(c, e) \in Rows
  <2>1. d.log \subseteq [stream : Streams, seq : Nat \ {0}, event : Events]
    BY DEF Database
  <2>2. \A c \in d.checkpoints : c.projection \in Projections
    BY DEF Database
  <2> QED
    BY <2>1, <2>2 DEF ProjectionReceiptOf, Prefix
<1>2. BackfillCheckpoints(d) = [d EXCEPT !.projected = projected]
  BY DEF BackfillCheckpoints, ProjectionReceiptOf
<1>3. projected \subseteq Rows
  BY <1>1 DEF Database
<1>4. \A r \in projected :
        \/ r \in d.projected
        \/ \E c \in d.checkpoints : \E e \in Prefix(d, c.stream, c.last) :
             r = ProjectionReceiptOf(c, e)
  OBVIOUS
<1>5. /\ d.projected \subseteq projected
      /\ \A c \in d.checkpoints : \A e \in Prefix(d, c.stream, c.last) :
           ProjectionReceiptOf(c, e) \in projected
  OBVIOUS
<1> HIDE DEF projected
<1>6. BackfillCheckpoints(d) \in Database
  BY <1>2, <1>3 DEF Database
<1>7. /\ BackfillCheckpoints(d).applied = d.applied /\ BackfillCheckpoints(d).log = d.log
      /\ BackfillCheckpoints(d).snapshots = d.snapshots
      /\ BackfillCheckpoints(d).checkpoints = d.checkpoints
      /\ BackfillCheckpoints(d).receipts = d.receipts
      /\ BackfillCheckpoints(d).projected = projected
  BY <1>2 DEF Database
<1> QED
  BY <1>4, <1>5, <1>6, <1>7

\* What SnapshotsProvable asks for is what the backfill needs to prove them.
LEMMA SnapshotsBackfilled ==
  ASSUME NEW d \in Database, LogUnique(d), SnapshotsProvable(d)
  PROVE  SnapshotsProven(BackfillSnapshots(d))
<1> DEFINE b == BackfillSnapshots(d)
<1>1. /\ b.log = d.log /\ b.snapshots = d.snapshots
      /\ \A e \in SnapshotEvents(d) : ReceiptOf(e) \in b.receipts
      /\ \A r \in b.receipts : r \in d.receipts \/ \E e \in SnapshotEvents(d) : r = ReceiptOf(e)
      /\ SnapshotEvents(d) \subseteq d.log
  BY BackfillSnapshotsFacts
<1> HIDE DEF b
<1> SUFFICES ASSUME NEW x \in d.snapshots, Resolved(x)
             PROVE  /\ x.last >= 0
                    /\ \A n \in 1..x.last : \E e \in d.log :
                         /\ e.stream = x.stream /\ e.seq = n
                         /\ \E r \in b.receipts : SamePlace(r, e)
                         /\ \A r \in b.receipts : SamePlace(r, e) => r.event = e.event
  BY <1>1 DEF SnapshotsProven, b
<1>2. Complete(d, x.stream, x.last)
  BY DEF SnapshotsProvable
<1>3. x.last >= 0
  BY <1>2 DEF Complete
<1>4. ASSUME NEW n \in 1..x.last
      PROVE  \E e \in d.log :
               /\ e.stream = x.stream /\ e.seq = n
               /\ \E r \in b.receipts : SamePlace(r, e)
               /\ \A r \in b.receipts : SamePlace(r, e) => r.event = e.event
  <2>1. n \in {e.seq : e \in Prefix(d, x.stream, x.last)}
    BY <1>2 DEF Complete
  <2>2. PICK e \in Prefix(d, x.stream, x.last) : e.seq = n
    BY <2>1
  <2>3. e \in SnapshotEvents(d) /\ e \in d.log /\ e.stream = x.stream
    BY DEF SnapshotEvents, Prefix
  <2>4. ReceiptOf(e) \in b.receipts /\ SamePlace(ReceiptOf(e), e)
    BY <1>1, <2>3 DEF ReceiptOf, SamePlace
  <2>5. ASSUME NEW r \in b.receipts, SamePlace(r, e)
        PROVE  r.event = e.event
    <3>1. CASE r \in d.receipts
      BY <2>3, <2>5, <3>1 DEF SnapshotsProvable
    <3>2. ASSUME NEW f \in SnapshotEvents(d), r = ReceiptOf(f)
          PROVE  r.event = e.event
      <4>1. SamePlace(e, f) /\ f \in d.log
        BY <1>1, <2>5, <3>2 DEF ReceiptOf, SamePlace
      <4>2. e = f
        BY <2>3, <4>1 DEF LogUnique
      <4> QED
        BY <3>2, <4>2 DEF ReceiptOf
    <3> QED
      BY <1>1, <3>1, <3>2
  <2> QED
    BY <2>2, <2>3, <2>4, <2>5
<1> QED
  BY <1>3, <1>4

\* Provable checkpoints are proven once 0010 has run.
LEMMA CheckpointsBackfilled ==
  ASSUME NEW d \in Database, LogUnique(d), CheckpointsProvable(d)
  PROVE  CheckpointsProven(BackfillCheckpoints(d))
<1> DEFINE b == BackfillCheckpoints(d)
<1>1. /\ b.log = d.log /\ b.checkpoints = d.checkpoints
      /\ \A c \in d.checkpoints : \A e \in Prefix(d, c.stream, c.last) :
           ProjectionReceiptOf(c, e) \in b.projected
      /\ \A r \in b.projected :
           \/ r \in d.projected
           \/ \E c \in d.checkpoints : \E e \in Prefix(d, c.stream, c.last) :
                r = ProjectionReceiptOf(c, e)
  BY BackfillCheckpointsFacts
<1> HIDE DEF b
<1> SUFFICES ASSUME NEW c \in d.checkpoints
             PROVE  /\ c.last >= 0
                    /\ \A n \in 1..c.last : \E e \in d.log :
                         /\ e.stream = c.stream /\ e.seq = n
                         /\ \E r \in b.projected : r.projection = c.projection /\ SamePlace(r, e)
                         /\ \A r \in b.projected :
                              r.projection = c.projection /\ SamePlace(r, e) => r.event = e.event
  BY <1>1 DEF CheckpointsProven, b
<1>2. Complete(d, c.stream, c.last)
  BY DEF CheckpointsProvable
<1>3. c.last >= 0
  BY <1>2 DEF Complete
<1>4. ASSUME NEW n \in 1..c.last
      PROVE  \E e \in d.log :
               /\ e.stream = c.stream /\ e.seq = n
               /\ \E r \in b.projected : r.projection = c.projection /\ SamePlace(r, e)
               /\ \A r \in b.projected :
                    r.projection = c.projection /\ SamePlace(r, e) => r.event = e.event
  <2>1. n \in {e.seq : e \in Prefix(d, c.stream, c.last)}
    BY <1>2 DEF Complete
  <2>2. PICK e \in Prefix(d, c.stream, c.last) : e.seq = n
    BY <2>1
  <2>3. e \in d.log /\ e.stream = c.stream
    BY DEF Prefix
  <2>4. /\ ProjectionReceiptOf(c, e) \in b.projected
        /\ SamePlace(ProjectionReceiptOf(c, e), e)
        /\ ProjectionReceiptOf(c, e).projection = c.projection
    BY <1>1 DEF ProjectionReceiptOf, SamePlace
  <2>5. ASSUME NEW r \in b.projected, r.projection = c.projection, SamePlace(r, e)
        PROVE  r.event = e.event
    <3>1. CASE r \in d.projected
      BY <2>5, <3>1 DEF CheckpointsProvable
    <3>2. ASSUME NEW k \in d.checkpoints, NEW f \in Prefix(d, k.stream, k.last),
                 r = ProjectionReceiptOf(k, f)
          PROVE  r.event = e.event
      <4>1. SamePlace(e, f) /\ f \in d.log
        BY <2>5, <3>2 DEF ProjectionReceiptOf, SamePlace, Prefix
      <4>2. e = f
        BY <2>3, <4>1 DEF LogUnique
      <4> QED
        BY <3>2, <4>2 DEF ProjectionReceiptOf
    <3> QED
      BY <1>1, <3>1, <3>2
  <2> QED
    BY <2>2, <2>3, <2>4, <2>5
<1> QED
  BY <1>3, <1>4

\* What is proven stays proven when rows are dropped, and when receipts of
\* logged events are added.
LEMMA ProvenCheckpointsKept ==
  ASSUME NEW d, NEW b, CheckpointsProven(d),
         b.log = d.log, b.checkpoints \subseteq d.checkpoints, b.projected = d.projected
  PROVE  CheckpointsProven(b)
BY DEF CheckpointsProven

\* The database after 0008 keeps its types and its log; new receipts are of the
\* log, and nothing changes if 0007 and 0008 were applied before.
LEMMA After8Facts ==
  ASSUME NEW d \in Database
  PROVE  LET b == After8(d)
         IN /\ b \in Database
            /\ b.applied = d.applied /\ b.log = d.log /\ b.projected = d.projected
            /\ b.snapshots \subseteq d.snapshots /\ b.checkpoints \subseteq d.checkpoints
            /\ \A r \in b.receipts : r \in d.receipts \/ \E e \in d.log : r = ReceiptOf(e)
            /\ 7 \notin d.applied => Nameable(b)
            /\ {7, 8} \subseteq d.applied => b = d
<1> DEFINE reset == IF 7 \in d.applied THEN d ELSE Reset(d)
<1>1. /\ reset \in Database /\ reset.applied = d.applied /\ reset.log = d.log
      /\ reset.projected = d.projected /\ reset.receipts = d.receipts
      /\ reset.snapshots \subseteq d.snapshots /\ reset.checkpoints \subseteq d.checkpoints
      /\ 7 \notin d.applied => Nameable(reset)
      /\ 7 \in d.applied => reset = d
  BY ResetFacts
<1>2. After8(d) = IF 8 \in d.applied THEN reset ELSE BackfillSnapshots(reset)
  BY DEF After8
<1> HIDE DEF reset
<1>3. CASE 8 \in d.applied
  BY <1>1, <1>2, <1>3
<1>4. CASE 8 \notin d.applied
  <2> DEFINE b == BackfillSnapshots(reset)
  <2>1. /\ b \in Database /\ b.applied = reset.applied /\ b.log = reset.log
        /\ b.snapshots = reset.snapshots /\ b.checkpoints = reset.checkpoints
        /\ b.projected = reset.projected
        /\ \A r \in b.receipts :
             r \in reset.receipts \/ \E e \in SnapshotEvents(reset) : r = ReceiptOf(e)
        /\ SnapshotEvents(reset) \subseteq reset.log
    BY <1>1, BackfillSnapshotsFacts
  <2>2. After8(d) = b
    BY <1>2, <1>4
  <2> HIDE DEF b
  <2>3. Nameable(reset) => Nameable(b)
    BY <2>1 DEF Nameable
  <2> QED
    BY <1>1, <1>4, <2>1, <2>2, <2>3
<1> QED
  BY <1>3, <1>4

\* 0009 and 0010 touch projection receipts only, and nothing if they were
\* applied before.
LEMMA After10Facts ==
  ASSUME NEW d \in Database
  PROVE  LET b == After10(d)
         IN /\ b \in Database
            /\ b.applied = d.applied /\ b.log = d.log
            /\ b.snapshots = After8(d).snapshots /\ b.receipts = After8(d).receipts
            /\ {9, 10} \subseteq d.applied => b = After8(d)
<1>1. After8(d) \in Database /\ After8(d).applied = d.applied /\ After8(d).log = d.log
  BY After8Facts
<1>2. LET b == BackfillCheckpoints(After8(d))
      IN /\ b \in Database /\ b.applied = After8(d).applied /\ b.log = After8(d).log
         /\ b.snapshots = After8(d).snapshots /\ b.receipts = After8(d).receipts
  BY <1>1, BackfillCheckpointsFacts
<1> QED
  BY <1>1, <1>2 DEF After10

\* What the migrations accept they leave as the next version expects it.
LEMMA MigratedIsLegal ==
  ASSUME NEW d, LegalDatabase(d), Accepted(d)
  PROVE  LegalDatabase(Migrated(d)) /\ Migrated(d).applied = Versions
<1> DEFINE d8 == After8(d)
           d10 == After10(d)
           proven == IF 11 \in d.applied THEN d10 ELSE BackfillSnapshots(d10)
<1>1. d \in Database /\ LogUnique(d)
  BY DEF LegalDatabase, LogUnique
<1>2. PICK n \in 0..17 : d.applied = 1..n
  BY DEF LegalDatabase
<1>3. /\ d8 \in Database /\ d8.applied = d.applied /\ d8.log = d.log
      /\ d8.snapshots \subseteq d.snapshots
      /\ 7 \notin d.applied => Nameable(d8)
      /\ {7, 8} \subseteq d.applied => d8 = d
  BY <1>1, After8Facts
<1>4. /\ d10 \in Database /\ d10.applied = d.applied /\ d10.log = d.log
      /\ d10.snapshots = d8.snapshots
      /\ {9, 10} \subseteq d.applied => d10 = d8
  BY <1>1, After10Facts
<1>5. CheckpointsProven(d10)
  <2>1. CASE 10 \in d.applied
    <3>1. {7, 8} \subseteq d.applied /\ {9, 10} \subseteq d.applied
      BY <1>2, <2>1
    <3> QED
      BY <1>3, <1>4, <2>1, <3>1 DEF LegalDatabase
  <2>2. CASE 10 \notin d.applied
    <3>1. d10 = BackfillCheckpoints(d8)
      BY <2>2 DEF After10
    <3>2. CheckpointsProvable(d8)
      BY <2>2 DEF Accepted
    <3>3. LogUnique(d8)
      BY <1>1, <1>3 DEF LogUnique
    <3> QED
      BY <1>3, <3>1, <3>2, <3>3, CheckpointsBackfilled
  <2> QED
    BY <2>1, <2>2
<1>6. Nameable(d10)
  <2>1. CASE 7 \in d.applied
    BY <1>3, <1>4, <2>1 DEF LegalDatabase, Nameable
  <2>2. CASE 7 \notin d.applied
    BY <1>3, <1>4, <2>2 DEF Nameable
  <2> QED
    BY <2>1, <2>2
<1>7. /\ proven \in Database /\ proven.log = d.log
      /\ CheckpointsProven(proven) /\ Nameable(proven) /\ SnapshotsProven(proven)
  <2>1. CASE 11 \in d.applied
    <3>1. {7, 8} \subseteq d.applied /\ {9, 10} \subseteq d.applied
      BY <1>2, <2>1
    <3>2. proven = d
      BY <1>3, <1>4, <2>1, <3>1
    <3> QED
      BY <1>1, <1>4, <1>5, <1>6, <2>1, <3>2 DEF LegalDatabase
  <2>2. CASE 11 \notin d.applied
    <3>1. proven = BackfillSnapshots(d10)
      BY <2>2
    <3>2. LogUnique(d10)
      BY <1>1, <1>4 DEF LogUnique
    <3>3. SnapshotsProvable(d10)
      BY <2>2 DEF Accepted
    <3>4. SnapshotsProven(proven)
      BY <1>4, <3>1, <3>2, <3>3, SnapshotsBackfilled
    <3>5. /\ proven \in Database /\ proven.log = d10.log
          /\ proven.snapshots = d10.snapshots
          /\ proven.checkpoints = d10.checkpoints /\ proven.projected = d10.projected
      BY <1>4, <3>1, BackfillSnapshotsFacts
    <3>6. CheckpointsProven(proven)
      BY <1>5, <3>5, ProvenCheckpointsKept
    <3>7. Nameable(proven)
      BY <1>6, <3>5 DEF Nameable
    <3> QED
      BY <1>4, <3>4, <3>5, <3>6, <3>7
  <2> QED
    BY <2>1, <2>2
<1>8. Migrated(d) = [proven EXCEPT !.applied = Versions]
  BY DEF Migrated
<1> HIDE DEF proven
<1>9. /\ Migrated(d) \in Database /\ Migrated(d).applied = Versions
      /\ Migrated(d).log = d.log /\ Migrated(d).snapshots = proven.snapshots
      /\ Migrated(d).checkpoints = proven.checkpoints
      /\ Migrated(d).projected = proven.projected
      /\ Migrated(d).receipts = proven.receipts
  BY <1>7, <1>8 DEF Database
<1>10. SnapshotsProven(Migrated(d)) /\ CheckpointsProven(Migrated(d)) /\ Nameable(Migrated(d))
  BY <1>7, <1>9 DEF SnapshotsProven, CheckpointsProven, Nameable
<1>11. \E k \in 0..17 : Migrated(d).applied = 1..k
  BY <1>9 DEF Versions
<1>12. LogUnique(Migrated(d))
  BY <1>1, <1>9 DEF LogUnique
<1> QED
  BY <1>9, <1>10, <1>11, <1>12 DEF LegalDatabase, LogUnique

\* What is proven is not refused.
LEMMA ProvenCheckpointsProvable ==
  ASSUME NEW d \in Database, LogUnique(d), CheckpointsProven(d)
  PROVE  CheckpointsProvable(d)
<1> SUFFICES ASSUME NEW c \in d.checkpoints
             PROVE  /\ Complete(d, c.stream, c.last)
                    /\ \A e \in Prefix(d, c.stream, c.last), r \in d.projected :
                         r.projection = c.projection /\ SamePlace(r, e) => r.event = e.event
  BY DEF CheckpointsProvable
<1>1. /\ \A e \in d.log : e.seq \in Nat \ {0}
      /\ c.last \in Int
  BY DEF Database
<1>2. c.last >= 0
  BY DEF CheckpointsProven
<1>3. \A n \in 1..c.last : \E e \in d.log :
         /\ e.stream = c.stream /\ e.seq = n
         /\ \A r \in d.projected :
              r.projection = c.projection /\ SamePlace(r, e) => r.event = e.event
  BY DEF CheckpointsProven
<1>4. \A e \in Prefix(d, c.stream, c.last) : e.seq \in 1..c.last
  BY <1>1 DEF Prefix
<1>5. \A n \in 1..c.last : \E e \in Prefix(d, c.stream, c.last) : e.seq = n
  BY <1>1, <1>3 DEF Prefix
<1>6. {e.seq : e \in Prefix(d, c.stream, c.last)} = 1..c.last
  BY <1>4, <1>5
<1>7. ASSUME NEW e \in Prefix(d, c.stream, c.last), NEW r \in d.projected,
             r.projection = c.projection, SamePlace(r, e)
      PROVE  r.event = e.event
  <2>1. PICK f \in d.log :
           /\ f.stream = c.stream /\ f.seq = e.seq
           /\ \A q \in d.projected :
                q.projection = c.projection /\ SamePlace(q, f) => q.event = f.event
    BY <1>3, <1>4
  <2>2. e = f
    BY <2>1 DEF LogUnique, SamePlace, Prefix
  <2> QED
    BY <1>7, <2>1, <2>2
<1> QED
  BY <1>2, <1>6, <1>7 DEF Complete

\* What is proven is not refused.
LEMMA ProvenSnapshotsProvable ==
  ASSUME NEW d \in Database, LogUnique(d), SnapshotsProven(d),
         NEW b \in Database, b.log = d.log, b.snapshots \subseteq d.snapshots,
         \A r \in b.receipts : r \in d.receipts \/ \E e \in d.log : r = ReceiptOf(e)
  PROVE  SnapshotsProvable(b)
<1>1. /\ \A e \in d.log : e.seq \in Nat \ {0}
      /\ \A x \in d.snapshots : x.last \in Int
  BY DEF Database
<1>2. ASSUME NEW x \in b.snapshots, Resolved(x)
      PROVE  /\ Complete(b, x.stream, x.last)
             /\ \A e \in Prefix(b, x.stream, x.last), r \in b.receipts :
                  SamePlace(r, e) => r.event = e.event
  <2>1. /\ x.last >= 0
        /\ \A n \in 1..x.last : \E e \in d.log :
             /\ e.stream = x.stream /\ e.seq = n
             /\ \A r \in d.receipts : SamePlace(r, e) => r.event = e.event
    BY <1>2 DEF SnapshotsProven
  <2>2. \A e \in Prefix(b, x.stream, x.last) : e.seq \in 1..x.last
    BY <1>1 DEF Prefix
  <2>3. \A n \in 1..x.last : \E e \in Prefix(b, x.stream, x.last) : e.seq = n
    BY <1>1, <2>1 DEF Prefix
  <2>4. {e.seq : e \in Prefix(b, x.stream, x.last)} = 1..x.last
    BY <2>2, <2>3
  <2>5. ASSUME NEW e \in Prefix(b, x.stream, x.last), NEW r \in b.receipts, SamePlace(r, e)
        PROVE  r.event = e.event
    <3>1. PICK f \in d.log :
             /\ f.stream = x.stream /\ f.seq = e.seq
             /\ \A q \in d.receipts : SamePlace(q, f) => q.event = f.event
      BY <2>1, <2>2
    <3>2. e = f
      BY <3>1 DEF LogUnique, SamePlace, Prefix
    <3>3. ASSUME NEW g \in d.log, r = ReceiptOf(g)
          PROVE  r.event = e.event
      <4>1. SamePlace(g, f)
        BY <2>5, <3>2, <3>3 DEF SamePlace, ReceiptOf
      <4>2. g = e
        BY <3>2, <4>1 DEF LogUnique
      <4> QED
        BY <3>3, <4>2 DEF ReceiptOf
    <3> QED
      BY <2>5, <3>1, <3>2, <3>3
  <2> QED
    BY <2>1, <2>4, <2>5 DEF Complete
<1>3. ASSUME NEW e \in SnapshotEvents(b), NEW r \in b.receipts, SamePlace(r, e)
      PROVE  r.event = e.event
  <2>1. PICK x \in b.snapshots : Resolved(x) /\ e \in Prefix(b, x.stream, x.last)
    BY DEF SnapshotEvents
  <2> QED
    BY <1>2, <1>3, <2>1
<1> QED
  BY <1>2, <1>3 DEF SnapshotsProvable

\* A process that saw an older state of a migrated database would not fail in
\* a migration: only the record of what was applied stops it.
LEMMA Readmitted ==
  ASSUME NEW d, LegalDatabase(d), d.applied = Versions, NEW S \in SUBSET Versions
  PROVE  Accepted([d EXCEPT !.applied = S])
<1> DEFINE b == [d EXCEPT !.applied = S]
<1>1. /\ d \in Database /\ LogUnique(d) /\ SnapshotsProven(d) /\ CheckpointsProven(d)
  <2>1. 10 \in d.applied /\ 11 \in d.applied
    BY DEF Versions
  <2> QED
    BY <2>1 DEF LegalDatabase, LogUnique
<1>2. /\ b \in Database /\ b.log = d.log /\ b.snapshots = d.snapshots
      /\ b.receipts = d.receipts /\ b.checkpoints = d.checkpoints
      /\ b.projected = d.projected
  BY <1>1 DEF Database
<1> HIDE DEF b
<1>3. /\ After8(b) \in Database /\ After8(b).log = d.log /\ After8(b).projected = d.projected
      /\ After8(b).snapshots \subseteq d.snapshots
      /\ After8(b).checkpoints \subseteq d.checkpoints
      /\ \A r \in After8(b).receipts : r \in d.receipts \/ \E e \in d.log : r = ReceiptOf(e)
  BY <1>2, After8Facts
<1>4. CheckpointsProvable(After8(b))
  <2>1. LogUnique(After8(b))
    BY <1>1, <1>3 DEF LogUnique
  <2>2. CheckpointsProven(After8(b))
    BY <1>1, <1>3, ProvenCheckpointsKept
  <2> QED
    BY <1>3, <2>1, <2>2, ProvenCheckpointsProvable
<1>5. SnapshotsProvable(After10(b))
  <2>1. /\ After10(b) \in Database /\ After10(b).log = b.log
        /\ After10(b).snapshots = After8(b).snapshots
        /\ After10(b).receipts = After8(b).receipts
    BY <1>2, After10Facts
  <2> QED
    BY <1>1, <1>2, <1>3, <2>1, ProvenSnapshotsProvable
<1> QED
  BY <1>4, <1>5 DEF Accepted, b

-----------------------------------------------------------------------------
(* The processes.                                                          *)

ProcessState ==
  [pc : {"closed", "migrating", "again", "open", "failed"}, seen : SUBSET Versions,
   retries : Nat, faults : Nat]

OpenIsMigrated == InService => database.applied = Versions

SeenIsCurrent ==
  \A p \in Processes : process[p].pc = "migrating" =>
    process[p].seen = database.applied \/ database.applied = Versions

\* A conflict costs a process one retry, and it meets only one.
RetriesCounted ==
  \A p \in Processes : process[p].pc \in {"closed", "again", "migrating", "failed"} =>
    \/ process[p].retries <= process[p].faults
    \/ /\ process[p].retries = process[p].faults + 1
       /\ database.applied = Versions
       /\ process[p].pc = "migrating" => process[p].seen = Versions

Started ==
  /\ LegalDatabase(database)
  /\ process \in [Processes -> ProcessState]
  /\ OpenIsMigrated
  /\ SeenIsCurrent
  /\ RetriesCounted

\* One process moves on; the database is as before, or all migrated.
LEMMA OneMoves ==
  ASSUME Started, LegalDatabase(database)',
         NEW p \in Processes, NEW s \in ProcessState,
         process' = [process EXCEPT ![p] = s],
         database.applied = Versions => database'.applied = Versions,
         database'.applied # database.applied => database'.applied = Versions,
         s.pc = "open" => database'.applied = Versions,
         s.pc = "migrating" => s.seen = database'.applied,
         s.pc \in {"closed", "again", "migrating", "failed"} =>
           \/ s.retries <= s.faults
           \/ s.retries = s.faults + 1 /\ database'.applied = Versions
  PROVE  Started'
<1>1. process \in [Processes -> ProcessState]
  BY DEF Started
<1>2. process' \in [Processes -> ProcessState]
  BY <1>1
<1>3. \A q \in Processes : process'[q] = IF q = p THEN s ELSE process[q]
  BY <1>1
<1>4. OpenIsMigrated'
  <2> SUFFICES ASSUME NEW q \in Processes, process'[q].pc = "open"
               PROVE  database'.applied = Versions
    BY DEF OpenIsMigrated, InService, Serving
  <2>1. CASE q = p
    BY <1>3, <2>1
  <2>2. CASE q # p
    BY <1>3, <2>2 DEF Started, OpenIsMigrated, InService, Serving
  <2> QED
    BY <2>1, <2>2
<1>5. SeenIsCurrent'
  <2> SUFFICES ASSUME NEW q \in Processes, process'[q].pc = "migrating"
               PROVE  process'[q].seen = database'.applied \/ database'.applied = Versions
    BY DEF SeenIsCurrent
  <2>1. CASE q = p
    BY <1>3, <2>1
  <2>2. CASE q # p
    BY <1>3, <2>2 DEF Started, SeenIsCurrent
  <2> QED
    BY <2>1, <2>2
<1>6. RetriesCounted'
  <2> SUFFICES ASSUME NEW q \in Processes, process'[q].pc \in {"closed", "again", "migrating", "failed"}
               PROVE  \/ process'[q].retries <= process'[q].faults
                      \/ /\ process'[q].retries = process'[q].faults + 1
                         /\ database'.applied = Versions
                         /\ process'[q].pc = "migrating" => process'[q].seen = Versions
    BY DEF RetriesCounted
  <2>1. CASE q = p
    BY <1>3, <2>1
  <2>2. CASE q # p
    BY <1>3, <2>2 DEF Started, RetriesCounted
  <2> QED
    BY <2>1, <2>2
<1> QED
  BY <1>2, <1>4, <1>5, <1>6 DEF Started

\* A process that is closed is in a state of its type.
LEMMA ClosedIsState == Closed \in ProcessState
BY DEF Closed, ProcessState

\* A process that has read the recorded versions.
LEMMA SeenUpdates ==
  ASSUME NEW d \in ProcessState, NEW S \in SUBSET Versions
  PROVE  /\ [d EXCEPT !.pc = "migrating", !.seen = S] \in ProcessState
         /\ [d EXCEPT !.pc = "migrating", !.seen = S].pc = "migrating"
         /\ [d EXCEPT !.pc = "migrating", !.seen = S].seen = S
         /\ [d EXCEPT !.pc = "migrating", !.seen = S].retries = d.retries
         /\ [d EXCEPT !.pc = "migrating", !.seen = S].faults = d.faults
BY DEF ProcessState

\* A process whose migration is over.
LEMMA FinishUpdates ==
  ASSUME NEW l \in {"open", "failed"}
  PROVE  /\ [Closed EXCEPT !.pc = l] \in ProcessState
         /\ [Closed EXCEPT !.pc = l].pc = l
         /\ [Closed EXCEPT !.pc = l].retries = 0
         /\ [Closed EXCEPT !.pc = l].faults = 0
BY DEF ProcessState, Closed

\* Reading the recorded versions keeps the start in order.
LEMMA BeginStarted ==
  ASSUME Started, NEW p \in Processes, Begin(p)
  PROVE  Started'
<1> DEFINE s == [process[p] EXCEPT !.pc = "migrating", !.seen = database.applied]
<1>1. process[p] \in ProcessState /\ database.applied \in SUBSET Versions
  BY DEF Started, LegalDatabase, Database
<1>2. /\ s \in ProcessState /\ s.pc = "migrating" /\ s.seen = database.applied
      /\ s.retries = process[p].retries /\ s.faults = process[p].faults
  BY <1>1, SeenUpdates
<1>3. process' = [process EXCEPT ![p] = s] /\ UNCHANGED database
  BY DEF Begin
<1>4. LegalDatabase(database)'
  BY <1>3 DEF Started
<1>5. \/ process[p].retries <= process[p].faults
      \/ process[p].retries = process[p].faults + 1 /\ database.applied = Versions
  <2>1. process[p].pc \in {"closed", "again"}
    BY DEF Begin
  <2> QED
    BY <2>1 DEF Started, RetriesCounted
<1> QED
  BY <1>2, <1>3, <1>4, <1>5, OneMoves

\* A retry keeps the start in order.
LEMMA RetriedStarted ==
  ASSUME Started, NEW p \in Processes, NEW fault \in {0, 1},
         process[p].pc = "migrating",
         process' = [process EXCEPT ![p] = Retried(p, fault)], UNCHANGED database,
         fault = 0 => process[p].seen # database.applied /\ process[p].seen # Versions
  PROVE  Started'
<1> DEFINE d == process[p]
           l == IF d.retries < MaxRetries THEN "again" ELSE "failed"
           s == [d EXCEPT !.pc = l, !.retries = d.retries + 1, !.faults = d.faults + fault]
<1>1. d \in ProcessState /\ d.retries \in Nat /\ d.faults \in Nat
  BY DEF Started, ProcessState
<1>2. s \in ProcessState /\ s.pc = l /\ s.retries = d.retries + 1 /\ s.faults = d.faults + fault
  <2>1. l \in {"again", "failed"}
    OBVIOUS
  <2>2. PICK n \in Nat, f \in Nat : n = d.retries + 1 /\ f = d.faults + fault
    BY <1>1
  <2>3. s = [d EXCEPT !.pc = l, !.retries = n, !.faults = f]
    BY <2>2
  <2> HIDE DEF l, d
  <2>4. /\ [d EXCEPT !.pc = l, !.retries = n, !.faults = f] \in ProcessState
        /\ [d EXCEPT !.pc = l, !.retries = n, !.faults = f].pc = l
        /\ [d EXCEPT !.pc = l, !.retries = n, !.faults = f].retries = n
        /\ [d EXCEPT !.pc = l, !.retries = n, !.faults = f].faults = f
    BY <1>1, <2>1 DEF ProcessState
  <2> HIDE DEF s
  <2> QED
    BY <2>2, <2>3, <2>4
<1>3. Retried(p, fault) = s
  BY DEF Retried
<1>4. \/ d.retries <= d.faults
      \/ /\ d.retries = d.faults + 1
         /\ database.applied = Versions
         /\ d.seen = Versions
  BY DEF Started, RetriesCounted
<1>5. fault = 0 => database.applied = Versions /\ d.seen # Versions
  BY DEF Started, SeenIsCurrent
<1>6. \/ s.retries <= s.faults
      \/ s.retries = s.faults + 1 /\ database.applied = Versions
  <2> HIDE DEF s, d
  <2>1. CASE fault = 0
    BY <1>1, <1>2, <1>4, <1>5, <2>1
  <2>2. CASE fault = 1
    BY <1>1, <1>2, <1>4, <2>2
  <2> QED
    BY <2>1, <2>2
<1>7. LegalDatabase(database)'
  BY DEF Started
<1>8. l # "open" /\ l # "migrating"
  OBVIOUS
<1> HIDE DEF s, l
<1> QED
  BY <1>2, <1>3, <1>6, <1>7, <1>8, OneMoves

\* The transaction of the migrations keeps the start in order.
LEMMA MigrateStarted ==
  ASSUME Started, NEW p \in Processes, Migrate(p)
  PROVE  Started'
<1>1. process[p].pc = "migrating"
  BY DEF Migrate
<1>2. ASSUME NEW l \in {"open", "failed"}, Finish(p, l), UNCHANGED database,
             l = "open" => database.applied = Versions
      PROVE  Started'
  <2> DEFINE s == [Closed EXCEPT !.pc = l]
  <2>1. s \in ProcessState /\ s.pc = l /\ s.retries = 0 /\ s.faults = 0
    BY FinishUpdates
  <2>2. process' = [process EXCEPT ![p] = s]
    BY <1>2 DEF Finish
  <2>3. LegalDatabase(database)'
    BY <1>2 DEF Started
  <2>4. s.pc # "migrating" /\ s.retries <= s.faults /\ database'.applied = database.applied
    BY <1>2, <2>1
  <2> HIDE DEF s
  <2> QED
    BY <1>2, <2>1, <2>2, <2>3, <2>4, OneMoves
<1>3. CASE process[p].seen = Versions /\ Finish(p, "open") /\ UNCHANGED <<database, tables>>
  <2>1. database.applied = Versions
    BY <1>1, <1>3 DEF Started, SeenIsCurrent
  <2> QED
    BY <1>2, <1>3, <2>1
<1>4. CASE Finish(p, "failed") /\ UNCHANGED <<database, tables>>
  BY <1>2, <1>4
<1>5. CASE /\ process[p].seen # Versions /\ process[p].seen # database.applied
           /\ process' = [process EXCEPT ![p] = Retried(p, 0)]
           /\ UNCHANGED <<database, tables>>
  BY <1>1, <1>5, RetriedStarted
<1>6. CASE /\ ~Rejected(p) /\ process[p].seen = database.applied
           /\ database' = Migrated(database) /\ Finish(p, "open")
  <2>1. [database EXCEPT !.applied = process[p].seen] = database
    BY <1>6 DEF Started, LegalDatabase, Database
  <2>2. Accepted(database)
    BY <1>6, <2>1 DEF Rejected
  <2>3. LegalDatabase(database)' /\ database'.applied = Versions
    BY <1>6, <2>2, MigratedIsLegal DEF Started
  <2> DEFINE s == [Closed EXCEPT !.pc = "open"]
  <2>4. s \in ProcessState /\ s.pc = "open" /\ s.retries = 0 /\ s.faults = 0
    BY FinishUpdates
  <2>5. process' = [process EXCEPT ![p] = s]
    BY <1>6 DEF Finish
  <2> HIDE DEF s
  <2> QED
    BY <2>3, <2>4, <2>5, OneMoves
<1> QED
  BY <1>3, <1>4, <1>5, <1>6 DEF Migrate

\* A stop keeps the start in order.
LEMMA StopStarted ==
  ASSUME Started, NEW p \in Processes, Stop(p)
  PROVE  Started'
<1>1. Closed.pc = "closed" /\ Closed.retries = 0 /\ Closed.faults = 0
  BY DEF Closed
<1>2. process' = [process EXCEPT ![p] = Closed] /\ UNCHANGED database
  BY DEF Stop
<1>3. LegalDatabase(database)'
  BY <1>2 DEF Started
<1>4. /\ Closed.pc \notin {"open", "migrating"} /\ Closed.retries <= Closed.faults
      /\ database'.applied = database.applied
  BY <1>1, <1>2
<1> QED
  BY <1>2, <1>3, <1>4, ClosedIsState, OneMoves

\* A projected event keeps the start in order: the new snapshot is proven.
LEMMA ProjectStarted ==
  ASSUME Started, NEW p \in Processes, NEW e \in database.log, Project(p, e)
  PROVE  Started'
<1> DEFINE d == database
           rows == {x \in d.snapshots : x.stream = e.stream}
           row == [stream |-> e.stream, last |-> e.seq, named |-> TRUE]
           snapshots == (d.snapshots \ rows) \cup {row}
           receipts == d.receipts \cup {ReceiptOf(e)}
<1>1. /\ d \in Database /\ LogUnique(d) /\ d.applied = Versions
      /\ Nameable(d) /\ CheckpointsProven(d) /\ SnapshotsProven(d)
  <2>1. d.applied = Versions
    BY DEF Project, Started, OpenIsMigrated, InService
  <2>2. 7 \in d.applied /\ 10 \in d.applied /\ 11 \in d.applied
    BY <2>1 DEF Versions
  <2> QED
    BY <2>1, <2>2 DEF Started, LegalDatabase, LogUnique
<1>2. /\ e.seq = 1 \/ rows # {}
      /\ \A x \in rows : e.seq = x.last + 1
      /\ \A r \in d.receipts : SamePlace(r, e) => r = ReceiptOf(e)
      /\ database' = [d EXCEPT !.snapshots = snapshots, !.receipts = receipts]
      /\ UNCHANGED process
  BY DEF Project, ReceiptOf
<1>3. e.stream \in Streams /\ e.seq \in Nat \ {0} /\ e.event \in Events
  BY <1>1 DEF Database
<1>4. /\ snapshots \subseteq [stream : Streams, last : Int, named : BOOLEAN]
      /\ receipts \subseteq [stream : Streams, seq : Nat \ {0}, event : Events]
  <2>1. /\ row \in [stream : Streams, last : Int, named : BOOLEAN]
        /\ ReceiptOf(e) \in [stream : Streams, seq : Nat \ {0}, event : Events]
    BY <1>3 DEF ReceiptOf
  <2>2. /\ d.snapshots \subseteq [stream : Streams, last : Int, named : BOOLEAN]
        /\ d.receipts \subseteq [stream : Streams, seq : Nat \ {0}, event : Events]
    BY <1>1 DEF Database
  <2> HIDE DEF row
  <2> QED
    BY <2>1, <2>2
<1>5. \A x \in snapshots : x = row \/ (x \in d.snapshots /\ x \notin rows)
  OBVIOUS
<1>6. /\ \A r \in receipts : r \in d.receipts \/ r = ReceiptOf(e)
      /\ d.receipts \subseteq receipts /\ ReceiptOf(e) \in receipts
  OBVIOUS
<1>7. row.stream = e.stream /\ row.last = e.seq /\ row.named
  OBVIOUS
<1>8. \A x \in rows : x \in d.snapshots /\ x.stream = e.stream
  OBVIOUS
<1> HIDE DEF snapshots, receipts, row, rows
<1>9. /\ database' \in Database
      /\ database'.applied = d.applied /\ database'.log = d.log
      /\ database'.snapshots = snapshots /\ database'.receipts = receipts
      /\ database'.checkpoints = d.checkpoints /\ database'.projected = d.projected
  BY <1>1, <1>2, <1>4 DEF Database
<1>10. Nameable(database')
  BY <1>1, <1>5, <1>7, <1>9 DEF Nameable, Resolved
<1>11. CheckpointsProven(database')
  BY <1>1, <1>9, ProvenCheckpointsKept
\* The receipt of e does not contradict that of another event.
<1>12. ASSUME NEW f \in d.log, \A r \in d.receipts : SamePlace(r, f) => r.event = f.event
       PROVE  \A r \in receipts : SamePlace(r, f) => r.event = f.event
  <2> SUFFICES ASSUME NEW r \in receipts, SamePlace(r, f), r = ReceiptOf(e)
               PROVE  r.event = f.event
    BY <1>6, <1>12
  <2>1. SamePlace(e, f)
    BY DEF SamePlace, ReceiptOf
  <2>2. e = f
    BY <1>1, <2>1 DEF LogUnique
  <2> QED
    BY <2>2 DEF ReceiptOf
<1>13. ASSUME NEW x \in d.snapshots, NEW n \in 1..x.last
       PROVE  \E f \in d.log :
                /\ f.stream = x.stream /\ f.seq = n
                /\ \E r \in receipts : SamePlace(r, f)
                /\ \A r \in receipts : SamePlace(r, f) => r.event = f.event
  <2>1. PICK f \in d.log :
          /\ f.stream = x.stream /\ f.seq = n
          /\ \E r \in d.receipts : SamePlace(r, f)
          /\ \A r \in d.receipts : SamePlace(r, f) => r.event = f.event
    BY <1>1 DEF SnapshotsProven, Nameable
  <2> QED
    BY <1>6, <1>12, <2>1
<1>14. SnapshotsProven(database')
  <2> SUFFICES ASSUME NEW x \in snapshots
               PROVE  /\ x.last >= 0
                      /\ \A n \in 1..x.last : \E f \in d.log :
                           /\ f.stream = x.stream /\ f.seq = n
                           /\ \E r \in receipts : SamePlace(r, f)
                           /\ \A r \in receipts : SamePlace(r, f) => r.event = f.event
    BY <1>9 DEF SnapshotsProven
  <2>1. CASE x \in d.snapshots
    <3>1. x.last >= 0
      BY <1>1, <2>1 DEF SnapshotsProven, Nameable
    <3> QED
      BY <1>13, <2>1, <3>1
  <2>2. CASE x = row
    <3>1. ASSUME NEW n \in 1..e.seq, n # e.seq
          PROVE  \E f \in d.log :
                   /\ f.stream = e.stream /\ f.seq = n
                   /\ \E r \in receipts : SamePlace(r, f)
                   /\ \A r \in receipts : SamePlace(r, f) => r.event = f.event
      <4>1. PICK y \in rows : e.seq = y.last + 1
        BY <1>2, <1>3, <3>1
      <4>2. y \in d.snapshots /\ y.stream = e.stream /\ y.last \in Int
        BY <1>1, <1>8 DEF Database
      <4>3. n \in 1..y.last
        BY <1>3, <3>1, <4>1, <4>2
      <4> QED
        BY <1>13, <4>2, <4>3
    <3>2. /\ \E r \in receipts : SamePlace(r, e)
          /\ \A r \in receipts : SamePlace(r, e) => r.event = e.event
      BY <1>2, <1>6, <1>12 DEF SamePlace, ReceiptOf
    <3> QED
      BY <1>3, <1>7, <2>2, <3>1, <3>2
  <2> QED
    BY <1>5, <2>1, <2>2
<1>15. LegalDatabase(database')
  BY <1>1, <1>9, <1>10, <1>11, <1>14 DEF LegalDatabase, LogUnique, Started
<1> QED
  BY <1>2, <1>9, <1>15
  DEF Started, OpenIsMigrated, InService, Serving, SeenIsCurrent, RetriesCounted

\* However many processes open the database and stop again, the start is in
\* order: Started is inductive.
THEOREM StartedInductive ==
  ASSUME Started, [Next]_vars
  PROVE  Started'
<1>1. ASSUME NEW p \in Processes, Fault(p)
      PROVE  Started'
  <2>1. 1 \in {0, 1} /\ 1 # 0
    OBVIOUS
  <2> QED
    BY <1>1, <2>1, RetriedStarted DEF Fault
<1>2. CASE UNCHANGED <<database, process>>
  BY <1>2 DEF Started, OpenIsMigrated, InService, Serving, SeenIsCurrent, RetriesCounted
<1>3. CASE Opening
  BY <1>1, <1>3, BeginStarted, MigrateStarted, StopStarted DEF Opening
<1>4. CASE Projecting
  BY <1>4, ProjectStarted DEF Projecting
<1> QED
  BY <1>2, <1>3, <1>4 DEF Next, Calling, startupVars, vars

\* The deployments begin in order.
LEMMA InitStarted == Init => Started
<1> SUFFICES ASSUME Init PROVE Started
  OBVIOUS
<1>1. PICK d \in Deployments : StartupInit(d.database)
  BY DEF Init
<1>2. LegalDatabase(database)
  BY <1>1, DeploymentsAssumption DEF Legal, StartupInit
<1>3. \A p \in Processes : process[p] = Closed
  BY <1>1 DEF StartupInit
<1>4. process \in [Processes -> ProcessState]
  BY <1>1, ClosedIsState DEF StartupInit
<1>5. Closed.pc = "closed" /\ Closed.retries <= Closed.faults
  BY DEF Closed
<1> QED
  BY <1>2, <1>3, <1>4, <1>5
  DEF Started, OpenIsMigrated, InService, Serving, SeenIsCurrent, RetriesCounted

\* While a process serves, another that opens the database, or stops, changes
\* no table: what MigrationRunner.apply reads either is up to date, or is
\* refused by the primary key of schema_migrations.
THEOREM LateStartThm == Spec => LateStartIsHarmless
<1>1. Started /\ [Next]_vars => Started'
  BY StartedInductive
<1>2. ASSUME Started, InService, Opening
      PROVE  UNCHANGED <<database, tables>>
  <2>1. database.applied = Versions
    BY <1>2 DEF Started, OpenIsMigrated
  <2>2. ASSUME NEW p \in Processes, Migrate(p)
        PROVE  UNCHANGED <<database, tables>>
    BY <2>1, <2>2 DEF Migrate
  <2> QED
    BY <1>2, <2>2 DEF Opening, Begin, Fault, Stop
<1>3. Started /\ [Next]_vars => [InService /\ Opening => UNCHANGED <<database, tables>>]_vars
  BY <1>2
<1> QED
  BY InitStarted, <1>1, <1>3, PTL DEF Spec, LateStartIsHarmless
=============================================================================
