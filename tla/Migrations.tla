----------------------------- MODULE Migrations -----------------------------
(***************************************************************************)
(* The packaged migrations, migrations/versions: what they do to a         *)
(* database d that an older version of the program left, and which         *)
(* databases they refuse.  Most of them only create tables, columns and    *)
(* indexes; 0007 drops session projections that may mix two streams, 0008, *)
(* 0009, 0010 and 0011 give projections the receipts that prove them, 0013 *)
(* registers memory ids, and 0016 insists on unique write events.          *)
(***************************************************************************)
EXTENDS Naturals, Integers

CONSTANTS
  Streams,     \* event streams of sessions
  Events,      \* events of the log: id and fingerprint
  Projections, \* projections with checkpoints
  Extended,    \* those with more segments than tenant and session
  CanonicalOf  \* CanonicalOf[s]: the stream of the same tenant and session

ASSUME ExtendedAssumption ==
  /\ Extended \subseteq Streams
  /\ CanonicalOf \in [Extended -> Streams \ Extended]

Versions == 1..17

\* schema_migrations, events, session_states, session_command_leases,
\* session_event_receipts, projection_watermarks, projection_event_receipts;
\* a row is named if it has its stream_id.
Database ==
  [applied : SUBSET Versions,
   log : SUBSET [stream : Streams, seq : Nat \ {0}, event : Events],
   snapshots : SUBSET [stream : Streams, last : Int, named : BOOLEAN],
   leases : SUBSET [stream : Streams, named : BOOLEAN],
   receipts : SUBSET [stream : Streams, seq : Nat \ {0}, event : Events],
   checkpoints : SUBSET [projection : Projections, stream : Streams, last : Int],
   projected : SUBSET [projection : Projections, stream : Streams, seq : Nat \ {0},
                       event : Events]]

\* The event at r's place of the log.
SamePlace(r, e) == r.stream = e.stream /\ r.seq = e.seq

Prefix(d, s, n) == {e \in d.log : e.stream = s /\ e.seq <= n}

Complete(d, s, n) == n >= 0 /\ {e.seq : e \in Prefix(d, s, n)} = 1..n

\* A snapshot row tells its stream by its stream_id, which 0006 added, or by
\* its storage id, unless that is the hash of an extended stream.
Resolved(x) == x.named \/ x.stream \notin Extended

ResetKeepsHashes(d) ==
  LET extended == {e.stream : e \in d.log} \cap Extended
      canonical == {CanonicalOf[s] : s \in extended}
  IN [d EXCEPT !.snapshots = {x \in d.snapshots : x.stream \notin canonical},
               !.leases = {x \in d.leases : x.stream \notin canonical},
               !.checkpoints = {c \in d.checkpoints : c.stream \notin extended \cup canonical}]

\* _upgrade of 0007: rows with a hash for a name, and rows, checkpoints and
\* leases of a session that has an extended stream, are to be replayed.
Reset(d) ==
  LET extended == {e.stream : e \in d.log} \cap Extended
      canonical == {CanonicalOf[s] : s \in extended}
      kept(rows) == {x \in rows : Resolved(x) /\ x.stream \notin canonical}
  IN [d EXCEPT !.snapshots = kept(d.snapshots),
               !.leases = kept(d.leases),
               !.checkpoints = {c \in d.checkpoints : c.stream \notin extended \cup canonical}]

\* 0008 _backfill and 0011 _validate_and_backfill
SnapshotEvents(d) ==
  UNION {Prefix(d, x.stream, x.last) : x \in {x \in d.snapshots : Resolved(x)}}

BackfillSnapshots(d) ==
  [d EXCEPT !.receipts = d.receipts \cup
     {[stream |-> e.stream, seq |-> e.seq, event |-> e.event] : e \in SnapshotEvents(d)}]

SnapshotsProvable(d) ==
  /\ \A x \in d.snapshots : Resolved(x) => Complete(d, x.stream, x.last)
  /\ \A e \in SnapshotEvents(d), r \in d.receipts : SamePlace(r, e) => r.event = e.event

\* 0009 _backfill and 0010 _validate_and_backfill
BackfillCheckpoints(d) ==
  [d EXCEPT !.projected = d.projected \cup
     UNION {{[projection |-> c.projection, stream |-> e.stream, seq |-> e.seq,
              event |-> e.event] : e \in Prefix(d, c.stream, c.last)} : c \in d.checkpoints}]

CheckpointsProvable(d) ==
  \A c \in d.checkpoints :
    /\ Complete(d, c.stream, c.last)
    /\ \A e \in Prefix(d, c.stream, c.last), r \in d.projected :
         r.projection = c.projection /\ SamePlace(r, e) => r.event = e.event

\* The database after the migrations up to 8, up to 10, and all of them.
After8(d) ==
  LET reset == IF 7 \in d.applied THEN d ELSE Reset(d)
  IN IF 8 \in d.applied THEN reset ELSE BackfillSnapshots(reset)

After10(d) ==
  IF {9, 10} \subseteq d.applied THEN After8(d) ELSE BackfillCheckpoints(After8(d))

Migrated(d) ==
  LET proven == IF 11 \in d.applied THEN After10(d) ELSE BackfillSnapshots(After10(d))
  IN [proven EXCEPT !.applied = Versions]

\* No migration that is to run raises ValueError.
Accepted(d) ==
  /\ {9, 10} \subseteq d.applied \/ CheckpointsProvable(After8(d))
  /\ 11 \in d.applied \/ SnapshotsProvable(After10(d))

-----------------------------------------------------------------------------
(* Durable memory: 0013 and 0016.                                          *)

Registered(scopeOf, memories) ==
  {[scope |-> scopeOf[m.key], id |-> m.id, key |-> m.key] : m \in memories}

\* An id with two keys, or a key with two ids.
Ambiguous(identities) ==
  \E i, j \in identities : i.scope = j.scope /\ (i.id = j.id) # (i.key = j.key)

EventsRepeat(writes) == \E x, y \in writes : x.event = y.event /\ x # y

-----------------------------------------------------------------------------
(* Properties of a database.                                               *)

\* Every event that a snapshot covers is in the log, has a receipt, and has no
\* other; the same for checkpoints.
SnapshotsProven(d) ==
  \A x \in d.snapshots : Resolved(x) =>
    /\ x.last >= 0
    /\ \A n \in 1..x.last : \E e \in d.log :
         /\ e.stream = x.stream /\ e.seq = n
         /\ \E r \in d.receipts : SamePlace(r, e)
         /\ \A r \in d.receipts : SamePlace(r, e) => r.event = e.event

CheckpointsProven(d) ==
  \A c \in d.checkpoints :
    /\ c.last >= 0
    /\ \A n \in 1..c.last : \E e \in d.log :
         /\ e.stream = c.stream /\ e.seq = n
         /\ \E r \in d.projected : r.projection = c.projection /\ SamePlace(r, e)
         /\ \A r \in d.projected :
              r.projection = c.projection /\ SamePlace(r, e) => r.event = e.event

\* No row is left whose stream cannot be told.
Nameable(d) == \A x \in d.snapshots : Resolved(x)
=============================================================================
