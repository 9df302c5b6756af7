------------------------------- MODULE Startup -------------------------------
(***************************************************************************)
(* Processes that open one database, sqlalchemy.py: apply_migrations runs  *)
(* MigrationRunner.apply in one transaction, which reads what was applied  *)
(* and runs and records the rest; a conflict with another process, or a    *)
(* lock, is tried again a few times.  On PostgreSQL the transactions of    *)
(* two processes overlap and the primary key of schema_migrations decides; *)
(* on SQLite they do not.  Once open, a process calls durable memory.      *)
(***************************************************************************)
EXTENDS DurableMemory, Migrations

CONSTANTS
  Processes,
  ProcessOf,     \* ProcessOf[w]: the process of writer w
  MaxRetries,    \* max_migration_retries
  Deployments    \* what the processes may find and be asked: see Init

\* The versions of every key are 1, 2, ..., all but the last superseded or
\* deleted.
Whole(rows) ==
  \A m \in rows :
    /\ \A v \in 1..m.version : \E n \in rows : n.key = m.key /\ n.version = v
    /\ \A n \in rows : n.key = m.key /\ n.version = m.version => n = m
    /\ m.status = "active" => \A n \in rows : n.key = m.key => n.version <= m.version
    /\ m.status = "superseded" =>
         \E n \in rows : n.key = m.key /\ n.version = m.version + 1

\* The version that write x is bound to is there and is what was asked for.
Kept(rows, x) ==
  \E m \in rows :
    /\ m.key = x.key /\ m.version = x.version
    /\ x.fingerprint # None =>
         LET r == [x.fingerprint EXCEPT !.event = x.event]
         IN /\ ~Unreplayable(r, x)
            /\ m.content = r.content
            /\ r.id \in {None, m.id} => IsReplayOf(r, m)

OnePerVersion(rows) ==
  \A x, y \in rows : x.key = y.key /\ x.version = y.version => x = y

\* What this or an older version of the program left.
LegalDatabase(d) ==
  /\ d \in Database
  /\ \E n \in 0..17 : d.applied = 1..n
  /\ \A e, f \in d.log : SamePlace(e, f) => e = f
  /\ 7 \in d.applied => Nameable(d)
  /\ 10 \in d.applied => CheckpointsProven(d)
  /\ 11 \in d.applied => SnapshotsProven(d)

Legal(d) ==
  /\ LegalDatabase(d.database)
  /\ d.memories \subseteq Memory
  /\ Whole(d.memories)
  /\ IF 13 \in d.database.applied
     THEN d.identities = Registered(ScopeOf, d.memories) /\ ~Ambiguous(d.identities)
     ELSE d.identities = {}
  /\ d.writes \subseteq Write
  /\ OnePerVersion(d.writes)
  /\ \A x \in d.writes : Kept(d.memories, x)
  /\ 16 \in d.database.applied => ~EventsRepeat(d.writes)
  /\ \A r \in d.requests.calls : WellFormed(r)

ASSUME DeploymentsAssumption == \A d \in Deployments : Legal(d)
ASSUME ProcessOfAssumption == ProcessOf \in [Writers -> Processes]
ASSUME MaxRetriesAssumption == MaxRetries \in Nat

VARIABLES
  database,  \* the tables that migrations are about, durable memory apart
  process,   \* how far each process is
  requests   \* what the clients of this deployment ask for: calls, queries, names

startupVars == <<database, process>>

Closed == [pc |-> "closed", seen |-> {}, retries |-> 0, faults |-> 0]

StartupInit(d) ==
  /\ database = d
  /\ process = [p \in Processes |-> Closed]

Serving(p) == process[p].pc = "open"

\* MigrationRunner.apply reads the versions that are recorded.
Begin(p) ==
  /\ process[p].pc \in {"closed", "again"}
  /\ process' = [process EXCEPT ![p] =
       [process[p] EXCEPT !.pc = "migrating", !.seen = database.applied]]
  /\ UNCHANGED <<database, tables>>

RetriedOnceLess(p, fault) ==
  [process[p] EXCEPT
     !.pc = IF process[p].retries + 1 < MaxRetries THEN "again" ELSE "failed",
     !.retries = process[p].retries + 1,
     !.faults = process[p].faults + fault]

\* A retryable error rolls the transaction back.
Retried(p, fault) ==
  [process[p] EXCEPT
     !.pc = IF process[p].retries < MaxRetries THEN "again" ELSE "failed",
     !.retries = process[p].retries + 1,
     !.faults = process[p].faults + fault]

Rejected(p) ==
  LET d == [database EXCEPT !.applied = process[p].seen]
  IN \/ ~Accepted(d)
     \/ 13 \notin d.applied /\ Ambiguous(Registered(ScopeOf, memories))
     \/ 16 \notin d.applied /\ EventsRepeat(writes)

Finish(p, l) == process' = [process EXCEPT ![p] = [Closed EXCEPT !.pc = l]]

MigrateAsSeen(p) ==
  /\ process[p].pc = "migrating"
  /\ IF Rejected(p) THEN Finish(p, "failed") /\ UNCHANGED <<database, tables>>
     ELSE /\ database' = Migrated([database EXCEPT !.applied = process[p].seen])
          /\ identities' = IF 13 \in process[p].seen THEN identities
                           ELSE Registered(ScopeOf, memories)
          /\ Finish(p, "open")
          /\ UNCHANGED <<memories, writes>>

\* The missing migrations run and are recorded, in one transaction.
Migrate(p) ==
  /\ process[p].pc = "migrating"
  /\ \/ /\ process[p].seen = Versions
        /\ Finish(p, "open")
        /\ UNCHANGED <<database, tables>>
     \/ /\ process[p].seen # Versions
        /\ Rejected(p)
        /\ Finish(p, "failed")
        /\ UNCHANGED <<database, tables>>
     \/ /\ process[p].seen # Versions
        /\ ~Rejected(p)
        /\ process[p].seen # database.applied
        /\ process' = [process EXCEPT ![p] = Retried(p, 0)]
        /\ UNCHANGED <<database, tables>>
     \/ /\ process[p].seen # Versions
        /\ ~Rejected(p)
        /\ process[p].seen = database.applied
        /\ database' = Migrated(database)
        /\ identities' = IF 13 \in database.applied THEN identities
                         ELSE Registered(ScopeOf, memories)
        /\ Finish(p, "open")
        /\ UNCHANGED <<memories, writes>>

\* The database is locked, or two transactions deadlock.
Fault(p) ==
  /\ process[p].pc = "migrating"
  /\ process' = [process EXCEPT ![p] = Retried(p, 1)]
  /\ UNCHANGED <<database, tables>>

\* The process stops and its transactions are rolled back.
Stop(p) ==
  /\ process[p].pc # "closed"
  /\ process' = [process EXCEPT ![p] = Closed]
  /\ at' = [w \in Writers |-> IF ProcessOf[w] = p THEN "idle" ELSE at[w]]
  /\ request' = [w \in Writers |-> IF ProcessOf[w] = p THEN None ELSE request[w]]
  /\ latest' = [w \in Writers |-> IF ProcessOf[w] = p THEN {} ELSE latest[w]]
  /\ answer' = [w \in Writers |-> IF ProcessOf[w] = p THEN {} ELSE answer[w]]
  /\ UNCHANGED <<database, tables>>

-----------------------------------------------------------------------------
(* A process that serves projects the next event of a stream: what         *)
(* apply_event does to the tables of this module (SessionCommands has the  *)
(* rest).  So the snapshots that 0007 dropped come back.                   *)

Project(p, e) ==
  LET rows == {x \in database.snapshots : x.stream = e.stream}
      receipt == [stream |-> e.stream, seq |-> e.seq, event |-> e.event]
  IN /\ Serving(p)
     /\ e.seq = 1 \/ rows # {}
     /\ \A x \in rows :
          /\ e.seq = x.last + 1
          /\ \A n \in 1..x.last : \E r \in database.receipts : r.stream = e.stream /\ r.seq = n
     /\ \A r \in database.receipts : SamePlace(r, e) => r = receipt
     /\ database' = [database EXCEPT
          !.snapshots = (database.snapshots \ rows) \cup
                          {[stream |-> e.stream, last |-> e.seq, named |-> TRUE]},
          !.receipts = database.receipts \cup {receipt}]
     /\ UNCHANGED <<durableVars, process>>

Projecting == \E p \in Processes : \E e \in database.log : Project(p, e)

-----------------------------------------------------------------------------
Init ==
  \E d \in Deployments :
    /\ StartupInit(d.database)
    /\ memories = d.memories
    /\ identities = d.identities
    /\ writes = d.writes
    /\ requests = d.requests
    /\ DurableInit

Opening ==
  \/ \E p \in Processes :
       /\ Begin(p) \/ Migrate(p) \/ Fault(p)
       /\ UNCHANGED callVars
  \/ \E p \in Processes : Stop(p)

Calling ==
  /\ \E w \in Writers :
       /\ Serving(ProcessOf[w])
       /\ Step(w) \/ \E r \in requests.calls : Call(w, r)
  /\ UNCHANGED startupVars

Next == (Opening \/ Projecting \/ Calling) /\ UNCHANGED requests

vars == <<durableVars, startupVars, requests>>

Spec == Init /\ [][Next]_vars

-----------------------------------------------------------------------------
(* Properties of the start.                                                *)

InService == \E p \in Processes : Serving(p)

\* What a process that serves relies on: all migrations are recorded, every
\* projection is proven by receipts and can be named, and the registries of
\* durable memory are complete and unambiguous.
ServedIsMigrated ==
  InService =>
    /\ database.applied = Versions
    /\ SnapshotsProven(database)
    /\ CheckpointsProven(database)
    /\ Nameable(database)
    /\ identities = Registered(ScopeOf, memories)
    /\ ~Ambiguous(identities)
    /\ ~EventsRepeat(writes)

\* A process that starts late leaves the tables alone: no migration runs again
\* over the data of a process that serves.
LateStartIsHarmless ==
  [][InService /\ Opening => UNCHANGED <<database, tables>>]_vars

\* A process fails to open only a database that the migrations refuse, or
\* after as many faults as there are retries: the conflict with other
\* processes costs each one retry.
RetriesSuffice ==
  \A p \in Processes :
    process[p].pc = "failed" /\ process[p].faults < MaxRetries =>
      \/ ~Accepted(database)
      \/ 13 \notin database.applied /\ Ambiguous(Registered(ScopeOf, memories))
      \/ 16 \notin database.applied /\ EventsRepeat(writes)

-----------------------------------------------------------------------------
(* Properties of durable memory.                                           *)

\* The versions of a key are numbered without gap or repetition, only the
\* last one is active, and only it is not superseded unless it is a tombstone.
ChainsAreWhole == Whole(memories)

\* A write event keeps answering with the version that it wrote, however the
\* chain went on, and no version has two of them.  (Not the deletion of a key
\* that also gave an id, one that no memory of the scope has: it was carried
\* out, and its repetition is rejected.)
ReplaysAreStable ==
  /\ \A x \in writes : x.fingerprint # None =>
       \E m \in memories :
         /\ m.key = x.key /\ m.version = x.version
         /\ x.fingerprint.id \in {None, m.id} =>
              m \in Replayed([x.fingerprint EXCEPT !.event = x.event])
  /\ OnePerVersion(writes)

\* A call that is answered has had its effect, itself or an identical call
\* before it: the version that it asked for is stored with its content.
AnswersAreEffects ==
  \A w \in Writers : at[w] = "answered" =>
    LET r == request[w]
    IN \E m \in answer[w], n \in memories :
         /\ n.key = m.key /\ n.version = m.version
         /\ r.key # None => n.key = r.key
         /\ r.op = "create" \/ r.key = None => n.id = r.id
         /\ n.content = r.content /\ n.stream = r.stream /\ n.seq = r.seq
         /\ n.version = IF r.op = "create" THEN r.version ELSE r.version + 1
         /\ (n.status = "retracted") <=> (r.op = "forget")

\* The stored versions are the chains of MemoryHistory.
History == INSTANCE MemoryHistory WITH
  ScopeOfKey <- ScopeOf,
  history <- {[key |-> m.key, version |-> m.version, id |-> m.id, content |-> m.content,
               deleted |-> m.status = "retracted"] : m \in memories}

ImplementsMemoryHistory == History!HistorySpec
=============================================================================
