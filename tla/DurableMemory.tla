---------------------------- MODULE DurableMemory ----------------------------
(***************************************************************************)
(* DurableMemoryStore, durable.py: the versions of every long-lived memory *)
(* key, the registry that binds memory ids to keys, and the registry that  *)
(* binds write events to versions.  A call of create, update or forget is  *)
(* one transaction that looks for an earlier write of the same event,      *)
(* reads the latest version, and writes.  SQLite runs the three in one     *)
(* piece (BEGIN IMMEDIATE); another engine runs them with the statements   *)
(* of other transactions in between, so here they are three steps.         *)
(*                                                                         *)
(* The kind, value, confidence and evidence of a memory are one content.   *)
(***************************************************************************)
EXTENDS Naturals, FiniteSets

CONSTANTS
  Keys,      \* a key together with its scope and scope_id
  ScopeOf,   \* ScopeOf[k]: scope and scope_id of k
  Ids,       \* memory_id
  Sources,   \* source_stream_id
  WriteIds,  \* source_event_id of a call
  Contents,
  Stamps,    \* created_at and updated_at of the records given to create
  Writers,   \* threads that call the store
  None

ASSUME ScopeOfAssumption == DOMAIN ScopeOf = Keys

VARIABLES
  memories,    \* table durable_memories
  identities,  \* table durable_memory_identities
  writes,      \* table durable_memory_writes
  at,          \* where each writer is
  request,     \* the arguments of its call
  latest,      \* the row that its call read as the latest, if any
  answer       \* the record that its call returned, if any

tables == <<memories, identities, writes>>
callVars == <<at, request, latest, answer>>
durableVars == <<tables, callVars>>

Positive == Nat \ {0}
Scopes == {ScopeOf[k] : k \in Keys}

Memory ==
  [key : Keys, version : Positive, id : Ids, content : Contents,
   status : {"active", "superseded", "retracted"}, stream : Sources,
   seq : Positive, stamp : Stamps \cup {None}]

\* A call: version is the record's version for create, else expected_version.
Request ==
  [op : {"create", "update", "forget"}, scope : Scopes, key : Keys \cup {None},
   id : Ids \cup {None}, version : Positive, content : Contents, stream : Sources,
   seq : Positive, event : WriteIds \cup {None}, stamp : Stamps \cup {None}]

ASSUME NoneAssumption ==
  None \notin Keys \cup Ids \cup WriteIds \cup Stamps /\ None \notin Request

\* What the models and _validate_record, _validate_operation let through.
WellFormed(r) ==
  /\ r \in Request
  /\ r.key # None => ScopeOf[r.key] = r.scope
  /\ r.op # "forget" => r.key # None
  /\ r.op = "create" <=> r.stamp # None
  /\ r.op = "create" => r.id # None
  /\ r.op = "update" => r.id = None
  /\ r.key = None => r.id # None

\* _create_fingerprint and _operation_fingerprint: all but time and identity.
Fingerprint(r) == [r EXCEPT !.event = None, !.stamp = None]

Write == [key : Keys, version : Positive, stream : Sources, event : WriteIds,
          fingerprint : Request \cup {None}]

-----------------------------------------------------------------------------
(* Reads.  A row that may be missing is a set of at most one row.          *)

Newest(rows) == {m \in rows : \A n \in rows : n.version <= m.version}

LatestForKey(k) == Newest({m \in memories : m.key = k})

LatestForId(scope, id) ==
  Newest({m \in memories : ScopeOf[m.key] = scope /\ m.id = id})

GetActive(k) == {m \in LatestForKey(k) : m.status = "active"}

ListActive(scope) == UNION {GetActive(k) : k \in {k \in Keys : ScopeOf[k] = scope}}

ByKey(r) == IF r.key = None THEN {} ELSE LatestForKey(r.key)
ById(r) == IF r.id = None THEN {} ELSE LatestForId(r.scope, r.id)

\* _find_forget_target: the two ways to name the memory disagree.
TargetsDiffer(r) ==
  \/ \E m \in ByKey(r), n \in ById(r) : m.key # n.key \/ m.id # n.id
  \/ r.key # None /\ r.id # None /\ ByKey(r) = {}

Target(r) ==
  IF r.op # "forget" THEN LatestForKey(r.key)
  ELSE IF ByKey(r) # {} THEN ByKey(r) ELSE ById(r)

-----------------------------------------------------------------------------
(* Replays.                                                                *)

\* The event is bound to another stream, memory or request, or its row is
\* older than fingerprints.
Unreplayable(r, x) ==
  \/ x.stream # r.stream
  \/ ScopeOf[x.key] # r.scope
  \/ r.key # None /\ x.key # r.key
  \/ x.fingerprint # Fingerprint(r)

IsReplayOfActive(r, m) ==
  /\ m.seq = r.seq
  /\ m.stream = r.stream
  /\ m.id = r.id \/ r.id = None
  /\ m.version = IF r.op = "create" THEN r.version ELSE r.version + 1
  /\ m.status = IF r.op = "forget" THEN "retracted" ELSE "active"

\* _same_record_content, and the comparisons of update and forget with the
\* version that the event wrote.
IsReplayOf(r, m) ==
  /\ m.seq = r.seq
  /\ m.stream = r.stream
  /\ \/ /\ r.op = "create"
        /\ m.version = r.version
        /\ m.key = r.key /\ m.id = r.id /\ m.content = r.content
        /\ m.status \in {"active", "superseded"}
     \/ /\ r.op = "update"
        /\ m.version = r.version + 1
        /\ m.content = r.content
        /\ m.status \in {"active", "superseded"}
     \/ /\ r.op = "forget"
        /\ m.version = r.version + 1
        /\ r.id # None => m.id = r.id
        /\ m.status = "retracted"

\* The version that the call finds it has written already.
Replayed(r) ==
  {m \in memories : \E x \in writes :
      /\ x.event = r.event
      /\ ~Unreplayable(r, x)
      /\ m.key = x.key /\ m.version = x.version
      /\ IsReplayOf(r, m)}

-----------------------------------------------------------------------------
(* What a call does with the latest version.                               *)

\* _assert_newer
Newer(r, m) == m.stream = r.stream => m.seq < r.seq

\* _same_record: create with the record that is stored.
SameRecord(r, m) ==
  /\ m.status = "active"
  /\ m.version = r.version
  /\ m.id = r.id /\ m.content = r.content
  /\ m.stream = r.stream /\ m.seq = r.seq
  /\ m.stamp = r.stamp

\* A repeated call without a write identity: nothing is written.
Repeats(r, m) ==
  \/ r.op = "create" /\ SameRecord(r, m) /\ r.event = None
  \/ /\ r.op = "forget"
     /\ m.status = "retracted"
     /\ m.version = r.version + 1
     /\ m.seq = r.seq /\ m.stream = r.stream /\ m.content = r.content

ExtendsAnyVersion(r, m) ==
  /\ Newer(r, m)
  /\ IF r.op = "create" THEN m.id = r.id /\ r.version = m.version + 1
     ELSE m.status = "active"

Extends(r, m) ==
  /\ Newer(r, m)
  /\ \/ /\ r.op = "create"
        /\ m.id = r.id
        /\ r.version = m.version + 1
     \/ /\ r.op = "update" => m.status = "active"
        /\ r.op = "forget" => m.status # "retracted"
        /\ r.op # "create"
        /\ r.version = m.version

\* The call goes on to write: it starts the key or extends its latest version.
Admitted(r, found) ==
  \/ found = {} /\ r.op = "create" /\ r.version = 1
  \/ \E m \in found : Extends(r, m)

\* The record of create, _updated_record or _tombstone_record.
NewVersion(r, found) ==
  IF r.op = "create"
  THEN {[key |-> r.key, version |-> r.version, id |-> r.id, content |-> r.content,
         status |-> "active", stream |-> r.stream, seq |-> r.seq, stamp |-> r.stamp]}
  ELSE {[key |-> m.key, version |-> m.version + 1, id |-> m.id, content |-> r.content,
         status |-> IF r.op = "update" THEN "active" ELSE "retracted",
         stream |-> r.stream, seq |-> r.seq, stamp |-> None] : m \in found}

\* _supersede_latest: the tombstones stay.
Outdated(found) == {m \in found : m.status = "active"}
Superseded(found) == {[m EXCEPT !.status = "superseded"] : m \in Outdated(found)}

\* Rows and constraints that stop the writing transaction: the row that was
\* the latest no longer is active, a registry binds the id or the key to
\* another, the version or the event is taken.
Overtaken(found) == ~(Outdated(found) \subseteq memories)

IdentityTakenByKey(n) ==
  \E i \in identities : i.scope = ScopeOf[n.key] /\ i.key = n.key /\ i.id # n.id

IdentityTaken(n) ==
  \E i \in identities : i.scope = ScopeOf[n.key] /\ (i.id = n.id) # (i.key = n.key)

VersionTakenByActive(n) ==
  \E m \in memories : m.key = n.key /\ m.version = n.version /\ m.status # "active"

VersionTaken(n) == \E m \in memories : m.key = n.key /\ m.version = n.version

EventTaken(r) == r.event # None /\ \E x \in writes : x.event = r.event

Refused(r, found) ==
  \/ Overtaken(found)
  \/ EventTaken(r)
  \/ \E n \in NewVersion(r, found) : IdentityTaken(n) \/ VersionTaken(n)

BindingsOfAll(r, new) ==
  {[key |-> n.key, version |-> n.version, stream |-> r.stream, event |-> r.event,
    fingerprint |-> Fingerprint(r)] : n \in new}

\* The row that binds the event of the call to the version it writes.
Bindings(r, new) ==
  {[key |-> n.key, version |-> n.version, stream |-> r.stream, event |-> r.event,
    fingerprint |-> Fingerprint(r)] : n \in {n \in new : r.event # None}}

-----------------------------------------------------------------------------
(* The steps of a call.                                                    *)

DurableInit ==
  /\ at = [w \in Writers |-> "idle"]
  /\ request = [w \in Writers |-> None]
  /\ latest = [w \in Writers |-> {}]
  /\ answer = [w \in Writers |-> {}]

\* The call leaves the store: with a record, or with the error that names l.
Leave(w, l, result) ==
  /\ at' = [at EXCEPT ![w] = l]
  /\ answer' = [answer EXCEPT ![w] = result]
  /\ latest' = [latest EXCEPT ![w] = {}]
  /\ UNCHANGED request

Advance(w, l, found) ==
  /\ at' = [at EXCEPT ![w] = l]
  /\ latest' = [latest EXCEPT ![w] = found]
  /\ UNCHANGED <<request, answer>>

Call(w, r) ==
  /\ at[w] \in {"idle", "answered", "stale", "conflict", "failed"}
  /\ request' = [request EXCEPT ![w] = r]
  /\ at' = [at EXCEPT ![w] = IF r.event = None THEN "latest" ELSE "match"]
  /\ answer' = [answer EXCEPT ![w] = {}]
  /\ UNCHANGED <<latest, tables>>

FindWriteMatch(w) ==
  /\ at[w] = "match"
  /\ LET r == request[w] IN
       \/ ~EventTaken(r) /\ Advance(w, "latest", {})
       \/ EventTaken(r) /\ Replayed(r) # {} /\ Leave(w, "answered", Replayed(r))
       \/ EventTaken(r) /\ Replayed(r) = {} /\ Leave(w, "stale", {})
  /\ UNCHANGED tables

ReadLatest(w) ==
  /\ at[w] = "latest"
  /\ LET r == request[w]
         found == Target(r)
         repeated == {m \in found : Repeats(r, m)}
     IN IF r.op = "forget" /\ TargetsDiffer(r) THEN Leave(w, "conflict", {})
        ELSE IF repeated # {} THEN Leave(w, "answered", repeated)
        ELSE IF Admitted(r, found) THEN Advance(w, "write", found)
        ELSE Leave(w, "stale", {})
  /\ UNCHANGED tables

\* Supersedes the latest row and inserts into the three tables, or is refused
\* by a row count, a check or a constraint, which all raise StaleWriteError.
WriteVersion(w) ==
  /\ at[w] = "write"
  /\ LET r == request[w]
         found == latest[w]
         new == NewVersion(r, found)
     IN \/ /\ ~Refused(r, found)
           /\ memories' = (memories \ Outdated(found)) \cup Superseded(found) \cup new
           /\ identities' = identities \cup
                {[scope |-> ScopeOf[n.key], id |-> n.id, key |-> n.key] : n \in new}
           /\ writes' = writes \cup Bindings(r, new)
           /\ Leave(w, "answered", new)
        \/ /\ Refused(r, found)
           /\ Leave(w, "stale", {})
           /\ UNCHANGED tables

\* A statement fails: the transaction is rolled back.
Fail(w) ==
  /\ at[w] \in {"match", "latest", "write"}
  /\ Leave(w, "failed", {})
  /\ UNCHANGED tables

Step(w) == FindWriteMatch(w) \/ ReadLatest(w) \/ WriteVersion(w) \/ Fail(w)
=============================================================================
