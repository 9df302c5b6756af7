----------------------------- MODULE EventStore -----------------------------
(***************************************************************************)
(* The event authority of MemWeave, events.py: two tables, events and      *)
(* stream_heads, and the one transaction that writes them.                 *)
(*                                                                         *)
(* EventStore.append opens BEGIN IMMEDIATE (storage/sqlite.py), so         *)
(* concurrent appends are serialised and each _append_once is one step.    *)
(* An attempt that fails with "database is locked" or a lost unique-key    *)
(* race rolls back and is tried again: it is a step that changes nothing.  *)
(*                                                                         *)
(* A row abstracts the columns the store compares to "body": event_type,   *)
(* payload, actor, request_id, causation and protocol version.  "id" is    *)
(* the event_id of a caller that supplies one; None stands for a uuid4     *)
(* drawn by the store, which no other row and no caller has.               *)
(*                                                                         *)
(* A definition with no use, placed above the one it resembles, is a       *)
(* mutant: the same definition with a plausible bug, which the runs must   *)
(* catch (README.md, "Mutants").                                           *)
(***************************************************************************)
EXTENDS Naturals

CONSTANTS
  Streams,    \* stream ids
  CallerIds,  \* event ids that callers supply
  IdemKeys,   \* idempotency keys
  Bodies,     \* what the store compares of an event beside its identity
  None        \* an argument that is not given

ASSUME NoneAssumption == None \notin CallerIds \cup IdemKeys

VARIABLES
  events,     \* the rows of the events table
  heads       \* stream_heads.last_seq, 0 for a stream without a row

storeVars == <<events, heads>>

\* The arguments of EventStore.append.
Request == [stream : Streams, id : CallerIds \cup {None},
            key : IdemKeys \cup {None}, body : Bodies]

Event == [stream : Streams, seq : Nat \ {0}, id : CallerIds \cup {None},
          key : IdemKeys \cup {None}, body : Bodies]

StoreInit ==
  /\ events = {}
  /\ heads = [s \in Streams |-> 0]

-----------------------------------------------------------------------------
\* _matches_existing: every immutable value of the row equals the argument.
SameValues(e, r) == e.stream = r.stream /\ e.key = r.key /\ e.body = r.body

\* The event_id lookup is over all streams, the key lookup over r's stream.
SameIdOfStream(r) == {e \in events : e.stream = r.stream /\ r.id # None /\ e.id = r.id}
SameId(r)  == {e \in events : r.id # None /\ e.id = r.id}
SameKey(r) == {e \in events : r.key # None /\ e.stream = r.stream /\ e.key = r.key}

\* The row append answers with instead of inserting: an event_id wins.
Earlier(r) == IF SameId(r) # {} THEN SameId(r) ELSE SameKey(r)

\* "event is immutable", "idempotency key conflicts with existing event".
AppendRefused(r) == \E e \in Earlier(r) : ~SameValues(e, r)

NextSeqFromZero(s) == heads[s]
NextSeq(s) == heads[s] + 1

NewEvent(r) == [stream |-> r.stream, seq |-> NextSeq(r.stream), id |-> r.id,
                key |-> r.key, body |-> r.body]

InsertKeepsHead(r) ==
  /\ events' = events \cup {NewEvent(r)}
  /\ heads' = [heads EXCEPT ![r.stream] = IF @ = 0 THEN 1 ELSE @]

\* One row more in memory_events, one up in stream_heads, in one transaction.
Insert(r) ==
  /\ events' = events \cup {NewEvent(r)}
  /\ heads' = [heads EXCEPT ![r.stream] = NextSeq(r.stream)]

\* append(r) answers with event e.
AppendEvent(r, e) ==
  /\ ~AppendRefused(r)
  /\ \/ /\ e \in Earlier(r)
        /\ UNCHANGED storeVars
     \/ /\ Earlier(r) = {}
        /\ e = NewEvent(r)
        /\ Insert(r)

\* find_existing: with an event_id the idempotency key is not looked at.
FindExisting(r) == IF r.id # None THEN SameId(r) ELSE SameKey(r)

ListAfter(s, n) == {e \in events : e.stream = s /\ e.seq > n}

LastSeq(s) == heads[s]

-----------------------------------------------------------------------------
\* Every stream is numbered 1, 2, 3, ... without a hole and without a
\* sequence number given twice, up to its head: what _append_once allocates
\* from stream_heads stays in step with the rows it inserts.
StreamsContiguous ==
  /\ \A e \in events : e.seq <= heads[e.stream]
  /\ \A s \in Streams : \A n \in 1..heads[s] :
        \E e \in events : e.stream = s /\ e.seq = n
  /\ \A e, f \in events : e.stream = f.stream /\ e.seq = f.seq => e = f

\* One event per caller-supplied event_id over all streams, and one per
\* idempotency key within a stream: retries never commit a second event.
IdentitiesUnique ==
  \A e, f \in events :
    \/ e.id # None /\ e.id = f.id
    \/ e.key # None /\ e.key = f.key /\ e.stream = f.stream
    => e = f
=============================================================================
