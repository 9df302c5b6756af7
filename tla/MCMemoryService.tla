--------------------------- MODULE MCMemoryService ---------------------------
(* MemoryService on small instances: two processes with one writer each,   *)
(* and the databases and clients that they may meet.                       *)
EXTENDS MemoryService, TLC

CONSTANTS p1, p2, w1, w2, ua, ub, pa, user, project, session1, a, b, m1, m2, m3, own,
          s1, s2, e1, e2, e3, c1, c2, now, stream, thread, x1, x2, index

MCScopeOf == ua :> user @@ ub :> user @@ pa :> project
MCNameOf == ua :> a @@ ub :> b @@ pa :> a
MCRank == session1 :> 0 @@ project :> 2 @@ user :> 3
MCCost == c1 :> 1 @@ c2 :> 2
MCProcessOf == w1 :> p1 @@ w2 :> p2
MCCanonicalOf == thread :> stream

-----------------------------------------------------------------------------
Row(k, version, id, c, status, s, seq) ==
  [key |-> k, version |-> version, id |-> id, content |-> c, status |-> status,
   stream |-> s, seq |-> seq, stamp |-> now]

Create(k, version, id, c, s, seq, event) ==
  [op |-> "create", scope |-> ScopeOf[k], key |-> k, id |-> id, version |-> version,
   content |-> c, stream |-> s, seq |-> seq, event |-> event, stamp |-> now]

Update(k, expected, c, s, seq, event) ==
  [op |-> "update", scope |-> ScopeOf[k], key |-> k, id |-> None, version |-> expected,
   content |-> c, stream |-> s, seq |-> seq, event |-> event, stamp |-> None]

Forget(k, id, expected, s, seq, event) ==
  [op |-> "forget", scope |-> user, key |-> k, id |-> id, version |-> expected,
   content |-> c1, stream |-> s, seq |-> seq, event |-> event, stamp |-> None]

Bound(r, k, version) ==
  [key |-> k, version |-> version, stream |-> r.stream, event |-> r.event,
   fingerprint |-> Fingerprint(r)]

Unfingerprinted(k, version, s, event) ==
  [key |-> k, version |-> version, stream |-> s, event |-> event, fingerprint |-> None]

Logged(s, seq, event) == [stream |-> s, seq |-> seq, event |-> event]

-----------------------------------------------------------------------------
(* Databases.                                                              *)

Empty(n) ==
  [applied |-> 1..n, log |-> {}, snapshots |-> {}, leases |-> {}, receipts |-> {},
   checkpoints |-> {}, projected |-> {}]

Log == {Logged(stream, 1, x1), Logged(thread, 1, x2)}

\* Before streams had names: two of them may share their rows.
Unnamed ==
  [Empty(5) EXCEPT
     !.log = Log,
     !.snapshots = {[stream |-> stream, last |-> 1, named |-> FALSE],
                    [stream |-> thread, last |-> 1, named |-> FALSE]},
     !.leases = {[stream |-> thread, named |-> FALSE]},
     !.checkpoints = {[projection |-> index, stream |-> thread, last |-> 1]}]

\* With names, without receipts.
Unproven ==
  [Empty(7) EXCEPT
     !.log = Log,
     !.snapshots = {[stream |-> thread, last |-> 1, named |-> TRUE]},
     !.checkpoints = {[projection |-> index, stream |-> stream, last |-> 1]}]

\* A snapshot of an event that the log lost.
Gapped ==
  [Empty(7) EXCEPT
     !.log = {Logged(stream, 2, x2)},
     !.snapshots = {[stream |-> stream, last |-> 2, named |-> TRUE]}]

\* A checkpoint whose receipt is of another event.
Contradicted ==
  [Empty(9) EXCEPT
     !.log = Log,
     !.checkpoints = {[projection |-> index, stream |-> stream, last |-> 1]},
     !.projected = {[projection |-> index, stream |-> stream, seq |-> 1, event |-> x2]}]

Deployment(d, rows, calls) ==
  [database |-> d, memories |-> rows,
   identities |-> IF 13 \in d.applied THEN Registered(ScopeOf, rows) ELSE {},
   writes |-> {}, requests |-> [calls |-> calls, queries |-> {}, names |-> {}]]

FirstCreate == {Create(ua, 1, m1, c1, s1, 1, e1)}

Legacy ==
  {Deployment(d, {}, FirstCreate) :
     d \in {Empty(0), Unnamed, Unproven, Gapped, Contradicted}}
  \cup {Deployment(Empty(12), rows, FirstCreate) :
          rows \in {{Row(ua, 1, m1, c1, "active", s1, 1), Row(ub, 1, m2, c1, "active", s1, 2)},
                    {Row(ua, 1, m1, c1, "active", s1, 1), Row(ub, 1, m1, c1, "active", s1, 2)}}}
  \cup {[Deployment(Empty(n), {Row(ua, 1, m1, c1, "active", s1, 1),
                                  Row(pa, 1, m1, c1, "active", s2, 1)}, FirstCreate)
           EXCEPT !.writes = {Unfingerprinted(ua, 1, s1, e1),
                              Unfingerprinted(pa, 1, s2, event)}] :
          n \in {14}, event \in {e1, e2}}

\* Two writers, and what they can do to one another.
Written ==
  {[Deployment(Empty(17), {}, calls) EXCEPT !.requests.calls = calls] :
     calls \in {
       \* competing and retried creations, of one id for two keys
       {Create(ua, 1, m1, c1, s1, 1, e1), Create(ua, 1, m1, c2, s2, 1, None),
        Create(ub, 1, m1, c1, s1, 2, e2), Create(pa, 1, m1, c1, s1, 1, e1)},
       \* a life: created, updated, deleted by its id, and created again
       {Create(ua, 1, m1, c1, s1, 1, e1), Update(ua, 1, c2, s1, 2, e2),
        Forget(None, m1, 2, s1, 3, e3), Create(ua, 4, m1, c1, s2, 1, None),
        Create(ua, 4, m1, c2, s2, 1, None)},
       \* competing updates and deletions
       {Create(ua, 1, m1, c1, s1, 1, None), Update(ua, 1, c1, s2, 1, e1),
        Update(ua, 1, c2, s1, 2, e2), Forget(ua, m1, 1, s1, 2, None),
        Forget(ua, m2, 2, s1, 3, e2)}}}

\* A session, two scopes, and writes under the eyes of recall.
Recalled ==
  {[Deployment(Empty(17), {Row(ua, 1, m1, c1, "active", s1, 1),
                              Row(pa, 1, m2, c2, "active", s2, 2)},
               {Update(ua, 1, c2, s1, 2, e1)})
      EXCEPT !.requests.queries =
               {[visible |-> {session1, project, user}, score |-> c1 :> 1 @@ c2 :> 2,
                 topK |-> 2, maxTokens |-> 2],
                [visible |-> {project, user}, score |-> c1 :> 1 @@ c2 :> 0,
                 topK |-> 1, maxTokens |-> 3]},
             !.requests.names = {a}],
   [Deployment(Empty(17), {Row(ua, 1, m1, c1, "active", s1, 1),
                              Row(ub, 1, m3, c1, "active", s1, 2)},
               {Forget(ua, None, 1, s1, 3, None), Create(ua, 3, m1, c2, s1, 4, None)})
      EXCEPT !.requests.queries =
               {[visible |-> {session1, user}, score |-> c1 :> 1 @@ c2 :> 1,
                 topK |-> k, maxTokens |-> 4 - k] : k \in {1, 2}},
             !.requests.names = {}]}

MCDeployments == Legacy \cup Written \cup Recalled
=============================================================================
