---------------------------- MODULE MemoryHistory ----------------------------
(***************************************************************************)
(* What durable memory promises: the history of every key is one chain of  *)
(* versions.  A chain grows by one version at a time, nothing of it is     *)
(* ever changed or lost, only a memory that is there can be deleted, a     *)
(* deleted one can be created again, and an id stands for the same key for *)
(* ever.  The chains that a database starts with are given.                *)
(***************************************************************************)
EXTENDS Naturals

CONSTANT ScopeOfKey

VARIABLE history   \* the versions of all keys: key, version, id, content, deleted

Last(u) == \A v \in history : v.key = u.key => v.version <= u.version

Follows(v, u) ==
  /\ v.key = u.key
  /\ v.version = u.version + 1
  /\ v.id = u.id
  /\ v.deleted => ~u.deleted

Starts(v) ==
  /\ v.version = 1
  /\ ~v.deleted
  /\ \A u \in history :
       /\ u.key # v.key
       /\ ScopeOfKey[u.key] = ScopeOfKey[v.key] => u.id # v.id

Extend(v) ==
  /\ Starts(v) \/ \E u \in history : Last(u) /\ Follows(v, u)
  /\ history' = history \cup {v}

HistoryNext == \E v \in history' \ history : Extend(v)

HistorySpec == [][HistoryNext]_history
=============================================================================
