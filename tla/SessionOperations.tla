-------------------------- MODULE SessionOperations --------------------------
(***************************************************************************)
(* The pure part of the session projection, session.py: what one event     *)
(* does to a SessionState.                                                 *)
(*                                                                         *)
(* A view is [last |-> last_seq, recent |-> recent_messages,               *)
(* mem |-> active_memories].  recent_messages holds the sequence numbers   *)
(* of its events; active_memories, a list with one record per key, is a    *)
(* function from keys to records or None.  Record ids are uuid5 of the     *)
(* event that created the record, so a record's id is that event's         *)
(* identity; within a session an event's identity is its sequence number   *)
(* (0 is the UUID(int=0) of the preflight).                                *)
(*                                                                         *)
(* Left out: kind, confidence, timestamps, provenance beyond the event     *)
(* that wrote the record, and the caller-supplied ids of legacy events.    *)
(***************************************************************************)
EXTENDS Naturals, Sequences

CONSTANTS
  MemKeys,      \* memory keys
  Values,       \* memory values
  RecentLimit,  \* SessionStore(recent_limit)
  Absent        \* an optional field that is None

ASSUME AbsentAssumption == Absent \notin MemKeys \cup Values \cup Nat
ASSUME RecentLimitAssumption == RecentLimit \in Nat \ {0}

Memory == [id : Nat, value : Values \cup {Absent}, version : Nat \ {0}, src : Nat, ev : Nat]

OperationTypes == {"REMEMBER", "UPDATE", "FORGET", "CONFIRM"}

Operation == [type : OperationTypes, key : MemKeys \cup {Absent},
              value : Values \cup {Absent}, mid : Nat \cup {Absent},
              expected : Nat \cup {Absent}]

\* The requirements MemoryOperation validates when it is built.
WellFormed(op) ==
  /\ op.type = "FORGET" => op.key # Absent \/ op.mid # Absent
  /\ op.type \in {"REMEMBER", "UPDATE"} =>
        op.key # Absent /\ op.mid = Absent

CommandBody == [kind : {"command"}, op : {op \in Operation : WellFormed(op)}]
PlainBody   == [kind : {"message", "other"}, op : {Absent}]

View == [last : Nat, recent : Seq(Nat), mem : [MemKeys -> Memory \cup {Absent}]]

EmptyView == [last |-> 0, recent |-> <<>>, mem |-> [k \in MemKeys |-> Absent]]

-----------------------------------------------------------------------------
ById(mem, i) == {k \in MemKeys : mem[k] # Absent /\ mem[k].id = i}

\* _memory_index: the key (at most one) of the record the operation is about.
Existing(mem, op) ==
  IF op.key # Absent THEN {k \in MemKeys : k = op.key /\ mem[k] # Absent}
  ELSE ById(mem, op.mid)

\* "memory key and memory_id identify different session memories"
Misidentified(mem, op) ==
  op.key # Absent /\ op.mid # Absent /\ Existing(mem, op) # ById(mem, op.mid)

VersionMismatch(m, op) == op.expected # Absent /\ m.version # op.expected

\* FORGET: a missing or newer record is left alone, a version mismatch and a
\* second event at the record's own sequence number are StaleWriteErrors.
ForgetRefused(mem, op, seq, ev) ==
  \E k \in Existing(mem, op) :
    /\ seq >= mem[k].src
    /\ VersionMismatch(mem[k], op) \/ (seq = mem[k].src /\ ev # mem[k].ev)

\* REMEMBER and UPDATE: StaleWriteError, or "memory_id is already used".
WriteRefused(mem, op, seq, ev) ==
  LET old == Existing(mem, op) IN
  \/ \E k \in old : seq = mem[k].src /\ ~(mem[k].value = op.value /\ mem[k].ev = ev)
  \/ op.type = "UPDATE" /\ old = {}
  \/ \E k \in old : /\ seq > mem[k].src
                    /\ op.type = "UPDATE"
                    /\ VersionMismatch(mem[k], op)
  \/ old = {} /\ ById(mem, ev) # {}

\* _apply_operation_to_state raises.
Refused(mem, op, seq, ev) ==
  \/ Misidentified(mem, op)
  \/ op.type = "CONFIRM"
  \/ op.type = "FORGET" /\ ForgetRefused(mem, op, seq, ev)
  \/ op.type \in {"REMEMBER", "UPDATE"} /\ WriteRefused(mem, op, seq, ev)

\* The record the operation is about is as new as the operation, or newer.
Superseded(mem, op, seq) ==
  \E k \in Existing(mem, op) :
    IF op.type = "FORGET" THEN seq < mem[k].src ELSE seq <= mem[k].src

Written(mem, op, seq, ev) ==
  [id      |-> IF mem[op.key] = Absent THEN ev ELSE mem[op.key].id,
   value   |-> op.value,
   version |-> IF mem[op.key] = Absent THEN 1 ELSE mem[op.key].version + 1,
   src     |-> seq,
   ev      |-> ev]

\* active_memories after an operation that is not refused.
ApplyOperation(mem, op, seq, ev) ==
  IF Superseded(mem, op, seq) THEN mem
  ELSE IF op.type = "FORGET"
       THEN [k \in MemKeys |-> IF k \in Existing(mem, op) THEN Absent ELSE mem[k]]
       ELSE [mem EXCEPT ![op.key] = Written(mem, op, seq, ev)]

-----------------------------------------------------------------------------
LastN(s, n) == SubSeq(s, IF Len(s) > n THEN Len(s) - n + 1 ELSE 1, Len(s))

\* The event at sequence number seq with this body cannot be applied.
Unapplicable(view, seq, body) ==
  body.kind = "command" /\ Refused(view.mem, body.op, seq, seq)

\* The state after the event at seq: the operation of a memory.command, the
\* bounded list of recent events, and the watermark, in one write.
Applied(view, seq, body) ==
  [last   |-> seq,
   recent |-> IF body.kind \in {"command", "message"}
              THEN LastN(Append(view.recent, seq), RecentLimit)
              ELSE view.recent,
   mem    |-> IF body.kind = "command" /\ ~Unapplicable(view, seq, body)
              THEN ApplyOperation(view.mem, body.op, seq, seq)
              ELSE view.mem]
=============================================================================
