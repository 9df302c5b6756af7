------------------------- MODULE MemoryServiceProofs ------------------------
(***************************************************************************)
(* Proofs about durable memory and recall: whatever the writers and the    *)
(* processes do in whatever order, the chains of versions stay whole,      *)
(* write events keep answering, answers are effects, and the whole is a    *)
(* MemoryHistory; and what recall finds meanwhile is current, complete and *)
(* within its budget.                                                      *)
(* The invariant behind it says what a writer still knows of the row that  *)
(* it read as the latest (it is there, or was superseded meanwhile), and   *)
(* what recall still knows of the scopes that it read.                     *)
(***************************************************************************)
EXTENDS StartupProofs, MemoryService, FiniteSetTheorems, WellFoundedInduction

-----------------------------------------------------------------------------
(* Chains.                                                                 *)

\* Row m is in rows, or was superseded in place.
Lasts(m, rows) ==
  m \in rows \/ (m.status = "active" /\ [m EXCEPT !.status = "superseded"] \in rows)

Evolves(old, rows) == \A m \in old : Lasts(m, rows)

\* A superseded row is a row.
LEMMA SupersededIsMemory ==
  ASSUME NEW m \in Memory
  PROVE  LET s == [m EXCEPT !.status = "superseded"]
         IN /\ s \in Memory
            /\ s.key = m.key /\ s.version = m.version /\ s.id = m.id
            /\ s.content = m.content /\ s.stream = m.stream /\ s.seq = m.seq
            /\ s.status = "superseded"
BY DEF Memory

\* What Lasts gives for one row: it is there as it was, or superseded.
LEMMA LastsFacts ==
  ASSUME NEW m \in Memory, NEW rows, Lasts(m, rows)
  PROVE  \E n \in rows :
           /\ n \in Memory
           /\ n.key = m.key /\ n.version = m.version /\ n.id = m.id
           /\ n.content = m.content /\ n.stream = m.stream /\ n.seq = m.seq
           /\ n = m \/ (m.status = "active" /\ n.status = "superseded")
<1>1. CASE m \in rows
  BY <1>1
<1>2. CASE m \notin rows
  BY <1>2, SupersededIsMemory DEF Lasts
<1> QED
  BY <1>1, <1>2

\* Lasting is transitive.
LEMMA LastsTwice ==
  ASSUME NEW m \in Memory, NEW old, NEW rows, Lasts(m, old), Evolves(old, rows)
  PROVE  Lasts(m, rows)
<1>1. CASE m \in old
  BY <1>1 DEF Evolves
<1>2. CASE m \notin old
  <2> DEFINE s == [m EXCEPT !.status = "superseded"]
  <2>1. m.status = "active" /\ s \in old /\ s.status = "superseded"
    BY <1>2, SupersededIsMemory DEF Lasts
  <2>2. Lasts(s, rows)
    BY <2>1 DEF Evolves
  <2> HIDE DEF s
  <2>3. s \in rows
    BY <2>1, <2>2 DEF Lasts
  <2> QED
    BY <2>1, <2>3 DEF Lasts, s
<1> QED
  BY <1>1, <1>2

\* The first version of a key.
LEMMA WholeStart ==
  ASSUME NEW M \in SUBSET Memory, Whole(M), NEW n \in Memory,
         n.version = 1, n.status = "active",
         \A x \in M : ~(x.key = n.key /\ x.version = n.version)
  PROVE  Whole(M \cup {n}) /\ \A x \in M : x.key # n.key
<1>1. ASSUME NEW x \in M
      PROVE  x.key # n.key
  <2>1. x.version \in Nat \ {0}
    BY DEF Memory, Positive
  <2>2. 1 \in 1..x.version
    BY <2>1
  <2> QED
    BY <2>2 DEF Whole
<1>2. \A v \in 1..n.version : v = n.version
  OBVIOUS
<1>3. \A x \in M :
        /\ \A v \in 1..x.version : \E y \in M : y.key = x.key /\ y.version = v
        /\ \A y \in M : y.key = x.key /\ y.version = x.version => y = x
        /\ x.status = "active" => \A y \in M : y.key = x.key => y.version <= x.version
        /\ x.status = "superseded" => \E y \in M : y.key = x.key /\ y.version = x.version + 1
  BY DEF Whole
<1>4. \A x \in M \cup {n} : x \in M \/ x = n
  OBVIOUS
<1>5. Whole(M \cup {n})
  BY <1>1, <1>2, <1>3, <1>4 DEF Whole
<1> QED
  BY <1>1, <1>5

\* The next version of a key, the previous one superseded if it was active.
LEMMA WholeExtend ==
  ASSUME NEW M \in SUBSET Memory, Whole(M), NEW m \in M, NEW n \in Memory,
         n.key = m.key, n.version = m.version + 1, n.status \in {"active", "retracted"},
         \A x \in M : ~(x.key = n.key /\ x.version = n.version),
         NEW s \in Memory, s.key = m.key, s.version = m.version, s.status # "active"
  PROVE  /\ Whole((M \ {m}) \cup {s, n})
         /\ \A x \in M : x.key = m.key => x.version <= m.version
<1> DEFINE R == (M \ {m}) \cup {s, n}
<1>1. \A x \in M : x.version \in Nat \ {0}
  BY DEF Memory, Positive
<1>2. \A x \in M :
        /\ \A v \in 1..x.version : \E y \in M : y.key = x.key /\ y.version = v
        /\ \A y \in M : y.key = x.key /\ y.version = x.version => y = x
        /\ x.status = "active" => \A y \in M : y.key = x.key => y.version <= x.version
        /\ x.status = "superseded" => \E y \in M : y.key = x.key /\ y.version = x.version + 1
  BY DEF Whole
<1>3. ASSUME NEW x \in M, x.key = m.key
      PROVE  x.version <= m.version
  <2> SUFFICES ASSUME x.version > m.version PROVE FALSE
    BY <1>1
  <2>1. m.version + 1 \in 1..x.version
    BY <1>1
  <2> QED
    BY <1>2, <1>3, <2>1
<1>4. /\ \A x \in R : x = s \/ x = n \/ (x \in M /\ x # m)
      /\ s \in R /\ n \in R /\ \A x \in M : x # m => x \in R
  OBVIOUS
<1> HIDE DEF R
<1>5. \A x \in M : \E y \in R : y.key = x.key /\ y.version = x.version
  BY <1>4
<1>6. ASSUME NEW x \in R, NEW v \in 1..x.version
      PROVE  \E y \in R : y.key = x.key /\ y.version = v
  <2>1. CASE x \in M
    BY <1>2, <1>5, <1>6, <2>1
  <2>2. CASE x = s
    BY <1>2, <1>5, <1>6, <2>2
  <2>3. CASE x = n
    <3>1. v = n.version \/ v \in 1..m.version
      BY <1>1, <1>6, <2>3
    <3> QED
      BY <1>2, <1>4, <1>5, <2>3, <3>1
  <2> QED
    BY <1>4, <2>1, <2>2, <2>3
<1>7. ASSUME NEW x \in R, NEW y \in R, y.key = x.key, y.version = x.version
      PROVE  y = x
  <2>1. m.version + 1 # m.version
    BY <1>1
  <2> QED
    BY <1>2, <1>4, <1>7, <2>1
<1>8. ASSUME NEW x \in R, x.status = "active", NEW y \in R, y.key = x.key
      PROVE  y.version <= x.version
  <2>1. CASE x = n
    BY <1>1, <1>3, <1>4, <1>8, <2>1
  <2>2. CASE x \in M /\ x # m
    <3>1. x.key # m.key
      <4> SUFFICES ASSUME x.key = m.key PROVE FALSE
        OBVIOUS
      <4>1. m.version <= x.version /\ x.version <= m.version
        BY <1>2, <1>3, <1>8, <2>2
      <4>2. x.version = m.version
        BY <1>1, <2>2, <4>1
      <4> QED
        BY <1>2, <2>2, <4>2
    <3> QED
      BY <1>2, <1>4, <1>8, <2>2, <3>1
  <2> QED
    BY <1>4, <1>8, <2>1, <2>2
<1>9. ASSUME NEW x \in R, x.status = "superseded"
      PROVE  \E y \in R : y.key = x.key /\ y.version = x.version + 1
  <2>1. CASE x = s
    BY <1>4, <2>1
  <2>2. CASE x \in M
    BY <1>2, <1>5, <1>9, <2>2
  <2> QED
    BY <1>4, <1>9, <2>1, <2>2
<1>10. Whole(R)
  BY <1>6, <1>7, <1>8, <1>9 DEF Whole
<1> QED
  BY <1>3, <1>10 DEF R

\* What a write event is bound to outlives the changes of status.
LEMMA KeptEvolves ==
  ASSUME NEW old \in SUBSET Memory, NEW rows, Evolves(old, rows), NEW x \in Write,
         Kept(old, x)
  PROVE  Kept(rows, x)
<1> DEFINE r == [x.fingerprint EXCEPT !.event = x.event]
<1>1. PICK m \in old :
        /\ m.key = x.key /\ m.version = x.version
        /\ x.fingerprint # None =>
             /\ ~Unreplayable(r, x)
             /\ m.content = r.content
             /\ r.id \in {None, m.id} => IsReplayOf(r, m)
  BY DEF Kept
<1>2. Lasts(m, rows)
  BY DEF Evolves
<1>3. PICK n \in rows :
        /\ n.key = m.key /\ n.version = m.version /\ n.id = m.id
        /\ n.content = m.content /\ n.stream = m.stream /\ n.seq = m.seq
        /\ n = m \/ (m.status = "active" /\ n.status = "superseded")
  BY <1>2, LastsFacts
<1> HIDE DEF r
<1>4. IsReplayOf(r, m) => IsReplayOf(r, n)
  BY <1>3 DEF IsReplayOf
<1>5. x.fingerprint # None =>
        /\ ~Unreplayable(r, x)
        /\ n.content = r.content
        /\ r.id \in {None, n.id} => IsReplayOf(r, n)
  BY <1>1, <1>3, <1>4
<1> QED
  BY <1>1, <1>3, <1>5 DEF Kept, r

-----------------------------------------------------------------------------
(* The invariant.                                                          *)

Labels == {"idle", "match", "latest", "write", "answered", "stale", "conflict", "failed"}

DurableTyped ==
  /\ memories \in SUBSET Memory
  /\ writes \in SUBSET Write
  /\ at \in [Writers -> Labels]
  /\ request \in [Writers -> Request \cup {None}]
  /\ latest \in [Writers -> SUBSET Memory]
  /\ answer \in [Writers -> SUBSET Memory]
  /\ \A r \in requests.calls : WellFormed(r)
  /\ \A w \in Writers : at[w] # "idle" => WellFormed(request[w])

Registry ==
  13 \in database.applied =>
    identities = Registered(ScopeOf, memories) /\ ~Ambiguous(identities)

EventsKept ==
  /\ OnePerVersion(writes)
  /\ \A x \in writes : Kept(memories, x)
  /\ 16 \in database.applied => ~EventsRepeat(writes)

\* What a writer that is about to write knows of the row that it read: it is
\* the one that the call asks for, and at worst was superseded meanwhile.
Holds(r, found, rows) ==
  /\ \A m, n \in found : m = n
  /\ Admitted(r, found)
  /\ \A m \in found :
       /\ Lasts(m, rows)
       /\ ScopeOf[m.key] = r.scope
       /\ r.key # None => m.key = r.key
       /\ r.key = None => m.id = r.id

Held == \A w \in Writers : at[w] = "write" => Holds(request[w], latest[w], memories)

Chained ==
  /\ Started
  /\ DurableTyped
  /\ Whole(memories)
  /\ Registry
  /\ EventsKept
  /\ Held
  /\ AnswersAreEffects

\* Row n is what call r asked for.
Fulfils(r, n) ==
  /\ r.key # None => n.key = r.key
  /\ r.op = "create" \/ r.key = None => n.id = r.id
  /\ n.content = r.content /\ n.stream = r.stream /\ n.seq = r.seq
  /\ n.version = IF r.op = "create" THEN r.version ELSE r.version + 1
  /\ (n.status = "retracted") <=> (r.op = "forget")

\* The answer of a call is what it asked for, and that is stored.
Effect(r, result, rows) ==
  \E m \in result, n \in rows : n.key = m.key /\ n.version = m.version /\ Fulfils(r, n)

\* AnswersAreEffects in terms of Fulfils.
LEMMA AnswersAreFulfilled ==
  AnswersAreEffects <=>
    \A w \in Writers : at[w] = "answered" => Effect(request[w], answer[w], memories)
BY DEF AnswersAreEffects, Effect, Fulfils

\* What a call holds is still there, or superseded, after another's write.
LEMMA HoldsEvolves ==
  ASSUME NEW r, NEW found \in SUBSET Memory, NEW old, NEW rows,
         Holds(r, found, old), Evolves(old, rows)
  PROVE  Holds(r, found, rows)
<1>1. \A m \in found : Lasts(m, rows)
  BY LastsTwice DEF Holds
<1> QED
  BY <1>1 DEF Holds

\* An effect stays an effect after another's write.
LEMMA EffectEvolves ==
  ASSUME NEW r, NEW result, NEW old \in SUBSET Memory, NEW rows,
         Effect(r, result, old), Evolves(old, rows)
  PROVE  Effect(r, result, rows)
<1>1. PICK m \in result, n \in old : n.key = m.key /\ n.version = m.version /\ Fulfils(r, n)
  BY DEF Effect
<1>2. Lasts(n, rows)
  BY DEF Evolves
<1>3. PICK x \in rows :
        /\ x.key = n.key /\ x.version = n.version /\ x.id = n.id
        /\ x.content = n.content /\ x.stream = n.stream /\ x.seq = n.seq
        /\ x = n \/ (n.status = "active" /\ x.status = "superseded")
  BY <1>2, LastsFacts
<1>4. Fulfils(r, x)
  BY <1>1, <1>3 DEF Fulfils
<1> QED
  BY <1>1, <1>3, <1>4 DEF Effect

\* No write is a case of evolving.
LEMMA EvolvesToItself == \A rows : Evolves(rows, rows)
BY DEF Evolves, Lasts

-----------------------------------------------------------------------------
(* A write.                                                                *)

\* Row n is the next version that call r writes, given what it read.
IsNext(r, found, n) ==
  /\ Fulfils(r, n)
  /\ ScopeOf[n.key] = r.scope
  /\ \/ found = {} /\ n.version = 1 /\ n.status = "active"
     \/ \E m \in found :
          /\ found = {m}
          /\ n.key = m.key /\ n.id = m.id /\ n.version = m.version + 1
          /\ n.status \in {"active", "retracted"}
          /\ n.status = "retracted" => m.status # "retracted"

\* The three tables after the write of row n.
Chain(M, found, n) == (M \ Outdated(found)) \cup Superseded(found) \cup {n}
Enrolled(I, n) == I \cup {[scope |-> ScopeOf[n.key], id |-> n.id, key |-> n.key]}
BoundTo(W, r, n) == W \cup Bindings(r, {n})

\* The row that an admitted call writes: a memory, the next of its key.
LEMMA NewVersionFacts ==
  ASSUME NEW r, WellFormed(r), NEW found \in SUBSET Memory, NEW rows, Holds(r, found, rows)
  PROVE  \E n \in Memory : NewVersion(r, found) = {n} /\ IsNext(r, found, n)
<1>1. /\ r \in Request
      /\ r.op \in {"create", "update", "forget"} /\ r.version \in Positive
      /\ r.content \in Contents /\ r.stream \in Sources /\ r.seq \in Positive
  BY DEF WellFormed, Request
<1>2. found = {} \/ \E m \in found : found = {m}
  BY DEF Holds
<1>3. CASE r.op = "create"
  <2> DEFINE n == [key |-> r.key, version |-> r.version, id |-> r.id, content |-> r.content,
                   status |-> "active", stream |-> r.stream, seq |-> r.seq, stamp |-> r.stamp]
  <2>1. r.key \in Keys /\ r.id \in Ids /\ r.stamp \in Stamps \cup {None} /\ ScopeOf[r.key] = r.scope
    BY <1>1, <1>3 DEF WellFormed, Request
  <2>2. n \in Memory
    BY <1>1, <2>1 DEF Memory
  <2>3. NewVersion(r, found) = {n}
    BY <1>3 DEF NewVersion
  <2>4. Fulfils(r, n) /\ ScopeOf[n.key] = r.scope
    BY <1>3, <2>1 DEF Fulfils
  <2>5. CASE found = {}
    <3>1. n.version = 1 /\ n.status = "active"
      BY <2>5 DEF Holds, Admitted
    <3> QED
      BY <2>2, <2>3, <2>4, <2>5, <3>1 DEF IsNext
  <2>6. CASE found # {}
    <3>1. PICK m \in found : found = {m} /\ Extends(r, m)
      BY <1>2, <2>6 DEF Holds, Admitted
    <3>2. n.key = m.key /\ n.id = m.id /\ n.version = m.version + 1 /\ n.status = "active"
      BY <1>3, <2>1, <3>1 DEF Holds, Extends, WellFormed
    <3> QED
      BY <2>2, <2>3, <2>4, <3>1, <3>2 DEF IsNext
  <2> QED
    BY <2>5, <2>6
<1>4. CASE r.op # "create"
  <2>1. PICK m \in found : found = {m} /\ Extends(r, m)
    BY <1>2, <1>4 DEF Holds, Admitted
  <2> DEFINE l == IF r.op = "update" THEN "active" ELSE "retracted"
             n == [key |-> m.key, version |-> m.version + 1, id |-> m.id,
                   content |-> r.content, status |-> l, stream |-> r.stream, seq |-> r.seq,
                   stamp |-> None]
  <2>2. m \in Memory /\ m.key \in Keys /\ m.id \in Ids /\ m.version + 1 \in Positive
    BY DEF Memory, Positive
  <2>3. n \in Memory
    BY <1>1, <2>2 DEF Memory
  <2>4. NewVersion(r, found) = {n}
    BY <1>4, <2>1 DEF NewVersion
  <2>5. Fulfils(r, n) /\ ScopeOf[n.key] = r.scope
    BY <1>1, <1>4, <2>1 DEF Fulfils, Holds, Extends
  <2>6. n.status = "retracted" => m.status # "retracted"
    BY <1>1, <1>4, <2>1 DEF Extends
  <2> QED
    BY <2>1, <2>3, <2>4, <2>5, <2>6 DEF IsNext
<1> QED
  BY <1>3, <1>4

\* Adding the next version to a whole table gives a whole table.
LEMMA VersionAdded ==
  ASSUME NEW M \in SUBSET Memory, Whole(M), NEW found \in SUBSET Memory, NEW r,
         NEW n \in Memory, IsNext(r, found, n),
         \A x \in M : ~(x.key = n.key /\ x.version = n.version),
         Outdated(found) \subseteq M,
         \A m \in found : Lasts(m, M)
  PROVE  LET R == Chain(M, found, n)
         IN /\ R \in SUBSET Memory
            /\ Whole(R)
            /\ Evolves(M, R)
            /\ n \in R
            /\ \A x \in R : x = n \/ \E y \in M : /\ x.key = y.key /\ x.version = y.version
                                                  /\ x.id = y.id /\ x.content = y.content
                                                  /\ (x.status = "retracted") <=> (y.status = "retracted")
            /\ found = {} => \A x \in M : x.key # n.key
            /\ \A m \in found : m \in M /\ \A x \in M : x.key = m.key => x.version <= m.version
<1> DEFINE R == Chain(M, found, n)
<1>1. CASE found = {}
  <2>1. R = M \cup {n}
    BY <1>1 DEF Chain, Outdated, Superseded
  <2>2. Whole(M \cup {n}) /\ \A x \in M : x.key # n.key
    BY <1>1, WholeStart DEF IsNext
  <2>3. Evolves(M, M \cup {n})
    BY DEF Evolves, Lasts
  <2> QED
    BY <1>1, <2>1, <2>2, <2>3
<1>2. CASE found # {}
  <2>1. PICK m \in found : /\ found = {m}
                           /\ n.key = m.key /\ n.version = m.version + 1
                           /\ n.status \in {"active", "retracted"}
    BY <1>2 DEF IsNext
  <2>2. m \in M
    BY <2>1 DEF Lasts, Outdated
  <2>3. PICK s \in Memory :
          /\ R = (M \ {m}) \cup {s, n}
          /\ s.key = m.key /\ s.version = m.version /\ s.id = m.id /\ s.content = m.content
          /\ \/ s = m
             \/ /\ s.status = "superseded" /\ m.status = "active"
                /\ s = [m EXCEPT !.status = "superseded"]
          /\ s.status # "active"
    <3>1. CASE m.status = "active"
      <4> DEFINE t == [m EXCEPT !.status = "superseded"]
      <4>1. Outdated(found) = {m} /\ Superseded(found) = {t}
        BY <2>1, <3>1 DEF Outdated, Superseded
      <4>2. /\ t \in Memory /\ t.key = m.key /\ t.version = m.version /\ t.id = m.id
            /\ t.content = m.content /\ t.status = "superseded"
        BY SupersededIsMemory
      <4>3. R = (M \ {m}) \cup {t, n}
        BY <4>1 DEF Chain
      <4> QED
        BY <3>1, <4>2, <4>3
    <3>2. CASE m.status # "active"
      <4>1. Outdated(found) = {} /\ Superseded(found) = {}
        BY <2>1, <3>2 DEF Outdated, Superseded
      <4>2. R = (M \ {m}) \cup {m, n}
        BY <2>2, <4>1 DEF Chain
      <4> HIDE DEF R
      <4> QED
        BY <2>2, <3>2, <4>2
    <3> QED
      BY <3>1, <3>2
  <2> HIDE DEF R
  <2>4. /\ Whole((M \ {m}) \cup {s, n})
        /\ \A x \in M : x.key = m.key => x.version <= m.version
    BY <2>1, <2>2, <2>3, WholeExtend
  <2>5. Evolves(M, R)
    BY <2>2, <2>3 DEF Evolves, Lasts
  <2>6. \A x \in R : x = n \/ x = s \/ x \in M
    BY <2>3
  <2>7. (s.status = "retracted") <=> (m.status = "retracted")
    BY <2>3
  <2>8. R \in SUBSET Memory /\ n \in R
    BY <2>3
  <2> QED
    BY <1>2, <2>1, <2>2, <2>3, <2>4, <2>5, <2>6, <2>7, <2>8 DEF R
<1> QED
  BY <1>1, <1>2

\* The registry of ids grows by the id of the new row.
LEMMA RegistryGrows ==
  ASSUME NEW M \in SUBSET Memory, NEW R \in SUBSET Memory, NEW n \in R, Evolves(M, R),
         \A x \in R : x = n \/ \E y \in M : x.key = y.key /\ x.id = y.id,
         NEW I, I = Registered(ScopeOf, M), ~Ambiguous(I),
         \A i \in I : i.scope = ScopeOf[n.key] => (i.id = n.id <=> i.key = n.key)
  PROVE  LET J == Enrolled(I, n)
         IN J = Registered(ScopeOf, R) /\ ~Ambiguous(J)
<1> DEFINE of(m) == [scope |-> ScopeOf[m.key], id |-> m.id, key |-> m.key]
           J == I \cup {of(n)}
<1>1. \A y \in M : \E x \in R : x.key = y.key /\ x.id = y.id
  <2> SUFFICES ASSUME NEW y \in M PROVE \E x \in R : x.key = y.key /\ x.id = y.id
    OBVIOUS
  <2>1. y \in Memory /\ Lasts(y, R)
    BY DEF Evolves
  <2> QED
    BY <2>1, LastsFacts
<1>2. \A y \in M : of(y) \in Registered(ScopeOf, R)
  BY <1>1 DEF Registered
<1>3. \A x \in R : of(x) \in J
  BY DEF Registered
<1>4. J \subseteq Registered(ScopeOf, R)
  BY <1>2 DEF Registered
<1>5. Registered(ScopeOf, R) \subseteq J
  BY <1>3 DEF Registered
<1>6. of(n).scope = ScopeOf[n.key] /\ of(n).id = n.id /\ of(n).key = n.key
  OBVIOUS
<1>7. \A i \in J : i \in I \/ i = of(n)
  OBVIOUS
<1>9. J = Enrolled(I, n)
  BY DEF Enrolled
<1> HIDE DEF of, J
<1>8. ~Ambiguous(J)
  BY <1>6, <1>7 DEF Ambiguous
<1> QED
  BY <1>4, <1>5, <1>8, <1>9

\* The binding of a write event answers its call with the version it wrote.
LEMMA BindingKept ==
  ASSUME NEW r, WellFormed(r), r.event # None, NEW found, NEW n \in Memory,
         IsNext(r, found, n), NEW rows, n \in rows
  PROVE  LET x == [key |-> n.key, version |-> n.version, stream |-> r.stream,
                   event |-> r.event, fingerprint |-> Fingerprint(r)]
         IN x \in Write /\ Kept(rows, x)
<1> DEFINE x == [key |-> n.key, version |-> n.version, stream |-> r.stream,
                 event |-> r.event, fingerprint |-> Fingerprint(r)]
           f == Fingerprint(r)
           q == [f EXCEPT !.event = r.event]
<1>1. r \in Request
  BY DEF WellFormed
<1>2. /\ f \in Request
      /\ f = [r EXCEPT !.event = None, !.stamp = None]
  BY <1>1 DEF Fingerprint, Request
<1>3. /\ f.op = r.op /\ f.scope = r.scope /\ f.key = r.key /\ f.id = r.id
      /\ f.version = r.version /\ f.content = r.content /\ f.stream = r.stream
      /\ f.seq = r.seq /\ f.event = None /\ f.stamp = None
  BY <1>1, <1>2 DEF Request
<1>4. /\ q.op = r.op /\ q.scope = r.scope /\ q.key = r.key /\ q.id = r.id
      /\ q.version = r.version /\ q.content = r.content /\ q.stream = r.stream
      /\ q.seq = r.seq /\ q.event = r.event
      /\ [q EXCEPT !.event = None, !.stamp = None] = f
  BY <1>1, <1>2, <1>3 DEF Request
<1>5. x \in Write
  <2>1. r.stream \in Sources /\ r.event \in WriteIds /\ n.key \in Keys /\ n.version \in Positive
    BY <1>1 DEF Request, Memory
  <2> QED
    BY <1>2, <2>1 DEF Write
<1>6. /\ x.key = n.key /\ x.version = n.version /\ x.stream = r.stream /\ x.event = r.event
      /\ x.fingerprint = f
  OBVIOUS
<1> HIDE DEF x, f, q
<1>7. ~Unreplayable(q, x)
  BY <1>4, <1>6 DEF Unreplayable, Fingerprint, IsNext, Fulfils
<1>8. ASSUME q.id \in {None, n.id}
      PROVE  IsReplayOf(q, n)
  <2>1. r.op \in {"create", "update", "forget"} /\ r.id \in Ids \cup {None}
    BY <1>1 DEF Request
  <2>2. /\ n.seq = q.seq /\ n.stream = q.stream /\ n.content = q.content
        /\ n.version = IF q.op = "create" THEN q.version ELSE q.version + 1
        /\ (n.status = "retracted") <=> (q.op = "forget")
        /\ q.key # None => n.key = q.key
        /\ q.op = "create" => n.id = q.id
    BY <1>4 DEF IsNext, Fulfils
  <2>3. n.status \in {"active", "retracted"}
    BY DEF IsNext
  <2>4. q.op # "forget" => q.key # None
    BY <1>4 DEF WellFormed
  <2> QED
    BY <1>4, <1>8, <2>1, <2>2, <2>3, <2>4 DEF IsReplayOf
<1>9. [x.fingerprint EXCEPT !.event = x.event] = q
  BY <1>6 DEF q
<1>10. Kept(rows, x)
  BY <1>4, <1>6, <1>7, <1>8, <1>9 DEF Kept, IsNext, Fulfils
<1> QED
  BY <1>5, <1>10 DEF x, f

\* The registry of write events grows by the binding of the call, if it has an event.
LEMMA EventsGrow ==
  ASSUME NEW M \in SUBSET Memory, NEW R \in SUBSET Memory, Evolves(M, R),
         NEW r, WellFormed(r), NEW found, NEW n \in R, IsNext(r, found, n),
         \A x \in M : ~(x.key = n.key /\ x.version = n.version),
         NEW W \in SUBSET Write, OnePerVersion(W), \A x \in W : Kept(M, x),
         ~EventsRepeat(W), r.event # None => \A x \in W : x.event # r.event
  PROVE  LET V == BoundTo(W, r, n)
         IN /\ V \in SUBSET Write
            /\ OnePerVersion(V)
            /\ \A x \in V : Kept(R, x)
            /\ ~EventsRepeat(V)
<1>1. \A x \in W : Kept(R, x)
  BY KeptEvolves
<1>2. CASE r.event = None
  <2>1. BoundTo(W, r, n) = W
    BY <1>2 DEF BoundTo, Bindings
  <2> QED
    BY <1>1, <2>1
<1>3. CASE r.event # None
  <2> DEFINE b == [key |-> n.key, version |-> n.version, stream |-> r.stream,
                   event |-> r.event, fingerprint |-> Fingerprint(r)]
  <2>1. BoundTo(W, r, n) = W \cup {b}
    BY <1>3 DEF BoundTo, Bindings
  <2>2. b \in Write /\ Kept(R, b)
    BY <1>3, BindingKept
  <2>3. b.key = n.key /\ b.version = n.version /\ b.event = r.event
    OBVIOUS
  <2> HIDE DEF b
  <2>4. \A x \in W : ~(x.key = b.key /\ x.version = b.version)
    BY <2>3 DEF Kept
  <2>5. OnePerVersion(W \cup {b})
    BY <2>4 DEF OnePerVersion
  <2>6. ~EventsRepeat(W \cup {b})
    BY <1>3, <2>3 DEF EventsRepeat
  <2> QED
    BY <1>1, <2>1, <2>2, <2>5, <2>6
<1> QED
  BY <1>2, <1>3

\* What an accepted write does to the tables.
LEMMA WriteFacts ==
  ASSUME Chained, InService, UNCHANGED database, NEW w \in Writers, at[w] = "write",
         ~Refused(request[w], latest[w]),
         memories' = (memories \ Outdated(latest[w])) \cup Superseded(latest[w])
                       \cup NewVersion(request[w], latest[w]),
         identities' = identities \cup
           {[scope |-> ScopeOf[m.key], id |-> m.id, key |-> m.key] :
              m \in NewVersion(request[w], latest[w])},
         writes' = writes \cup Bindings(request[w], NewVersion(request[w], latest[w]))
  PROVE  \E n \in Memory :
           /\ NewVersion(request[w], latest[w]) = {n}
           /\ IsNext(request[w], latest[w], n)
           /\ \A x \in memories : ~(x.key = n.key /\ x.version = n.version)
           /\ \A x \in memories : ScopeOf[x.key] = ScopeOf[n.key] => (x.id = n.id <=> x.key = n.key)
           /\ latest[w] = {} => \A x \in memories : x.key # n.key
           /\ \A m \in latest[w] :
                m \in memories /\ \A x \in memories : x.key = m.key => x.version <= m.version
           /\ \A x \in memories' :
                \/ x = n
                \/ \E y \in memories : /\ x.key = y.key /\ x.version = y.version
                                       /\ x.id = y.id /\ x.content = y.content
                                       /\ (x.status = "retracted") <=> (y.status = "retracted")
           /\ n \in memories'
           /\ memories' \in SUBSET Memory /\ writes' \in SUBSET Write
           /\ Whole(memories') /\ Evolves(memories, memories')
           /\ Registry' /\ EventsKept'
<1> DEFINE r == request[w]
           found == latest[w]
<1>1. /\ memories \in SUBSET Memory /\ writes \in SUBSET Write /\ found \in SUBSET Memory
      /\ WellFormed(r) /\ Holds(r, found, memories) /\ Whole(memories)
  BY DEF Chained, DurableTyped, Held
<1>2. /\ identities = Registered(ScopeOf, memories) /\ ~Ambiguous(identities)
      /\ OnePerVersion(writes) /\ (\A x \in writes : Kept(memories, x)) /\ ~EventsRepeat(writes)
  <2>1. database.applied = Versions
    BY DEF Chained, Started, OpenIsMigrated
  <2> QED
    BY <2>1 DEF Versions, Chained, Registry, EventsKept
<1> HIDE DEF r, found
<1>3. PICK n \in Memory : NewVersion(r, found) = {n} /\ IsNext(r, found, n)
  BY <1>1, NewVersionFacts
<1>4. /\ Outdated(found) \subseteq memories
      /\ \A x \in memories : ~(x.key = n.key /\ x.version = n.version)
      /\ \A i \in identities : i.scope = ScopeOf[n.key] => (i.id = n.id <=> i.key = n.key)
      /\ r.event # None => \A x \in writes : x.event # r.event
  BY <1>3 DEF r, found, Refused, Overtaken, VersionTaken, IdentityTaken, EventTaken
<1>5. \A m \in found : Lasts(m, memories)
  BY <1>1 DEF Holds
<1> DEFINE R == Chain(memories, found, n)
<1>6. /\ R \in SUBSET Memory /\ Whole(R) /\ Evolves(memories, R) /\ n \in R
      /\ \A x \in R :
           \/ x = n
           \/ \E y \in memories : /\ x.key = y.key /\ x.version = y.version
                                  /\ x.id = y.id /\ x.content = y.content
                                  /\ (x.status = "retracted") <=> (y.status = "retracted")
      /\ found = {} => \A x \in memories : x.key # n.key
      /\ \A m \in found :
           m \in memories /\ \A x \in memories : x.key = m.key => x.version <= m.version
  BY <1>1, <1>3, <1>4, <1>5, VersionAdded
<1>7. memories' = R
  BY <1>3 DEF Chain, r, found
<1> HIDE DEF R
<1> DEFINE J == Enrolled(identities, n)
           V == BoundTo(writes, r, n)
<1>8. identities' = J /\ writes' = V
  BY <1>3 DEF Enrolled, BoundTo, r, found
<1>9. J = Registered(ScopeOf, R) /\ ~Ambiguous(J)
  BY <1>1, <1>2, <1>4, <1>6, RegistryGrows
<1>10. V \in SUBSET Write /\ OnePerVersion(V) /\ (\A x \in V : Kept(R, x)) /\ ~EventsRepeat(V)
  BY <1>1, <1>2, <1>3, <1>4, <1>6, EventsGrow
<1>11. \A x \in memories : ScopeOf[x.key] = ScopeOf[n.key] => (x.id = n.id <=> x.key = n.key)
  <2> SUFFICES ASSUME NEW x \in memories, ScopeOf[x.key] = ScopeOf[n.key]
               PROVE  x.id = n.id <=> x.key = n.key
    OBVIOUS
  <2> DEFINE i == [scope |-> ScopeOf[x.key], id |-> x.id, key |-> x.key]
  <2>1. i \in identities
    BY <1>2 DEF Registered
  <2>2. i.scope = ScopeOf[x.key] /\ i.id = x.id /\ i.key = x.key
    OBVIOUS
  <2> HIDE DEF i
  <2> QED
    BY <1>4, <2>1, <2>2
<1> HIDE DEF J, V
<1>12. Registry' /\ EventsKept'
  BY <1>7, <1>8, <1>9, <1>10 DEF Registry, EventsKept
<1> QED
  BY <1>3, <1>4, <1>6, <1>7, <1>8, <1>10, <1>11, <1>12 DEF r, found

-----------------------------------------------------------------------------
(* The steps.                                                              *)

\* Writer w moves on, and the chains are as before or evolve.
LEMMA WriterMoves ==
  ASSUME Chained, Started', UNCHANGED requests, NEW w \in Writers,
         NEW l \in Labels, NEW q \in Request, WellFormed(q),
         NEW found \in SUBSET Memory, NEW result \in SUBSET Memory,
         at' = [at EXCEPT ![w] = l], request' = [request EXCEPT ![w] = q],
         latest' = [latest EXCEPT ![w] = found], answer' = [answer EXCEPT ![w] = result],
         l = "write" => Holds(q, found, memories'),
         l = "answered" => Effect(q, result, memories'),
         memories' \in SUBSET Memory, writes' \in SUBSET Write,
         Whole(memories'), Evolves(memories, memories'), Registry', EventsKept'
  PROVE  Chained'
<1>1. /\ DurableTyped
      /\ \A v \in Writers : at'[v] = IF v = w THEN l ELSE at[v]
      /\ \A v \in Writers : request'[v] = IF v = w THEN q ELSE request[v]
      /\ \A v \in Writers : latest'[v] = IF v = w THEN found ELSE latest[v]
      /\ \A v \in Writers : answer'[v] = IF v = w THEN result ELSE answer[v]
  BY DEF Chained, DurableTyped
<1>2. DurableTyped'
  <2>1. /\ at' \in [Writers -> Labels] /\ request' \in [Writers -> Request \cup {None}]
        /\ latest' \in [Writers -> SUBSET Memory] /\ answer' \in [Writers -> SUBSET Memory]
    BY <1>1 DEF DurableTyped
  <2>2. \A v \in Writers : at'[v] # "idle" => WellFormed(request'[v])
    BY <1>1 DEF DurableTyped
  <2>3. \A r \in requests'.calls : WellFormed(r)
    BY <1>1 DEF DurableTyped
  <2> QED
    BY <2>1, <2>2, <2>3 DEF DurableTyped, WellFormed
<1>3. ASSUME NEW v \in Writers, at'[v] = "write"
      PROVE  Holds(request'[v], latest'[v], memories')
  <2>1. CASE v = w
    BY <1>1, <1>3, <2>1
  <2>2. CASE v # w
    <3>1. /\ Holds(request[v], latest[v], memories) /\ latest[v] \in SUBSET Memory
          /\ request'[v] = request[v] /\ latest'[v] = latest[v]
      BY <1>1, <1>3, <2>2 DEF Chained, Held, DurableTyped
    <3>2. Holds(request[v], latest[v], memories')
      BY <3>1, HoldsEvolves
    <3> QED
      BY <3>1, <3>2
  <2> QED
    BY <2>1, <2>2
<1>4. ASSUME NEW v \in Writers, at'[v] = "answered"
      PROVE  Effect(request'[v], answer'[v], memories')
  <2>1. CASE v = w
    BY <1>1, <1>4, <2>1
  <2>2. CASE v # w
    <3>1. Effect(request[v], answer[v], memories)
      BY <1>1, <1>4, <2>2, AnswersAreFulfilled DEF Chained
    <3>2. Effect(request[v], answer[v], memories')
      BY <1>1, <3>1, EffectEvolves DEF DurableTyped
    <3> QED
      BY <1>1, <2>2, <3>2
  <2> QED
    BY <2>1, <2>2
<1>5. AnswersAreEffects'
  BY <1>4 DEF AnswersAreEffects, Effect, Fulfils
<1>6. Held'
  BY <1>3 DEF Held, Holds, Lasts, Admitted, Extends, Newer
<1> QED
  BY <1>2, <1>5, <1>6 DEF Chained, Whole

\* Steps that write nothing.
LEMMA TablesKept ==
  ASSUME Chained, UNCHANGED <<database, tables>>
  PROVE  /\ memories' \in SUBSET Memory /\ writes' \in SUBSET Write
         /\ Whole(memories') /\ Evolves(memories, memories') /\ Registry' /\ EventsKept'
<1>1. UNCHANGED <<memories, identities, writes, database>>
  BY DEF tables
<1> QED
  BY <1>1, EvolvesToItself
  DEF Chained, DurableTyped, Registry, EventsKept, Registered, Kept

\* A call that returns or fails without writing.
LEMMA LeaveStep ==
  ASSUME Chained, Started', UNCHANGED <<database, tables, requests>>, NEW w \in Writers,
         at[w] # "idle", NEW l \in {"answered", "stale", "conflict", "failed"},
         NEW result \in SUBSET Memory, Leave(w, l, result),
         l = "answered" => Effect(request[w], result, memories)
  PROVE  Chained'
<1>1. /\ memories' \in SUBSET Memory /\ writes' \in SUBSET Write
      /\ Whole(memories') /\ Evolves(memories, memories') /\ Registry' /\ EventsKept'
  BY TablesKept
<1>2. DurableTyped /\ request[w] \in Request /\ WellFormed(request[w])
  BY DEF Chained, DurableTyped, WellFormed
<1>3. request' = [request EXCEPT ![w] = request[w]]
  BY <1>2 DEF Leave, DurableTyped
<1>4. l \in Labels /\ l # "write"
  BY DEF Labels
<1>5. memories' = memories
  BY DEF tables
<1> QED
  BY <1>1, <1>2, <1>3, <1>4, <1>5, WriterMoves DEF Leave

\* A call that goes on without writing.
LEMMA AdvanceStep ==
  ASSUME Chained, Started', UNCHANGED <<database, tables, requests>>, NEW w \in Writers,
         at[w] # "idle", NEW l \in {"latest", "write"},
         NEW found \in SUBSET Memory, Advance(w, l, found),
         l = "write" => Holds(request[w], found, memories)
  PROVE  Chained'
<1>1. /\ memories' \in SUBSET Memory /\ writes' \in SUBSET Write
      /\ Whole(memories') /\ Evolves(memories, memories') /\ Registry' /\ EventsKept'
  BY TablesKept
<1>2. DurableTyped /\ request[w] \in Request /\ WellFormed(request[w]) /\ answer[w] \in SUBSET Memory
  BY DEF Chained, DurableTyped, WellFormed
<1>3. /\ request' = [request EXCEPT ![w] = request[w]]
      /\ answer' = [answer EXCEPT ![w] = answer[w]]
  BY <1>2 DEF Advance, DurableTyped
<1>4. l \in Labels /\ l # "answered"
  BY DEF Labels
<1>5. memories' = memories
  BY DEF tables
<1> QED
  BY <1>1, <1>2, <1>3, <1>4, <1>5, WriterMoves DEF Advance

\* A new call.
LEMMA CallStep ==
  ASSUME Chained, Started', UNCHANGED <<database, requests>>, NEW w \in Writers,
         NEW r \in requests.calls, Call(w, r)
  PROVE  Chained'
<1>1. UNCHANGED <<database, tables>>
  BY DEF Call
<1>2. /\ memories' \in SUBSET Memory /\ writes' \in SUBSET Write
      /\ Whole(memories') /\ Evolves(memories, memories') /\ Registry' /\ EventsKept'
  BY <1>1, TablesKept
<1>3. DurableTyped /\ WellFormed(r) /\ r \in Request /\ latest[w] \in SUBSET Memory
  BY DEF Chained, DurableTyped, WellFormed
<1>4. PICK l \in {"latest", "match"} : at' = [at EXCEPT ![w] = l]
  BY DEF Call
<1>5. l \in Labels /\ l # "write" /\ l # "answered"
  BY DEF Labels
<1>6. latest' = [latest EXCEPT ![w] = latest[w]]
  BY <1>3 DEF Call, DurableTyped
<1>7. /\ request' = [request EXCEPT ![w] = r] /\ answer' = [answer EXCEPT ![w] = {}]
      /\ {} \in SUBSET Memory /\ UNCHANGED requests
  BY DEF Call
<1> QED
  BY <1>2, <1>3, <1>4, <1>5, <1>6, <1>7, WriterMoves

\* A replay is answered with what the call asked for: the registry binds its
\* event to a request of the same fingerprint.
LEMMA ReplayedFulfils ==
  ASSUME memories \in SUBSET Memory, Whole(memories), writes \in SUBSET Write,
         \A x \in writes : Kept(memories, x), NEW r, WellFormed(r), NEW m \in Replayed(r)
  PROVE  m \in memories /\ Fulfils(r, m)
<1>1. PICK x \in writes :
        /\ x.event = r.event /\ ~Unreplayable(r, x)
        /\ m.key = x.key /\ m.version = x.version /\ IsReplayOf(r, m)
  BY DEF Replayed
<1>2. m \in memories
  BY DEF Replayed
<1>3. r \in Request /\ x.fingerprint = Fingerprint(r) /\ (r.key # None => x.key = r.key)
  BY <1>1 DEF WellFormed, Unreplayable
<1>4. Fingerprint(r) \in Request /\ Fingerprint(r) # None
  BY <1>3, NoneAssumption, ZenonT(30) DEF Fingerprint, Request
<1>5. [Fingerprint(r) EXCEPT !.event = x.event].content = r.content
  BY <1>3 DEF Fingerprint, Request
<1>6. PICK n \in memories : n.key = x.key /\ n.version = x.version /\ n.content = r.content
  BY <1>3, <1>4, <1>5 DEF Kept
<1>7. n = m
  BY <1>1, <1>2, <1>6 DEF Whole
<1>8. r.op \in {"create", "update", "forget"}
  BY <1>3 DEF Request
<1>9. Fulfils(r, m)
  BY <1>1, <1>3, <1>6, <1>7, <1>8 DEF Fulfils, IsReplayOf, WellFormed
<1> QED
  BY <1>2, <1>9

\* The row that a call reads as the latest is one, and the one it names.
LEMMA TargetFacts ==
  ASSUME memories \in SUBSET Memory, Whole(memories),
         identities = Registered(ScopeOf, memories), ~Ambiguous(identities),
         NEW r, WellFormed(r), ~(r.op = "forget" /\ TargetsDiffer(r))
  PROVE  /\ Target(r) \in SUBSET memories
         /\ \A m, n \in Target(r) : m = n
         /\ \A m \in Target(r) :
              /\ ScopeOf[m.key] = r.scope
              /\ r.key # None => m.key = r.key
              /\ r.key = None => m.id = r.id
<1>1. \A m \in memories : m.version \in Nat
  BY DEF Memory, Positive
<1>2. \A m, n \in memories : m.key = n.key /\ m.version = n.version => m = n
  BY DEF Whole
<1>3. \A k : \A m, n \in LatestForKey(k) : m = n
  <2> SUFFICES ASSUME NEW k, NEW m \in LatestForKey(k), NEW n \in LatestForKey(k) PROVE m = n
    OBVIOUS
  <2>1. /\ m \in memories /\ n \in memories /\ m.key = k /\ n.key = k
        /\ m.version <= n.version /\ n.version <= m.version
    BY DEF LatestForKey, Newest
  <2> QED
    BY <1>1, <1>2, <2>1
<1>4. \A s, i : \A m, n \in LatestForId(s, i) : m = n
  <2> SUFFICES ASSUME NEW s, NEW i, NEW m \in LatestForId(s, i), NEW n \in LatestForId(s, i)
               PROVE  m = n
    OBVIOUS
  <2>1. /\ m \in memories /\ n \in memories /\ m.id = n.id
        /\ ScopeOf[m.key] = ScopeOf[n.key]
        /\ m.version <= n.version /\ n.version <= m.version
    BY DEF LatestForId, Newest
  <2> DEFINE of(x) == [scope |-> ScopeOf[x.key], id |-> x.id, key |-> x.key]
  <2>2. of(m) \in identities /\ of(n) \in identities
    BY <2>1 DEF Registered
  <2>3. m.key = n.key
    BY <2>1, <2>2 DEF Ambiguous
  <2> QED
    BY <1>1, <1>2, <2>1, <2>3
<1>5. /\ \A k : LatestForKey(k) \subseteq memories
      /\ \A k : \A m \in LatestForKey(k) : m.key = k
      /\ \A s, i : LatestForId(s, i) \subseteq memories
      /\ \A s, i : \A m \in LatestForId(s, i) : ScopeOf[m.key] = s /\ m.id = i
  BY DEF LatestForKey, LatestForId, Newest
<1>6. /\ r \in Request /\ (r.key # None => ScopeOf[r.key] = r.scope)
      /\ r.op # "forget" => r.key # None
  BY DEF WellFormed
<1>7. CASE r.key # None
  <2>1. Target(r) = LatestForKey(r.key) \/ Target(r) = {}
    BY <1>6, <1>7 DEF Target, ByKey, ById, TargetsDiffer
  <2> QED
    BY <1>3, <1>5, <1>6, <1>7, <2>1
<1>8. CASE r.key = None
  <2>1. Target(r) = LatestForId(r.scope, r.id) \/ Target(r) = {}
    BY <1>6, <1>8 DEF Target, ByKey, ById
  <2> QED
    BY <1>4, <1>5, <1>8, <2>1
<1> QED
  BY <1>7, <1>8

\* What a process that serves relies on.
LEMMA InServiceFacts ==
  ASSUME Chained, InService
  PROVE  /\ identities = Registered(ScopeOf, memories)
         /\ ~Ambiguous(identities)
         /\ ~EventsRepeat(writes)
         /\ database.applied = Versions
<1>1. database.applied = Versions
  BY DEF Chained, Started, OpenIsMigrated
<1> QED
  BY <1>1 DEF Versions, Chained, Registry, EventsKept

\* FindWriteMatch keeps the invariant.
LEMMA MatchStep ==
  ASSUME Chained, Started', UNCHANGED <<database, requests>>, NEW w \in Writers,
         FindWriteMatch(w)
  PROVE  Chained'
<1> DEFINE r == request[w]
<1>1. UNCHANGED <<database, tables, requests>> /\ at[w] # "idle" /\ WellFormed(r)
  BY DEF FindWriteMatch, Chained, DurableTyped
<1>2. memories \in SUBSET Memory /\ {} \in SUBSET Memory
  BY DEF Chained, DurableTyped
<1>3. CASE Advance(w, "latest", {})
  BY <1>1, <1>2, <1>3, AdvanceStep
<1>4. CASE Leave(w, "stale", {})
  BY <1>1, <1>2, <1>4, LeaveStep
<1>5. CASE Replayed(r) # {} /\ Leave(w, "answered", Replayed(r))
  <2>1. \A m \in Replayed(r) : m \in memories /\ Fulfils(r, m)
    BY <1>1, ReplayedFulfils DEF Chained, DurableTyped, EventsKept
  <2>2. Replayed(r) \in SUBSET Memory
    BY <1>2, <2>1
  <2>3. Effect(r, Replayed(r), memories)
    BY <1>5, <2>1 DEF Effect
  <2> QED
    BY <1>1, <1>5, <2>2, <2>3, LeaveStep
<1> QED
  BY <1>3, <1>4, <1>5 DEF FindWriteMatch

\* ReadLatest keeps the invariant: what it read is the latest version.
LEMMA ReadStep ==
  ASSUME Chained, Started', InService, UNCHANGED <<database, requests>>, NEW w \in Writers,
         ReadLatest(w)
  PROVE  Chained'
<1> DEFINE r == request[w]
           found == Target(r)
           repeated == {m \in found : Repeats(r, m)}
<1>1. UNCHANGED <<database, tables, requests>> /\ at[w] # "idle" /\ WellFormed(r)
  BY DEF ReadLatest, Chained, DurableTyped
<1>2. memories \in SUBSET Memory /\ {} \in SUBSET Memory
  BY DEF Chained, DurableTyped
<1>3. CASE Leave(w, "stale", {}) \/ Leave(w, "conflict", {})
  BY <1>1, <1>2, <1>3, LeaveStep
<1>4. ASSUME ~(r.op = "forget" /\ TargetsDiffer(r))
      PROVE  /\ found \in SUBSET memories
             /\ \A m, n \in found : m = n
             /\ \A m \in found :
                  /\ ScopeOf[m.key] = r.scope
                  /\ r.key # None => m.key = r.key
                  /\ r.key = None => m.id = r.id
  BY <1>1, <1>2, <1>4, TargetFacts, InServiceFacts DEF Chained
<1>5. CASE /\ ~(r.op = "forget" /\ TargetsDiffer(r))
           /\ repeated # {} /\ Leave(w, "answered", repeated)
  <2>1. PICK m \in found : m \in repeated /\ Repeats(r, m)
    BY <1>5
  <2>2. m \in memories /\ (r.key # None => m.key = r.key) /\ (r.key = None => m.id = r.id)
    BY <1>4, <1>5
  <2>3. Fulfils(r, m)
    BY <1>1, <2>1, <2>2 DEF Fulfils, Repeats, SameRecord, WellFormed
  <2>4. Effect(r, repeated, memories)
    BY <2>1, <2>2, <2>3 DEF Effect
  <2>5. repeated \in SUBSET Memory
    BY <1>2, <1>4, <1>5
  <2> QED
    BY <1>1, <1>5, <2>4, <2>5, LeaveStep
<1>6. CASE /\ ~(r.op = "forget" /\ TargetsDiffer(r))
           /\ Admitted(r, found) /\ Advance(w, "write", found)
  <2>1. Holds(r, found, memories)
    BY <1>4, <1>6 DEF Holds, Lasts
  <2>2. found \in SUBSET Memory
    BY <1>2, <1>4, <1>6
  <2> QED
    BY <1>1, <1>6, <2>1, <2>2, AdvanceStep
<1> QED
  BY <1>3, <1>5, <1>6 DEF ReadLatest

\* WriteVersion keeps the invariant: refused, or the next version.
LEMMA WriteStep ==
  ASSUME Chained, Started', InService, UNCHANGED <<database, requests>>, NEW w \in Writers,
         WriteVersion(w)
  PROVE  Chained'
<1> DEFINE r == request[w]
           found == latest[w]
           new == NewVersion(r, found)
<1>1. at[w] = "write" /\ UNCHANGED database
  BY DEF WriteVersion
<1>2. CASE Leave(w, "stale", {}) /\ UNCHANGED tables
  <2>1. {} \in SUBSET Memory /\ at[w] # "idle" /\ UNCHANGED <<database, tables, requests>>
    BY <1>1, <1>2
  <2> QED
    BY <1>2, <2>1, LeaveStep
<1>3. CASE /\ ~Refused(r, found)
           /\ memories' = (memories \ Outdated(found)) \cup Superseded(found) \cup new
           /\ identities' = identities \cup
                {[scope |-> ScopeOf[n.key], id |-> n.id, key |-> n.key] : n \in new}
           /\ writes' = writes \cup Bindings(r, new)
           /\ Leave(w, "answered", new)
  <2>1. PICK n \in Memory :
          /\ new = {n} /\ IsNext(r, found, n) /\ n \in memories'
          /\ memories' \in SUBSET Memory /\ writes' \in SUBSET Write
          /\ Whole(memories') /\ Evolves(memories, memories')
          /\ Registry' /\ EventsKept'
    BY <1>1, <1>3, WriteFacts
  <2>2. Effect(r, new, memories')
    BY <2>1 DEF Effect, IsNext
  <2>3. request \in [Writers -> Request \cup {None}] /\ WellFormed(r) /\ r \in Request
    BY <1>1 DEF Chained, DurableTyped, WellFormed
  <2>4. /\ request' = [request EXCEPT ![w] = r] /\ latest' = [latest EXCEPT ![w] = {}]
        /\ at' = [at EXCEPT ![w] = "answered"] /\ answer' = [answer EXCEPT ![w] = new]
    BY <1>3, <2>3 DEF Leave
  <2>5. /\ "answered" \in Labels /\ "answered" # "write" /\ UNCHANGED requests
        /\ {} \in SUBSET Memory /\ new \in SUBSET Memory
    BY <2>1 DEF Labels
  <2> HIDE DEF r, found, new
  <2> QED
    BY <2>1, <2>2, <2>3, <2>4, <2>5, WriterMoves
<1> QED
  BY <1>2, <1>3 DEF WriteVersion

\* Steps that leave the calls and the memories alone.
LEMMA CallsKept ==
  ASSUME Chained, Started', UNCHANGED <<memories, writes, callVars, requests>>,
         Registry', 16 \in database'.applied => ~EventsRepeat(writes)
  PROVE  Chained'
<1>1. UNCHANGED <<memories, writes, at, request, latest, answer, requests>>
  BY DEF callVars
<1>2. DurableTyped' /\ Whole(memories)' /\ EventsKept'
  BY <1>1 DEF Chained, DurableTyped, EventsKept, Whole, WellFormed, Kept
<1>3. Held' /\ AnswersAreEffects'
  BY <1>1 DEF Chained, Held, AnswersAreEffects, Holds, Lasts
<1> QED
  BY <1>2, <1>3 DEF Chained

\* A process migrates: what it registers is unambiguous, or it is rejected.
LEMMA MigrateStep ==
  ASSUME Chained, Started', UNCHANGED <<callVars, requests>>, NEW p \in Processes, Migrate(p)
  PROVE  Chained'
<1>1. UNCHANGED <<memories, writes>>
  BY DEF Migrate, tables
<1>2. CASE UNCHANGED <<database, tables>>
  <2>1. Registry' /\ (16 \in database'.applied => ~EventsRepeat(writes))
    BY <1>2, TablesKept DEF Chained, EventsKept
  <2> QED
    BY <1>1, <2>1, CallsKept
<1>3. CASE /\ ~Rejected(p) /\ process[p].seen = database.applied
           /\ identities' = IF 13 \in database.applied THEN identities
                            ELSE Registered(ScopeOf, memories)
  <2>1. [database EXCEPT !.applied = process[p].seen].applied = database.applied
    BY <1>3 DEF Chained, Started, LegalDatabase, Database
  <2>2. /\ 13 \notin database.applied => ~Ambiguous(Registered(ScopeOf, memories))
        /\ 16 \notin database.applied => ~EventsRepeat(writes)
    BY <1>3, <2>1 DEF Rejected
  <2>3. Registry'
    BY <1>1, <1>3, <2>2 DEF Chained, Registry, Registered
  <2>4. ~EventsRepeat(writes)
    BY <2>2 DEF Chained, EventsKept
  <2> QED
    BY <1>1, <2>3, <2>4, CallsKept
<1> QED
  BY <1>2, <1>3 DEF Migrate

\* A stop keeps the invariant.
LEMMA StopStep ==
  ASSUME Chained, Started', UNCHANGED requests, NEW p \in Processes, Stop(p)
  PROVE  Chained'
<1>1. /\ memories' \in SUBSET Memory /\ writes' \in SUBSET Write
      /\ Whole(memories') /\ Registry' /\ EventsKept'
  BY TablesKept DEF Stop
<1>2. UNCHANGED <<memories, requests>>
  BY DEF Stop, tables
<1>3. /\ \A w \in Writers :
           \/ at'[w] = "idle"
           \/ /\ at'[w] = at[w] /\ request'[w] = request[w]
              /\ latest'[w] = latest[w] /\ answer'[w] = answer[w]
  BY DEF Stop
<1>4. /\ at' \in [Writers -> Labels] /\ request' \in [Writers -> Request \cup {None}]
      /\ latest' \in [Writers -> SUBSET Memory] /\ answer' \in [Writers -> SUBSET Memory]
  BY DEF Stop, Chained, DurableTyped, Labels
<1>5. DurableTyped'
  BY <1>1, <1>2, <1>3, <1>4 DEF Chained, DurableTyped, WellFormed
<1>6. Held'
  BY <1>2, <1>3 DEF Chained, Held, Holds, Lasts
<1>7. AnswersAreEffects'
  BY <1>2, <1>3 DEF Chained, AnswersAreEffects
<1> QED
  BY <1>1, <1>5, <1>6, <1>7 DEF Chained

\* A projected event leaves durable memory alone.
LEMMA ProjectStep ==
  ASSUME Chained, Started', UNCHANGED requests, NEW p \in Processes, NEW e \in database.log,
         Project(p, e)
  PROVE  Chained'
<1>1. UNCHANGED <<memories, identities, writes, callVars>>
  BY DEF Project, durableVars, tables
<1>2. database.applied = Versions /\ database'.applied = Versions
  <2>1. InService /\ InService'
    BY DEF Project, InService, Serving
  <2> QED
    BY <2>1 DEF Chained, Started, OpenIsMigrated
<1>3. Registry' /\ (16 \in database'.applied => ~EventsRepeat(writes))
  BY <1>1, <1>2 DEF Chained, Registry, EventsKept
<1> QED
  BY <1>1, <1>3, CallsKept

\* Every step of the processes and of their calls of create, update and forget
\* keeps the chains, the registries and what each call has read in order.
THEOREM ChainedInductive ==
  ASSUME Chained, [Next]_vars
  PROVE  Chained'
<1>1. Started'
  BY StartedInductive DEF Chained
<1>2. CASE UNCHANGED vars
  <2>1. UNCHANGED <<database, tables, memories, writes, callVars, requests>>
    BY <1>2 DEF vars, durableVars, startupVars, tables
  <2>2. Registry' /\ (16 \in database'.applied => ~EventsRepeat(writes))
    BY <2>1, TablesKept DEF Chained, EventsKept
  <2> QED
    BY <1>1, <2>1, <2>2, CallsKept
<1>3. ASSUME NEW p \in Processes, Begin(p) \/ Fault(p), UNCHANGED <<callVars, requests>>
      PROVE  Chained'
  <2>1. UNCHANGED <<database, tables, memories, writes>>
    BY <1>3 DEF Begin, Fault, tables
  <2>2. Registry' /\ (16 \in database'.applied => ~EventsRepeat(writes))
    BY <2>1, TablesKept DEF Chained, EventsKept
  <2> QED
    BY <1>1, <1>3, <2>1, <2>2, CallsKept
<1>4. CASE Opening /\ UNCHANGED requests
  BY <1>1, <1>3, <1>4, MigrateStep, StopStep DEF Opening
<1>5. CASE Projecting /\ UNCHANGED requests
  BY <1>1, <1>5, ProjectStep DEF Projecting
<1>6. CASE Calling /\ UNCHANGED requests
  <2>1. PICK w \in Writers :
          Serving(ProcessOf[w]) /\ (Step(w) \/ \E r \in requests.calls : Call(w, r))
    BY <1>6 DEF Calling
  <2>2. InService /\ UNCHANGED <<database, requests>>
    BY <1>6, <2>1, ProcessOfAssumption DEF InService, Calling, startupVars
  <2>3. CASE Fail(w)
    <3>1. {} \in SUBSET Memory /\ at[w] # "idle" /\ UNCHANGED <<database, tables, requests>>
      BY <2>2, <2>3 DEF Fail
    <3> QED
      BY <1>1, <2>3, <3>1, LeaveStep DEF Fail
  <2> QED
    BY <1>1, <2>1, <2>2, <2>3, CallStep, MatchStep, ReadStep, WriteStep DEF Step
<1> QED
  BY <1>2, <1>4, <1>5, <1>6 DEF Next

\* The deployments begin with whole chains.
LEMMA InitChained == Init => Chained
<1> SUFFICES ASSUME Init PROVE Chained
  OBVIOUS
<1>1. PICK d \in Deployments :
        /\ StartupInit(d.database)
        /\ memories = d.memories /\ identities = d.identities /\ writes = d.writes
        /\ requests = d.requests /\ DurableInit
  BY DEF Init
<1>2. Legal(d) /\ database = d.database
  BY <1>1, DeploymentsAssumption DEF StartupInit
<1>3. /\ at \in [Writers -> Labels] /\ request \in [Writers -> Request \cup {None}]
      /\ latest \in [Writers -> SUBSET Memory] /\ answer \in [Writers -> SUBSET Memory]
      /\ \A w \in Writers : at[w] = "idle"
  BY <1>1 DEF DurableInit, Labels
<1>4. DurableTyped
  BY <1>1, <1>2, <1>3 DEF DurableTyped, Legal
<1>5. Whole(memories) /\ Registry /\ EventsKept
  BY <1>1, <1>2 DEF Legal, Registry, EventsKept
<1>6. Held /\ AnswersAreEffects
  BY <1>3 DEF Held, AnswersAreEffects
<1> QED
  BY <1>4, <1>5, <1>6, InitStarted DEF Chained

-----------------------------------------------------------------------------
(* Refused databases.                                                      *)

\* The migrations that are missing refuse the database.
Refusal ==
  \/ ~Accepted(database)
  \/ 13 \notin database.applied /\ Ambiguous(Registered(ScopeOf, memories))
  \/ 16 \notin database.applied /\ EventsRepeat(writes)

\* What a process reads late it does not reject, unless the database is refused.
LEMMA RejectedIsRefusal ==
  ASSUME Chained, NEW p \in Processes, process[p].pc = "migrating", Rejected(p)
  PROVE  Refusal
<1> DEFINE S == process[p].seen
           d == [database EXCEPT !.applied = S]
<1>1. LegalDatabase(database) /\ database \in Database /\ S \in SUBSET Versions
  BY DEF Chained, Started, LegalDatabase, ProcessState
<1>2. S = database.applied \/ database.applied = Versions
  BY DEF Chained, Started, SeenIsCurrent
<1>3. d.applied = S
  BY <1>1 DEF Database
<1>4. CASE S = database.applied
  <2>1. d = database
    BY <1>1, <1>4 DEF Database
  <2> QED
    BY <2>1 DEF Rejected, Refusal
<1>5. CASE database.applied = Versions
  <2>1. Accepted(d)
    BY <1>1, <1>5, Readmitted
  <2>2. /\ ~Ambiguous(Registered(ScopeOf, memories))
        /\ ~EventsRepeat(writes)
    BY <1>5 DEF Versions, Chained, Registry, EventsKept
  <2> QED
    BY <2>1, <2>2 DEF Rejected
<1> QED
  BY <1>2, <1>4, <1>5

\* A refused database stays as it is.
LEMMA RefusalStays ==
  ASSUME Chained, Refusal, [Next]_vars
  PROVE  Refusal'
<1>1. database.applied # Versions
  BY DEF Refusal, Accepted, Versions
<1>2. ~InService
  BY <1>1 DEF Chained, Started, OpenIsMigrated
<1>3. ASSUME NEW p \in Processes, Migrate(p)
      PROVE  UNCHANGED <<database, memories, writes>>
  <2>1. CASE process[p].seen = database.applied /\ ~Rejected(p)
    <3>1. [database EXCEPT !.applied = process[p].seen] = database
      BY <2>1 DEF Chained, Started, LegalDatabase, Database
    <3> QED
      BY <2>1, <3>1 DEF Rejected, Refusal
  <2> QED
    BY <1>3, <2>1 DEF Migrate, tables
<1>4. Opening => UNCHANGED <<database, memories, writes>>
  BY <1>3 DEF Opening, Begin, Fault, Stop, tables
<1>5. ~Projecting
  BY <1>2 DEF Projecting, Project, InService
<1>6. ~Calling
  BY <1>2, ProcessOfAssumption DEF Calling, InService
<1>7. UNCHANGED vars => UNCHANGED <<database, memories, writes>>
  BY DEF vars, durableVars, startupVars, tables
<1>8. UNCHANGED <<database, memories, writes>>
  BY <1>4, <1>5, <1>6, <1>7 DEF Next
<1> QED
  BY <1>8 DEF Refusal, Registered

\* A process that fails for another reason than a refusal had as many faults
\* as there are retries.
LEMMA RetriedUp ==
  ASSUME Chained, NEW p \in Processes, process[p].pc = "migrating", NEW fault \in {0, 1},
         fault = 0 => process[p].seen # Versions,
         process' = [process EXCEPT ![p] = Retried(p, fault)], process'[p].pc = "failed"
  PROVE  process'[p].faults >= MaxRetries
<1> DEFINE d == process[p]
<1>1. process \in [Processes -> ProcessState] /\ d \in ProcessState
  BY DEF Chained, Started
<1>2. d.retries \in Nat /\ d.faults \in Nat
  BY <1>1 DEF ProcessState
<1>3. process'[p] = Retried(p, fault)
  BY <1>1
<1>4. d.retries <= d.faults \/ (d.retries = d.faults + 1 /\ d.seen = Versions)
  BY DEF Chained, Started, RetriesCounted
<1>5. process'[p].faults = d.faults + fault /\ ~(d.retries < MaxRetries)
  <2> DEFINE l == IF d.retries < MaxRetries THEN "again" ELSE "failed"
  <2>1. PICK n \in Nat, f \in Nat : n = d.retries + 1 /\ f = d.faults + fault
    BY <1>2
  <2>2. Retried(p, fault) = [d EXCEPT !.pc = l, !.retries = n, !.faults = f]
    BY <2>1 DEF Retried
  <2>3. l \in {"again", "failed"} /\ (l = "failed" => ~(d.retries < MaxRetries))
    OBVIOUS
  <2> HIDE DEF l, d
  <2>4. /\ [d EXCEPT !.pc = l, !.retries = n, !.faults = f].pc = l
        /\ [d EXCEPT !.pc = l, !.retries = n, !.faults = f].faults = f
    BY <1>1, <2>3 DEF ProcessState
  <2> QED
    BY <1>3, <2>1, <2>2, <2>3, <2>4
<1> HIDE DEF d
<1>6. fault = 0 => d.retries <= d.faults
  BY <1>4 DEF d
<1>7. d.retries <= d.faults + 1
  BY <1>2, <1>4
<1> QED
  BY <1>2, <1>5, <1>6, <1>7, MaxRetriesAssumption

\* One process's record changes.
LEMMA OneProcess ==
  ASSUME Chained, NEW p \in Processes, NEW q \in Processes, NEW s,
         process' = [process EXCEPT ![p] = s]
  PROVE  process'[q] = IF q = p THEN s ELSE process[q]
BY DEF Chained, Started

\* Every step keeps the count of the retries.
LEMMA RetriesInductive ==
  ASSUME Chained, RetriesSuffice, [Next]_vars
  PROVE  RetriesSuffice'
<1> SUFFICES ASSUME NEW q \in Processes, process'[q].pc = "failed",
                    process'[q].faults < MaxRetries
             PROVE  Refusal'
  BY DEF RetriesSuffice, Refusal
<1>1. CASE process'[q] = process[q]
  <2>1. Refusal
    BY <1>1 DEF RetriesSuffice, Refusal
  <2> QED
    BY <2>1, RefusalStays
<1>2. CASE process'[q] # process[q]
  <2>0. process'[q].faults \in Nat
    <3>1. Started'
      BY StartedInductive DEF Chained
    <3> QED
      BY <3>1 DEF Started, ProcessState
  <2>1. PICK p \in Processes : Begin(p) \/ Migrate(p) \/ Fault(p) \/ Stop(p)
    BY <1>2 DEF Next, Opening, Projecting, Project, Calling, startupVars, vars
  <2>2. ASSUME Begin(p)
        PROVE  FALSE
    <3> DEFINE s == [process[p] EXCEPT !.pc = "migrating", !.seen = database.applied]
    <3>0. process[p] \in ProcessState /\ database.applied \in SUBSET Versions
      BY DEF Chained, Started, LegalDatabase, Database
    <3>1. s.pc = "migrating"
      BY <3>0, SeenUpdates
    <3>2. process' = [process EXCEPT ![p] = s]
      BY <2>2 DEF Begin
    <3> HIDE DEF s
    <3> QED
      BY <1>2, <3>1, <3>2, OneProcess
  <2>3. ASSUME Stop(p)
        PROVE  FALSE
    BY <1>2, <2>3, OneProcess DEF Stop, Closed
  <2>4. ASSUME process[p].pc = "migrating", NEW fault \in {0, 1},
               fault = 0 => process[p].seen # Versions,
               process' = [process EXCEPT ![p] = Retried(p, fault)]
        PROVE  FALSE
    <3>1. q = p
      BY <1>2, <2>4, OneProcess
    <3>2. process'[q].faults >= MaxRetries
      BY <2>4, <3>1, RetriedUp
    <3> QED
      BY <2>0, <3>2, MaxRetriesAssumption
  <2>5. ASSUME Fault(p)
        PROVE  FALSE
    <3>1. 1 \in {0, 1} /\ 1 # 0
      OBVIOUS
    <3> QED
      BY <2>4, <2>5, <3>1 DEF Fault
  <2>6. ASSUME Migrate(p)
        PROVE  Refusal
    <3>1. process[p].pc = "migrating"
      BY <2>6 DEF Migrate
    <3>2. CASE process[p].seen # Versions /\ process' = [process EXCEPT ![p] = Retried(p, 0)]
      <4>1. 0 \in {0, 1}
        OBVIOUS
      <4> QED
        BY <2>4, <3>1, <3>2, <4>1
    <3>3. CASE Finish(p, "open")
      BY <1>2, <3>3, OneProcess, FinishUpdates DEF Finish
    <3>4. CASE Rejected(p)
      BY <3>1, <3>4, RejectedIsRefusal
    <3> QED
      BY <2>6, <3>2, <3>3, <3>4 DEF Migrate
  <2> QED
    BY <2>1, <2>2, <2>3, <2>5, <2>6, RefusalStays
<1> QED
  BY <1>1, <1>2

-----------------------------------------------------------------------------
(* The theorems.                                                           *)

\* The invariant holds of every behaviour.
LEMMA AlwaysChained == Spec => []Chained
BY InitChained, ChainedInductive, PTL DEF Spec

\* Durable memory holds rows of the three tables' types only, and a writer
\* that is in a call asks for something that the validation lets through.
THEOREM DurableTypeThm == Spec => []DurableTyped
<1>1. Chained => DurableTyped
  BY DEF Chained
<1> QED
  BY <1>1, AlwaysChained, PTL

\* However the calls of create, update and forget interleave, the versions of
\* a key are one chain, of which only the last can be active.
THEOREM ChainsThm == Spec => []ChainsAreWhole
<1>1. Chained => ChainsAreWhole
  BY DEF Chained, ChainsAreWhole
<1> QED
  BY <1>1, AlwaysChained, PTL

\* A write event can be repeated at any time: _find_write_match finds the
\* version that it wrote, whatever superseded it.
THEOREM ReplaysThm == Spec => []ReplaysAreStable
<1>1. ASSUME Chained
      PROVE  ReplaysAreStable
  <2> SUFFICES ASSUME NEW x \in writes, x.fingerprint # None
               PROVE  \E m \in memories :
                        /\ m.key = x.key /\ m.version = x.version
                        /\ x.fingerprint.id \in {None, m.id} =>
                             m \in Replayed([x.fingerprint EXCEPT !.event = x.event])
    BY <1>1 DEF ReplaysAreStable, Chained, EventsKept
  <2> DEFINE r == [x.fingerprint EXCEPT !.event = x.event]
  <2>1. x \in Write /\ Kept(memories, x)
    BY <1>1 DEF Chained, DurableTyped, EventsKept
  <2>2. x.fingerprint \in Request
    BY <2>1 DEF Write
  <2>3. r.event = x.event /\ r.id = x.fingerprint.id
    BY <2>2 DEF Request
  <2>4. PICK m \in memories :
          /\ m.key = x.key /\ m.version = x.version /\ ~Unreplayable(r, x)
          /\ r.id \in {None, m.id} => IsReplayOf(r, m)
    BY <2>1 DEF Kept
  <2> HIDE DEF r
  <2>5. r.id \in {None, m.id} => m \in Replayed(r)
    BY <2>3, <2>4 DEF Replayed
  <2> QED
    BY <2>3, <2>4, <2>5 DEF r
<1> QED
  BY <1>1, AlwaysChained, PTL

\* What create, update or forget answers was written, by this call or by an
\* identical one before it.
THEOREM AnswersThm == Spec => []AnswersAreEffects
<1>1. Chained => AnswersAreEffects
  BY DEF Chained
<1> QED
  BY <1>1, AlwaysChained, PTL

\* Whatever older database a process finds, it serves it only when all
\* migrations are recorded and what they promise holds, and goes on holding.
THEOREM ServedThm == Spec => []ServedIsMigrated
<1>1. ASSUME Chained
      PROVE  ServedIsMigrated
  <2> SUFFICES ASSUME InService
               PROVE  /\ database.applied = Versions
                      /\ SnapshotsProven(database)
                      /\ CheckpointsProven(database)
                      /\ Nameable(database)
                      /\ identities = Registered(ScopeOf, memories)
                      /\ ~Ambiguous(identities)
                      /\ ~EventsRepeat(writes)
    BY DEF ServedIsMigrated
  <2>1. /\ identities = Registered(ScopeOf, memories) /\ ~Ambiguous(identities)
        /\ ~EventsRepeat(writes) /\ database.applied = Versions
    BY <1>1, InServiceFacts
  <2>2. LegalDatabase(database) /\ {7, 10, 11} \subseteq Versions
    BY <1>1 DEF Chained, Started, Versions
  <2> QED
    BY <2>1, <2>2 DEF LegalDatabase
<1> QED
  BY <1>1, AlwaysChained, PTL

\* The conflicts of processes that migrate at the same time never use up
\* max_migration_retries.
THEOREM RetriesThm == Spec => []RetriesSuffice
<1>1. Init => RetriesSuffice
  <2> SUFFICES ASSUME Init, NEW p \in Processes PROVE process[p].pc # "failed"
    BY DEF RetriesSuffice
  <2> QED
    BY DEF Init, StartupInit, Closed
<1>2. Chained /\ RetriesSuffice /\ [Next]_vars => RetriesSuffice'
  BY RetriesInductive
<1> QED
  BY <1>1, <1>2, AlwaysChained, PTL DEF Spec

-----------------------------------------------------------------------------
(* The refinement.                                                         *)

\* The version of MemoryHistory that a row is.
VersionOf(m) ==
  [key |-> m.key, version |-> m.version, id |-> m.id, content |-> m.content,
   deleted |-> m.status = "retracted"]

Stored == {VersionOf(m) : m \in memories}

\* The write of row n extends its chain by one version.
LEMMA WriteExtends ==
  ASSUME memories \in SUBSET Memory, memories' \in SUBSET Memory,
         Evolves(memories, memories'), NEW n \in memories',
         NEW r, NEW found, IsNext(r, found, n),
         \A x \in memories : ~(x.key = n.key /\ x.version = n.version),
         \A x \in memories : ScopeOf[x.key] = ScopeOf[n.key] => (x.id = n.id <=> x.key = n.key),
         found = {} => \A x \in memories : x.key # n.key,
         \A m \in found :
           m \in memories /\ \A x \in memories : x.key = m.key => x.version <= m.version,
         \A x \in memories' :
           \/ x = n
           \/ \E y \in memories : /\ x.key = y.key /\ x.version = y.version
                                  /\ x.id = y.id /\ x.content = y.content
                                  /\ (x.status = "retracted") <=> (y.status = "retracted")
  PROVE  History!HistoryNext
<1> DEFINE v == VersionOf(n)
<1>1. Stored' = {VersionOf(m) : m \in memories'}
  BY DEF Stored, VersionOf
<1>2. /\ v.key = n.key /\ v.version = n.version /\ v.id = n.id
      /\ v.deleted = (n.status = "retracted")
  BY DEF VersionOf
<1>3. \A u \in Stored : \E x \in memories :
        /\ u = VersionOf(x) /\ u.key = x.key /\ u.version = x.version /\ u.id = x.id
        /\ u.deleted = (x.status = "retracted")
  BY DEF Stored, VersionOf
<1>4. v \in Stored' \ Stored
  BY <1>1, <1>2, <1>3
<1>5. Stored' \subseteq Stored \cup {v}
  <2> SUFFICES ASSUME NEW x \in memories', x # n PROVE VersionOf(x) \in Stored
    BY <1>1
  <2>1. PICK y \in memories : /\ x.key = y.key /\ x.version = y.version
                              /\ x.id = y.id /\ x.content = y.content
                              /\ (x.status = "retracted") <=> (y.status = "retracted")
    OBVIOUS
  <2>2. VersionOf(x) = VersionOf(y)
    BY <2>1 DEF VersionOf
  <2> QED
    BY <2>2 DEF Stored
<1>6. Stored \subseteq Stored'
  <2> SUFFICES ASSUME NEW y \in memories PROVE \E x \in memories' : VersionOf(y) = VersionOf(x)
    BY <1>1 DEF Stored
  <2>1. y \in Memory /\ Lasts(y, memories')
    BY DEF Evolves
  <2>2. PICK x \in memories' :
          /\ x.key = y.key /\ x.version = y.version /\ x.id = y.id /\ x.content = y.content
          /\ x = y \/ (y.status = "active" /\ x.status = "superseded")
    BY <2>1, LastsFacts
  <2>3. (x.status = "retracted") <=> (y.status = "retracted")
    BY <2>2
  <2> QED
    BY <2>2, <2>3 DEF VersionOf
<1> HIDE DEF v
<1>7. CASE found = {}
  <2>1. v.version = 1 /\ ~v.deleted
    BY <1>2, <1>7 DEF IsNext
  <2>2. \A u \in Stored :
          /\ u.key # v.key
          /\ ScopeOf[u.key] = ScopeOf[v.key] => u.id # v.id
    BY <1>2, <1>3, <1>7
  <2> QED
    BY <1>4, <1>5, <1>6, <2>1, <2>2
    DEF History!HistoryNext, History!Extend, History!Starts, Stored, VersionOf
<1>8. CASE found # {}
  <2>1. PICK m \in found : /\ n.key = m.key /\ n.id = m.id /\ n.version = m.version + 1
                           /\ n.status = "retracted" => m.status # "retracted"
    BY <1>8 DEF IsNext
  <2>2. PICK u \in Stored : /\ u.key = m.key /\ u.version = m.version /\ u.id = m.id
                            /\ u.deleted = (m.status = "retracted")
    <3>1. VersionOf(m) \in Stored
      BY DEF Stored
    <3>2. /\ VersionOf(m).key = m.key /\ VersionOf(m).version = m.version
          /\ VersionOf(m).id = m.id /\ VersionOf(m).deleted = (m.status = "retracted")
      BY DEF VersionOf
    <3> QED
      BY <3>1, <3>2
  <2>3. v.key = u.key /\ v.version = u.version + 1 /\ v.id = u.id /\ (v.deleted => ~u.deleted)
    BY <1>2, <2>1, <2>2
  <2>4. \A t \in Stored : t.key = u.key => t.version <= u.version
    BY <1>3, <2>2
  <2> QED
    BY <1>4, <1>5, <1>6, <2>3, <2>4
    DEF History!HistoryNext, History!Extend, History!Last, History!Follows, Stored, VersionOf
<1> QED
  BY <1>7, <1>8

\* Rows change by WriteVersion only.
LEMMA OnlyWrites ==
  ASSUME Chained, [Next]_vars, ~UNCHANGED memories
  PROVE  \E w \in Writers :
           WriteVersion(w) /\ ~UNCHANGED tables /\ InService /\ UNCHANGED database
<1>1. PICK w \in Writers : /\ WriteVersion(w) /\ ~UNCHANGED tables
                           /\ Serving(ProcessOf[w]) /\ UNCHANGED database
  BY DEF Next, Opening, Begin, Migrate, Fault, Stop, Projecting, Project, Calling, Step,
         Call, FindWriteMatch, ReadLatest, Fail, vars, durableVars, startupVars, tables
<1> QED
  BY <1>1, ProcessOfAssumption DEF InService

\* Durable memory is a MemoryHistory: whatever the writers and the processes
\* do, a step of theirs extends one chain by its next version or none at all.
THEOREM HistoryThm == Spec => ImplementsMemoryHistory
<1>1. Chained /\ [Next]_vars =>
        [History!HistoryNext]_({[key |-> m.key, version |-> m.version, id |-> m.id,
                                 content |-> m.content, deleted |-> m.status = "retracted"]
                                  : m \in memories})
  <2> SUFFICES ASSUME Chained, [Next]_vars, ~UNCHANGED memories
               PROVE  History!HistoryNext
    OBVIOUS
  <2>1. PICK w \in Writers : WriteVersion(w) /\ ~UNCHANGED tables /\ InService /\ UNCHANGED database
    BY OnlyWrites
  <2>3. PICK n \in Memory :
          /\ IsNext(request[w], latest[w], n)
          /\ \A x \in memories : ~(x.key = n.key /\ x.version = n.version)
          /\ \A x \in memories : ScopeOf[x.key] = ScopeOf[n.key] => (x.id = n.id <=> x.key = n.key)
          /\ latest[w] = {} => \A x \in memories : x.key # n.key
          /\ \A m \in latest[w] :
               m \in memories /\ \A x \in memories : x.key = m.key => x.version <= m.version
          /\ \A x \in memories' :
               \/ x = n
               \/ \E y \in memories : /\ x.key = y.key /\ x.version = y.version
                                      /\ x.id = y.id /\ x.content = y.content
                                      /\ (x.status = "retracted") <=> (y.status = "retracted")
          /\ n \in memories'
          /\ memories' \in SUBSET Memory /\ Evolves(memories, memories')
    BY <2>1, WriteFacts DEF WriteVersion
  <2>4. memories \in SUBSET Memory
    BY DEF Chained, DurableTyped
  <2> QED
    BY <2>3, <2>4, WriteExtends
<1> QED
  BY <1>1, AlwaysChained, PTL DEF Spec, ImplementsMemoryHistory, History!HistorySpec

-----------------------------------------------------------------------------
(* Recall.                                                                 *)

\* What holds of the start and of durable memory holds when recall runs as well.
THEOREM ServiceIsStartup == ServiceSpec => Spec
<1>1. ServiceInit => Init
  BY DEF ServiceInit
<1>2. [ServiceNext]_ServiceVars => [Next]_vars
  BY DEF ServiceNext, Changing, Commanding, RecallingStep, ServiceVars, vars, durableVars,
         startupVars, tables
<1> QED
  BY <1>1, <1>2, PTL DEF ServiceSpec, Spec

\* A row that was read is there for good, but for its status.
LEMMA RowsLast ==
  ASSUME Chained, [Next]_vars
  PROVE  Evolves(memories, memories') /\ memories' \in SUBSET Memory
<1>1. CASE UNCHANGED memories
  BY <1>1, EvolvesToItself DEF Chained, DurableTyped
<1>2. CASE ~UNCHANGED memories
  <2>1. PICK w \in Writers : WriteVersion(w) /\ ~UNCHANGED tables /\ InService /\ UNCHANGED database
    BY <1>2, OnlyWrites
  <2> QED
    BY <2>1, WriteFacts DEF WriteVersion
<1> QED
  BY <1>1, <1>2

\* An item comes from the session or from a row of durable memory.
FromRows(items, rows) ==
  \A i \in items : i.scope = SessionScope \/ \E m \in rows : i = ItemOf(m)

\* What came from the rows still comes from them after a write.
LEMMA FromRowsEvolves ==
  ASSUME NEW items, NEW old \in SUBSET Memory, NEW rows, FromRows(items, old),
         Evolves(old, rows)
  PROVE  FromRows(items, rows)
<1> SUFFICES ASSUME NEW i \in items, i.scope # SessionScope
             PROVE  \E m \in rows : i = ItemOf(m)
  BY DEF FromRows
<1>1. PICK m \in old : i = ItemOf(m)
  BY DEF FromRows
<1>2. Lasts(m, rows)
  BY DEF Evolves
<1>3. PICK n \in rows : /\ n.key = m.key /\ n.version = m.version /\ n.id = m.id
                        /\ n.content = m.content /\ n.seq = m.seq
  BY <1>2, LastsFacts
<1>4. ItemOf(n) = ItemOf(m)
  BY <1>3 DEF ItemOf
<1> QED
  BY <1>1, <1>4

\* The fields of an item.
LEMMA ItemOfFacts ==
  ASSUME NEW m \in Memory
  PROVE  /\ ItemOf(m) \in Item
         /\ ItemOf(m).scope = ScopeOf[m.key] /\ ItemOf(m).name = NameOf[m.key]
         /\ ItemOf(m).version = m.version /\ ItemOf(m).scope \in Scopes
         /\ ItemOf(m).scope # SessionScope
<1>1. /\ m.key \in Keys /\ m.id \in Ids /\ m.content \in Contents /\ m.seq \in Positive
      /\ m.version \in Positive
  BY DEF Memory
<1>2. ScopeOf[m.key] \in Scopes /\ NameOf[m.key] \in Names
  BY <1>1 DEF Scopes, Names
<1>3. ItemOf(m) \in Item
  BY <1>1, <1>2 DEF ItemOf, Item
<1> QED
  BY <1>2, <1>3, SessionAssumption DEF ItemOf

\* What list_active gives: items of the scope, from its rows.
LEMMA ActiveFacts ==
  ASSUME memories \in SUBSET Memory, NEW s
  PROVE  \A i \in Active(s) :
           i.scope = s /\ i \in Item /\ \E m \in memories : i = ItemOf(m)
<1> SUFFICES ASSUME NEW i \in Active(s)
             PROVE  i.scope = s /\ i \in Item /\ \E m \in memories : i = ItemOf(m)
  OBVIOUS
<1>1. PICK k \in Keys : ScopeOf[k] = s /\ \E m \in GetActive(k) : i = ItemOf(m)
  BY DEF Active, ListActive
<1>2. \A m \in GetActive(k) : m \in memories /\ m.key = k
  BY DEF GetActive, LatestForKey, Newest
<1> QED
  BY <1>1, <1>2, ItemOfFacts

\* An index hit that is validated is what was read of the authority.
LEMMA ValidatedIsRead ==
  ASSUME memories \in SUBSET Memory, Whole(memories), NEW read, FromRows(read, memories),
         NEW hits \in SUBSET Indexed
  PROVE  Validated(hits, read) \subseteq read
<1> SUFFICES ASSUME NEW h \in Validated(hits, read) PROVE h \in read
  OBVIOUS
<1>1. PICK m \in memories : h = ItemOf(m)
  BY DEF Validated, Indexed
<1>2. PICK i \in read : i.scope = h.scope /\ i.name = h.name /\ i.version = h.version
  BY DEF Validated
<1>3. PICK n \in memories : i = ItemOf(n)
  BY <1>1, <1>2, ItemOfFacts DEF FromRows
<1>4. m \in Memory /\ n \in Memory /\ m.key \in Keys /\ n.key \in Keys
  BY DEF Memory
<1>5. m.key = n.key /\ m.version = n.version
  BY <1>1, <1>2, <1>3, <1>4, ItemOfFacts, NameOfAssumption
<1>6. m = n
  BY <1>5 DEF Whole
<1> QED
  BY <1>1, <1>3, <1>6

\* The items taken are those of the merge, one per name.
LEMMA AnswerFacts ==
  ASSUME NEW q, NEW found, NEW merged \in Merges(Matching(q, found)),
         NEW items \in Packings(q, merged)
  PROVE  /\ items \subseteq Matching(q, found)
         /\ \A i, j \in items : i.name = j.name => i = j
         /\ \A i \in Matching(q, found) : \E j \in Matching(q, found) :
              /\ j.name = i.name
              /\ ~Precedes(i, j)
              /\ j \in items \/ ~Fits(q, {k \in items : RankedBefore(q, k, j)}, j)
<1> DEFINE matching == Matching(q, found)
           names == {i.name : i \in matching}
<1>1. PICK pick \in [names -> matching] :
        /\ \A n \in names : pick[n] \in Best(matching, n)
        /\ merged = {pick[n] : n \in names}
  BY DEF Merges
<1>2. \A n \in names : pick[n] \in matching /\ pick[n].name = n
  BY <1>1 DEF Best
<1>3. \A i \in matching : i.name \in names
  OBVIOUS
<1> HIDE DEF names, matching
<1>4. items \subseteq merged
  BY DEF Packings
<1>5. ASSUME NEW i \in matching
      PROVE  \E j \in matching :
               /\ j.name = i.name
               /\ ~Precedes(i, j)
               /\ j \in items \/ ~Fits(q, {k \in items : RankedBefore(q, k, j)}, j)
  <2>1. /\ pick[i.name] \in merged /\ pick[i.name] \in matching /\ pick[i.name].name = i.name
        /\ ~Precedes(i, pick[i.name])
    BY <1>1, <1>2, <1>3 DEF Best
  <2>2. \A j \in merged : j \in items \/ ~Fits(q, {k \in items : RankedBefore(q, k, j)}, j)
    BY DEF Packings
  <2> QED
    BY <2>1, <2>2
<1> QED
  BY <1>1, <1>2, <1>4, <1>5 DEF matching

\* What a call of recall knows: what it read was current, and nothing that
\* stayed current in a scope that it read is missing.
RecallTyped ==
  /\ DOMAIN recall = {"pc", "query", "unread", "read", "degraded", "items", "ever", "always"}
  /\ recall.pc \in {"idle", "session", "durable", "answered"}
  /\ recall.items \subseteq Item /\ recall.read \subseteq Item
  /\ session \in [last : Nat, items : SUBSET Item]
  /\ \A i \in session.items : i.scope = SessionScope

Sighted ==
  Recalling =>
    /\ recall.read \subseteq recall.ever
    /\ Current \subseteq recall.ever
    /\ recall.always \subseteq Current
    /\ FromRows(recall.read, memories)
    /\ recall.pc = "durable" /\ ~recall.degraded =>
         \A i \in recall.always :
           i.scope \in recall.query.visible \ recall.unread => i \in recall.read

RecallInv == RecallTyped /\ Sighted /\ RecallIsCurrent /\ RecallIsComplete

\* The fields of a call that has not begun.
LEMMA NoRecallFacts ==
  /\ DOMAIN NoRecall = {"pc", "query", "unread", "read", "degraded", "items", "ever", "always"}
  /\ NoRecall.pc = "idle" /\ NoRecall.read = {} /\ NoRecall.items = {}
BY DEF NoRecall

\* Recall is forgotten.
LEMMA ForgetStep ==
  ASSUME RecallInv, recall' = NoRecall, UNCHANGED session
  PROVE  RecallInv'
<1>1. RecallTyped'
  BY NoRecallFacts DEF RecallInv, RecallTyped
<1>2. recall'.pc = "idle"
  BY NoRecallFacts
<1> QED
  BY <1>1, <1>2 DEF RecallInv, Sighted, Recalling, RecallIsCurrent, RecallIsComplete

\* The stores change, and recall goes on.
LEMMA ObserveStep ==
  ASSUME RecallInv, Observe, memories \in SUBSET Memory, Evolves(memories, memories'),
         session' \in [last : Nat, items : SUBSET Item],
         \A i \in session'.items : i.scope = SessionScope
  PROVE  RecallInv'
<1>1. CASE ~Recalling
  <2>1. recall' = recall
    BY <1>1 DEF Observe
  <2>2. RecallTyped'
    BY <2>1 DEF RecallInv, RecallTyped
  <2>3. RecallIsCurrent' /\ RecallIsComplete' /\ ~Recalling'
    BY <1>1, <2>1 DEF RecallInv, RecallIsCurrent, RecallIsComplete, Recalling
  <2> QED
    BY <2>2, <2>3 DEF RecallInv, Sighted
<1>2. CASE Recalling
  <2>1. recall' = [recall EXCEPT !.ever = recall.ever \cup Current',
                                 !.always = recall.always \cap Current']
    BY <1>2 DEF Observe
  <2>2. /\ DOMAIN recall' = DOMAIN recall
        /\ recall'.pc = recall.pc /\ recall'.query = recall.query
        /\ recall'.unread = recall.unread /\ recall'.read = recall.read
        /\ recall'.degraded = recall.degraded /\ recall'.items = recall.items
        /\ recall'.ever = recall.ever \cup Current'
        /\ recall'.always = recall.always \cap Current'
    BY <2>1 DEF RecallInv, RecallTyped
  <2>3. RecallTyped'
    BY <2>2 DEF RecallInv, RecallTyped
  <2>4. recall.pc # "answered"
    BY <1>2 DEF Recalling
  <2>5. RecallIsCurrent' /\ RecallIsComplete'
    BY <2>2, <2>4 DEF RecallIsCurrent, RecallIsComplete
  <2>6. FromRows(recall.read, memories')
    BY <1>2, FromRowsEvolves DEF RecallInv, Sighted
  <2>7. Sighted'
    BY <1>2, <2>2, <2>6 DEF RecallInv, Sighted, FromRows
  <2> QED
    BY <2>3, <2>5, <2>7 DEF RecallInv
<1> QED
  BY <1>1, <1>2

\* A step that leaves rows and session alone leaves alone what is current.
LEMMA SameCurrent ==
  ASSUME UNCHANGED <<session, memories>>
  PROVE  Current' = Current
BY DEF Current, Active, ListActive, GetActive, LatestForKey, Newest

\* The begin of a call.
LEMMA AskStep ==
  ASSUME RecallInv, UNCHANGED memories, NEW q, Ask(q)
  PROVE  RecallInv'
<1>1. UNCHANGED <<session, memories>>
  BY DEF Ask
<1>2. /\ DOMAIN recall' = DOMAIN NoRecall
      /\ recall'.pc = "session" /\ recall'.read = {} /\ recall'.items = {}
      /\ recall'.ever = Current /\ recall'.always = Current
  BY DEF Ask, NoRecall
<1>3. RecallTyped'
  BY <1>1, <1>2, NoRecallFacts DEF RecallInv, RecallTyped
<1>4. RecallIsCurrent' /\ RecallIsComplete'
  BY <1>2 DEF RecallIsCurrent, RecallIsComplete
<1>5. Sighted'
  BY <1>1, <1>2, SameCurrent DEF Sighted, FromRows
<1> QED
  BY <1>3, <1>4, <1>5 DEF RecallInv

\* What is current is items.
LEMMA CurrentFacts ==
  ASSUME RecallTyped, memories \in SUBSET Memory
  PROVE  /\ session.items \subseteq Current /\ \A s \in Scopes : Active(s) \subseteq Current
         /\ \A i \in Current : i.scope = SessionScope => i \in session.items
         /\ \A i \in Current : i.scope # SessionScope => i \in Active(i.scope)
<1>1. \A s : \A i \in Active(s) : i.scope = s
  BY ActiveFacts
<1> QED
  BY <1>1, SessionAssumption DEF Current, RecallTyped

\* ReadSession keeps the invariant.
LEMMA ReadSessionStep ==
  ASSUME RecallInv, memories \in SUBSET Memory, UNCHANGED memories, ReadSession
  PROVE  RecallInv'
<1>1. UNCHANGED <<session, memories>> /\ recall.pc = "session"
  BY DEF ReadSession
<1>2. CASE recall' = NoRecall
  BY <1>1, <1>2, ForgetStep
<1>3. CASE recall' = [recall EXCEPT
             !.pc = "durable",
             !.read = IF SessionScope \in recall.query.visible THEN session.items ELSE {},
             !.unread = recall.query.visible \ {SessionScope}]
  <2>1. /\ DOMAIN recall' = DOMAIN recall
        /\ recall'.pc = "durable" /\ recall'.items = recall.items
        /\ recall'.read = IF SessionScope \in recall.query.visible THEN session.items ELSE {}
        /\ recall'.unread = recall.query.visible \ {SessionScope}
        /\ recall'.query = recall.query
        /\ recall'.ever = recall.ever /\ recall'.always = recall.always
    BY <1>3 DEF RecallInv, RecallTyped
  <2>2. session.items \subseteq Item
    BY DEF RecallInv, RecallTyped
  <2>3. RecallTyped'
    BY <1>1, <2>1, <2>2 DEF RecallInv, RecallTyped
  <2>4. RecallIsCurrent' /\ RecallIsComplete'
    BY <2>1 DEF RecallIsCurrent, RecallIsComplete
  <2>5. /\ session.items \subseteq Current
        /\ \A i \in Current : i.scope = SessionScope => i \in session.items
    BY CurrentFacts DEF RecallInv
  <2>6. Current \subseteq recall.ever /\ recall.always \subseteq Current
    BY <1>1 DEF RecallInv, Sighted, Recalling
  <2>7. FromRows(recall'.read, memories')
    BY <2>1 DEF FromRows, RecallInv, RecallTyped
  <2>8. Current' = Current
    BY <1>1, SameCurrent
  <2>9. Sighted'
    BY <2>1, <2>5, <2>6, <2>7, <2>8 DEF Sighted, FromRows
  <2> QED
    BY <2>3, <2>4, <2>9 DEF RecallInv
<1> QED
  BY <1>2, <1>3 DEF ReadSession

\* ReadDurable keeps the invariant.
LEMMA ReadDurableStep ==
  ASSUME RecallInv, memories \in SUBSET Memory, UNCHANGED memories, NEW s \in Scopes,
         ReadDurable(s)
  PROVE  RecallInv'
<1>1. UNCHANGED <<session, memories>> /\ recall.pc = "durable"
  BY DEF ReadDurable
<1>2. /\ recall.read \subseteq recall.ever /\ Current \subseteq recall.ever
      /\ recall.always \subseteq Current /\ FromRows(recall.read, memories)
      /\ ~recall.degraded => \A i \in recall.always :
            i.scope \in recall.query.visible \ recall.unread => i \in recall.read
  BY <1>1 DEF RecallInv, Sighted, Recalling
<1>3. Current' = Current
  BY <1>1, SameCurrent
<1>4. /\ Active(s) \subseteq Current /\ s # SessionScope
      /\ \A i \in Current : i.scope = s => i \in Active(s)
  BY CurrentFacts, SessionAssumption DEF RecallInv
<1>5. /\ \A i \in Active(s) : i \in Item /\ \E m \in memories : i = ItemOf(m)
  BY ActiveFacts
<1>6. CASE recall' = [recall EXCEPT !.unread = recall.unread \ {s},
                                    !.read = recall.read \cup Active(s)]
  <2>1. /\ DOMAIN recall' = DOMAIN recall
        /\ recall'.pc = "durable" /\ recall'.items = recall.items
        /\ recall'.read = recall.read \cup Active(s)
        /\ recall'.unread = recall.unread \ {s}
        /\ recall'.query = recall.query /\ recall'.degraded = recall.degraded
        /\ recall'.ever = recall.ever /\ recall'.always = recall.always
    BY <1>1, <1>6 DEF RecallInv, RecallTyped
  <2>2. RecallTyped'
    BY <1>1, <1>5, <2>1 DEF RecallInv, RecallTyped
  <2>3. RecallIsCurrent' /\ RecallIsComplete'
    BY <2>1 DEF RecallIsCurrent, RecallIsComplete
  <2>4. FromRows(recall'.read, memories')
    BY <1>1, <1>2, <1>5, <2>1 DEF FromRows
  <2>5. ~recall.degraded => \A i \in recall.always :
          i.scope \in recall.query.visible \ recall'.unread => i \in recall'.read
    BY <1>2, <1>4, <2>1
  <2>6. Sighted'
    BY <1>2, <1>3, <1>4, <2>1, <2>4, <2>5 DEF Sighted, FromRows
  <2> QED
    BY <2>2, <2>3, <2>6 DEF RecallInv
<1>7. CASE recall' = [recall EXCEPT !.unread = recall.unread \ {s}, !.degraded = TRUE]
  <2>1. /\ DOMAIN recall' = DOMAIN recall
        /\ recall'.pc = "durable" /\ recall'.items = recall.items
        /\ recall'.read = recall.read /\ recall'.degraded
        /\ recall'.ever = recall.ever /\ recall'.always = recall.always
    BY <1>1, <1>7 DEF RecallInv, RecallTyped
  <2>2. RecallTyped'
    BY <1>1, <2>1 DEF RecallInv, RecallTyped
  <2>3. RecallIsCurrent' /\ RecallIsComplete'
    BY <2>1 DEF RecallIsCurrent, RecallIsComplete
  <2>4. Sighted'
    BY <1>1, <1>2, <1>3, <2>1 DEF Sighted, FromRows
  <2> QED
    BY <2>2, <2>3, <2>4 DEF RecallInv
<1> QED
  BY <1>6, <1>7 DEF ReadDurable

\* Answer keeps the invariant: the answer is current and complete.
LEMMA AnswerStep ==
  ASSUME RecallInv, memories \in SUBSET Memory, Whole(memories), UNCHANGED memories, Answer
  PROVE  RecallInv'
<1>1. UNCHANGED <<session, memories>> /\ recall.pc = "durable" /\ recall.unread = {}
  BY DEF Answer
<1>2. /\ recall.read \subseteq recall.ever /\ recall.always \subseteq Current
      /\ FromRows(recall.read, memories)
      /\ ~recall.degraded => \A i \in recall.always :
            i.scope \in recall.query.visible \ recall.unread => i \in recall.read
  BY <1>1 DEF RecallInv, Sighted, Recalling
<1>3. PICK failed \in BOOLEAN, hits \in SUBSET Indexed :
        LET found == recall.read \cup IF failed THEN {} ELSE Validated(hits, recall.read)
        IN \E merged \in Merges(Matching(recall.query, found)) :
             \E items \in Packings(recall.query, merged) :
               recall' = [recall EXCEPT !.pc = "answered", !.read = {}, !.items = items,
                                        !.degraded = recall.degraded \/ failed]
  BY DEF Answer
<1>4. Validated(hits, recall.read) \subseteq recall.read
  BY <1>2, ValidatedIsRead
<1>5. recall.read \cup (IF failed THEN {} ELSE Validated(hits, recall.read)) = recall.read
  BY <1>4
<1>6. PICK merged \in Merges(Matching(recall.query, recall.read)) :
        \E items \in Packings(recall.query, merged) :
          recall' = [recall EXCEPT !.pc = "answered", !.read = {}, !.items = items,
                                   !.degraded = recall.degraded \/ failed]
  BY <1>3, <1>5
<1>7. PICK items \in Packings(recall.query, merged) :
        recall' = [recall EXCEPT !.pc = "answered", !.read = {}, !.items = items,
                                 !.degraded = recall.degraded \/ failed]
  BY <1>6
<1>8. /\ DOMAIN recall' = DOMAIN recall
      /\ recall'.pc = "answered" /\ recall'.items = items /\ recall'.read = {}
      /\ recall'.query = recall.query /\ recall'.ever = recall.ever
      /\ recall'.always = recall.always
      /\ ~recall'.degraded => ~recall.degraded
  BY <1>7 DEF RecallInv, RecallTyped
<1> DEFINE q == recall.query
<1>9. /\ items \subseteq Matching(q, recall.read)
      /\ \A i, j \in items : i.name = j.name => i = j
      /\ \A i \in Matching(q, recall.read) : \E j \in Matching(q, recall.read) :
           /\ j.name = i.name
           /\ ~Precedes(i, j)
           /\ j \in items \/ ~Fits(q, {k \in items : RankedBefore(q, k, j)}, j)
  BY AnswerFacts
<1>10. Matching(q, recall.read) \subseteq Matching(q, recall.ever)
  BY <1>2 DEF Matching
<1>11. RecallTyped'
  <2>1. items \subseteq Item
    BY <1>9 DEF Matching, RecallInv, RecallTyped
  <2> QED
    BY <1>1, <1>8, <2>1 DEF RecallInv, RecallTyped
<1>12. RecallIsCurrent'
  BY <1>8, <1>9, <1>10 DEF RecallIsCurrent
<1>13. RecallIsComplete'
  <2> SUFFICES ASSUME ~recall.degraded, NEW i \in Matching(q, recall.always)
               PROVE  \E j \in Matching(q, recall.ever) :
                        /\ j.name = i.name
                        /\ ~Precedes(i, j)
                        /\ j \in items \/ ~Fits(q, {k \in items : RankedBefore(q, k, j)}, j)
    BY <1>8 DEF RecallIsComplete
  <2>1. i \in recall.always /\ i.scope \in q.visible /\ q.score[i.content] > 0
    BY DEF Matching
  <2>2. i \in Matching(q, recall.read)
    BY <1>1, <1>2, <2>1 DEF Matching
  <2> QED
    BY <1>9, <1>10, <2>2
<1>14. Sighted'
  BY <1>8 DEF Sighted, Recalling
<1> QED
  BY <1>11, <1>12, <1>13, <1>14 DEF RecallInv

\* The names that clients ask the session for are names.
NamesTyped == requests.names \subseteq Names

\* A command of the session keeps the invariant.
LEMMA SessionStep ==
  ASSUME RecallTyped, NEW n \in Names, SessionChange(n)
  PROVE  /\ session' \in [last : Nat, items : SUBSET Item]
         /\ \A i \in session'.items : i.scope = SessionScope
<1> DEFINE previous == {i \in session.items : i.name = n}
           next == session.last + 1
           version == IF previous = {} THEN 1 ELSE (CHOOSE i \in previous : TRUE).version + 1
           set(c) == {[scope |-> SessionScope, name |-> n, id |-> SessionId, content |-> c,
                       seq |-> next, version |-> version]}
<1>1. /\ session.last \in Nat /\ session.items \subseteq Item
      /\ \A i \in session.items : i.scope = SessionScope
  BY DEF RecallTyped
<1>2. next \in Positive
  BY <1>1 DEF Positive
<1>3. version \in Positive
  <2>1. CASE previous = {}
    BY <2>1 DEF Positive
  <2>2. CASE previous # {}
    <3>1. (CHOOSE i \in previous : TRUE) \in previous
      BY <2>2
    <3>2. (CHOOSE i \in previous : TRUE).version \in Positive
      BY <1>1, <3>1 DEF Item
    <3> QED
      BY <2>2, <3>2 DEF Positive
  <2> QED
    BY <2>1, <2>2
<1>4. PICK new \in {{}} \cup {set(c) : c \in Contents} :
        session' = [last |-> next, items |-> (session.items \ previous) \cup new]
  BY DEF SessionChange
<1> HIDE DEF next, version
<1>5. \A c \in Contents : \A i \in set(c) : i \in Item /\ i.scope = SessionScope
  BY <1>2, <1>3 DEF Item
<1>6. \A i \in new : i \in Item /\ i.scope = SessionScope
  BY <1>5
<1>7. /\ session'.items = (session.items \ previous) \cup new
      /\ session' = [last |-> next, items |-> session'.items]
  BY <1>4
<1>8. session'.items \subseteq Item /\ \A i \in session'.items : i.scope = SessionScope
  BY <1>1, <1>6, <1>7
<1> QED
  BY <1>2, <1>7, <1>8 DEF Positive

\* Every step keeps true what a call of recall knows of what it has read.
THEOREM RecallInductive ==
  ASSUME Chained, NamesTyped, RecallInv, [ServiceNext]_ServiceVars
  PROVE  RecallInv'
<1>1. memories \in SUBSET Memory /\ Whole(memories) /\ RecallTyped
  BY DEF Chained, DurableTyped, RecallInv
<1>2. CASE UNCHANGED ServiceVars
  <2>1. UNCHANGED <<memories, session, recall>>
    BY <1>2 DEF ServiceVars, vars, durableVars, tables, recallVars
  <2>2. RecallTyped' /\ RecallIsCurrent' /\ RecallIsComplete'
    BY <2>1 DEF RecallInv, RecallTyped, RecallIsCurrent, RecallIsComplete
  <2>3. Sighted'
    BY <2>1, SameCurrent DEF RecallInv, Sighted, Recalling, FromRows
  <2> QED
    BY <2>2, <2>3 DEF RecallInv
<1>3. CASE Changing
  <2>1. Next /\ UNCHANGED session
    BY <1>3 DEF Changing
  <2>2. Evolves(memories, memories')
    BY <2>1, RowsLast
  <2>3. /\ session' \in [last : Nat, items : SUBSET Item]
        /\ \A i \in session'.items : i.scope = SessionScope
    BY <1>1, <2>1 DEF RecallTyped
  <2> QED
    BY <1>1, <1>3, <2>1, <2>2, <2>3, ForgetStep, ObserveStep DEF Changing
<1>4. CASE Commanding
  <2>1. PICK n \in requests.names : SessionChange(n)
    BY <1>4 DEF Commanding
  <2>2. n \in Names
    BY <2>1 DEF NamesTyped
  <2>3. UNCHANGED memories /\ Observe
    BY <1>4 DEF Commanding, durableVars, tables
  <2>4. Evolves(memories, memories')
    BY <2>3, EvolvesToItself
  <2> QED
    BY <1>1, <2>1, <2>2, <2>3, <2>4, SessionStep, ObserveStep
<1>5. CASE RecallingStep
  <2>1. UNCHANGED memories
    BY <1>5 DEF RecallingStep, durableVars, tables
  <2> QED
    BY <1>1, <1>5, <2>1, AskStep, ReadSessionStep, ReadDurableStep, AnswerStep
    DEF RecallingStep, RecallStep
<1> QED
  BY <1>2, <1>3, <1>4, <1>5 DEF ServiceNext

\* Nothing has been recalled in the beginning.
LEMMA InitRecall == ServiceInit => RecallInv
<1> SUFFICES ASSUME RecallInit PROVE RecallInv
  BY DEF ServiceInit
<1>1. recall.pc = "idle"
  BY NoRecallFacts DEF RecallInit
<1>2. RecallTyped
  BY NoRecallFacts DEF RecallInit, RecallTyped
<1> QED
  BY <1>1, <1>2 DEF RecallInv, Sighted, Recalling, RecallIsCurrent, RecallIsComplete

\* The invariant holds of every behaviour.
LEMMA AlwaysRecallInv == ServiceSpec => []RecallInv
<1>1. ServiceInit => NamesTyped
  BY NamesAssumption DEF ServiceInit, Init, NamesTyped
<1>2. NamesTyped /\ [ServiceNext]_ServiceVars => NamesTyped'
  BY DEF NamesTyped, ServiceNext, Changing, Commanding, RecallingStep, Next, ServiceVars, vars
<1>3. Chained /\ NamesTyped /\ RecallInv /\ [ServiceNext]_ServiceVars => RecallInv'
  BY RecallInductive
<1> QED
  BY InitRecall, ServiceIsStartup, AlwaysChained, <1>1, <1>2, <1>3, PTL DEF ServiceSpec

\* Whatever the writers, the session and an index that lags behind do while
\* recall reads one scope after the other, it answers only with what was
\* current at some moment of the call, and with one item per key.
THEOREM RecallIsCurrentThm == ServiceSpec => []RecallIsCurrent
<1>1. RecallInv => RecallIsCurrent
  BY DEF RecallInv
<1> QED
  BY <1>1, AlwaysRecallInv, PTL

\* An item that matches and stays current during the whole call is answered,
\* unless one of the same key stands for it or the budget leaves no room.
THEOREM RecallIsCompleteThm == ServiceSpec => []RecallIsComplete
<1>1. RecallInv => RecallIsComplete
  BY DEF RecallInv
<1> QED
  BY <1>1, AlwaysRecallInv, PTL

-----------------------------------------------------------------------------
(* The cost of an answer.  The library's sum takes the elements of a set   *)
(* in an order that CHOOSE fixes; the induction over it is on the least    *)
(* set that is an exception.                                               *)

Chosen(s) == CHOOSE i \in s : TRUE

\* f is the recursive function of the sum over S.
Sums(f, S) ==
  f = [s \in SUBSET S |-> IF s = {} THEN 0 ELSE Cost[Chosen(s).content] + f[s \ {Chosen(s)}]]

Total(S) == CHOOSE f : Sums(f, S)

\* The tokens of a set are what its recursive function says of it.
LEMMA TokensAreTotal ==
  ASSUME NEW S
  PROVE  Tokens(S) = Total(S)[S]
BY DEF Tokens, MapThenSumSet, MapThenFoldSet, Total, Sums, Chosen

\* Among sets of subsets of a finite set there is a least one.
LEMMA LeastSubset ==
  ASSUME NEW U, IsFiniteSet(U), NEW Bad \in SUBSET (SUBSET U), Bad # {}
  PROVE  \E s \in Bad : \A t \in SUBSET s : t # s => t \notin Bad
<1>1. IsWellFoundedOn(StrictSubsetOrdering(U), SUBSET U)
  BY FS_StrictSubsetOrderingWellFounded, FS_FiniteSubsetsOfFinite
<1>2. PICK s \in Bad : \A t \in Bad : ~(<<t, s>> \in StrictSubsetOrdering(U))
  BY <1>1, WFMin
<1>3. ASSUME NEW t \in SUBSET s, t # s, t \in Bad
      PROVE  FALSE
  BY <1>2, <1>3 DEF StrictSubsetOrdering
<1> QED
  BY <1>3

\* What is chosen belongs to the set, and what is left is less.
LEMMA ChosenFacts ==
  ASSUME NEW s, s # {}
  PROVE  Chosen(s) \in s /\ s \ {Chosen(s)} \subseteq s /\ s \ {Chosen(s)} # s
BY DEF Chosen

\* Two functions of the sum agree where both are defined.
LEMMA SumsAgree ==
  ASSUME NEW A, NEW B, IsFiniteSet(A), NEW f, NEW g, Sums(f, A), Sums(g, B),
         NEW s, s \subseteq A, s \subseteq B
  PROVE  f[s] = g[s]
<1> DEFINE Bad == {t \in SUBSET A : t \subseteq B /\ f[t] # g[t]}
<1> SUFFICES ASSUME Bad # {} PROVE FALSE
  OBVIOUS
<1>1. PICK t \in Bad : \A r \in SUBSET t : r # t => r \notin Bad
  <2>1. Bad \in SUBSET (SUBSET A)
    OBVIOUS
  <2> HIDE DEF Bad
  <2> QED
    BY <2>1, LeastSubset
<1>2. t \subseteq A /\ t \subseteq B /\ f[t] # g[t]
  OBVIOUS
<1>3. /\ f[t] = IF t = {} THEN 0 ELSE Cost[Chosen(t).content] + f[t \ {Chosen(t)}]
      /\ g[t] = IF t = {} THEN 0 ELSE Cost[Chosen(t).content] + g[t \ {Chosen(t)}]
  BY <1>2 DEF Sums
<1>4. t # {}
  BY <1>2, <1>3
<1>5. f[t \ {Chosen(t)}] = g[t \ {Chosen(t)}]
  BY <1>1, <1>2, <1>4, ChosenFacts
<1> QED
  BY <1>2, <1>3, <1>5

\* The function of the sum exists for every finite set.
LEMMA TotalExists ==
  ASSUME NEW U, IsFiniteSet(U)
  PROVE  Sums(Total(U), U)
<1> DEFINE Bad == {t \in SUBSET U : ~\E f : Sums(f, t)}
<1>1. Bad = {}
  <2> SUFFICES ASSUME Bad # {} PROVE FALSE
    OBVIOUS
  <2>1. PICK t \in Bad : \A r \in SUBSET t : r # t => r \notin Bad
    <3>1. Bad \in SUBSET (SUBSET U)
      OBVIOUS
    <3> HIDE DEF Bad
    <3> QED
      BY <3>1, LeastSubset
  <2>2. \A r \in SUBSET t : r # t => Sums(Total(r), r)
    BY <2>1 DEF Total
  <2>3. \A r \in SUBSET t : IsFiniteSet(r)
    BY FS_Subset
  <2> DEFINE sum(s) == IF s = {} THEN 0
                       ELSE Cost[Chosen(s).content]
                            + Total(s \ {Chosen(s)})[s \ {Chosen(s)}]
             g == [s \in SUBSET t |-> sum(s)]
  <2>4. ASSUME NEW r \in SUBSET t, r # t
        PROVE  g[r] = Total(r)[r]
    <3>1. Total(r)[r] = IF r = {} THEN 0
                        ELSE Cost[Chosen(r).content] + Total(r)[r \ {Chosen(r)}]
      BY <2>2, <2>4 DEF Sums
    <3>2. CASE r = {}
      BY <3>1, <3>2
    <3>3. CASE r # {}
      <4> DEFINE less == r \ {Chosen(r)}
      <4>1. less \subseteq r /\ less # t /\ less \subseteq t
        BY <2>4, <3>3, ChosenFacts
      <4>2. Sums(Total(less), less) /\ Sums(Total(r), r) /\ IsFiniteSet(less)
        BY <2>2, <2>3, <2>4, <4>1
      <4> HIDE DEF less
      <4>3. Total(less)[less] = Total(r)[less]
        BY <4>1, <4>2, SumsAgree
      <4> QED
        BY <3>1, <3>3, <4>3 DEF less
    <3> QED
      BY <3>2, <3>3
  <2>5. ASSUME NEW s \in SUBSET t
        PROVE  g[s] = IF s = {} THEN 0 ELSE Cost[Chosen(s).content] + g[s \ {Chosen(s)}]
    <3>1. CASE s = {}
      BY <3>1
    <3>2. CASE s # {}
      <4>1. s \ {Chosen(s)} \in SUBSET t /\ s \ {Chosen(s)} # t
        BY <3>2, ChosenFacts
      <4>2. g[s \ {Chosen(s)}] = Total(s \ {Chosen(s)})[s \ {Chosen(s)}]
        BY <2>4, <4>1
      <4> QED
        BY <3>2, <4>2
    <3> QED
      BY <3>1, <3>2
  <2>6. Sums(g, t)
    <3> HIDE DEF sum
    <3> QED
      BY <2>5 DEF Sums
  <2> QED
    BY <2>6
<1>2. \E f : Sums(f, U)
  BY <1>1
<1> QED
  BY <1>2 DEF Total

\* An empty answer costs nothing, any other one what is chosen and the rest.
LEMMA TokensUnfold ==
  ASSUME NEW S, IsFiniteSet(S)
  PROVE  /\ S = {} => Tokens(S) = 0
         /\ S # {} => Tokens(S) = Cost[Chosen(S).content] + Tokens(S \ {Chosen(S)})
<1>1. Sums(Total(S), S)
  BY TotalExists
<1>2. Total(S)[S] = IF S = {} THEN 0 ELSE Cost[Chosen(S).content] + Total(S)[S \ {Chosen(S)}]
  BY <1>1 DEF Sums
<1>3. ASSUME S # {}
      PROVE  Total(S)[S \ {Chosen(S)}] = Tokens(S \ {Chosen(S)})
  <2> DEFINE less == S \ {Chosen(S)}
  <2>1. less \subseteq S /\ IsFiniteSet(less)
    BY FS_Subset
  <2>2. Sums(Total(less), less)
    BY <2>1, TotalExists
  <2> HIDE DEF less
  <2>3. Total(less)[less] = Total(S)[less]
    BY <1>1, <2>1, <2>2, SumsAgree
  <2> QED
    BY <2>3, TokensAreTotal DEF less
<1> QED
  BY <1>2, <1>3, TokensAreTotal

\* A cost is a number.
LEMMA TokensTyped ==
  ASSUME NEW S \in SUBSET Item, IsFiniteSet(S)
  PROVE  Tokens(S) \in Nat
<1> DEFINE Bad == {t \in SUBSET S : Tokens(t) \notin Nat}
<1> SUFFICES ASSUME Bad # {} PROVE FALSE
  OBVIOUS
<1>1. PICK t \in Bad : \A r \in SUBSET t : r # t => r \notin Bad
  <2>1. Bad \in SUBSET (SUBSET S)
    OBVIOUS
  <2> HIDE DEF Bad
  <2> QED
    BY <2>1, LeastSubset
<1>2. IsFiniteSet(t) /\ Tokens(t) \notin Nat
  BY FS_Subset
<1>3. t # {}
  <2> HIDE DEF Bad
  <2>1. t = {} => Tokens(t) = 0
    BY <1>2, TokensUnfold
  <2> QED
    BY <1>2, <2>1
<1>4. Tokens(t \ {Chosen(t)}) \in Nat
  BY <1>1, <1>3, ChosenFacts
<1>5. Cost[Chosen(t).content] \in Nat
  BY <1>3, ChosenFacts, CostAssumption DEF Item
<1>6. Tokens(t) = Cost[Chosen(t).content] + Tokens(t \ {Chosen(t)})
  BY <1>2, <1>3, TokensUnfold
<1> QED
  BY <1>2, <1>4, <1>5, <1>6

\* Whichever item is taken out first, the cost is that of it and the rest.
LEMMA TokensOfOneMore ==
  ASSUME NEW S \in SUBSET Item, IsFiniteSet(S), NEW i \in S
  PROVE  Tokens(S) = Cost[i.content] + Tokens(S \ {i})
<1> DEFINE Splits(t, j) == Tokens(t) = Cost[j.content] + Tokens(t \ {j})
           Bad == {t \in SUBSET S : \E j \in t : ~Splits(t, j)}
<1> SUFFICES ASSUME Bad # {} PROVE FALSE
  OBVIOUS
<1>1. PICK t \in Bad : \A r \in SUBSET t : r # t => r \notin Bad
  <2>1. Bad \in SUBSET (SUBSET S)
    OBVIOUS
  <2> HIDE DEF Bad
  <2> QED
    BY <2>1, LeastSubset
<1>2. PICK j \in t : ~Splits(t, j)
  OBVIOUS
<1> DEFINE x == Chosen(t)
<1>3. t # {} /\ x \in t /\ t \subseteq S
  BY <1>2, ChosenFacts
<1>4. \A r \in SUBSET t : IsFiniteSet(r) /\ Tokens(r) \in Nat
  BY <1>3, FS_Subset, TokensTyped
<1>5. Cost[x.content] \in Nat /\ Cost[j.content] \in Nat
  BY <1>3, CostAssumption DEF Item
<1>6. Splits(t, x)
  BY <1>3, <1>4, TokensUnfold
<1>7. x # j
  BY <1>2, <1>6
<1> HIDE DEF x
<1>8. /\ t \ {x} \notin Bad /\ t \ {j} \notin Bad
      /\ j \in t \ {x} /\ x \in t \ {j}
  BY <1>1, <1>2, <1>3, <1>7
<1>9. Splits(t \ {x}, j) /\ Splits(t \ {j}, x)
  BY <1>3, <1>8
<1>10. (t \ {x}) \ {j} = (t \ {j}) \ {x}
  OBVIOUS
<1> DEFINE both == (t \ {x}) \ {j}
<1>11. /\ Tokens(t) = Cost[x.content] + Tokens(t \ {x})
       /\ Tokens(t \ {x}) = Cost[j.content] + Tokens(both)
       /\ Tokens(t \ {j}) = Cost[x.content] + Tokens(both)
  BY <1>6, <1>9, <1>10
<1>12. Tokens(both) \in Nat
  BY <1>4
<1>13. Tokens(t) = Cost[j.content] + Tokens(t \ {j})
  <2> HIDE DEF both
  <2> QED
    BY <1>5, <1>11, <1>12
<1> QED
  BY <1>2, <1>13

-----------------------------------------------------------------------------
(* The ranking of the items, and the budget.                               *)

\* A request: topK and maxTokens are positive (models.py), scores are counts.
Queryable(q) ==
  /\ q.topK \in Nat /\ q.maxTokens \in Nat
  /\ \A c \in Contents : q.score[c] \in Nat

\* Names have different places in the alphabet.
LEMMA NamesAreOrdered ==
  /\ IsFiniteSet(Names)
  /\ \A n \in Names : NameIndex(n) \in Nat
  /\ \A m, n \in Names : m # n => NameIndex(m) # NameIndex(n)
<1>1. IsFiniteSet(Names)
  <2> DEFINE named == [k \in Keys |-> NameOf[k]]
  <2>1. Names = {named[k] : k \in Keys}
    BY DEF Names
  <2>2. IsFiniteSet({named[k] : k \in Keys})
    <3>1. named \in Surjection(Keys, Names)
      BY <2>1 DEF Surjection
    <3> QED
      BY <2>1, <3>1, KeysAssumption, FS_Surjection
  <2> QED
    BY <2>1, <2>2
<1> DEFINE n == Cardinality(Names)
<1>2. n \in Nat
  BY <1>1, FS_CardinalityType
<1>3. \E f \in [1..n -> Names] : IsInjective(f)
  <2>1. PICK f \in Bijection(1..n, Names) : TRUE
    BY <1>1, FS_CardinalityType DEF ExistsBijection
  <2> QED
    BY <2>1 DEF Bijection, Injection, IsInjective
<1>4. Alphabet \in [1..n -> Names] /\ IsInjective(Alphabet)
  BY <1>3 DEF Alphabet, SetToSeq
<1> HIDE DEF n
<1>5. \A m \in Names : \E x \in DOMAIN Alphabet : Alphabet[x] = m
  <2> DEFINE image == {Alphabet[x] : x \in 1..n}
  <2>1. Alphabet \in Bijection(1..n, image)
    BY <1>4 DEF Bijection, Injection, Surjection, IsInjective
  <2>2. IsFiniteSet(1..n) /\ Cardinality(1..n) = n
    BY <1>2, FS_Interval
  <2>3. Cardinality(image) = n
    <3>1. ExistsBijection(1..n, image)
      BY <2>1 DEF ExistsBijection
    <3> HIDE DEF image
    <3> QED
      BY <2>2, <3>1, FS_Bijection
  <2>4. image \subseteq Names
    BY <1>4
  <2>5. image = Names
    <3> HIDE DEF image
    <3> QED
      BY <1>1, <2>3, <2>4, FS_Subset DEF n
  <2> QED
    BY <1>4, <2>5
<1>6. \A m \in Names : NameIndex(m) \in 1..n /\ Alphabet[NameIndex(m)] = m
  BY <1>4, <1>5 DEF NameIndex
<1> QED
  BY <1>1, <1>2, <1>6

\* What an item is ranked by are numbers.
LEMMA RankKeys ==
  ASSUME NEW q, Queryable(q), NEW i \in Item
  PROVE  /\ q.score[i.content] \in Nat /\ Rank[i.scope] \in Nat
         /\ i.seq \in Nat /\ NameIndex(i.name) \in Nat
BY NamesAreOrdered, RankAssumption DEF Queryable, Item, Positive

\* Items of different names are ranked one before the other, in one order.
LEMMA RankingIsTotal ==
  ASSUME NEW q, Queryable(q), NEW i \in Item, NEW j \in Item, NEW k \in Item
  PROVE  /\ ~RankedBefore(q, i, i)
         /\ RankedBefore(q, i, j) /\ RankedBefore(q, j, k) => RankedBefore(q, i, k)
         /\ i.name # j.name => RankedBefore(q, i, j) \/ RankedBefore(q, j, i)
<1>1. /\ q.score[i.content] \in Nat /\ Rank[i.scope] \in Nat
      /\ i.seq \in Nat /\ NameIndex(i.name) \in Nat
  BY RankKeys
<1>2. /\ q.score[j.content] \in Nat /\ Rank[j.scope] \in Nat
      /\ j.seq \in Nat /\ NameIndex(j.name) \in Nat
  BY RankKeys
<1>3. /\ q.score[k.content] \in Nat /\ Rank[k.scope] \in Nat
      /\ k.seq \in Nat /\ NameIndex(k.name) \in Nat
  BY RankKeys
<1>4. i.name # j.name => NameIndex(i.name) # NameIndex(j.name)
  BY NamesAreOrdered DEF Item
<1> QED
  BY <1>1, <1>2, <1>3, <1>4 DEF RankedBefore

\* Of the items taken, one ranks last.
LEMMA LastTaken ==
  ASSUME NEW q, Queryable(q), NEW S \in SUBSET Item, IsFiniteSet(S), S # {},
         \A i, j \in S : i.name = j.name => i = j
  PROVE  \E i \in S : S \ {i} = {j \in S : RankedBefore(q, j, i)}
<1> DEFINE RanksLast(t, i) == \A j \in t \ {i} : RankedBefore(q, j, i)
           Bad == {t \in SUBSET S : t # {} /\ \A i \in t : ~RanksLast(t, i)}
<1>1. Bad = {}
  <2> SUFFICES ASSUME Bad # {} PROVE FALSE
    OBVIOUS
  <2>1. PICK t \in Bad : \A r \in SUBSET t : r # t => r \notin Bad
    <3>1. Bad \in SUBSET (SUBSET S)
      OBVIOUS
    <3> HIDE DEF Bad
    <3> QED
      BY <3>1, LeastSubset
  <2>2. t \subseteq S /\ t # {} /\ \A i \in t : ~RanksLast(t, i)
    OBVIOUS
  <2>3. PICK x \in t : TRUE
    BY <2>2
  <2>4. t \ {x} # {}
    BY <2>2, <2>3
  <2>5. PICK y \in t \ {x} : RanksLast(t \ {x}, y)
    <3>1. t \ {x} \in SUBSET t /\ t \ {x} # t /\ t \ {x} \in SUBSET S
      BY <2>2, <2>3
    <3> QED
      BY <2>1, <2>4, <3>1
  <2>6. x \in Item /\ y \in Item /\ x.name # y.name
    BY <2>2, <2>3, <2>5
  <2>7. CASE RankedBefore(q, x, y)
    <3>1. RanksLast(t, y)
      BY <2>5, <2>7
    <3> QED
      BY <2>2, <2>5, <3>1
  <2>8. CASE RankedBefore(q, y, x)
    <3>1. ASSUME NEW j \in t \ {x} PROVE RankedBefore(q, j, x)
      <4>1. j = y \/ RankedBefore(q, j, y)
        BY <2>5
      <4>2. j \in Item
        BY <2>2
      <4> QED
        BY <2>6, <2>8, <4>1, <4>2, RankingIsTotal
    <3> QED
      BY <2>2, <2>3, <3>1
  <2> QED
    BY <2>6, <2>7, <2>8, RankingIsTotal
<1>2. PICK i \in S : RanksLast(S, i)
  BY <1>1
<1>3. ~RankedBefore(q, i, i)
  BY RankingIsTotal
<1> QED
  BY <1>2, <1>3

\* What the loop over the ranked items takes is within both budgets.
LEMMA PackingFits ==
  ASSUME NEW q, Queryable(q), NEW merged \in SUBSET Item, IsFiniteSet(merged),
         \A i, j \in merged : i.name = j.name => i = j,
         NEW items \in Packings(q, merged)
  PROVE  Cardinality(items) <= q.topK /\ Tokens(items) <= q.maxTokens
<1>1. /\ items \subseteq merged
      /\ \A i \in items : Fits(q, {j \in items : RankedBefore(q, j, i)}, i)
  BY DEF Packings
<1>2. IsFiniteSet(items) /\ items \in SUBSET Item
  BY <1>1, FS_Subset
<1>3. q.topK \in Nat /\ q.maxTokens \in Nat
  BY DEF Queryable
<1>4. CASE items = {}
  <2>1. Tokens(items) = 0
    BY <1>2, <1>4, TokensUnfold
  <2>2. Cardinality(items) = 0
    BY <1>4, FS_EmptySet
  <2> QED
    BY <1>3, <2>1, <2>2
<1>5. CASE items # {}
  <2>1. PICK i \in items : items \ {i} = {j \in items : RankedBefore(q, j, i)}
    BY <1>1, <1>2, <1>5, LastTaken
  <2>2. Fits(q, items \ {i}, i)
    BY <1>1, <2>1
  <2>3. Tokens(items) = Cost[i.content] + Tokens(items \ {i})
    BY <1>2, TokensOfOneMore
  <2>4. IsFiniteSet(items \ {i}) /\ Cardinality(items \ {i}) = Cardinality(items) - 1
    BY <1>2, FS_RemoveElement
  <2>5. Cardinality(items) \in Nat
    BY <1>2, FS_CardinalityType
  <2>6. Tokens(items \ {i}) \in Nat /\ Cost[i.content] \in Nat
    BY <1>2, <2>4, TokensTyped, CostAssumption DEF Item
  <2> QED
    BY <1>3, <2>2, <2>3, <2>4, <2>5, <2>6 DEF Fits
<1> QED
  BY <1>4, <1>5

\* A merge is finite: it has one item per name.
LEMMA MergesAreFinite ==
  ASSUME NEW matching \in SUBSET Item, NEW merged \in Merges(matching)
  PROVE  /\ merged \subseteq matching /\ IsFiniteSet(merged)
         /\ \A i, j \in merged : i.name = j.name => i = j
<1> DEFINE names == {i.name : i \in matching}
<1>1. PICK pick \in [names -> matching] :
        /\ \A n \in names : pick[n] \in Best(matching, n)
        /\ merged = {pick[n] : n \in names}
  BY DEF Merges
<1>2. names \subseteq Names
  BY DEF Item
<1>3. \A n \in names : pick[n] \in matching /\ pick[n].name = n
  BY <1>1 DEF Best
<1> HIDE DEF names
<1>4. IsFiniteSet(names)
  BY <1>2, NamesAreOrdered, FS_Subset
<1>5. pick \in Surjection(names, merged)
  BY <1>1, <1>3 DEF Surjection
<1>6. IsFiniteSet(merged)
  BY <1>4, <1>5, FS_Surjection
<1> QED
  BY <1>1, <1>3, <1>6

\* The client's requests keep their form.
QueriesTyped == \A q \in requests.queries : Queryable(q)

\* The call's request has its form, and its answer is within the budget.
Budgeted ==
  /\ recall.pc # "idle" => Queryable(recall.query)
  /\ RecallFitsBudget

\* Every step keeps what is answered within the budget.
LEMMA BudgetInductive ==
  ASSUME Chained, QueriesTyped, RecallInv, Budgeted, [ServiceNext]_ServiceVars
  PROVE  Budgeted'
<1>1. DOMAIN recall = {"pc", "query", "unread", "read", "degraded", "items", "ever", "always"}
  BY DEF RecallInv, RecallTyped
<1>2. CASE recall' = recall \/ recall' = NoRecall
  BY <1>2, NoRecallFacts DEF Budgeted, RecallFitsBudget
<1>3. CASE Observe
  <2>1. CASE ~Recalling
    BY <1>2, <1>3, <2>1 DEF Observe
  <2>2. CASE Recalling
    <3>1. recall'.pc = recall.pc /\ recall'.query = recall.query
      BY <1>1, <1>3, <2>2 DEF Observe
    <3>2. recall.pc # "idle" /\ recall'.pc # "answered"
      BY <2>2, <3>1 DEF Recalling
    <3> QED
      BY <3>1, <3>2 DEF Budgeted, RecallFitsBudget
  <2> QED
    BY <2>1, <2>2
<1>4. ASSUME NEW q \in requests.queries, Ask(q)
      PROVE  Budgeted'
  <2>1. recall'.pc = "session" /\ recall'.query = q
    BY <1>4, NoRecallFacts DEF Ask
  <2> QED
    BY <2>1 DEF Budgeted, RecallFitsBudget, QueriesTyped
<1>5. CASE ReadSession
  <2>1. CASE recall' # NoRecall
    <3>1. recall.pc = "session" /\ recall'.pc = "durable" /\ recall'.query = recall.query
      BY <1>1, <1>5, <2>1 DEF ReadSession
    <3> QED
      BY <3>1 DEF Budgeted, RecallFitsBudget
  <2> QED
    BY <1>2, <2>1
<1>6. ASSUME NEW s \in Scopes, ReadDurable(s)
      PROVE  Budgeted'
  <2>1. recall.pc = "durable" /\ recall'.pc = "durable" /\ recall'.query = recall.query
    BY <1>1, <1>6 DEF ReadDurable
  <2> QED
    BY <2>1 DEF Budgeted, RecallFitsBudget
<1>7. CASE Answer
  <2>1. memories \in SUBSET Memory /\ Whole(memories)
    BY DEF Chained, DurableTyped
  <2>2. FromRows(recall.read, memories) /\ recall.pc = "durable"
    BY <1>7 DEF Answer, RecallInv, Sighted, Recalling
  <2>3. PICK failed \in BOOLEAN, hits \in SUBSET Indexed :
          LET found == recall.read \cup IF failed THEN {} ELSE Validated(hits, recall.read)
          IN \E merged \in Merges(Matching(recall.query, found)) :
               \E items \in Packings(recall.query, merged) :
                 recall' = [recall EXCEPT !.pc = "answered", !.read = {}, !.items = items,
                                          !.degraded = recall.degraded \/ failed]
    BY <1>7 DEF Answer
  <2> DEFINE found == recall.read \cup IF failed THEN {} ELSE Validated(hits, recall.read)
  <2>4. found \in SUBSET Item
    <3>1. Validated(hits, recall.read) \subseteq recall.read
      BY <2>1, <2>2, ValidatedIsRead
    <3> QED
      BY <3>1 DEF RecallInv, RecallTyped
  <2>5. PICK merged \in Merges(Matching(recall.query, found)) :
          \E items \in Packings(recall.query, merged) :
            recall' = [recall EXCEPT !.pc = "answered", !.read = {}, !.items = items,
                                     !.degraded = recall.degraded \/ failed]
    BY <2>3
  <2>6. PICK items \in Packings(recall.query, merged) :
          recall' = [recall EXCEPT !.pc = "answered", !.read = {}, !.items = items,
                                   !.degraded = recall.degraded \/ failed]
    BY <2>5
  <2>7. recall'.items = items /\ recall'.query = recall.query
    BY <1>1, <2>6
  <2>8. Queryable(recall.query)
    BY <2>2 DEF Budgeted
  <2> HIDE DEF found
  <2>9. Matching(recall.query, found) \in SUBSET Item
    BY <2>4 DEF Matching
  <2>10. /\ merged \in SUBSET Item /\ IsFiniteSet(merged)
         /\ \A i, j \in merged : i.name = j.name => i = j
    BY <2>9, MergesAreFinite
  <2>11. Cardinality(items) <= recall.query.topK /\ Tokens(items) <= recall.query.maxTokens
    BY <2>8, <2>10, PackingFits
  <2> QED
    BY <2>7, <2>8, <2>11 DEF Budgeted, RecallFitsBudget
<1>8. Observe \/ recall' = recall \/ recall' = NoRecall
      \/ (\E q \in requests.queries : Ask(q)) \/ ReadSession
      \/ (\E s \in Scopes : ReadDurable(s)) \/ Answer
  BY DEF ServiceNext, Changing, Commanding, RecallingStep, RecallStep, ServiceVars, recallVars
<1> QED
  BY <1>2, <1>3, <1>4, <1>5, <1>6, <1>7, <1>8

\* An answer never has more items than the request's top_k, nor more tokens
\* than its max_tokens, whatever is read, ranked and skipped.
THEOREM RecallFitsBudgetThm == ServiceSpec => []RecallFitsBudget
<1>1. ServiceInit => QueriesTyped /\ Budgeted
  <2>1. ServiceInit => QueriesTyped
    BY QueriesAssumption DEF ServiceInit, Init, QueriesTyped, Queryable
  <2>2. ServiceInit => Budgeted
    BY NoRecallFacts DEF ServiceInit, RecallInit, Budgeted, RecallFitsBudget
  <2> QED
    BY <2>1, <2>2
<1>2. QueriesTyped /\ [ServiceNext]_ServiceVars => QueriesTyped'
  BY DEF QueriesTyped, ServiceNext, Changing, Commanding, RecallingStep, Next, ServiceVars, vars
<1>3. Chained /\ QueriesTyped /\ RecallInv /\ Budgeted /\ [ServiceNext]_ServiceVars => Budgeted'
  BY BudgetInductive
<1>4. Budgeted => RecallFitsBudget
  BY DEF Budgeted
<1> QED
  BY <1>1, <1>2, <1>3, <1>4, ServiceIsStartup, AlwaysChained, AlwaysRecallInv, PTL DEF ServiceSpec

-----------------------------------------------------------------------------
(* Types.                                                                  *)

Identity == [scope : Scopes, id : Ids, key : Keys]

IdentitiesTyped == identities \subseteq Identity

\* The registry of typed rows is typed.
LEMMA RegisteredTyped ==
  ASSUME NEW M \in SUBSET Memory
  PROVE  Registered(ScopeOf, M) \subseteq Identity
<1> SUFFICES ASSUME NEW m \in M
             PROVE  [scope |-> ScopeOf[m.key], id |-> m.id, key |-> m.key] \in Identity
  BY DEF Registered
<1>1. m.key \in Keys /\ m.id \in Ids
  BY DEF Memory
<1>2. ScopeOf[m.key] \in Scopes
  BY <1>1 DEF Scopes
<1> QED
  BY <1>1, <1>2 DEF Identity

\* Every step keeps the type of the registry.
LEMMA IdentitiesInductive ==
  ASSUME Chained, IdentitiesTyped, [Next]_vars
  PROVE  IdentitiesTyped'
<1>1. memories \in SUBSET Memory
  BY DEF Chained, DurableTyped
<1>2. CASE identities' = identities
  BY <1>2 DEF IdentitiesTyped
<1>3. CASE identities' = Registered(ScopeOf, memories)
  BY <1>1, <1>3, RegisteredTyped DEF IdentitiesTyped
<1>4. CASE identities' # identities /\ identities' # Registered(ScopeOf, memories)
  <2>1. PICK w \in Writers : WriteVersion(w) /\ ~UNCHANGED tables
                             /\ Serving(ProcessOf[w]) /\ UNCHANGED database
    BY <1>4 DEF Next, Opening, Begin, Migrate, Fault, Stop, Projecting, Project, Calling, Step,
           Call, FindWriteMatch, ReadLatest, Fail, vars, durableVars, startupVars, tables
  <2>2. InService
    BY <2>1, ProcessOfAssumption DEF InService
  <2>3. Registry' /\ memories' \in SUBSET Memory
    BY <2>1, <2>2, WriteFacts DEF WriteVersion
  <2>4. 13 \in database'.applied
    BY <2>1, <2>2, InServiceFacts DEF Versions
  <2>5. identities' = Registered(ScopeOf, memories')
    BY <2>3, <2>4 DEF Registry, Registered
  <2> QED
    BY <2>3, <2>5, RegisteredTyped DEF IdentitiesTyped
<1> QED
  BY <1>2, <1>3, <1>4

\* Every table, call and answer of the service has its type, at every moment.
THEOREM ServiceTypeThm == ServiceSpec => []TypeOK
<1>1. Init => IdentitiesTyped
  <2> SUFFICES ASSUME Init PROVE IdentitiesTyped
    OBVIOUS
  <2>1. PICK d \in Deployments : Legal(d) /\ identities = d.identities
    BY DeploymentsAssumption DEF Init
  <2>2. d.identities = {} \/ d.identities = Registered(ScopeOf, d.memories)
    BY <2>1 DEF Legal
  <2>3. d.memories \in SUBSET Memory
    BY <2>1 DEF Legal
  <2> QED
    BY <2>1, <2>2, <2>3, RegisteredTyped DEF IdentitiesTyped
<1>2. Spec => []IdentitiesTyped
  <2>1. Chained /\ IdentitiesTyped /\ [Next]_vars => IdentitiesTyped'
    BY IdentitiesInductive
  <2> QED
    BY <1>1, <2>1, AlwaysChained, PTL DEF Spec
<1>3. Chained /\ IdentitiesTyped /\ RecallInv => TypeOK
  <2> SUFFICES ASSUME Chained, IdentitiesTyped, RecallInv PROVE TypeOK
    OBVIOUS
  <2>1. session.items \subseteq Item
    BY DEF RecallInv, RecallTyped
  <2>2. recall.items \subseteq Item /\ recall.read \subseteq Item
    BY DEF RecallInv, RecallTyped
  <2>3. /\ memories \subseteq Memory /\ writes \subseteq Write
        /\ at \in [Writers -> {"idle", "match", "latest", "write", "answered", "stale",
                               "conflict", "failed"}]
        /\ \A w \in Writers : latest[w] \subseteq Memory /\ answer[w] \subseteq Memory
    BY DEF Chained, DurableTyped, Labels
  <2> QED
    BY <2>1, <2>2, <2>3 DEF TypeOK, IdentitiesTyped, Identity
<1> QED
  BY <1>2, <1>3, ServiceIsStartup, AlwaysChained, AlwaysRecallInv, PTL
=============================================================================
