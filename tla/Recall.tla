------------------------------- MODULE Recall -------------------------------
(***************************************************************************)
(* RecallService, recall.py: the session's working memory and the durable  *)
(* memories of every visible scope are read one after the other, each in a *)
(* transaction of its own, hits of a search index are checked against what *)
(* was read, and one item per key is ranked and packed into the budget.    *)
(* Meanwhile the session and the durable store go on changing.             *)
(*                                                                         *)
(* How many words of a query a content has is a score; a content that the  *)
(* query's kinds leave out has a score of 0.                               *)
(***************************************************************************)
EXTENDS DurableMemory, SequencesExt

CONSTANTS
  NameOf,         \* NameOf[k]: k without its scope
  SessionScope,   \* "session:<id>" of the request
  SessionId,      \* the memory_id of its items: the index has none of them
  Rank,           \* Rank[s]: _SCOPE_ORDER of the scope
  Cost,           \* Cost[c]: _estimate_tokens of a memory with content c
  MaxSessionSeq   \* bound: how far the session's stream goes

ASSUME NameOfAssumption ==
  /\ DOMAIN NameOf = Keys
  /\ \A k, l \in Keys : ScopeOf[k] = ScopeOf[l] /\ NameOf[k] = NameOf[l] => k = l
ASSUME SessionAssumption == SessionScope \notin Scopes /\ SessionId \notin Ids
ASSUME RankAssumption ==
  /\ Rank[SessionScope] \in Nat
  /\ \A s \in Scopes : Rank[s] \in Nat /\ Rank[SessionScope] < Rank[s]
\* A database has finitely many keys, and every content costs at least one token.
ASSUME KeysAssumption == IsFiniteSet(Keys)
ASSUME CostAssumption == \A c \in Contents : Cost[c] \in Nat \ {0}
ASSUME MaxSessionSeqAssumption == MaxSessionSeq \in Nat

VARIABLES
  session,   \* the session projection: last_seq and active_memories
  recall     \* the call of recall, and what was current during it

recallVars == <<session, recall>>

Names == {NameOf[k] : k \in Keys}

Item == [scope : Scopes \cup {SessionScope}, name : Names, id : Ids \cup {SessionId},
         content : Contents, seq : Positive, version : Positive]

ItemOf(m) == [scope |-> ScopeOf[m.key], name |-> NameOf[m.key], id |-> m.id,
              content |-> m.content, seq |-> m.seq, version |-> m.version]

Active(scope) == {ItemOf(m) : m \in ListActive(scope)}

Current == session.items \cup UNION {Active(s) : s \in Scopes}

-----------------------------------------------------------------------------
(* _rank_and_merge.  A query q: visible scopes, score, topK, maxTokens.     *)

Matching(q, items) == {i \in items : i.scope \in q.visible /\ q.score[i.content] > 0}

\* _newer
Precedes(i, j) ==
  \/ Rank[i.scope] < Rank[j.scope]
  \/ /\ Rank[i.scope] = Rank[j.scope]
     /\ \/ i.seq > j.seq
        \/ i.seq = j.seq /\ i.version > j.version

BestOfAny(matching, n) == {i \in matching : i.name = n}

Best(matching, n) ==
  {i \in matching : i.name = n /\ \A j \in matching : j.name = n => ~Precedes(j, i)}

\* One item per name that no other precedes; ties (updated_at, the order in
\* which the scopes are read) may fall either way.
Merges(matching) ==
  LET names == {i.name : i \in matching}
  IN {{pick[n] : n \in names} :
        pick \in {f \in [names -> matching] : \A n \in names : f[n] \in Best(matching, n)}}

Alphabet == SetToSeq(Names)
NameIndex(n) == CHOOSE x \in DOMAIN Alphabet : Alphabet[x] = n

RankedBefore(q, i, j) ==
  LET lower(a, b, tied) == (a < b) \/ (a = b /\ tied)
  IN lower(q.score[j.content], q.score[i.content],
       lower(Rank[i.scope], Rank[j.scope],
         lower(j.seq, i.seq, NameIndex(i.name) < NameIndex(j.name))))

Tokens(items) == MapThenSumSet(LAMBDA i : Cost[i.content], items)

FitsAlone(q, items, i) ==
  /\ Cardinality(items) < q.topK
  /\ Tokens(items) <= q.maxTokens

Fits(q, items, i) ==
  /\ Cardinality(items) < q.topK
  /\ Tokens(items) + Cost[i.content] <= q.maxTokens

\* What the loop over the ranked items takes: whatever fits beside those taken
\* before it.
Packings(q, items) ==
  {taken \in SUBSET items : \A i \in items :
     i \in taken <=> Fits(q, {j \in taken : RankedBefore(q, j, i)}, i)}

ValidatedByIdentity(hits, authority) ==
  {h \in hits : \E i \in authority : i.id = h.id /\ i.scope = h.scope /\ i.name = h.name}

\* _validated_provider_records
Validated(hits, authority) ==
  {h \in hits : \E i \in authority :
      /\ i.id = h.id \/ \A j \in authority : j.id # h.id
      /\ i.scope = h.scope /\ i.name = h.name /\ i.version = h.version}

\* The index, which is not part of the sources, lags behind: its records are
\* of any version that once was active.
Indexed == {ItemOf(m) : m \in {m \in memories : m.status # "retracted"}}

-----------------------------------------------------------------------------
(* The session, and the steps of a call.                                   *)

NoRecall == [pc |-> "idle", query |-> None, unread |-> {}, read |-> {},
             degraded |-> FALSE, items |-> {}, ever |-> {}, always |-> {}]

RecallInit ==
  /\ session = [last |-> 0, items |-> {}]
  /\ recall = NoRecall

Recalling == recall.pc \notin {"idle", "answered"}

\* Another step of the system: what is current during the call may change.
Observe ==
  recall' = IF Recalling
            THEN [recall EXCEPT !.ever = recall.ever \cup Current',
                                !.always = recall.always \cap Current']
            ELSE recall

\* An explicit command sets or forgets a key of the session.
SessionChange(n) ==
  LET previous == {i \in session.items : i.name = n}
      next == session.last + 1
      version == IF previous = {} THEN 1 ELSE (CHOOSE i \in previous : TRUE).version + 1
      set(c) == {[scope |-> SessionScope, name |-> n, id |-> SessionId, content |-> c,
                  seq |-> next, version |-> version]}
  IN /\ session.last < MaxSessionSeq
     /\ \E new \in {{}} \cup {set(c) : c \in Contents} :
          /\ previous # {} \/ new # {}
          /\ session' = [last |-> next, items |-> (session.items \ previous) \cup new]

Ask(q) ==
  /\ ~Recalling
  /\ recall' = [NoRecall EXCEPT !.pc = "session", !.query = q, !.ever = Current,
                                !.always = Current]
  /\ UNCHANGED session

\* Errors of the session store are raised to the caller.
ReadSession ==
  /\ recall.pc = "session"
  /\ \/ recall' = [recall EXCEPT
           !.pc = "durable",
           !.read = IF SessionScope \in recall.query.visible THEN session.items ELSE {},
           !.unread = recall.query.visible \ {SessionScope}]
     \/ SessionScope \in recall.query.visible /\ recall' = NoRecall
  /\ UNCHANGED session

ReadDurable(s) ==
  /\ recall.pc = "durable"
  /\ s \in recall.unread
  /\ \/ recall' = [recall EXCEPT !.unread = recall.unread \ {s},
                                 !.read = recall.read \cup Active(s)]
     \/ recall' = [recall EXCEPT !.unread = recall.unread \ {s}, !.degraded = TRUE]
  /\ UNCHANGED session

\* The index answers with any of its records, or fails.
Answer ==
  /\ recall.pc = "durable"
  /\ recall.unread = {}
  /\ \E failed \in BOOLEAN, hits \in SUBSET Indexed :
       LET found == recall.read \cup IF failed THEN {} ELSE Validated(hits, recall.read)
       IN \E merged \in Merges(Matching(recall.query, found)) :
            \E items \in Packings(recall.query, merged) :
              recall' = [recall EXCEPT !.pc = "answered", !.read = {}, !.items = items,
                                       !.degraded = recall.degraded \/ failed]
  /\ UNCHANGED session

RecallStep(queries) ==
  \/ \E q \in queries : Ask(q)
  \/ ReadSession
  \/ \E s \in Scopes : ReadDurable(s)
  \/ Answer

-----------------------------------------------------------------------------
(* Properties.                                                             *)

\* What recall answers was current in its store at some moment of the call,
\* visible, and matched, and there is one item per key.
RecallIsCurrent ==
  recall.pc = "answered" =>
    /\ recall.items \subseteq Matching(recall.query, recall.ever)
    /\ \A i, j \in recall.items : i.name = j.name => i = j

\* The answer is within both budgets.
RecallFitsBudget ==
  recall.pc = "answered" =>
    /\ Cardinality(recall.items) <= recall.query.topK
    /\ Tokens(recall.items) <= recall.query.maxTokens

\* An answer that is not degraded leaves out a matching item that was current
\* during the whole call only for one of the same key that it does not
\* precede, or because that one has no room beside those of a higher rank.
RecallIsComplete ==
  recall.pc = "answered" /\ ~recall.degraded =>
    \A i \in Matching(recall.query, recall.always) :
      \E j \in Matching(recall.query, recall.ever) :
        /\ j.name = i.name
        /\ ~Precedes(i, j)
        /\ \/ j \in recall.items
           \/ ~Fits(recall.query,
                    {k \in recall.items : RankedBefore(recall.query, k, j)}, j)
=============================================================================
