---------------------------- MODULE MemoryService ----------------------------
(***************************************************************************)
(* Processes that open a database, write durable memory in it, and recall  *)
(* from it and from a session, all at the same time.                       *)
(***************************************************************************)
EXTENDS Startup, Recall

CONSTANT RecallProcess   \* the process that calls recall

ASSUME NamesAssumption == \A d \in Deployments : d.requests.names \subseteq Names
\* RecallRequest: top_k and max_tokens are at least 1; scores count words.
ASSUME QueriesAssumption ==
  \A d \in Deployments : \A q \in d.requests.queries :
    /\ q.topK \in Nat \ {0} /\ q.maxTokens \in Nat \ {0}
    /\ \A c \in Contents : q.score[c] \in Nat

ServiceInit == Init /\ RecallInit

\* What recall reads may change under it; a process that stops forgets it.
Changing ==
  /\ Next
  /\ UNCHANGED session
  /\ IF Serving(RecallProcess) /\ ~Serving(RecallProcess)' THEN recall' = NoRecall ELSE Observe

Commanding ==
  /\ InService
  /\ \E n \in requests.names : SessionChange(n)
  /\ UNCHANGED <<durableVars, startupVars, requests>>
  /\ Observe

RecallingStep ==
  /\ Serving(RecallProcess)
  /\ RecallStep(requests.queries)
  /\ UNCHANGED <<durableVars, startupVars, requests>>

ServiceNext == Changing \/ Commanding \/ RecallingStep

ServiceVars == <<vars, recallVars>>

ServiceSpec == ServiceInit /\ [][ServiceNext]_ServiceVars

TypeOK ==
  /\ memories \subseteq Memory
  /\ writes \subseteq Write
  /\ identities \subseteq [scope : Scopes, id : Ids, key : Keys]
  /\ at \in [Writers -> {"idle", "match", "latest", "write", "answered", "stale",
                         "conflict", "failed"}]
  /\ \A w \in Writers : latest[w] \subseteq Memory /\ answer[w] \subseteq Memory
  /\ session.items \subseteq Item
  /\ recall.items \subseteq Item /\ recall.read \subseteq Item
=============================================================================
