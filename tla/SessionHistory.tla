--------------------------- MODULE SessionHistory ---------------------------
(***************************************************************************)
(* What the event authority and the session projection promise together:   *)
(* an append-only log into which a command goes only if it applies to the  *)
(* state that the whole log replays to, and a projection that follows the  *)
(* log one event at a time, or starts over from nothing.                   *)
(***************************************************************************)
EXTENDS SessionOperations

CONSTANT HistoryBodies  \* the bodies of events

VARIABLES
  log,    \* the bodies of the session's events, in order
  state,  \* the replay of the whole log
  view    \* the projection

historyVars == <<log, state, view>>

HistoryInit ==
  /\ log = <<>>
  /\ state = EmptyView
  /\ view = EmptyView

Commit(body) ==
  /\ ~Unapplicable(state, Len(log) + 1, body)
  /\ log' = Append(log, body)
  /\ state' = Applied(state, Len(log) + 1, body)
  /\ UNCHANGED view

ProjectNext ==
  /\ view.last < Len(log)
  /\ ~Unapplicable(view, view.last + 1, log[view.last + 1])
  /\ view' = Applied(view, view.last + 1, log[view.last + 1])
  /\ UNCHANGED <<log, state>>

StartOver ==
  /\ view' = EmptyView
  /\ UNCHANGED <<log, state>>

HistoryNext ==
  \/ \E body \in HistoryBodies : Commit(body)
  \/ ProjectNext
  \/ StartOver

HistorySpec == HistoryInit /\ [][HistoryNext]_historyVars
=============================================================================
