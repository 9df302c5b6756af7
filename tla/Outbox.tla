------------------------------- MODULE Outbox -------------------------------
(***************************************************************************)
(* The transactional outbox, outbox.py: the tables outbox and              *)
(* outbox_consumer_receipts and the transactions of OutboxStore on them.   *)
(*                                                                         *)
(* An item is its idempotency key, which is unique; its payload, topic and *)
(* event id never change and are left out.  A lease token is a uuid4:      *)
(* here the number of the claim that drew it, 0 for NULL.  Of the clock    *)
(* only comparisons are left: "locked" is locked_at > now - lease_seconds, *)
(* "due" is available_at <= now; they change by actions of their own.      *)
(***************************************************************************)
EXTENDS Naturals, FiniteSets

CONSTANTS
  Items,      \* idempotency keys of outbox items
  Consumers,  \* consumer ids
  MaxClaims   \* bound: claims of a behaviour

ASSUME ItemsAssumption == IsFiniteSet(Items)
ASSUME MaxClaimsAssumption == MaxClaims \in Nat

VARIABLES
  outbox,    \* the row of each item
  receipts,  \* the receipt of each consumer for each item
  claims     \* claims made so far; the last token drawn

outboxVars == <<outbox, receipts, claims>>

Final == {"applied", "dead_letter"}
Statuses == {"absent", "pending", "processing", "retryable"} \cup Final

Row == [status : Statuses, attempts : Nat, token : Nat, locked : BOOLEAN,
        due : BOOLEAN, born : Nat]
Receipt == [status : {"none", "processing", "applied"}, token : Nat, locked : BOOLEAN]

OutboxInit ==
  /\ outbox = [i \in Items |-> [status |-> "absent", attempts |-> 0, token |-> 0,
                                locked |-> FALSE, due |-> FALSE, born |-> 0]]
  /\ receipts = [c \in Consumers |-> [i \in Items |->
                   [status |-> "none", token |-> 0, locked |-> FALSE]]]
  /\ claims = 0

Is(i, status) == outbox[i].status = status

-----------------------------------------------------------------------------
\* enqueue: a new row; a repeated call finds the row and changes nothing.
Enqueue(i) ==
  /\ Is(i, "absent")
  /\ outbox' = [outbox EXCEPT ![i].status = "pending", ![i].due = TRUE,
                  ![i].born = 1 + Cardinality({j \in Items : ~Is(j, "absent")})]
  /\ UNCHANGED <<receipts, claims>>

ReadyForgetsAbandoned(i) ==
  (Is(i, "pending") \/ Is(i, "retryable")) /\ outbox[i].due

ReadyWhileLocked(i) ==
  \/ (Is(i, "pending") \/ Is(i, "retryable")) /\ outbox[i].due
  \/ Is(i, "processing")

\* Waiting and due, or in the hands of a worker whose lease ran out.
Ready(i) ==
  \/ (Is(i, "pending") \/ Is(i, "retryable")) /\ outbox[i].due
  \/ Is(i, "processing") /\ ~outbox[i].locked

\* claim: the oldest item that is ready.
ClaimItem(i) ==
  /\ claims < MaxClaims
  /\ Ready(i)
  /\ \A j \in Items : Ready(j) => outbox[i].born <= outbox[j].born
  /\ claims' = claims + 1
  /\ outbox' = [outbox EXCEPT ![i].status = "processing", ![i].attempts = @ + 1,
                              ![i].token = claims + 1, ![i].locked = TRUE]
  /\ UNCHANGED receipts

OwnsAnyToken(i, token) == Is(i, "processing")

\* The WHERE clause of every write of a worker: the item is processing and
\* has the worker's token.
Owns(i, token) == Is(i, "processing") /\ outbox[i].token = token

TransitionKeepsToken(i, token, status, due) ==
  /\ Owns(i, token)
  /\ outbox' = [outbox EXCEPT ![i].status = status, ![i].locked = FALSE, ![i].due = due]
  /\ UNCHANGED <<receipts, claims>>

\* _transition; "item is missing or not processing" when it is not enabled.
Transition(i, token, status, due) ==
  /\ Owns(i, token)
  /\ outbox' = [outbox EXCEPT ![i].status = status, ![i].token = 0,
                              ![i].locked = FALSE, ![i].due = due]
  /\ UNCHANGED <<receipts, claims>>

-----------------------------------------------------------------------------
ConsumeVerdictIgnoresLock(c, i, token) ==
  IF ~Owns(i, token) THEN "busy"
  ELSE IF receipts[c][i].status # "none" /\ receipts[c][i].locked = FALSE
       THEN "already_applied"
  ELSE IF receipts[c][i].locked THEN "busy"
  ELSE "acquired"

ConsumeVerdictForgets(c, i, token) ==
  IF ~Owns(i, token) \/ receipts[c][i].locked THEN "busy" ELSE "acquired"

\* begin_consume
ConsumeVerdict(c, i, token) ==
  IF ~Owns(i, token) THEN "busy"
  ELSE IF receipts[c][i].status = "applied" THEN "already_applied"
  ELSE IF receipts[c][i].locked THEN "busy"
  ELSE "acquired"

\* A receipt of its own, or the abandoned receipt of an earlier claim.
TakeReceipt(c, i, token) ==
  /\ receipts' = [receipts EXCEPT ![c][i] =
                    [status |-> "processing", token |-> token, locked |-> TRUE]]
  /\ UNCHANGED <<outbox, claims>>

HoldsReceipt(c, i, token) ==
  receipts[c][i].status = "processing" /\ receipts[c][i].token = token

\* mark_consumed
MarkConsumed(c, i, token) ==
  /\ Owns(i, token)
  /\ HoldsReceipt(c, i, token)
  /\ receipts' = [receipts EXCEPT ![c][i].status = "applied", ![c][i].locked = FALSE]
  /\ UNCHANGED <<outbox, claims>>

\* release_consume: a receipt that is not ours is left alone.
ReleaseConsume(c, i, token) ==
  /\ Owns(i, token)
  /\ receipts' = [receipts EXCEPT ![c][i].locked = @ /\ ~HoldsReceipt(c, i, token)]
  /\ UNCHANGED <<outbox, claims>>

-----------------------------------------------------------------------------
(* The clock.  Leases of an item and of its receipts have the same length, *)
(* and a receipt is locked after the claim whose token it has.             *)

ItemLeaseRunsOut(i) ==
  /\ outbox[i].locked
  /\ \A c \in Consumers : receipts[c][i].locked => receipts[c][i].token = outbox[i].token
  /\ outbox' = [outbox EXCEPT ![i].locked = FALSE]
  /\ UNCHANGED <<receipts, claims>>

ReceiptLeaseRunsOut(c, i) ==
  /\ receipts[c][i].locked
  /\ outbox[i].locked => outbox[i].token # receipts[c][i].token
  /\ receipts' = [receipts EXCEPT ![c][i].locked = FALSE]
  /\ UNCHANGED <<outbox, claims>>

RetryBecomesDue(i) ==
  /\ Is(i, "retryable") /\ ~outbox[i].due
  /\ outbox' = [outbox EXCEPT ![i].due = TRUE]
  /\ UNCHANGED <<receipts, claims>>
=============================================================================
