------------------------------- MODULE Worker -------------------------------
(***************************************************************************)
(* Workers over one outbox, worker.py: LocalWorker.run_once claims an      *)
(* item, takes the consumer receipt, calls the handler and records what    *)
(* became of it, each in a transaction of its own.  A worker may stop      *)
(* between any two of them, for good or because a statement failed, or     *)
(* stall while its lease runs out and another worker claims the item.      *)
(*                                                                         *)
(* run_once(topic) claims from the items of one topic: a worker over a     *)
(* smaller outbox.  The calls here have no topic.                          *)
(***************************************************************************)
EXTENDS Outbox

CONSTANTS
  Workers,            \* threads that call run_once
  ConsumerOf,         \* ConsumerOf[w]: consumer_id of the worker's LocalWorker
  Handles,            \* Handles[w]: the items for whose topic w has a handler
  MaxAttempts,        \* LocalWorker(max_attempts)
  MaxStops,           \* bound: how often workers stop half-way
  StallsOutliveLease  \* a worker may take longer than the lease of its item

ASSUME ConsumerOfAssumption == ConsumerOf \in [Workers -> Consumers]
ASSUME HandlesAssumption == Handles \in [Workers -> SUBSET Items]
ASSUME MaxAttemptsAssumption == MaxAttempts \in Nat \ {0}
ASSUME MaxStopsAssumption == MaxStops \in Nat
ASSUME StallsAssumption == StallsOutliveLease \in BOOLEAN

VARIABLES
  pc,        \* where each worker is in run_once
  job,       \* the OutboxItem that claim returned to the worker
  stops,     \* stops left
  succeeded, \* history: the items whose handler has returned
  confirmed  \* history: who has confirmed the consumption of what

vars == <<outboxVars, pc, job, stops, succeeded, confirmed>>

history == <<succeeded, confirmed>>

NoJob == [item |-> "none", token |-> 0, attempts |-> 0]
Job == [item : Items, token : Nat \ {0}, attempts : Nat \ {0}]

Init ==
  /\ OutboxInit
  /\ pc = [w \in Workers |-> "idle"]
  /\ job = [w \in Workers |-> NoJob]
  /\ stops = MaxStops
  /\ succeeded = {}
  /\ confirmed = {}

At(w, l) == pc[w] = l
Goto(w, l) == pc' = [pc EXCEPT ![w] = l] /\ UNCHANGED job

\* run_once returns or raises.
Return(w) ==
  /\ pc' = [pc EXCEPT ![w] = "idle"]
  /\ job' = [job EXCEPT ![w] = NoJob]

Consumer(w) == ConsumerOf[w]
Item(w) == job[w].item
Owner(w) == Owns(Item(w), job[w].token)

\* ValueError: the item is no longer the worker's.
Fenced(w) == ~Owner(w) /\ Return(w) /\ UNCHANGED <<outboxVars, stops, history>>

-----------------------------------------------------------------------------
Claim(w) ==
  /\ At(w, "idle")
  /\ \E i \in Items :
       /\ ClaimItem(i)
       /\ job' = [job EXCEPT ![w] = [item |-> i, token |-> claims + 1,
                                     attempts |-> outbox[i].attempts + 1]]
       /\ pc' = [pc EXCEPT ![w] = IF i \in Handles[w] THEN "begin" ELSE "fail"]
  /\ UNCHANGED <<stops, history>>

\* An item that another worker has, or whose receipt another worker has, is
\* left as it is.
BeginConsume(w) ==
  /\ At(w, "begin")
  /\ \/ /\ ConsumeVerdict(Consumer(w), Item(w), job[w].token) = "busy"
        /\ Return(w) /\ UNCHANGED outboxVars
     \/ /\ ConsumeVerdict(Consumer(w), Item(w), job[w].token) = "already_applied"
        /\ Goto(w, "applied") /\ UNCHANGED outboxVars
     \/ /\ ConsumeVerdict(Consumer(w), Item(w), job[w].token) = "acquired"
        /\ Goto(w, "handle")
        /\ TakeReceipt(Consumer(w), Item(w), job[w].token)
  /\ UNCHANGED <<stops, history>>

StartHandler(w) ==
  /\ At(w, "handle") /\ Goto(w, "running")
  /\ UNCHANGED <<outboxVars, stops, history>>

HandlerReturns(w) ==
  /\ At(w, "running") /\ Goto(w, "consume")
  /\ succeeded' = succeeded \cup {Item(w)}
  /\ UNCHANGED <<outboxVars, stops, confirmed>>

HandlerRaises(w) ==
  /\ At(w, "running") /\ Goto(w, "release")
  /\ UNCHANGED <<outboxVars, stops, history>>

FinishConsume(w) ==
  /\ At(w, "consume")
  /\ \/ /\ MarkConsumed(Consumer(w), Item(w), job[w].token)
        /\ Goto(w, "applied") /\ UNCHANGED <<stops, succeeded>>
        /\ confirmed' = confirmed \cup {<<Consumer(w), Item(w)>>}
     \/ Fenced(w)

ReleaseReceipt(w) ==
  /\ At(w, "release")
  /\ \/ /\ ReleaseConsume(Consumer(w), Item(w), job[w].token)
        /\ Goto(w, "fail") /\ UNCHANGED <<stops, history>>
     \/ Fenced(w)

\* mark_dead_letter, or mark_retryable after a delay that may be 0.  It
\* counts the attempts of the item as claimed.
Fail(w) ==
  /\ At(w, "fail")
  /\ \/ /\ IF job[w].attempts >= MaxAttempts
           THEN Transition(Item(w), job[w].token, "dead_letter", outbox[Item(w)].due)
           ELSE \E due \in BOOLEAN : Transition(Item(w), job[w].token, "retryable", due)
        /\ Return(w) /\ UNCHANGED <<stops, history>>
     \/ Fenced(w)

MarkApplied(w) ==
  /\ At(w, "applied")
  /\ \/ /\ Transition(Item(w), job[w].token, "applied", outbox[Item(w)].due)
        /\ Return(w) /\ UNCHANGED <<stops, history>>
     \/ Fenced(w)

\* The process dies, or a statement fails and run_once raises.
Stop(w) ==
  /\ ~At(w, "idle") /\ stops > 0
  /\ stops' = stops - 1
  /\ Return(w)
  /\ UNCHANGED <<outboxVars, history>>

-----------------------------------------------------------------------------
AtWork(i) == \E w \in Workers : ~At(w, "idle") /\ Item(w) = i /\ Owner(w)

ItemExpires(i) ==
  /\ StallsOutliveLease \/ ~AtWork(i)
  /\ ItemLeaseRunsOut(i)

\* Time and the callers of enqueue.
Environment ==
  /\ \E i \in Items :
       \/ Enqueue(i) \/ ItemExpires(i) \/ RetryBecomesDue(i)
       \/ \E c \in Consumers : ReceiptLeaseRunsOut(c, i)
  /\ UNCHANGED <<pc, job, stops, history>>

\* What a call of run_once does next.
Step(w) ==
  \/ BeginConsume(w) \/ StartHandler(w) \/ HandlerReturns(w) \/ HandlerRaises(w)
  \/ FinishConsume(w) \/ ReleaseReceipt(w) \/ Fail(w) \/ MarkApplied(w)

Next ==
  \/ Environment
  \/ \E w \in Workers : Claim(w) \/ Step(w) \/ Stop(w)

Spec == Init /\ [][Next]_vars

\* run_once is called again and again and each call goes on, leases run out
\* and retries become due.
Fairness ==
  /\ \A w \in Workers : WF_vars(Claim(w)) /\ WF_vars(Step(w))
  /\ \A i \in Items :
       /\ WF_vars(ItemExpires(i) /\ UNCHANGED <<pc, job, stops, history>>)
       /\ WF_vars(RetryBecomesDue(i) /\ UNCHANGED <<pc, job, stops, history>>)
       /\ \A c \in Consumers :
            WF_vars(ReceiptLeaseRunsOut(c, i) /\ UNCHANGED <<pc, job, stops, history>>)

FairSpec == Spec /\ Fairness

-----------------------------------------------------------------------------
\* The variables have their types; a token is drawn only by a claim, and an
\* item keeps one exactly while it is processing (claim and _transition).
TypeOK ==
  /\ outbox \in [Items -> Row]
  /\ receipts \in [Consumers -> [Items -> Receipt]]
  /\ claims \in Nat
  /\ pc \in [Workers -> {"idle", "begin", "handle", "running", "consume",
                         "applied", "release", "fail"}]
  /\ job \in [Workers -> Job \cup {NoJob}]
  /\ stops \in Nat
  /\ succeeded \subseteq Items
  /\ confirmed \subseteq Consumers \X Items
  /\ \A w \in Workers : At(w, "idle") <=> job[w] = NoJob
  /\ \A i \in Items : Is(i, "processing") <=> outbox[i].token # 0
  /\ \A i \in Items : outbox[i].locked => Is(i, "processing")

\* A worker whose item was claimed again or completed by another one changes
\* neither the item nor a receipt, whatever it was about to do.
StaleWorkersChangeNothing ==
  [][\A w \in Workers :
       ~At(w, "idle") /\ outbox[Item(w)].token # job[w].token /\ pc'[w] # pc[w]
       => UNCHANGED <<outbox, receipts>>]_vars

\* No item is in the hands of two handlers of one consumer at a time.
OneHandlerPerItem ==
  \A v, w \in Workers :
    At(v, "running") /\ At(w, "running") /\ v # w /\ Consumer(v) = Consumer(w)
    => Item(v) # Item(w)

\* A handler is not called for an item whose consumption the same consumer has
\* confirmed, by whichever worker and after whatever redelivery.
ConfirmedNotRepeated ==
  [][\A w \in Workers :
       StartHandler(w) => <<Consumer(w), Item(w)>> \notin confirmed]_vars

\* Whatever is enqueued is completed or given up, through crashes, failures,
\* retries and busy receipts.
ItemsSettle ==
  \A i \in Items : ~Is(i, "absent") ~> outbox[i].status \in Final

-----------------------------------------------------------------------------
(* The promise to the caller of enqueue.                                   *)

Stage(i) ==
  CASE Is(i, "absent") -> "absent"
    [] Is(i, "applied") -> "done"
    [] Is(i, "dead_letter") -> "dead"
    [] OTHER -> "open"

D == INSTANCE Delivery WITH
       DeliveryItems <- Items,
       stage <- [i \in Items |-> Stage(i)],
       handled <- succeeded,
       consumed <- {i \in Items : \E c \in Consumers : receipts[c][i].status = "applied"}

\* An item is completed only after its handler succeeded and its consumption
\* was recorded, and is never given up once that is recorded; both are final.
\* This is so while all workers have one consumer id and the same handlers.
ImplementsDelivery == D!DeliverySpec
=============================================================================
