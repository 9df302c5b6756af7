---------------------------- MODULE WorkerProofs ----------------------------
(* Proofs about Worker: types, fencing, leases and confirmed consumption.  *)
EXTENDS Worker, FiniteSetTheorems, TLAPS

USE ConsumerOfAssumption, MaxStopsAssumption

-----------------------------------------------------------------------------
(* Types.                                                                  *)

\* What TypeOK says of the tables, and of the workers.
TablesTyped ==
  /\ outbox \in [Items -> Row]
  /\ receipts \in [Consumers -> [Items -> Receipt]]
  /\ claims \in Nat
  /\ \A i \in Items : Is(i, "processing") <=> outbox[i].token # 0
  /\ \A i \in Items : outbox[i].locked => Is(i, "processing")

WorkersTyped ==
  /\ pc \in [Workers -> {"idle", "begin", "handle", "running", "consume",
                         "applied", "release", "fail"}]
  /\ job \in [Workers -> Job \cup {NoJob}]
  /\ stops \in Nat
  /\ succeeded \subseteq Items
  /\ confirmed \subseteq Consumers \X Items
  /\ \A w \in Workers : At(w, "idle") <=> job[w] = NoJob

LEMMA TypeParts == TypeOK <=> TablesTyped /\ WorkersTyped
BY DEF TypeOK, TablesTyped, WorkersTyped

\* A worker inside run_once holds an item and its token.
LEMMA Holding ==
  ASSUME WorkersTyped, NEW w \in Workers, ~At(w, "idle")
  PROVE  job[w] \in Job /\ Item(w) \in Items /\ job[w].token \in Nat \ {0}
         /\ job[w].attempts \in Nat /\ Consumer(w) \in Consumers
BY DEF WorkersTyped, At, Item, Job, Consumer

LEMMA EnqueueTyped ==
  ASSUME TablesTyped, NEW i \in Items, Enqueue(i)
  PROVE  TablesTyped'
<1> DEFINE born == 1 + Cardinality({j \in Items : ~Is(j, "absent")})
<1>1. {j \in Items : ~Is(j, "absent")} \in SUBSET Items
  OBVIOUS
<1>2. born \in Nat
  BY <1>1, ItemsAssumption, FS_Subset, FS_CardinalityType
<1>3. outbox' = [outbox EXCEPT ![i].status = "pending", ![i].due = TRUE, ![i].born = born]
      /\ receipts' = receipts /\ claims' = claims /\ outbox[i].status = "absent"
  BY DEF Enqueue, Is
<1> HIDE DEF born
<1> DEFINE row == [outbox[i] EXCEPT !.status = "pending", !.due = TRUE, !.born = born]
<1>4. outbox' = [outbox EXCEPT ![i] = row]
  BY <1>3 DEF TablesTyped, Row
<1>5. row \in Row /\ row.status = "pending" /\ row.token = outbox[i].token
      /\ row.locked = outbox[i].locked
  BY <1>2 DEF TablesTyped, Row, Statuses
<1> HIDE DEF row
<1>6. outbox \in [Items -> Row]
  BY DEF TablesTyped
<1>7. outbox' \in [Items -> Row] /\ \A j \in Items : outbox'[j] = IF j = i THEN row ELSE outbox[j]
  BY <1>4, <1>5, <1>6
<1> HIDE <1>4
<1> QED BY <1>3, <1>5, <1>7 DEF TablesTyped, Is

LEMMA ClaimTyped ==
  ASSUME TablesTyped, NEW i \in Items, ClaimItem(i)
  PROVE  TablesTyped'
BY DEF TablesTyped, ClaimItem, Is, Row, Statuses, Final

LEMMA TransitionTyped ==
  ASSUME TablesTyped, NEW i \in Items, NEW token, NEW due \in BOOLEAN,
         NEW status \in {"retryable", "applied", "dead_letter"},
         Transition(i, token, status, due)
  PROVE  TablesTyped'
<1> DEFINE row == [outbox[i] EXCEPT !.status = status, !.token = 0, !.locked = FALSE,
                                    !.due = due]
<1>1. outbox' = [outbox EXCEPT ![i] = row] /\ receipts' = receipts /\ claims' = claims
  BY DEF Transition, TablesTyped, Row
<1>2. row \in Row
  BY DEF TablesTyped, Row, Statuses, Final
<1>3. row.status # "processing" /\ row.token = 0 /\ row.locked = FALSE
  BY DEF TablesTyped, Row
<1> HIDE DEF row
<1> QED BY <1>1, <1>2, <1>3 DEF TablesTyped, Is

LEMMA ReceiptsTyped ==
  ASSUME TablesTyped, NEW c \in Consumers, NEW i \in Items, NEW token \in Nat,
         \/ TakeReceipt(c, i, token)
         \/ MarkConsumed(c, i, token)
         \/ ReleaseConsume(c, i, token)
         \/ ReceiptLeaseRunsOut(c, i)
  PROVE  TablesTyped'
<1>0. receipts[c][i] \in Receipt /\ receipts[c] \in [Items -> Receipt]
  BY DEF TablesTyped
<1>1. \E r \in Receipt : receipts' = [receipts EXCEPT ![c][i] = r]
  <2>1. CASE TakeReceipt(c, i, token)
    BY <2>1 DEF TakeReceipt, Receipt
  <2>2. CASE MarkConsumed(c, i, token)
    <3>1. [receipts[c][i] EXCEPT !.status = "applied", !.locked = FALSE] \in Receipt
      BY <1>0 DEF Receipt
    <3> QED BY <2>2, <3>1, <1>0 DEF MarkConsumed, TablesTyped
  <2>3. CASE ReleaseConsume(c, i, token)
    <3>1. [receipts[c][i] EXCEPT !.locked = @ /\ ~HoldsReceipt(c, i, token)] \in Receipt
      BY <1>0 DEF Receipt
    <3> QED BY <2>3, <3>1, <1>0 DEF ReleaseConsume, TablesTyped
  <2>4. CASE ReceiptLeaseRunsOut(c, i)
    <3>1. [receipts[c][i] EXCEPT !.locked = FALSE] \in Receipt
      BY <1>0 DEF Receipt
    <3> QED BY <2>4, <3>1, <1>0 DEF ReceiptLeaseRunsOut, TablesTyped
  <2> QED BY <2>1, <2>2, <2>3, <2>4
<1>2. receipts' \in [Consumers -> [Items -> Receipt]]
  BY <1>1 DEF TablesTyped
<1>3. UNCHANGED <<outbox, claims>>
  BY DEF TakeReceipt, MarkConsumed, ReleaseConsume, ReceiptLeaseRunsOut
<1> QED BY <1>2, <1>3 DEF TablesTyped, Is

LEMMA ClockTyped ==
  ASSUME TablesTyped, NEW i \in Items, ItemLeaseRunsOut(i) \/ RetryBecomesDue(i)
  PROVE  TablesTyped'
<1>1. CASE ItemLeaseRunsOut(i)
  BY <1>1 DEF TablesTyped, ItemLeaseRunsOut, Is, Row
<1>2. CASE RetryBecomesDue(i)
  <2> DEFINE row == [outbox[i] EXCEPT !.due = TRUE]
  <2>1. outbox' = [outbox EXCEPT ![i] = row] /\ UNCHANGED <<receipts, claims>>
    BY <1>2 DEF RetryBecomesDue, TablesTyped, Row
  <2>2. row \in Row /\ row.status = outbox[i].status /\ row.token = outbox[i].token
        /\ row.locked = outbox[i].locked
    BY DEF TablesTyped, Row
  <2> HIDE DEF row
  <2> QED BY <2>1, <2>2 DEF TablesTyped, Is
<1> QED BY <1>1, <1>2

\* Going on and returning keep the worker's own state well formed.
LEMMA GotoTyped ==
  ASSUME WorkersTyped, NEW w \in Workers, ~At(w, "idle"),
         NEW l \in {"begin", "handle", "running", "consume", "applied", "release", "fail"},
         Goto(w, l), UNCHANGED stops, succeeded' \subseteq Items,
         confirmed' \subseteq Consumers \X Items
  PROVE  WorkersTyped'
BY DEF WorkersTyped, Goto, At

LEMMA ReturnTyped ==
  ASSUME WorkersTyped, NEW w \in Workers, Return(w), stops' \in Nat, UNCHANGED history
  PROVE  WorkersTyped'
BY DEF WorkersTyped, Return, At, history

LEMMA FencedTyped ==
  ASSUME TablesTyped, WorkersTyped, NEW w \in Workers, Fenced(w)
  PROVE  TablesTyped' /\ WorkersTyped'
<1>1. TablesTyped'
  BY DEF Fenced, TablesTyped, outboxVars, Is
<1>2. WorkersTyped'
  BY ReturnTyped DEF Fenced, WorkersTyped
<1> QED BY <1>1, <1>2

-----------------------------------------------------------------------------
\* What may become of the tables in a step: nothing, or one of OutboxStore's
\* transactions or the clock.
LEMMA TablesUnchanged ==
  ASSUME TablesTyped, UNCHANGED outboxVars
  PROVE  TablesTyped'
BY DEF TablesTyped, outboxVars, Is

LEMMA EnvironmentTyped ==
  ASSUME TypeOK, Environment
  PROVE  TypeOK'
<1>1. TablesTyped /\ WorkersTyped
  BY TypeParts
<1>2. WorkersTyped'
  BY <1>1 DEF Environment, WorkersTyped, history, At
<1>3. PICK i \in Items : \/ Enqueue(i) \/ ItemExpires(i) \/ RetryBecomesDue(i)
                         \/ \E c \in Consumers : ReceiptLeaseRunsOut(c, i)
  BY DEF Environment
<1>4. Enqueue(i) => TablesTyped'
  BY <1>1, EnqueueTyped
<1>5. ItemExpires(i) \/ RetryBecomesDue(i) => TablesTyped'
  BY <1>1, ClockTyped DEF ItemExpires
<1>6. ASSUME NEW c \in Consumers, ReceiptLeaseRunsOut(c, i)
      PROVE  TablesTyped'
  BY <1>1, <1>6, ReceiptsTyped, 0 \in Nat
<1>7. TablesTyped'
  BY <1>3, <1>4, <1>5, <1>6
<1>8. TypeOK' <=> TablesTyped' /\ WorkersTyped'
  BY DEF TypeOK, TablesTyped, WorkersTyped
<1> QED BY <1>2, <1>7, <1>8

LEMMA ClaimKeepsTypes ==
  ASSUME TypeOK, NEW w \in Workers, Claim(w)
  PROVE  TypeOK'
<1>1. TablesTyped /\ WorkersTyped
  BY TypeParts
<1>2. PICK i \in Items :
        /\ ClaimItem(i)
        /\ job' = [job EXCEPT ![w] = [item |-> i, token |-> claims + 1,
                                      attempts |-> outbox[i].attempts + 1]]
        /\ pc' = [pc EXCEPT ![w] = IF i \in Handles[w] THEN "begin" ELSE "fail"]
  BY DEF Claim
<1>3. TablesTyped'
  BY <1>1, <1>2, ClaimTyped
<1>4. [item |-> i, token |-> claims + 1, attempts |-> outbox[i].attempts + 1] \in Job
  BY <1>1 DEF TablesTyped, Row, Job
<1>5. NoJob \notin Job
  BY DEF NoJob, Job
<1>6. UNCHANGED <<stops, succeeded, confirmed>>
  BY DEF Claim, history
<1>7. WorkersTyped'
  BY <1>1, <1>2, <1>4, <1>5, <1>6 DEF WorkersTyped, At
<1>8. TypeOK' <=> TablesTyped' /\ WorkersTyped'
  BY DEF TypeOK, TablesTyped, WorkersTyped
<1> QED BY <1>3, <1>7, <1>8

LEMMA StepTyped ==
  ASSUME TypeOK, NEW w \in Workers, Step(w) \/ Stop(w)
  PROVE  TypeOK'
<1> DEFINE i == Item(w)
           token == job[w].token
           c == Consumer(w)
<1>0. TablesTyped /\ WorkersTyped /\ ~At(w, "idle")
  BY TypeParts DEF At, Step, Stop, BeginConsume, StartHandler, HandlerReturns,
     HandlerRaises, FinishConsume, ReleaseReceipt, Fail, MarkApplied
<1>1. i \in Items /\ token \in Nat /\ c \in Consumers /\ Item(w) = job[w].item
  BY <1>0, Holding DEF Item
<1>2. succeeded \subseteq Items /\ confirmed \subseteq Consumers \X Items
      /\ outbox[i].due \in BOOLEAN /\ stops \in Nat
  BY <1>0, <1>1 DEF WorkersTyped, TablesTyped, Row
<1> HIDE DEF i, token, c
<1>3. CASE BeginConsume(w)
  <2>1. UNCHANGED <<stops, history>>
    BY <1>3 DEF BeginConsume
  <2>2. Return(w) \/ Goto(w, "applied") \/ Goto(w, "handle")
    BY <1>3 DEF BeginConsume
  <2>3. UNCHANGED outboxVars \/ TakeReceipt(c, i, token)
    BY <1>3 DEF BeginConsume, c, i, token
  <2>4. TablesTyped'
    BY <1>0, <1>1, <2>3, TablesUnchanged, ReceiptsTyped
  <2>5. WorkersTyped'
    BY <1>0, <1>2, <2>1, <2>2, ReturnTyped, GotoTyped DEF history
  <2> QED BY <2>4, <2>5 DEF TypeOK, TablesTyped, WorkersTyped
<1>4. CASE StartHandler(w) \/ HandlerReturns(w) \/ HandlerRaises(w)
  <2>1. UNCHANGED outboxVars /\ UNCHANGED stops
    BY <1>4 DEF StartHandler, HandlerReturns, HandlerRaises
  <2>2. succeeded' \subseteq Items /\ confirmed' \subseteq Consumers \X Items
    BY <1>1, <1>2, <1>4 DEF StartHandler, HandlerReturns, HandlerRaises, history, i
  <2>3. Goto(w, "running") \/ Goto(w, "consume") \/ Goto(w, "release")
    BY <1>4 DEF StartHandler, HandlerReturns, HandlerRaises
  <2>4. TablesTyped'
    BY <1>0, <2>1, TablesUnchanged
  <2>5. WorkersTyped'
    BY <1>0, <2>1, <2>2, <2>3, GotoTyped
  <2> QED BY <2>4, <2>5 DEF TypeOK, TablesTyped, WorkersTyped
<1>5. CASE FinishConsume(w)
  <2>1. CASE Fenced(w)
    BY <1>0, <2>1, FencedTyped DEF TypeOK, TablesTyped, WorkersTyped
  <2>2. CASE ~Fenced(w)
    <3>1. MarkConsumed(c, i, token) /\ Goto(w, "applied") /\ UNCHANGED stops
          /\ succeeded' \subseteq Items /\ confirmed' \subseteq Consumers \X Items
      BY <1>1, <1>2, <1>5, <2>2 DEF FinishConsume, c, i, token
    <3>2. TablesTyped'
      BY <1>0, <1>1, <3>1, ReceiptsTyped
    <3>3. WorkersTyped'
      BY <1>0, <3>1, GotoTyped
    <3> QED BY <3>2, <3>3 DEF TypeOK, TablesTyped, WorkersTyped
  <2> QED BY <2>1, <2>2
<1>6. CASE ReleaseReceipt(w)
  <2>1. CASE Fenced(w)
    BY <1>0, <2>1, FencedTyped DEF TypeOK, TablesTyped, WorkersTyped
  <2>2. CASE ~Fenced(w)
    <3>1. ReleaseConsume(c, i, token) /\ Goto(w, "fail") /\ UNCHANGED stops
          /\ succeeded' \subseteq Items /\ confirmed' \subseteq Consumers \X Items
      BY <1>2, <1>6, <2>2 DEF ReleaseReceipt, c, i, token, history
    <3>2. TablesTyped'
      BY <1>0, <1>1, <3>1, ReceiptsTyped
    <3>3. WorkersTyped'
      BY <1>0, <3>1, GotoTyped
    <3> QED BY <3>2, <3>3 DEF TypeOK, TablesTyped, WorkersTyped
  <2> QED BY <2>1, <2>2
<1>7. CASE Fail(w) \/ MarkApplied(w)
  <2>1. CASE Fenced(w)
    BY <1>0, <2>1, FencedTyped DEF TypeOK, TablesTyped, WorkersTyped
  <2>2. CASE ~Fenced(w)
    <3>1. /\ Return(w) /\ UNCHANGED <<stops, history>>
          /\ \E status \in {"retryable", "applied", "dead_letter"}, due \in BOOLEAN :
               Transition(i, token, status, due)
      BY <1>2, <1>7, <2>2 DEF Fail, MarkApplied, i, token
    <3>2. TablesTyped'
      BY <1>0, <1>1, <3>1, TransitionTyped
    <3>3. WorkersTyped'
      BY <1>0, <1>2, <3>1, ReturnTyped
    <3> QED BY <3>2, <3>3 DEF TypeOK, TablesTyped, WorkersTyped
  <2> QED BY <2>1, <2>2
<1>8. CASE Stop(w)
  <2>1. Return(w) /\ stops' \in Nat /\ UNCHANGED <<outboxVars, history>>
    BY <1>2, <1>8 DEF Stop
  <2>2. TablesTyped' /\ WorkersTyped'
    BY <1>0, <2>1, TablesUnchanged, ReturnTyped
  <2> QED BY <2>2 DEF TypeOK, TablesTyped, WorkersTyped
<1> QED BY <1>3, <1>4, <1>5, <1>6, <1>7, <1>8 DEF Step

LEMMA TypeInductive == TypeOK /\ [Next]_vars => TypeOK'
<1> SUFFICES ASSUME TypeOK, [Next]_vars PROVE TypeOK'
  OBVIOUS
<1>1. CASE Environment
  BY <1>1, EnvironmentTyped
<1>2. ASSUME NEW w \in Workers, Claim(w) \/ Step(w) \/ Stop(w)
      PROVE  TypeOK'
  BY <1>2, ClaimKeepsTypes, StepTyped
<1>3. CASE UNCHANGED vars
  BY <1>3 DEF vars, outboxVars, TypeOK, At, Is
<1> QED BY <1>1, <1>2, <1>3 DEF Next

\* Rows, receipts and workers keep their types, and only a processing item has
\* a token and a lock, whatever stops, stalls or is repeated.
THEOREM WorkerTypeCorrect == Spec => []TypeOK
<1>1. Init => TypeOK
  <2> SUFFICES ASSUME Init PROVE TypeOK
    OBVIOUS
  <2>1. TablesTyped
    BY DEF Init, OutboxInit, TablesTyped, Row, Statuses, Receipt, Is
  <2>2. WorkersTyped
    BY DEF Init, WorkersTyped, At
  <2> QED BY <2>1, <2>2, TypeParts
<1> QED BY <1>1, TypeInductive, PTL DEF Spec

-----------------------------------------------------------------------------
(* Fencing.                                                                *)

\* A worker's step leaves the other workers where they are.
LEMMA OwnStepOnly ==
  ASSUME WorkersTyped, NEW v \in Workers, Claim(v) \/ Step(v) \/ Stop(v),
         NEW w \in Workers, v # w
  PROVE  pc'[w] = pc[w] /\ job'[w] = job[w]
<1>1. \/ \E l : Goto(v, l)
      \/ Return(v)
      \/ Claim(v)
  <2>1. CASE BeginConsume(v) \/ StartHandler(v) \/ HandlerReturns(v) \/ HandlerRaises(v)
    BY <2>1 DEF BeginConsume, StartHandler, HandlerReturns, HandlerRaises
  <2>2. CASE FinishConsume(v) \/ ReleaseReceipt(v) \/ Fail(v) \/ MarkApplied(v)
    BY <2>2 DEF FinishConsume, ReleaseReceipt, Fail, MarkApplied, Fenced
  <2>3. CASE Stop(v)
    BY <2>3 DEF Stop
  <2> QED BY <2>1, <2>2, <2>3 DEF Step
<1>2. CASE \E l : Goto(v, l)
  BY <1>2 DEF Goto, WorkersTyped
<1>3. CASE Return(v)
  BY <1>3 DEF Return, WorkersTyped
<1>4. CASE Claim(v)
  BY <1>4 DEF Claim, WorkersTyped
<1> QED BY <1>1, <1>2, <1>3, <1>4

\* A step inside run_once writes only while the worker owns its item.
LEMMA OnlyOwnersWrite ==
  ASSUME NEW w \in Workers, Step(w) \/ Stop(w), ~Owner(w)
  PROVE  UNCHANGED outboxVars
<1>1. CASE BeginConsume(w)
  BY <1>1 DEF BeginConsume, ConsumeVerdict, Owner
<1>2. CASE StartHandler(w) \/ HandlerReturns(w) \/ HandlerRaises(w) \/ Stop(w)
  BY <1>2 DEF StartHandler, HandlerReturns, HandlerRaises, Stop
<1>3. CASE FinishConsume(w) \/ ReleaseReceipt(w) \/ Fail(w) \/ MarkApplied(w)
  BY <1>3 DEF FinishConsume, ReleaseReceipt, Fail, MarkApplied, Fenced, Owner,
     MarkConsumed, ReleaseConsume, Transition
<1> QED BY <1>1, <1>2, <1>3 DEF Step

\* A worker that stalled until its item was claimed again or settled by
\* another one can no longer write the item or a receipt.
THEOREM StaleWorkersFenced == Spec => StaleWorkersChangeNothing
<1> DEFINE Fencing ==
      \A w \in Workers :
        ~At(w, "idle") /\ outbox[Item(w)].token # job[w].token /\ pc'[w] # pc[w]
        => UNCHANGED <<outbox, receipts>>
<1>1. TypeOK /\ [Next]_vars => [Fencing]_vars
  <2> SUFFICES ASSUME TypeOK, Next, NEW w \in Workers, ~At(w, "idle"),
                      outbox[Item(w)].token # job[w].token, pc'[w] # pc[w]
               PROVE  UNCHANGED <<outbox, receipts>>
    OBVIOUS
  <2>1. ~Environment
    BY DEF Environment
  <2>2. PICK v \in Workers : Claim(v) \/ Step(v) \/ Stop(v)
    BY <2>1 DEF Next
  <2>3. v = w
    BY <2>2, OwnStepOnly, TypeParts
  <2>4. Step(w) \/ Stop(w)
    BY <2>2, <2>3 DEF Claim
  <2>5. ~Owner(w)
    BY DEF Owner, Owns
  <2> QED BY <2>4, <2>5, OnlyOwnersWrite DEF outboxVars
<1> QED BY <1>1, WorkerTypeCorrect, PTL DEF StaleWorkersChangeNothing, Spec

-----------------------------------------------------------------------------
(* What a worker's step does to the tables.                                *)

\* Inside run_once a worker touches no item but its own, and draws no token.
LEMMA WritesOwnItem ==
  ASSUME TypeOK, NEW w \in Workers, Step(w) \/ Stop(w)
  PROVE  /\ claims' = claims
         /\ \A i \in Items : i # Item(w) =>
              outbox'[i] = outbox[i] /\ \A c \in Consumers : receipts'[c][i] = receipts[c][i]
<1>0. Item(w) \in Items /\ Consumer(w) \in Consumers
  BY TypeParts, Holding DEF Step, Stop, BeginConsume, StartHandler, HandlerReturns,
     HandlerRaises, FinishConsume, ReleaseReceipt, Fail, MarkApplied, At
<1> DEFINE i == Item(w)
           token == job[w].token
           c == Consumer(w)
<1>1. \/ UNCHANGED outboxVars
      \/ TakeReceipt(c, i, token) \/ MarkConsumed(c, i, token)
      \/ ReleaseConsume(c, i, token)
      \/ \E s, d : Transition(i, token, s, d)
  <2>1. CASE BeginConsume(w)
    BY <2>1 DEF BeginConsume
  <2>2. CASE StartHandler(w) \/ HandlerReturns(w) \/ HandlerRaises(w) \/ Stop(w)
    BY <2>2 DEF StartHandler, HandlerReturns, HandlerRaises, Stop
  <2>3. CASE FinishConsume(w) \/ ReleaseReceipt(w)
    BY <2>3 DEF FinishConsume, ReleaseReceipt, Fenced
  <2>4. CASE Fail(w) \/ MarkApplied(w)
    BY <2>4 DEF Fail, MarkApplied, Fenced
  <2> QED BY <2>1, <2>2, <2>3, <2>4 DEF Step
<1> HIDE DEF i, token, c
<1>2. i \in Items /\ c \in Consumers /\ Item(w) = i
  BY <1>0 DEF i, c
<1>3. outbox \in [Items -> Row] /\ receipts \in [Consumers -> [Items -> Receipt]]
  BY DEF TypeOK
<1>4. CASE UNCHANGED outboxVars
  BY <1>4 DEF outboxVars
<1>5. CASE TakeReceipt(c, i, token) \/ MarkConsumed(c, i, token)
           \/ ReleaseConsume(c, i, token)
  BY <1>2, <1>3, <1>5 DEF TakeReceipt, MarkConsumed, ReleaseConsume
<1>6. CASE \E s, d : Transition(i, token, s, d)
  BY <1>2, <1>3, <1>6 DEF Transition
<1> QED BY <1>1, <1>4, <1>5, <1>6

\* A claim takes one item, with a token that nobody has.
LEMMA ClaimEffect ==
  ASSUME TypeOK, NEW w \in Workers, Claim(w)
  PROVE  \E i \in Items :
           /\ Is(i, "pending") \/ Is(i, "retryable") \/ Is(i, "processing")
           /\ outbox'[i].status = "processing" /\ outbox'[i].token = claims + 1
           /\ \A j \in Items : j # i => outbox'[j] = outbox[j]
           /\ receipts' = receipts
           /\ claims' = claims + 1
           /\ job'[w].item = i /\ job'[w].token = claims + 1
           /\ pc'[w] = (IF i \in Handles[w] THEN "begin" ELSE "fail")
           /\ \A v \in Workers : v # w => pc'[v] = pc[v] /\ job'[v] = job[v]
<1>1. PICK i \in Items :
        /\ ClaimItem(i)
        /\ job' = [job EXCEPT ![w] = [item |-> i, token |-> claims + 1,
                                      attempts |-> outbox[i].attempts + 1]]
        /\ pc' = [pc EXCEPT ![w] = IF i \in Handles[w] THEN "begin" ELSE "fail"]
  BY DEF Claim
<1>2. Is(i, "pending") \/ Is(i, "retryable") \/ Is(i, "processing")
  BY <1>1 DEF ClaimItem, Ready
<1>3. /\ outbox'[i].status = "processing" /\ outbox'[i].token = claims + 1
      /\ \A j \in Items : j # i => outbox'[j] = outbox[j]
      /\ receipts' = receipts
      /\ claims' = claims + 1
  BY <1>1 DEF ClaimItem, TypeOK, Row
<1>4. /\ job'[w].item = i /\ job'[w].token = claims + 1
      /\ pc'[w] = (IF i \in Handles[w] THEN "begin" ELSE "fail")
      /\ \A v \in Workers : v # w => pc'[v] = pc[v] /\ job'[v] = job[v]
  BY <1>1 DEF TypeOK
<1> QED BY <1>2, <1>3, <1>4

\* No row is ever deleted, and a status other than absent never turns back.
LEMMA RowsStay ==
  ASSUME TypeOK, [Next]_vars, NEW i \in Items, ~Is(i, "absent")
  PROVE  outbox'[i].status # "absent"
<1>0. outbox \in [Items -> Row]
  BY DEF TypeOK
<1>1. CASE Environment
  <2>1. PICK j \in Items : \/ Enqueue(j) \/ ItemExpires(j) \/ RetryBecomesDue(j)
                           \/ \E c \in Consumers : ReceiptLeaseRunsOut(c, j)
    BY <1>1 DEF Environment
  <2> QED BY <1>0, <2>1 DEF Enqueue, ItemExpires, ItemLeaseRunsOut, RetryBecomesDue,
             ReceiptLeaseRunsOut, Is, Row
<1>2. ASSUME NEW w \in Workers, Claim(w)
      PROVE  outbox'[i].status # "absent"
  BY <1>2, ClaimEffect DEF Is
<1>3. ASSUME NEW w \in Workers, Step(w) \/ Stop(w), i = Item(w)
      PROVE  outbox'[i].status # "absent"
  <2>1. CASE Fail(w) \/ MarkApplied(w)
    BY <1>0, <1>3, <2>1 DEF Fail, MarkApplied, Fenced, Transition, outboxVars, Is, Row
  <2>2. CASE ~(Fail(w) \/ MarkApplied(w))
    <3>1. outbox' = outbox
      BY <1>3, <2>2 DEF Step, Stop, BeginConsume, StartHandler, HandlerReturns,
         HandlerRaises, FinishConsume, ReleaseReceipt, Fenced, outboxVars, TakeReceipt,
         MarkConsumed, ReleaseConsume
    <3> QED BY <3>1 DEF Is
  <2> QED BY <2>1, <2>2
<1>4. ASSUME NEW w \in Workers, Step(w) \/ Stop(w), i # Item(w)
      PROVE  outbox'[i].status # "absent"
  BY <1>4, WritesOwnItem DEF Is
<1>5. CASE UNCHANGED vars
  BY <1>5 DEF vars, outboxVars, Is
<1> QED BY <1>1, <1>2, <1>3, <1>4, <1>5 DEF Next

\* Time and new items change no token, no receipt's status or token, and no
\* status but that of the new item.
LEMMA EnvironmentEffect ==
  ASSUME TypeOK, Environment
  PROVE  /\ claims' = claims
         /\ UNCHANGED <<pc, job, stops, succeeded, confirmed>>
         /\ \A i \in Items :
              /\ outbox'[i].token = outbox[i].token
              /\ ~Is(i, "absent") => outbox'[i].status = outbox[i].status
              /\ Is(i, "absent") => outbox'[i].status \in {"absent", "pending"}
         /\ \A c \in Consumers, i \in Items :
              /\ receipts'[c][i].status = receipts[c][i].status
              /\ receipts'[c][i].token = receipts[c][i].token
<1>0. outbox \in [Items -> Row] /\ receipts \in [Consumers -> [Items -> Receipt]]
  BY DEF TypeOK
<1>1. PICK j \in Items : \/ Enqueue(j) \/ ItemExpires(j) \/ RetryBecomesDue(j)
                         \/ \E c \in Consumers : ReceiptLeaseRunsOut(c, j)
  BY DEF Environment
<1>2. UNCHANGED <<pc, job, stops, succeeded, confirmed>>
  BY DEF Environment, history
<1>3. claims' = claims
  BY <1>1 DEF Enqueue, ItemExpires, ItemLeaseRunsOut, RetryBecomesDue, ReceiptLeaseRunsOut
<1>4. ASSUME NEW i \in Items
      PROVE  /\ outbox'[i].token = outbox[i].token
             /\ ~Is(i, "absent") => outbox'[i].status = outbox[i].status
             /\ Is(i, "absent") => outbox'[i].status \in {"absent", "pending"}
  <2>1. CASE Enqueue(j)
    BY <1>0, <2>1 DEF Enqueue, Is, Row
  <2>2. CASE ItemExpires(j)
    BY <1>0, <2>2 DEF ItemExpires, ItemLeaseRunsOut, Is, Row
  <2>3. CASE RetryBecomesDue(j)
    BY <1>0, <2>3 DEF RetryBecomesDue, Is, Row
  <2>4. CASE \E c \in Consumers : ReceiptLeaseRunsOut(c, j)
    BY <1>0, <2>4 DEF ReceiptLeaseRunsOut, Is, Row
  <2> QED BY <1>1, <2>1, <2>2, <2>3, <2>4
<1>5. ASSUME NEW c \in Consumers, NEW i \in Items
      PROVE  /\ receipts'[c][i].status = receipts[c][i].status
             /\ receipts'[c][i].token = receipts[c][i].token
  <2>1. CASE receipts' = receipts
    BY <2>1
  <2>2. ASSUME NEW d \in Consumers, ReceiptLeaseRunsOut(d, j)
        PROVE  /\ receipts'[c][i].status = receipts[c][i].status
               /\ receipts'[c][i].token = receipts[c][i].token
    BY <1>0, <2>2 DEF ReceiptLeaseRunsOut, Receipt
  <2> QED BY <1>1, <2>1, <2>2 DEF Enqueue, ItemExpires, ItemLeaseRunsOut, RetryBecomesDue
<1> QED BY <1>2, <1>3, <1>4, <1>5

\* What a step does to a worker's own place, item and token.
LEMMA OwnPlace ==
  ASSUME TypeOK, NEW w \in Workers, Step(w) \/ Stop(w)
  PROVE  /\ ~At(w, "idle")
         /\ pc'[w] = "idle" \/ job'[w] = job[w]
         /\ pc'[w] # "begin"
         /\ \A v \in Workers : v # w => pc'[v] = pc[v] /\ job'[v] = job[v]
<1>1. ~At(w, "idle")
  BY DEF Step, Stop, BeginConsume, StartHandler, HandlerReturns, HandlerRaises,
     FinishConsume, ReleaseReceipt, Fail, MarkApplied, At
<1>2. \A v \in Workers : v # w => pc'[v] = pc[v] /\ job'[v] = job[v]
  BY OwnStepOnly, TypeParts
<1>3. \/ Return(w)
      \/ \E l \in {"handle", "running", "consume", "applied", "release", "fail"} : Goto(w, l)
  BY DEF Step, Stop, BeginConsume, StartHandler, HandlerReturns, HandlerRaises,
     FinishConsume, ReleaseReceipt, Fail, MarkApplied, Fenced
<1>4. CASE Return(w)
  BY <1>1, <1>2, <1>4 DEF Return, TypeOK
<1>5. CASE \E l \in {"handle", "running", "consume", "applied", "release", "fail"} : Goto(w, l)
  BY <1>1, <1>2, <1>5 DEF Goto, TypeOK
<1> QED BY <1>3, <1>4, <1>5

-----------------------------------------------------------------------------
(* Leases.                                                                 *)

\* Tokens come from claims, and two workers never have the same one.
TokensUnique ==
  /\ \A i \in Items : outbox[i].token <= claims
  /\ \A w \in Workers : job[w].token <= claims
  /\ \A v, w \in Workers :
       job[v].token = job[w].token /\ ~At(v, "idle") /\ ~At(w, "idle") => v = w

LEMMA TokensStayUnique ==
  ASSUME TypeOK, TokensUnique, [Next]_vars
  PROVE  TokensUnique'
<1>0. TypeOK'
  BY TypeInductive
<1>1. CASE Environment
  BY <1>1, EnvironmentEffect DEF TokensUnique, At
<1>2. ASSUME NEW w \in Workers, Claim(w)
      PROVE  TokensUnique'
  <2>1. claims \in Nat /\ At(w, "idle")
    BY <1>2 DEF TypeOK, Claim
  <2>2. \A i \in Items : outbox[i].token \in Nat
    BY DEF TypeOK, Row
  <2>3. \A v \in Workers : job[v].token \in Nat
    BY DEF TypeOK, Job, NoJob
  <2>4. PICK i \in Items :
           /\ outbox'[i].token = claims + 1
           /\ \A j \in Items : j # i => outbox'[j] = outbox[j]
           /\ claims' = claims + 1
           /\ job'[w].token = claims + 1
           /\ \A v \in Workers : v # w => pc'[v] = pc[v] /\ job'[v] = job[v]
    BY <1>2, ClaimEffect
  <2> QED BY <2>1, <2>2, <2>3, <2>4 DEF TokensUnique, At
<1>3. ASSUME NEW w \in Workers, Step(w) \/ Stop(w)
      PROVE  TokensUnique'
  <2>1. claims' = claims /\ claims \in Nat
    BY <1>3, WritesOwnItem DEF TypeOK
  <2>2. \A i \in Items : outbox'[i].token = outbox[i].token \/ outbox'[i].token = 0
    <3>1. ASSUME NEW i \in Items, i = Item(w)
          PROVE  outbox'[i].token = outbox[i].token \/ outbox'[i].token = 0
      <4>1. CASE Fail(w) \/ MarkApplied(w)
        BY <3>1, <4>1 DEF Fail, MarkApplied, Fenced, Transition, outboxVars, TypeOK, Row
      <4>2. CASE ~(Fail(w) \/ MarkApplied(w))
        BY <1>3, <4>2 DEF Step, Stop, BeginConsume, StartHandler, HandlerReturns,
           HandlerRaises, FinishConsume, ReleaseReceipt, Fenced, outboxVars, TakeReceipt,
           MarkConsumed, ReleaseConsume
      <4> QED BY <4>1, <4>2
    <3> QED BY <1>3, <3>1, WritesOwnItem
  <2>3. \A v \in Workers : job'[v].token = job[v].token \/ (v = w /\ pc'[v] = "idle")
    BY <1>3, OwnPlace
  <2>4. pc'[w] = "idle" => job'[w].token = 0
    BY <1>0 DEF TypeOK, At, NoJob
  <2>5. \A v \in Workers : pc'[v] # "idle" => pc[v] # "idle"
    BY <1>3, OwnPlace DEF At
  <2> QED BY <2>1, <2>2, <2>3, <2>4, <2>5 DEF TokensUnique, At
<1>4. CASE UNCHANGED vars
  BY <1>4 DEF vars, outboxVars, TokensUnique, At
<1> QED BY <1>1, <1>2, <1>3, <1>4 DEF Next

\* Whoever is inside run_once still has its item under an unexpired lease.
KeepsLease ==
  \A w \in Workers : ~At(w, "idle") => Owner(w) /\ outbox[Item(w)].locked

LEMMA LeaseKept ==
  ASSUME StallsOutliveLease = FALSE, TypeOK, TokensUnique, KeepsLease, [Next]_vars
  PROVE  KeepsLease'
<1>0. outbox \in [Items -> Row]
  BY DEF TypeOK
<1>1. \A w \in Workers : ~At(w, "idle") => Item(w) \in Items
  BY Holding, TypeParts
<1>2. CASE UNCHANGED vars
  BY <1>2 DEF vars, outboxVars, KeepsLease, At, Owner, Owns, Is, Item
<1>3. CASE Environment
  <2>1. PICK j \in Items : \/ Enqueue(j) \/ ItemExpires(j) \/ RetryBecomesDue(j)
                           \/ \E c \in Consumers : ReceiptLeaseRunsOut(c, j)
    BY <1>3 DEF Environment
  <2>2. UNCHANGED <<pc, job>>
    BY <1>3 DEF Environment
  <2>3. ASSUME NEW w \in Workers, ~At(w, "idle"), NEW i \in Items, i = Item(w)
        PROVE  outbox'[i].status = "processing" /\ outbox'[i].token = job[w].token
               /\ outbox'[i].locked
    <3>1. Is(i, "processing") /\ outbox[i].token = job[w].token /\ outbox[i].locked
      BY <2>3 DEF KeepsLease, Owner, Owns
    <3>2. CASE Enqueue(j) \/ RetryBecomesDue(j)
      BY <1>0, <3>1, <3>2 DEF Enqueue, RetryBecomesDue, Is, Row
    <3>3. CASE ItemExpires(j)
      <4>1. i # j
        BY <2>3, <3>3 DEF ItemExpires, AtWork, KeepsLease
      <4> QED BY <1>0, <3>1, <3>3, <4>1 DEF ItemExpires, ItemLeaseRunsOut, Is
    <3>4. CASE \E c \in Consumers : ReceiptLeaseRunsOut(c, j)
      BY <3>1, <3>4 DEF ReceiptLeaseRunsOut, Is
    <3> QED BY <2>1, <3>2, <3>3, <3>4
  <2> QED BY <1>1, <2>2, <2>3 DEF KeepsLease, At, Owner, Owns, Is, Item
<1>4. ASSUME NEW v \in Workers, Claim(v)
      PROVE  KeepsLease'
  <2>1. PICK i \in Items :
          /\ ClaimItem(i)
          /\ job' = [job EXCEPT ![v] = [item |-> i, token |-> claims + 1,
                                        attempts |-> outbox[i].attempts + 1]]
          /\ pc' = [pc EXCEPT ![v] = IF i \in Handles[v] THEN "begin" ELSE "fail"]
    BY <1>4 DEF Claim
  <2>2. /\ outbox'[i].status = "processing" /\ outbox'[i].token = claims + 1
        /\ outbox'[i].locked = TRUE
        /\ \A j \in Items : j # i => outbox'[j] = outbox[j]
    BY <1>0, <2>1 DEF ClaimItem, Row
  <2>3. job'[v].item = i /\ job'[v].token = claims + 1
    BY <2>1 DEF TypeOK
  <2>4. ASSUME NEW w \in Workers, w # v, pc'[w] # "idle"
        PROVE  /\ pc'[w] = pc[w] /\ job'[w] = job[w] /\ ~At(w, "idle") /\ Item(w) # i
               /\ Owner(w) /\ outbox[Item(w)].locked
    <3>1. pc'[w] = pc[w] /\ job'[w] = job[w] /\ ~At(w, "idle")
      BY <2>1, <2>4 DEF TypeOK, At
    <3> QED BY <2>1, <3>1 DEF KeepsLease, ClaimItem, Ready, Owner, Owns, Is
  <2> QED BY <1>1, <2>2, <2>3, <2>4 DEF KeepsLease, At, Owner, Owns, Is, Item
<1>5. ASSUME NEW v \in Workers, Step(v) \/ Stop(v)
      PROVE  KeepsLease'
  <2>1. ASSUME NEW w \in Workers, pc'[w] # "idle"
        PROVE  /\ job'[w] = job[w] /\ ~At(w, "idle")
               /\ w = v \/ Item(w) # Item(v)
    <3>1. job'[w] = job[w] /\ ~At(w, "idle") /\ ~At(v, "idle")
      BY <1>5, <2>1, OwnPlace DEF At
    <3>2. w # v => Item(w) # Item(v)
      BY <3>1 DEF KeepsLease, TokensUnique, Owner, Owns
    <3> QED BY <3>1, <3>2
  <2>2. pc'[v] # "idle" => outbox' = outbox
    <3>1. CASE Return(v)
      BY <3>1 DEF Return, TypeOK
    <3>2. CASE ~Return(v)
      BY <1>5, <3>2 DEF Step, Stop, BeginConsume, StartHandler, HandlerReturns,
         HandlerRaises, FinishConsume, ReleaseReceipt, Fail, MarkApplied, Fenced,
         outboxVars, TakeReceipt, MarkConsumed, ReleaseConsume
    <3> QED BY <3>1, <3>2
  <2>3. ASSUME NEW w \in Workers, pc'[w] # "idle"
        PROVE  outbox'[Item(w)] = outbox[Item(w)]
    BY <1>1, <1>5, <2>1, <2>2, <2>3, WritesOwnItem
  <2> QED BY <2>1, <2>3 DEF KeepsLease, At, Owner, Owns, Is, Item
<1> QED BY <1>2, <1>3, <1>4, <1>5 DEF Next

\* As long as no worker outlives its lease, no two handlers of one consumer,
\* nor of two, run for the same item.
THEOREM HandlersExclude ==
  ASSUME StallsOutliveLease = FALSE
  PROVE  Spec => []OneHandlerPerItem
<1>1. Init => TokensUnique /\ KeepsLease
  BY DEF Init, OutboxInit, TokensUnique, KeepsLease, NoJob, At
<1>2. TypeOK /\ TokensUnique /\ KeepsLease /\ [Next]_vars => (TokensUnique /\ KeepsLease)'
  BY TokensStayUnique, LeaseKept
<1>3. TypeOK /\ TokensUnique /\ KeepsLease => OneHandlerPerItem
  BY DEF TokensUnique, KeepsLease, OneHandlerPerItem, At, Owner, Owns
<1> QED BY <1>1, <1>2, <1>3, WorkerTypeCorrect, PTL DEF Spec
-----------------------------------------------------------------------------
(* Confirmed consumption.                                                  *)

\* What is confirmed stays on record, and whoever is about to call its handler
\* has taken a receipt that nobody has confirmed.
ReceiptsHeld ==
  /\ \A c \in Consumers, i \in Items :
       <<c, i>> \in confirmed => receipts[c][i].status = "applied"
  /\ \A w \in Workers : At(w, "handle") => receipts[Consumer(w)][Item(w)].status = "processing"

\* Receipts that are applied are never taken again.
LEMMA AppliedStays ==
  ASSUME TypeOK, NEW v \in Workers, Step(v) \/ Stop(v), NEW c \in Consumers, NEW i \in Items,
         receipts[c][i].status = "applied"
  PROVE  receipts'[c][i].status = "applied"
<1>0. receipts \in [Consumers -> [Items -> Receipt]] /\ receipts[c][i] \in Receipt
  BY DEF TypeOK
<1>1. CASE BeginConsume(v) \/ FinishConsume(v) \/ ReleaseReceipt(v)
  <2>1. CASE UNCHANGED receipts
    BY <2>1
  <2>2. CASE /\ ConsumeVerdict(Consumer(v), Item(v), job[v].token) = "acquired"
             /\ TakeReceipt(Consumer(v), Item(v), job[v].token)
    <3>1. ~(c = Consumer(v) /\ i = Item(v))
      BY <2>2 DEF ConsumeVerdict
    <3> QED BY <1>0, <2>2, <3>1 DEF TakeReceipt
  <2>3. CASE MarkConsumed(Consumer(v), Item(v), job[v].token)
    BY <1>0, <2>3 DEF MarkConsumed, Receipt
  <2>4. CASE ReleaseConsume(Consumer(v), Item(v), job[v].token)
    BY <1>0, <2>4 DEF ReleaseConsume, Receipt
  <2> QED BY <1>1, <2>1, <2>2, <2>3, <2>4
          DEF BeginConsume, FinishConsume, ReleaseReceipt, Fenced, outboxVars
<1>2. CASE ~(BeginConsume(v) \/ FinishConsume(v) \/ ReleaseReceipt(v))
  <2>1. receipts' = receipts
    BY <1>2 DEF Step, Stop, StartHandler, HandlerReturns, HandlerRaises, Fail, MarkApplied,
                Fenced, Transition, outboxVars
  <2> QED BY <2>1
<1> QED BY <1>1, <1>2

\* What a worker confirms is on record.
LEMMA ConfirmedRecorded ==
  ASSUME TypeOK, NEW v \in Workers, Step(v) \/ Stop(v), NEW c \in Consumers, NEW i \in Items,
         <<c, i>> \in confirmed', <<c, i>> \notin confirmed
  PROVE  receipts'[c][i].status = "applied"
<1>1. /\ MarkConsumed(Consumer(v), Item(v), job[v].token)
      /\ confirmed' = confirmed \cup {<<Consumer(v), Item(v)>>}
  <2>1. CASE FinishConsume(v)
    BY <2>1 DEF FinishConsume, Fenced, history
  <2>2. CASE ~FinishConsume(v)
    BY <2>2 DEF Step, Stop, BeginConsume, StartHandler, HandlerReturns, HandlerRaises,
                ReleaseReceipt, Fail, MarkApplied, Fenced, history
  <2> QED BY <2>1, <2>2
<1>2. c = Consumer(v) /\ i = Item(v)
  BY <1>1
<1>3. receipts[c] \in [Items -> Receipt] /\ receipts[c][i] \in Receipt
  BY DEF TypeOK
<1> QED BY <1>1, <1>2, <1>3 DEF MarkConsumed, TypeOK, Receipt

\* Whoever gets to its handler has just taken the receipt.
LEMMA HandlerTakes ==
  ASSUME TypeOK, NEW v \in Workers, Step(v) \/ Stop(v), pc'[v] = "handle"
  PROVE  receipts'[Consumer(v)][Item(v)].status = "processing" /\ job'[v] = job[v]
<1>0. ~At(v, "idle") /\ Item(v) \in Items /\ Consumer(v) \in Consumers
  BY OwnPlace, TypeParts, Holding
<1>1. ~Return(v) /\ \A l : Goto(v, l) => l = "handle"
  BY DEF Return, Goto, TypeOK
<1>2. BeginConsume(v) /\ TakeReceipt(Consumer(v), Item(v), job[v].token) /\ Goto(v, "handle")
  BY <1>1 DEF Step, Stop, BeginConsume, StartHandler, HandlerReturns, HandlerRaises,
     FinishConsume, ReleaseReceipt, Fail, MarkApplied, Fenced
<1> QED BY <1>0, <1>2 DEF TakeReceipt, Goto, TypeOK

LEMMA ReceiptsStayHeld ==
  ASSUME TypeOK, TokensUnique, KeepsLease, ReceiptsHeld, [Next]_vars
  PROVE  ReceiptsHeld'
<1>0. \A w \in Workers : At(w, "handle") =>
        ~At(w, "idle") /\ Item(w) \in Items /\ Consumer(w) \in Consumers
  BY Holding, TypeParts DEF At
<1>1. CASE UNCHANGED vars
  BY <1>1 DEF vars, outboxVars, ReceiptsHeld, At, Item, Consumer
<1>2. CASE Environment
  BY <1>0, <1>2, EnvironmentEffect DEF ReceiptsHeld, At, Item, Consumer
<1>3. ASSUME NEW v \in Workers, Claim(v) PROVE ReceiptsHeld'
  <2>1. receipts' = receipts /\ confirmed' = confirmed /\ pc'[v] # "handle"
        /\ \A w \in Workers : w # v => pc'[w] = pc[w] /\ job'[w] = job[w]
    BY <1>3, ClaimEffect DEF Claim, history
  <2> QED BY <2>1 DEF ReceiptsHeld, At, Item, Consumer
<1>4. ASSUME NEW v \in Workers, Step(v) \/ Stop(v) PROVE ReceiptsHeld'
  <2>1. ASSUME NEW c \in Consumers, NEW i \in Items, <<c, i>> \in confirmed'
        PROVE  receipts'[c][i].status = "applied"
    BY <1>4, <2>1, AppliedStays, ConfirmedRecorded DEF ReceiptsHeld
  <2>2. ASSUME NEW w \in Workers, pc'[w] = "handle"
        PROVE  job'[w] = job[w] /\ receipts'[Consumer(w)][Item(w)].status = "processing"
    <3>1. CASE w = v
      BY <1>4, <2>2, <3>1, HandlerTakes
    <3>2. CASE w # v
      <4>1. /\ pc'[w] = pc[w] /\ job'[w] = job[w] /\ At(w, "handle") /\ ~At(v, "idle")
        BY <1>4, <2>2, <3>2, OwnPlace DEF At
      <4>2. Item(w) # Item(v)
        BY <1>0, <3>2, <4>1 DEF KeepsLease, TokensUnique, Owner, Owns
      <4>3. receipts'[Consumer(w)][Item(w)] = receipts[Consumer(w)][Item(w)]
        BY <1>0, <1>4, <4>1, <4>2, WritesOwnItem
      <4> QED BY <4>1, <4>3 DEF ReceiptsHeld
    <3> QED BY <3>1, <3>2
  <2> QED BY <2>1, <2>2 DEF ReceiptsHeld, At, Item, Consumer
<1> QED BY <1>1, <1>2, <1>3, <1>4 DEF Next

\* As long as no worker outlives its lease, a handler is never called again for
\* what its consumer has confirmed, whoever redelivers it after whatever crash.
THEOREM ConfirmedHandledOnce ==
  ASSUME StallsOutliveLease = FALSE
  PROVE  Spec => ConfirmedNotRepeated
<1>1. Init => TokensUnique /\ KeepsLease /\ ReceiptsHeld
  BY DEF Init, OutboxInit, TokensUnique, KeepsLease, ReceiptsHeld, NoJob, At
<1>2. TypeOK /\ TokensUnique /\ KeepsLease /\ ReceiptsHeld /\ [Next]_vars
      => (TokensUnique /\ KeepsLease /\ ReceiptsHeld)'
  BY TokensStayUnique, LeaseKept, ReceiptsStayHeld
<1>3. TypeOK /\ ReceiptsHeld =>
        [\A w \in Workers : StartHandler(w) => <<Consumer(w), Item(w)>> \notin confirmed]_vars
  <2> SUFFICES ASSUME TypeOK, ReceiptsHeld, NEW w \in Workers, StartHandler(w)
               PROVE  <<Consumer(w), Item(w)>> \notin confirmed
    OBVIOUS
  <2>1. Consumer(w) \in Consumers /\ Item(w) \in Items /\ At(w, "handle")
    BY Holding, TypeParts DEF StartHandler, At
  <2> QED BY <2>1 DEF ReceiptsHeld
<1> QED BY <1>1, <1>2, <1>3, WorkerTypeCorrect, PTL DEF Spec, ConfirmedNotRepeated
=============================================================================
