--------------------------- MODULE DeliveryProofs ---------------------------
(* Worker implements Delivery, for any number of workers that share their  *)
(* consumer id and their handlers, whatever stops, stalls or is repeated.  *)
EXTENDS WorkerProofs

\* The items whose consumption is recorded.
Consumed == {i \in Items : \E c \in Consumers : receipts[c][i].status = "applied"}

\* What a worker that still owns its item has achieved, place by place.
InHand(w) ==
  Owner(w) =>
    /\ pc[w] \in {"handle", "running", "consume", "release"} =>
         HoldsReceipt(Consumer(w), Item(w), job[w].token)
    /\ At(w, "consume") => Item(w) \in succeeded
    /\ At(w, "applied") => Item(w) \in Consumed
    /\ At(w, "fail") => Item(w) \notin Consumed

DeliveryInv ==
  /\ TypeOK
  /\ TokensUnique
  /\ \A w \in Workers : ~At(w, "idle") => InHand(w) /\ ~Is(Item(w), "absent")
  /\ Consumed \subseteq succeeded
  /\ \A i \in Items : Is(i, "absent") => i \notin succeeded
  /\ \A w \in Workers : At(w, "begin") => Item(w) \in Handles[w]
  /\ \A c \in Consumers, i \in Items : receipts[c][i].status # "none" =>
       \E w \in Workers : Consumer(w) = c /\ i \in Handles[w]

-----------------------------------------------------------------------------
(* The invariant is inductive, worker by worker.                           *)

\* InHand speaks of one item: if its token, status and receipts stay, and the
\* worker with them, so does InHand.
LEMMA InHandStays ==
  ASSUME TypeOK, NEW w \in Workers, ~At(w, "idle"), InHand(w),
         pc'[w] = pc[w], job'[w] = job[w], succeeded \subseteq succeeded',
         Owner(w)' => /\ Owner(w)
                      /\ \A c \in Consumers :
                           /\ receipts'[c][Item(w)].status = receipts[c][Item(w)].status
                           /\ receipts'[c][Item(w)].token = receipts[c][Item(w)].token
  PROVE  InHand(w)'
<1>1. Item(w) \in Items /\ Consumer(w) \in Consumers
  BY Holding, TypeParts
<1>2. Item(w)' = Item(w) /\ Consumer(w)' = Consumer(w)
  BY DEF Item, Consumer
<1> SUFFICES ASSUME Owner(w)' PROVE InHand(w)'
  BY DEF InHand
<1>3. Item(w) \in Consumed' <=> Item(w) \in Consumed
  BY <1>1 DEF Consumed
<1>4. HoldsReceipt(Consumer(w), Item(w), job[w].token)'
      <=> HoldsReceipt(Consumer(w), Item(w), job[w].token)
  BY <1>1, <1>2 DEF HoldsReceipt
<1> QED BY <1>2, <1>3, <1>4 DEF InHand, At

LEMMA OthersInHand ==
  ASSUME DeliveryInv, NEW v \in Workers, Claim(v) \/ Step(v) \/ Stop(v),
         NEW w \in Workers, w # v, ~At(w, "idle")
  PROVE  InHand(w)'
<1>0. TypeOK /\ TokensUnique /\ InHand(w) /\ Item(w) \in Items
      /\ job[w].token \in Nat /\ claims \in Nat
  BY Holding, TypeParts DEF DeliveryInv, TypeOK
<1>1. pc'[w] = pc[w] /\ job'[w] = job[w] /\ Item(w)' = Item(w)
  BY <1>0, OwnStepOnly, TypeParts DEF Item
<1>2. succeeded \subseteq succeeded'
  BY DEF Claim, Step, Stop, BeginConsume, StartHandler, HandlerReturns, HandlerRaises,
     FinishConsume, ReleaseReceipt, Fail, MarkApplied, Fenced, history
<1>3. ASSUME Owner(w)'
      PROVE  /\ Owner(w)
             /\ \A c \in Consumers : receipts'[c][Item(w)] = receipts[c][Item(w)]
  <2>0. outbox'[Item(w)].status = "processing" /\ outbox'[Item(w)].token = job[w].token
    BY <1>1, <1>3 DEF Owner, Owns, Is
  <2>1. CASE Claim(v)
    <3>1. PICK i \in Items :
             /\ outbox'[i].token = claims + 1
             /\ \A j \in Items : j # i => outbox'[j] = outbox[j]
             /\ receipts' = receipts
      BY <1>0, <2>1, ClaimEffect
    <3>2. Item(w) # i
      BY <1>0, <2>0, <3>1 DEF TokensUnique
    <3> QED BY <1>0, <2>0, <3>1, <3>2 DEF Owner, Owns, Is
  <2>2. CASE (Step(v) \/ Stop(v)) /\ Item(w) # Item(v)
    BY <1>0, <2>0, <2>2, WritesOwnItem DEF Owner, Owns, Is
  <2>3. CASE (Step(v) \/ Stop(v)) /\ Item(w) = Item(v)
    <3>1. CASE ~Owner(v)
      <4>1. UNCHANGED outboxVars
        BY <2>3, <3>1, OnlyOwnersWrite
      <4> QED BY <2>0, <4>1 DEF outboxVars, Owner, Owns, Is
    <3>2. CASE Owner(v)
      <4>1. ~At(v, "idle")
        BY <1>0, <2>3, OwnPlace
      <4>2. job[v].token # job[w].token
        BY <1>0, <4>1 DEF TokensUnique
      <4>3. job[w].token # 0
        BY <1>0, Holding, TypeParts
      <4>4. outbox'[Item(w)].token = outbox[Item(w)].token \/ outbox'[Item(w)].token = 0
        <5>1. CASE Fail(v) \/ MarkApplied(v)
          BY <1>0, <2>3, <5>1 DEF Fail, MarkApplied, Fenced, Transition, outboxVars, TypeOK, Row
        <5>2. CASE ~(Fail(v) \/ MarkApplied(v))
          BY <2>3, <5>2 DEF Step, Stop, BeginConsume, StartHandler, HandlerReturns,
             HandlerRaises, FinishConsume, ReleaseReceipt, Fenced, outboxVars, TakeReceipt,
             MarkConsumed, ReleaseConsume
        <5> QED BY <5>1, <5>2
      <4>5. outbox[Item(w)].token = job[v].token
        BY <2>3, <3>2 DEF Owner, Owns
      <4> QED BY <2>0, <4>2, <4>3, <4>4, <4>5
    <3> QED BY <3>1, <3>2
  <2> QED BY <2>1, <2>2, <2>3
<1> QED BY <1>0, <1>1, <1>2, <1>3, InHandStays

\* All workers are one consumer with the same handlers.
SameWork ==
  \A v, w \in Workers : ConsumerOf[v] = ConsumerOf[w] /\ Handles[v] = Handles[w]

\* Only items with a handler, and only its consumer, have receipts.
OnlyHandled ==
  \A c \in Consumers, i \in Items : receipts[c][i].status # "none" =>
    \E w \in Workers : Consumer(w) = c /\ i \in Handles[w]

LEMMA OneConsumer ==
  ASSUME SameWork, TypeOK, OnlyHandled, NEW w \in Workers, NEW i \in Items
  PROVE  /\ i \in Consumed <=> receipts[Consumer(w)][i].status = "applied"
         /\ i \notin Handles[w] => i \notin Consumed
<1>1. Consumer(w) \in Consumers
  BY ConsumerOfAssumption DEF Consumer
<1>2. \A c \in Consumers : receipts[c][i].status = "applied" =>
        c = Consumer(w) /\ i \in Handles[w]
  BY DEF OnlyHandled, SameWork, Consumer
<1> QED BY <1>1, <1>2 DEF Consumed

LEMMA ClaimInHand ==
  ASSUME SameWork, DeliveryInv, NEW w \in Workers, Claim(w)
  PROVE  InHand(w)' /\ outbox'[Item(w)'].status # "absent"
         /\ (At(w, "begin")' => Item(w)' \in Handles[w])
<1>1. PICK i \in Items :
        /\ outbox'[i].status = "processing"
        /\ receipts' = receipts
        /\ job'[w].item = i
        /\ pc'[w] = (IF i \in Handles[w] THEN "begin" ELSE "fail")
  BY ClaimEffect DEF DeliveryInv
<1>2. i \notin Handles[w] => i \notin Consumed
  BY OneConsumer DEF DeliveryInv, OnlyHandled
<1>3. Consumed' = Consumed
  BY <1>1 DEF Consumed
<1> QED BY <1>1, <1>2, <1>3 DEF InHand, At, Item

LEMMA StepInHand ==
  ASSUME SameWork, DeliveryInv, NEW w \in Workers, Step(w), pc'[w] # "idle"
  PROVE  InHand(w)'
<1> DEFINE i == Item(w)
           token == job[w].token
           c == Consumer(w)
<1>0. ~At(w, "idle") /\ job'[w] = job[w] /\ TypeOK /\ InHand(w)
  BY OwnPlace DEF DeliveryInv
<1>1. i \in Items /\ c \in Consumers
  BY <1>0, Holding, TypeParts
<1>2. Item(w)' = i /\ Consumer(w)' = c /\ job'[w].token = token /\ Item(w) = i
      /\ Consumer(w) = c
  BY <1>0 DEF Item, Consumer
<1>3. receipts \in [Consumers -> [Items -> Receipt]]
  BY <1>0 DEF TypeOK
<1>4. pc \in [Workers -> {"idle", "begin", "handle", "running", "consume",
                         "applied", "release", "fail"}]
  BY <1>0 DEF TypeOK
<1>5. i \in Consumed <=> receipts[c][i].status = "applied"
  BY <1>0, <1>1, OneConsumer DEF DeliveryInv, OnlyHandled
<1> HIDE DEF i, token, c
<1>6. CASE BeginConsume(w)
  <2>1. \/ /\ ConsumeVerdict(c, i, token) = "already_applied"
           /\ Goto(w, "applied") /\ UNCHANGED outboxVars
        \/ Goto(w, "handle") /\ TakeReceipt(c, i, token)
    BY <1>6, <1>4 DEF BeginConsume, Return, c, i, token
  <2>2. CASE /\ ConsumeVerdict(c, i, token) = "already_applied"
             /\ Goto(w, "applied") /\ UNCHANGED outboxVars
    <3>1. receipts[c][i].status = "applied"
      BY <2>2 DEF ConsumeVerdict
    <3>2. Consumed' = Consumed /\ i \in Consumed /\ pc'[w] = "applied"
      BY <2>2, <3>1, <1>4, <1>5 DEF Consumed, outboxVars, Goto
    <3> QED BY <1>2, <3>2 DEF InHand, At
  <2>3. CASE Goto(w, "handle") /\ TakeReceipt(c, i, token)
    <3>1. receipts'[c][i].status = "processing" /\ receipts'[c][i].token = token
      BY <2>3, <1>1, <1>3 DEF TakeReceipt
    <3>2. pc'[w] = "handle"
      BY <2>3, <1>4 DEF Goto
    <3> QED BY <1>2, <3>1, <3>2 DEF InHand, At, HoldsReceipt
  <2> QED BY <2>1, <2>2, <2>3
<1>7. CASE StartHandler(w) \/ HandlerReturns(w) \/ HandlerRaises(w)
  <2>1. UNCHANGED outboxVars /\ pc[w] \in {"handle", "running"}
        /\ pc'[w] \in {"running", "consume", "release"}
        /\ (pc'[w] = "consume" => i \in succeeded')
    BY <1>7, <1>4 DEF StartHandler, HandlerReturns, HandlerRaises, Goto, At, i
  <2>2. Owner(w)' => HoldsReceipt(c, i, token)
    BY <2>1, <1>0, <1>2 DEF InHand, Owner, Owns, Is, outboxVars, token
  <2>3. receipts' = receipts
    BY <2>1 DEF outboxVars
  <2> QED BY <1>2, <2>1, <2>2, <2>3 DEF InHand, At, HoldsReceipt
<1>8. CASE FinishConsume(w)
  <2>1. MarkConsumed(c, i, token) /\ Goto(w, "applied")
    BY <1>8, <1>4 DEF FinishConsume, Fenced, Return, c, i, token
  <2>2. receipts'[c][i].status = "applied"
    BY <2>1, <1>1, <1>3 DEF MarkConsumed, Receipt
  <2>3. pc'[w] = "applied"
    BY <2>1, <1>4 DEF Goto
  <2> QED BY <1>1, <1>2, <2>2, <2>3 DEF InHand, At, Consumed
<1>9. CASE ReleaseReceipt(w)
  <2>1. ReleaseConsume(c, i, token) /\ Goto(w, "fail") /\ At(w, "release")
    BY <1>9, <1>4 DEF ReleaseReceipt, Fenced, Return, c, i, token
  <2>2. HoldsReceipt(c, i, token)
    BY <2>1, <1>0, <1>2 DEF InHand, At, ReleaseConsume, Owner, token
  <2>3. receipts[c][i].status = "processing" /\ i \notin Consumed
    BY <2>2, <1>5 DEF HoldsReceipt
  <2>4. \A d \in Consumers : receipts'[d][i].status = receipts[d][i].status
    BY <2>1, <1>1, <1>3 DEF ReleaseConsume, Receipt
  <2>5. i \notin Consumed'
    BY <2>3, <2>4 DEF Consumed
  <2>6. pc'[w] = "fail"
    BY <2>1, <1>4 DEF Goto
  <2> QED BY <1>2, <2>5, <2>6 DEF InHand, At
<1>10. CASE Fail(w) \/ MarkApplied(w)
  BY <1>10, <1>4 DEF Fail, MarkApplied, Fenced, Return
<1> QED BY <1>6, <1>7, <1>8, <1>9, <1>10 DEF Step

\* How the two histories and the receipts move together.
LEMMA HistoryStep ==
  ASSUME SameWork, DeliveryInv, NEW w \in Workers, Step(w) \/ Stop(w)
  PROVE  /\ succeeded' = succeeded \/ succeeded' = succeeded \cup {Item(w)}
         /\ \/ Consumed' = Consumed
            \/ /\ Consumed' = Consumed \cup {Item(w)} /\ Item(w) \in succeeded
               /\ Owner(w) /\ UNCHANGED <<outbox, succeeded>>
         /\ OnlyHandled'
<1> DEFINE i == Item(w)
           token == job[w].token
           c == Consumer(w)
<1>0. ~At(w, "idle") /\ TypeOK /\ OnlyHandled
  BY OwnPlace DEF DeliveryInv, OnlyHandled
<1>1. i \in Items /\ c \in Consumers
  BY <1>0, Holding, TypeParts
<1>2. receipts \in [Consumers -> [Items -> Receipt]]
  BY <1>0 DEF TypeOK
<1>3. i \in Consumed <=> receipts[c][i].status = "applied"
  BY <1>0, <1>1, OneConsumer
<1>4. succeeded' = succeeded \/ succeeded' = succeeded \cup {i}
  BY DEF Step, Stop, BeginConsume, StartHandler, HandlerReturns, HandlerRaises,
     FinishConsume, ReleaseReceipt, Fail, MarkApplied, Fenced, history
<1>5. Item(w) = i /\ Consumer(w) = c
  OBVIOUS
<1> HIDE DEF i, token, c
<1>6. CASE receipts' = receipts
  <2>1. Consumed' = Consumed /\ OnlyHandled'
    BY <1>0, <1>6 DEF Consumed, OnlyHandled, Consumer
  <2> QED BY <1>4, <1>5, <2>1
<1>7. CASE BeginConsume(w) /\ receipts' # receipts
  <2>1. TakeReceipt(c, i, token) /\ ConsumeVerdict(c, i, token) = "acquired" /\ At(w, "begin")
    BY <1>7 DEF BeginConsume, outboxVars, c, i, token
  <2>2. receipts[c][i].status # "applied"
    BY <2>1 DEF ConsumeVerdict
  <2>3. /\ receipts'[c][i].status = "processing"
        /\ \A d \in Consumers, j \in Items : d # c \/ j # i => receipts'[d][j] = receipts[d][j]
    BY <1>1, <1>2, <2>1 DEF TakeReceipt
  <2>4. Consumed' = Consumed
    BY <1>1, <1>3, <2>2, <2>3 DEF Consumed
  <2>5. i \in Handles[w]
    BY <2>1, <1>5 DEF DeliveryInv
  <2>6. OnlyHandled'
    BY <1>0, <1>1, <1>5, <2>3, <2>5 DEF OnlyHandled, Consumer
  <2> QED BY <1>4, <1>5, <2>4, <2>6
<1>8. CASE FinishConsume(w) /\ receipts' # receipts
  <2>1. MarkConsumed(c, i, token) /\ At(w, "consume") /\ succeeded' = succeeded
    BY <1>8 DEF FinishConsume, Fenced, outboxVars, c, i, token
  <2>2. Owner(w) /\ outbox' = outbox
    BY <2>1, <1>5 DEF MarkConsumed, Owner, token
  <2>3. i \in succeeded
    BY <1>0, <1>5, <2>1, <2>2 DEF DeliveryInv, InHand
  <2>4. /\ receipts'[c][i].status = "applied" /\ receipts[c][i].status = "processing"
        /\ \A d \in Consumers, j \in Items : d # c \/ j # i => receipts'[d][j] = receipts[d][j]
    BY <1>1, <1>2, <2>1 DEF MarkConsumed, Receipt, HoldsReceipt
  <2>5. Consumed' = Consumed \cup {i}
    BY <1>1, <2>4 DEF Consumed
  <2>6. OnlyHandled'
    BY <1>0, <1>1, <2>4 DEF OnlyHandled, Consumer
  <2> QED BY <1>5, <2>1, <2>2, <2>3, <2>5, <2>6
<1>9. CASE ReleaseReceipt(w) /\ receipts' # receipts
  <2>1. ReleaseConsume(c, i, token)
    BY <1>9 DEF ReleaseReceipt, Fenced, outboxVars, c, i, token
  <2>2. \A d \in Consumers, j \in Items : receipts'[d][j].status = receipts[d][j].status
    BY <1>1, <1>2, <2>1 DEF ReleaseConsume, Receipt
  <2>3. Consumed' = Consumed /\ OnlyHandled'
    BY <1>0, <2>2 DEF Consumed, OnlyHandled, Consumer
  <2> QED BY <1>4, <1>5, <2>3
<1>10. CASE StartHandler(w) \/ HandlerReturns(w) \/ HandlerRaises(w) \/ Fail(w)
            \/ MarkApplied(w) \/ Stop(w)
  <2>1. receipts' = receipts
    BY <1>10 DEF StartHandler, HandlerReturns, HandlerRaises, Fail, MarkApplied, Stop,
       Fenced, Transition, outboxVars
  <2> QED BY <1>6, <2>1
<1> QED BY <1>6, <1>7, <1>8, <1>9, <1>10 DEF Step

LEMMA DeliveryInductive ==
  ASSUME SameWork, DeliveryInv, [Next]_vars
  PROVE  DeliveryInv'
<1> DEFINE Hands == \A w \in Workers : ~At(w, "idle") => InHand(w) /\ ~Is(Item(w), "absent")
           Untouched == \A i \in Items : Is(i, "absent") => i \notin succeeded
           Begun == \A w \in Workers : At(w, "begin") => Item(w) \in Handles[w]
<1>0. TypeOK /\ TokensUnique /\ Hands /\ Consumed \subseteq succeeded /\ Untouched
      /\ Begun /\ OnlyHandled
  BY DEF DeliveryInv, OnlyHandled
<1>1. TypeOK' /\ TokensUnique'
  BY <1>0, TypeInductive, TokensStayUnique
<1>2. \A w \in Workers : ~At(w, "idle") => Item(w) \in Items
  BY <1>0, Holding, TypeParts
<1>3. \A i \in Items : outbox'[i].status = "absent" => outbox[i].status = "absent"
  BY <1>0, RowsStay DEF Is
<1> SUFFICES Hands' /\ (Consumed \subseteq succeeded)' /\ Untouched' /\ Begun' /\ OnlyHandled'
  BY <1>1 DEF DeliveryInv, OnlyHandled
<1>4. CASE UNCHANGED vars \/ Environment
  <2>1. /\ UNCHANGED <<pc, job, succeeded>>
        /\ \A i \in Items :
             /\ outbox'[i].token = outbox[i].token
             /\ ~Is(i, "absent") => outbox'[i].status = outbox[i].status
        /\ \A c \in Consumers, i \in Items :
              /\ receipts'[c][i].status = receipts[c][i].status
              /\ receipts'[c][i].token = receipts[c][i].token
    BY <1>0, <1>4, EnvironmentEffect DEF vars, outboxVars, history
  <2>2. ASSUME NEW w \in Workers, pc'[w] # "idle"
        PROVE  InHand(w)' /\ outbox'[Item(w)'].status # "absent"
    <3>1. ~At(w, "idle") /\ Item(w) \in Items /\ ~Is(Item(w), "absent") /\ InHand(w)
      BY <1>0, <1>2, <2>1, <2>2 DEF At
    <3>2. Owner(w)' => Owner(w)
      BY <2>1, <3>1 DEF Owner, Owns, Is, Item
    <3>3. InHand(w)'
      BY <1>0, <2>1, <3>1, <3>2, InHandStays
    <3>4. Item(w)' = Item(w)
      BY <2>1 DEF Item
    <3> QED BY <1>3, <3>1, <3>3, <3>4 DEF Is
  <2>3. Hands'
    BY <2>2 DEF At, Is
  <2>4. Consumed' = Consumed /\ OnlyHandled'
    BY <1>0, <2>1 DEF Consumed, OnlyHandled, Consumer
  <2>5. Untouched' /\ Begun'
    BY <1>0, <1>3, <2>1 DEF Is, At, Item
  <2> QED BY <1>0, <2>1, <2>3, <2>4, <2>5
<1>5. ASSUME NEW v \in Workers, Claim(v) \/ Step(v) \/ Stop(v)
      PROVE  Hands'
  <2> SUFFICES ASSUME NEW w \in Workers, pc'[w] # "idle"
               PROVE  InHand(w)' /\ outbox'[Item(w)'].status # "absent"
    BY DEF At, Is
  <2>1. CASE w # v
    <3>1. pc'[w] = pc[w] /\ job'[w] = job[w] /\ ~At(w, "idle")
      BY <1>0, <1>5, <2>1, OwnStepOnly, TypeParts DEF At
    <3>2. Item(w)' = Item(w)
      BY <3>1 DEF Item
    <3> QED BY <1>0, <1>2, <1>3, <1>5, <2>1, <3>1, <3>2, OthersInHand DEF Is
  <2>2. CASE w = v /\ Claim(v)
    BY <2>2, ClaimInHand
  <2>3. CASE w = v /\ (Step(v) \/ Stop(v))
    <3>1. Step(v)
      BY <2>3, <1>0 DEF Stop, Return, TypeOK
    <3>2. ~At(w, "idle") /\ Item(w)' = Item(w)
      BY <1>0, <2>3, OwnPlace DEF Item
    <3> QED BY <1>0, <1>2, <1>3, <2>3, <3>1, <3>2, StepInHand DEF Is
  <2> QED BY <1>5, <2>1, <2>2, <2>3
<1>6. ASSUME NEW w \in Workers, Claim(w)
      PROVE  (Consumed \subseteq succeeded)' /\ Untouched' /\ Begun' /\ OnlyHandled'
  <2>1. receipts' = receipts /\ succeeded' = succeeded
    BY <1>0, <1>6, ClaimEffect DEF Claim, history
  <2>2. Begun'
    <3>1. \A u \in Workers : u # w => pc'[u] = pc[u] /\ job'[u] = job[u]
      BY <1>0, <1>6, OwnStepOnly, TypeParts
    <3>2. pc'[w] = "begin" => Item(w)' \in Handles[w]
      BY <1>6, ClaimInHand DEF At
    <3> QED BY <1>0, <3>1, <3>2 DEF At, Item
  <2> QED BY <1>0, <1>3, <2>1, <2>2 DEF Consumed, OnlyHandled, Consumer, Is
<1>7. ASSUME NEW w \in Workers, Step(w) \/ Stop(w)
      PROVE  (Consumed \subseteq succeeded)' /\ Untouched' /\ Begun' /\ OnlyHandled'
  <2>1. ~Is(Item(w), "absent") /\ ~At(w, "idle")
    BY <1>0, <1>7, OwnPlace
  <2>2. Begun'
    BY <1>0, <1>7, OwnPlace DEF At, Item
  <2>3. Untouched'
    BY <1>0, <1>3, <1>7, <2>1, HistoryStep DEF Is
  <2> QED BY <1>0, <1>7, <2>2, <2>3, HistoryStep
<1> QED BY <1>4, <1>5, <1>6, <1>7 DEF Next

-----------------------------------------------------------------------------
(* The refinement.                                                         *)

LEMMA DeliveryInitial == Init => DeliveryInv
<1> SUFFICES ASSUME Init PROVE DeliveryInv
  OBVIOUS
<1>1. TypeOK
  <2>1. TablesTyped
    BY DEF Init, OutboxInit, TablesTyped, Row, Statuses, Receipt, Is
  <2>2. WorkersTyped
    BY MaxStopsAssumption DEF Init, WorkersTyped, At
  <2> QED BY <2>1, <2>2, TypeParts
<1>2. TokensUnique
  BY DEF Init, OutboxInit, TokensUnique, NoJob, At
<1> QED BY <1>1, <1>2 DEF Init, OutboxInit, DeliveryInv, At, Consumed

\* Only these steps change what Delivery sees of the items.
LEMMA StageStep ==
  ASSUME SameWork, DeliveryInv, NEW w \in Workers, Step(w) \/ Stop(w),
         NEW i \in Items, Stage(i)' # Stage(i)
  PROVE  /\ Consumed' = Consumed /\ succeeded' = succeeded
         /\ Stage(i) = "open"
         /\ \A j \in Items : j # i => Stage(j)' = Stage(j)
         /\ \/ Stage(i)' = "done" /\ i \in Consumed
            \/ Stage(i)' = "dead" /\ i \notin Consumed
<1>0. TypeOK /\ ~At(w, "idle") /\ InHand(w) /\ i = Item(w)
  <2>1. TypeOK /\ ~At(w, "idle") /\ InHand(w)
    BY OwnPlace DEF DeliveryInv
  <2>2. outbox'[i] # outbox[i]
    BY DEF Stage, Is
  <2> QED BY <2>1, <2>2, WritesOwnItem
<1>1. outbox' # outbox
  BY DEF Stage, Is
<1>2. Fail(w) \/ MarkApplied(w)
  BY <1>1 DEF Step, Stop, BeginConsume, StartHandler, HandlerReturns, HandlerRaises,
     FinishConsume, ReleaseReceipt, Fenced, outboxVars, TakeReceipt, MarkConsumed,
     ReleaseConsume
<1>3. ~Fenced(w)
  BY <1>1 DEF Fenced, outboxVars
<1>4. /\ Owner(w) /\ UNCHANGED <<receipts, succeeded>>
      /\ \/ At(w, "fail") /\ \E s \in {"dead_letter", "retryable"}, d \in BOOLEAN :
                               Transition(i, job[w].token, s, d)
         \/ At(w, "applied") /\ \E d \in BOOLEAN : Transition(i, job[w].token, "applied", d)
  <2>1. outbox[i].due \in BOOLEAN
    BY <1>0 DEF TypeOK, Row
  <2> QED BY <1>0, <1>2, <1>3, <2>1 DEF Fail, MarkApplied, Transition, Owner, history
<1>5. Stage(i) = "open"
  BY <1>0, <1>4 DEF Owner, Owns, Is, Stage
<1>6. \A j \in Items : j # i => Stage(j)' = Stage(j)
  BY <1>0, WritesOwnItem DEF Stage, Is
<1>7. outbox \in [Items -> Row]
  BY <1>0 DEF TypeOK
<1>8. Consumed' = Consumed
  BY <1>4 DEF Consumed
<1>9. CASE At(w, "fail") /\ \E s \in {"dead_letter", "retryable"}, d \in BOOLEAN :
                               Transition(i, job[w].token, s, d)
  <2>1. i \notin Consumed
    BY <1>0, <1>4, <1>9 DEF InHand
  <2>2. Stage(i)' \in {"dead", "open"}
    BY <1>0, <1>7, <1>9 DEF Transition, Stage, Is, Row
  <2>3. Stage(i)' # "open"
    BY <1>5
  <2> QED BY <1>0, <1>4, <1>5, <1>6, <1>8, <2>1, <2>2, <2>3
<1>10. CASE At(w, "applied") /\ \E d \in BOOLEAN : Transition(i, job[w].token, "applied", d)
  <2>1. i \in Consumed
    BY <1>0, <1>4, <1>10 DEF InHand
  <2>2. Stage(i)' = "done"
    BY <1>0, <1>7, <1>10 DEF Transition, Stage, Is, Row
  <2> QED BY <1>0, <1>4, <1>5, <1>6, <1>8, <2>1, <2>2
<1> QED BY <1>4, <1>9, <1>10

\* An item is completed only after its handler succeeded and its consumption
\* was recorded, is given up only if it was not, and both are final, for any
\* number of workers of one consumer and whatever stops, stalls or is repeated.
THEOREM WorkersDeliver ==
  ASSUME SameWork
  PROVE  Spec => ImplementsDelivery
<1>1. Init => D!DeliveryInit
  BY DEF Init, OutboxInit, D!DeliveryInit, Stage, Is
<1>2. DeliveryInv /\ [Next]_vars => [D!DeliveryNext]_(D!deliveryVars)
  <2> SUFFICES ASSUME DeliveryInv, [Next]_vars
               PROVE  [D!DeliveryNext]_(D!deliveryVars)
    OBVIOUS
  <2>0. TypeOK
    BY DEF DeliveryInv
  <2>1. ASSUME UNCHANGED succeeded, Consumed' = Consumed, \A i \in Items : Stage(i)' = Stage(i)
        PROVE  UNCHANGED D!deliveryVars
    BY <2>1 DEF D!deliveryVars, Consumed
  <2>2. CASE UNCHANGED vars
    BY <2>1, <2>2 DEF vars, outboxVars, history, Stage, Is, Consumed
  <2>3. CASE Environment
    <3>1. UNCHANGED succeeded /\ Consumed' = Consumed
      BY <2>0, <2>3, EnvironmentEffect DEF Consumed
    <3>2. CASE \A i \in Items : Stage(i)' = Stage(i)
      BY <2>1, <3>1, <3>2
    <3>3. ASSUME NEW i \in Items, Stage(i)' # Stage(i)
          PROVE  D!Submit(i)
      <4>1. Enqueue(i) /\ outbox \in [Items -> Row]
        <5>1. PICK j \in Items : \/ Enqueue(j) \/ ItemExpires(j) \/ RetryBecomesDue(j)
                                 \/ \E c \in Consumers : ReceiptLeaseRunsOut(c, j)
          BY <2>3 DEF Environment
        <5>2. outbox \in [Items -> Row]
          BY <2>0 DEF TypeOK
        <5>3. outbox'[i].status # outbox[i].status
          BY <3>3 DEF Stage, Is
        <5>4. Enqueue(j)
          BY <5>1, <5>2, <5>3 DEF ItemExpires, ItemLeaseRunsOut, RetryBecomesDue,
             ReceiptLeaseRunsOut, Row
        <5>5. i = j
          BY <5>2, <5>3, <5>4 DEF Enqueue
        <5> QED BY <5>2, <5>4, <5>5
      <4>2. Stage(i) = "absent" /\ Stage(i)' = "open"
            /\ \A j \in Items : j # i => Stage(j)' = Stage(j)
        BY <4>1 DEF Enqueue, Stage, Is, Row
      <4> QED BY <3>1, <4>2 DEF D!Submit, Consumed
    <3> QED BY <3>2, <3>3 DEF D!DeliveryNext
  <2>4. ASSUME NEW w \in Workers, Claim(w)
        PROVE  UNCHANGED D!deliveryVars
    <3>1. PICK i \in Items :
             /\ Is(i, "pending") \/ Is(i, "retryable") \/ Is(i, "processing")
             /\ outbox'[i].status = "processing"
             /\ \A j \in Items : j # i => outbox'[j] = outbox[j]
             /\ receipts' = receipts
      BY <2>0, <2>4, ClaimEffect
    <3>2. \A j \in Items : Stage(j)' = Stage(j)
      BY <3>1 DEF Stage, Is
    <3> QED BY <2>1, <2>4, <3>1, <3>2 DEF Claim, history, Consumed
  <2>5. ASSUME NEW w \in Workers, Step(w) \/ Stop(w)
        PROVE  [D!DeliveryNext]_(D!deliveryVars)
    <3>1. ASSUME NEW i \in Items, Stage(i)' # Stage(i)
          PROVE  D!Finish(i) \/ D!GiveUp(i)
      <4>1. /\ Consumed' = Consumed /\ succeeded' = succeeded
            /\ Stage(i) = "open"
            /\ \A j \in Items : j # i => Stage(j)' = Stage(j)
            /\ \/ Stage(i)' = "done" /\ i \in Consumed
               \/ Stage(i)' = "dead" /\ i \notin Consumed
        BY <2>5, <3>1, StageStep
      <4> QED BY <4>1 DEF D!Finish, D!GiveUp, Consumed
    <3>2. CASE \A i \in Items : Stage(i)' = Stage(i)
      <4>1. PICK i \in Items : Item(w) = i /\ ~Is(i, "absent")
        BY <2>0, <2>5, OwnPlace, Holding, TypeParts DEF DeliveryInv
      <4>2. Owner(w) => Stage(i) = "open"
        BY <4>1 DEF Owner, Owns, Stage, Is
      <4>3. Stage(i) # "absent"
        BY <4>1 DEF Stage, Is
      <4>4. \/ UNCHANGED succeeded /\ Consumed' = Consumed
            \/ succeeded' = succeeded \cup {i} /\ Consumed' = Consumed
            \/ /\ Consumed' = Consumed \cup {i} /\ i \in succeeded
               /\ Owner(w) /\ UNCHANGED <<outbox, succeeded>>
        BY <2>5, <4>1, HistoryStep
      <4>5. CASE UNCHANGED succeeded /\ Consumed' = Consumed
        BY <2>1, <3>2, <4>5
      <4>6. CASE succeeded' = succeeded \cup {i} /\ Consumed' = Consumed
        <5>1. D!Run(i)
          BY <3>2, <4>1, <4>3, <4>6 DEF D!Run, Consumed
        <5> QED BY <4>1, <5>1 DEF D!DeliveryNext
      <4>7. CASE /\ Consumed' = Consumed \cup {i} /\ i \in succeeded
                 /\ Owner(w) /\ UNCHANGED <<outbox, succeeded>>
        <5>1. D!Consume(i)
          BY <3>2, <4>1, <4>2, <4>7 DEF D!Consume, Consumed
        <5> QED BY <4>1, <5>1 DEF D!DeliveryNext
      <4> QED BY <4>4, <4>5, <4>6, <4>7
    <3> QED BY <3>1, <3>2 DEF D!DeliveryNext
  <2> QED BY <2>2, <2>3, <2>4, <2>5 DEF Next
<1>3. Init => DeliveryInv
  BY DeliveryInitial
<1>4. DeliveryInv /\ [Next]_vars => DeliveryInv'
  BY DeliveryInductive
<1> QED BY <1>1, <1>2, <1>3, <1>4, PTL DEF Spec, ImplementsDelivery, D!DeliverySpec
=============================================================================
