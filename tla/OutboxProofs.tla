----------------------------- MODULE OutboxProofs -----------------------------
(***************************************************************************)
(* Proofs about OutboxDispatcher for any number of jobs, runs of the       *)
(* dispatcher, webhook handlers, and any batch size.                       *)
(***************************************************************************)
EXTENDS OutboxDispatcher, TLAPS

LEMMA EventTypesDiffer == ProcessEvent # WebhookEvent /\ NoEvent \notin Events
BY OutboxAssumption DEF ProcessEvent, WebhookEvent

LEMMA CopiesAreBounded == ASSUME NEW e \in Events, broker \in [Events -> 0..MaxCopies], Send(e)
                          PROVE  broker' \in [Events -> 0..MaxCopies]
BY OutboxAssumption DEF Send

LEMMA InitIsSafe == Init => IInv
<1> SUFFICES ASSUME Init PROVE IInv
  OBVIOUS
<1>1. TypeOK
  BY OutboxAssumption DEF Init, TypeOK, DispatchOutboxStatus, DispatcherSteps, HandlerSteps
<1>2. DispatchersFollowStep /\ HandlersFollowStep
  BY DEF Init, DispatchersFollowStep, HandlersFollowStep
<1>3. ClaimsFollowRows
  BY EventTypesDiffer DEF Init, ClaimsFollowRows, Holds
<1>4. DeletedRowsAreFresh /\ DispatchedMeansHandedOver /\ ClaimsAreRecoverable
  BY DEF Init, DeletedRowsAreFresh, DispatchedMeansHandedOver, ClaimsAreRecoverable
<1>5. ProcessClaimsAreExclusive
  BY EventTypesDiffer DEF Init, ProcessClaimsAreExclusive, Holds
<1> QED
  BY <1>1, <1>2, <1>3, <1>4, <1>5 DEF IInv

-------------------------------------------------------------------------------
(* Steps that do not touch what dispatchers hold.                          *)

\* Whatever becomes of the rows, what is held stays as it was: only the conjuncts about
\* rows and handlers are left to prove.
LEMMA RowStep ==
    ASSUME IInv,
           UNCHANGED <<dispatcherVars, recovered>>,
           handedOver \subseteq handedOver',
           inserted \subseteq inserted',
           TypeOK', HandlersFollowStep',
           DeletedRowsAreFresh', DispatchedMeansHandedOver', ClaimsAreRecoverable',
           \A e \in outbox' \intersect inserted :
              e \in outbox /\ (e[2] = ProcessEvent /\ evStatus[e] = "dispatching"
                                  => evStatus'[e] = "dispatching")
    PROVE  IInv'
<1>1. DispatchersFollowStep'
  BY DEF IInv, DispatchersFollowStep, dispatcherVars
<1>2. ClaimsFollowRows'
  BY DEF IInv, ClaimsFollowRows, Holds, dispatcherVars
<1>3. ProcessClaimsAreExclusive'
  BY DEF IInv, ProcessClaimsAreExclusive, Holds, dispatcherVars
<1> QED
  BY <1>1, <1>2, <1>3 DEF IInv

\* What was handed over stays so, and a redirect is forgotten only for a hand-over.
LEMMA HandlersRest ==
    ASSUME IInv, UNCHANGED handlerVars, handedOver \subseteq handedOver',
           redirected \subseteq handedOver' \union redirected'
    PROVE  HandlersFollowStep'
BY DEF IInv, HandlersFollowStep, handlerVars

LEMMA InsertIsSafe == ASSUME IInv, NEW e \in Events, Insert(e) PROVE IInv'
<1> USE DEF Insert, InsertRow
<1>1. TypeOK'
  BY DEF IInv, TypeOK, dispatcherVars, handlerVars, history
<1>2. e \notin outbox /\ evStatus[e] = "pending"
  BY DEF IInv, TypeOK, DeletedRowsAreFresh
<1>3. DeletedRowsAreFresh' /\ DispatchedMeansHandedOver' /\ ClaimsAreRecoverable'
  BY <1>2 DEF IInv, TypeOK, DeletedRowsAreFresh, DispatchedMeansHandedOver,
              ClaimsAreRecoverable, history
<1> QED
  BY <1>1, <1>3, RowStep, HandlersRest DEF history

LEMMA DeleteIsSafe == ASSUME IInv, NEW S \in SUBSET Jobs, Delete(S) PROVE IInv'
<1> USE DEF Delete, DeleteRows
<1>1. TypeOK'
  BY DEF IInv, TypeOK, DispatchOutboxStatus, dispatcherVars, handlerVars, history
<1>2. DeletedRowsAreFresh' /\ DispatchedMeansHandedOver' /\ ClaimsAreRecoverable'
  BY DEF IInv, TypeOK, DeletedRowsAreFresh, DispatchedMeansHandedOver,
         ClaimsAreRecoverable, history
<1>3. \A e \in outbox' \intersect inserted :
         e \in outbox /\ (e[2] = ProcessEvent /\ evStatus[e] = "dispatching"
                             => evStatus'[e] = "dispatching")
  BY DEF IInv, TypeOK
<1> QED
  BY <1>1, <1>2, <1>3, RowStep, HandlersRest DEF history

LEMMA PassingIsSafe == ASSUME IInv, NEW e \in Events, Passing(e) PROVE IInv'
<1> USE DEF Passing, BackoffElapses, LockAges
<1>1. TypeOK'
  BY DEF IInv, TypeOK, dispatcherVars, handlerVars, history
<1>2. DeletedRowsAreFresh' /\ DispatchedMeansHandedOver' /\ ClaimsAreRecoverable'
  BY DEF IInv, DeletedRowsAreFresh, DispatchedMeansHandedOver, ClaimsAreRecoverable, history
<1> QED
  BY <1>1, <1>2, RowStep, HandlersRest DEF history

\* Messages come and go without a row or a process changing.
MessageStep ==
    \/ \E e \in Events : ConsumeProcess(e) \/ ProcessMessageReturns(e)
    \/ \E h \in Handlers : DeliveredAgain(h)

LEMMA MessagesAreSafe == ASSUME IInv, MessageStep PROVE IInv'
<1>1. UNCHANGED <<rowVars, dispatcherVars, handlerVars, history>>
  BY DEF MessageStep, ConsumeProcess, ProcessMessageReturns, DeliveredAgain
<1>2. broker' \in [Events -> 0..MaxCopies]
  <2>1. CASE \E e \in Events : ConsumeProcess(e)
    BY <2>1, OutboxAssumption DEF ConsumeProcess, Receive, IInv, TypeOK
  <2>2. CASE \E e \in Events : ProcessMessageReturns(e)
    BY <2>2, CopiesAreBounded DEF ProcessMessageReturns, IInv, TypeOK
  <2>3. CASE \E h \in Handlers : DeliveredAgain(h)
    <3>1. PICK h \in Handlers : DeliveredAgain(h)
      BY <2>3
    <3>2. delivering[h] \in Events /\ Send(delivering[h])
      BY <3>1 DEF DeliveredAgain, IInv, TypeOK, DispatchersFollowStep, HandlersFollowStep
    <3> QED
      BY <3>2, CopiesAreBounded DEF IInv, TypeOK
  <2> QED
    BY <2>1, <2>2, <2>3 DEF MessageStep
<1>3. TypeOK'
  BY <1>1, <1>2 DEF IInv, TypeOK, rowVars, dispatcherVars, handlerVars, history
<1>4. DeletedRowsAreFresh' /\ DispatchedMeansHandedOver' /\ ClaimsAreRecoverable'
  BY <1>1 DEF IInv, DeletedRowsAreFresh, DispatchedMeansHandedOver, ClaimsAreRecoverable,
              rowVars, history
<1> QED
  BY <1>1, <1>3, <1>4, RowStep, HandlersRest DEF rowVars, history, IInv, TypeOK

-------------------------------------------------------------------------------
(* The dispatcher.                                                         *)

LEMMA RecoverIsSafe == ASSUME IInv, NEW d \in Dispatchers, RecoverStaleLocks(d) PROVE IInv'
<1> USE DEF RecoverStaleLocks, Unlock
<1>1. Recoverable \subseteq outbox /\ Recoverable \subseteq Events
  BY DEF IInv, TypeOK, Recoverable
<1>2. TypeOK'
  BY <1>1 DEF IInv, TypeOK, handlerVars, DispatchOutboxStatus, DispatcherSteps
<1>3. DispatchersFollowStep' /\ HandlersFollowStep'
  BY DEF IInv, DispatchersFollowStep, HandlersFollowStep, TypeOK, handlerVars
<1>4. ClaimsFollowRows'
  BY DEF IInv, ClaimsFollowRows, Holds, TypeOK
<1>5. DeletedRowsAreFresh' /\ DispatchedMeansHandedOver'
  BY DEF IInv, TypeOK, DeletedRowsAreFresh, DispatchedMeansHandedOver
<1>6. ClaimsAreRecoverable'
  BY DEF IInv, TypeOK, ClaimsAreRecoverable, Recoverable
<1>7. ProcessClaimsAreExclusive'
  BY DEF IInv, ProcessClaimsAreExclusive, Holds
<1> QED
  BY <1>2, <1>3, <1>4, <1>5, <1>6, <1>7 DEF IInv

\* A pending row is held by nobody, unless it was once taken back.
LEMMA ClaimIsSafe ==
    ASSUME IInv, NEW d \in Dispatchers, NEW S \in Batches, ClaimPending(d, S)
    PROVE  IInv'
<1> USE DEF ClaimPending
<1>1. /\ S \subseteq outbox /\ S \subseteq Events
      /\ \A e \in S : evStatus[e] = "pending"
  BY DEF Batches, Available, IInv, TypeOK
<1>2. dpc[d] = "claiming" /\ held[d] = {} /\ current[d] = NoEvent
  BY DEF IInv, DispatchersFollowStep, HandlersFollowStep
<1>3. \A c \in Dispatchers, e \in Events :
         Holds(c, e)' <=> IF c = d THEN e \in S ELSE Holds(c, e)
  BY <1>2, EventTypesDiffer DEF Holds, IInv, TypeOK
<1>4. \A c \in Dispatchers, e \in S \ recovered :
         e[2] = ProcessEvent => ~Holds(c, e)
  BY <1>1 DEF IInv, ClaimsFollowRows
<1>5. TypeOK'
  BY <1>1 DEF IInv, TypeOK, handlerVars, history, DispatchOutboxStatus, DispatcherSteps
<1>6. DispatchersFollowStep' /\ HandlersFollowStep'
  BY <1>2, <1>1, EventTypesDiffer 
     DEF IInv, DispatchersFollowStep, HandlersFollowStep, TypeOK, handlerVars, history
<1>7. ClaimsFollowRows'
  BY <1>1, <1>3 DEF IInv, ClaimsFollowRows, TypeOK, history
<1>8. DeletedRowsAreFresh' /\ DispatchedMeansHandedOver' /\ ClaimsAreRecoverable'
  BY <1>1 DEF IInv, TypeOK, DeletedRowsAreFresh, DispatchedMeansHandedOver,
              ClaimsAreRecoverable, history
<1>9. ProcessClaimsAreExclusive'
  BY <1>1, <1>3, <1>4 DEF IInv, ProcessClaimsAreExclusive, history
<1> QED
  BY <1>5, <1>6, <1>7, <1>8, <1>9 DEF IInv

\* The dispatcher still holds the event it publishes, now in hand, or lets go of it.
Publishing(d, e) == Enqueue(d, e) \/ EnqueueFails(d, e)

LEMMA PublishingIsSafe ==
    ASSUME IInv, NEW d \in Dispatchers, NEW e \in held[d], Publishing(d, e)
    PROVE  IInv'
<1> USE DEF Publishing, Enqueue, EnqueueFails, Publish, AfterEnqueue, NextStep
<1>1. e \in Events /\ e # NoEvent /\ current[d] = NoEvent /\ dpc[d] = "publishing"
  BY EventTypesDiffer DEF IInv, TypeOK, DispatchersFollowStep, HandlersFollowStep
<1>2. UNCHANGED <<rowVars, handlerVars, recovered>>
  OBVIOUS
<1>3. broker' \in [Events -> 0..MaxCopies]
  BY <1>1, CopiesAreBounded DEF IInv, TypeOK
<1>4. redirected' = redirected /\ handedOver \subseteq handedOver' /\ handedOver' \in SUBSET Events
  BY <1>1 DEF IInv, TypeOK
<1>5. held' = [held EXCEPT ![d] = @ \ {e}]
  OBVIOUS
<1>6. \/ /\ dpc' = [dpc EXCEPT ![d] = IF held[d] \ {e} = {} THEN "idle" ELSE "publishing"]
         /\ current' = current
      \/ /\ dpc' = [dpc EXCEPT ![d] = "marking"]
         /\ current' = [current EXCEPT ![d] = e]
         /\ e \in handedOver'
      \/ /\ dpc' = [dpc EXCEPT ![d] = "releasing"]
         /\ current' = [current EXCEPT ![d] = e]
  BY <1>1
<1>7. TypeOK'
  BY <1>1, <1>2, <1>3, <1>4, <1>5, <1>6
     DEF IInv, TypeOK, rowVars, handlerVars, DispatcherSteps
<1>8. \A c \in Dispatchers, f \in Events : Holds(c, f)' => Holds(c, f)
  BY <1>1, <1>5, <1>6 DEF IInv, TypeOK, Holds
<1>9. DispatchersFollowStep' /\ HandlersFollowStep'
  <2>1. \A c \in Dispatchers :
           /\ dpc'[c] \in {"idle", "claiming"} => held'[c] = {}
           /\ current'[c] # NoEvent <=> dpc'[c] \in {"marking", "releasing"}
           /\ current'[c] \notin held'[c]
           /\ dpc'[c] = "marking" => current'[c] \in handedOver'
    <3> TAKE c \in Dispatchers
    <3>1. CASE c = d
      BY <3>1, <1>1, <1>5, <1>6, EventTypesDiffer DEF IInv, TypeOK
    <3>2. CASE c # d
      BY <3>2, <1>4, <1>5, <1>6 DEF IInv, TypeOK, DispatchersFollowStep, HandlersFollowStep
    <3> QED
      BY <3>1, <3>2
  <2>2. \A h \in Handlers :
           /\ delivering'[h] # NoEvent <=> hpc'[h] # "idle"
           /\ delivering'[h] # NoEvent => delivering'[h][2] = WebhookEvent
           /\ hpc'[h] = "marking" => delivering'[h] \in handedOver' \union redirected'
    BY <1>2, <1>4 DEF IInv, DispatchersFollowStep, HandlersFollowStep, handlerVars
  <2> QED
    BY <2>1, <2>2 DEF DispatchersFollowStep, HandlersFollowStep
<1>10. ClaimsFollowRows' /\ ProcessClaimsAreExclusive'
  BY <1>2, <1>8 DEF IInv, ClaimsFollowRows, ProcessClaimsAreExclusive, rowVars
<1>11. DeletedRowsAreFresh' /\ DispatchedMeansHandedOver' /\ ClaimsAreRecoverable'
  BY <1>2, <1>4 DEF IInv, DeletedRowsAreFresh, DispatchedMeansHandedOver,
                    ClaimsAreRecoverable, rowVars
<1> QED
  BY <1>7, <1>9, <1>10, <1>11 DEF IInv

\* The end of an event in hand: its row is written without a look at its status, and
\* still agrees with what the other dispatchers hold.
Settling(d) == MarkDispatched(d) \/ ReleaseForRetry(d)

LEMMA SettlingIsSafe == ASSUME IInv, NEW d \in Dispatchers, Settling(d) PROVE IInv'
<1> DEFINE e == current[d]
<1> USE DEF Settling, MarkDispatched, ReleaseForRetry
<1>1. e \in Events /\ Holds(d, e) /\ e \notin held[d]
  BY DEF IInv, TypeOK, DispatchersFollowStep, HandlersFollowStep, Holds
<1>2. /\ dpc' = [dpc EXCEPT ![d] = NextStep(held[d])]
      /\ current' = [current EXCEPT ![d] = NoEvent]
      /\ UNCHANGED <<held, handlerVars, broker, handedOver, redirected, recovered, outbox, inserted>>
      /\ Unlock({e})
      /\ due' \in {due, due \ {e}}
  BY DEF EndOfEvent, SetDispatched, SetReleased, history
<1>3. \/ evStatus' = evStatus /\ e \notin outbox
      \/ evStatus' = [evStatus EXCEPT ![e] = "dispatched"] /\ e \in handedOver /\ e \in outbox
      \/ evStatus' = [evStatus EXCEPT ![e] = "pending"] /\ e \in outbox
  BY DEF SetDispatched, SetReleased, ReleasedStatus, IInv, DispatchersFollowStep
<1>4. \A c \in Dispatchers, f \in Events : Holds(c, f)' => Holds(c, f) /\ <<c, f>> # <<d, e>>
  BY <1>1, <1>2, EventTypesDiffer DEF IInv, TypeOK, Holds
<1>5. TypeOK'
  BY <1>1, <1>2, <1>3 DEF IInv, TypeOK, handlerVars, Unlock, NextStep, DispatchOutboxStatus,
                          DispatcherSteps
<1>6. DispatchersFollowStep' /\ HandlersFollowStep'
  BY <1>2, EventTypesDiffer
     DEF IInv, TypeOK, DispatchersFollowStep, HandlersFollowStep, handlerVars, NextStep
<1>7. ClaimsFollowRows'
  <2> SUFFICES ASSUME NEW c \in Dispatchers, NEW f \in Events, Holds(c, f)'
               PROVE  /\ f \in inserted
                      /\ f \in outbox \ recovered /\ f[2] = ProcessEvent
                            => evStatus'[f] = "dispatching"
    BY <1>2 DEF ClaimsFollowRows
  <2>1. Holds(c, f) /\ <<c, f>> # <<d, e>>
    BY <1>4
  <2>2. f = e /\ f \notin recovered => f[2] # ProcessEvent
    BY <2>1, <1>1 DEF IInv, ProcessClaimsAreExclusive
  <2> QED
    BY <2>1, <2>2, <1>3 DEF IInv, ClaimsFollowRows, TypeOK
<1>8. DeletedRowsAreFresh' /\ DispatchedMeansHandedOver' /\ ClaimsAreRecoverable'
  BY <1>1, <1>2, <1>3 DEF IInv, TypeOK, DeletedRowsAreFresh, DispatchedMeansHandedOver,
                          ClaimsAreRecoverable, Unlock
<1>9. ProcessClaimsAreExclusive'
  BY <1>2, <1>4 DEF IInv, ProcessClaimsAreExclusive
<1> QED
  BY <1>5, <1>6, <1>7, <1>8, <1>9 DEF IInv

LEMMA FailingIsSafe == ASSUME IInv, NEW d \in Dispatchers, DispatcherFails(d) PROVE IInv'
<1> USE DEF DispatcherFails
<1>1. TypeOK'
  BY DEF IInv, TypeOK, rowVars, handlerVars, history, DispatcherSteps
<1>2. DispatchersFollowStep' /\ HandlersFollowStep'
  BY EventTypesDiffer
     DEF IInv, TypeOK, DispatchersFollowStep, HandlersFollowStep, handlerVars, history
<1>3. \A c \in Dispatchers, f \in Events : Holds(c, f)' => Holds(c, f)
  BY EventTypesDiffer DEF IInv, TypeOK, Holds
<1>4. ClaimsFollowRows' /\ ProcessClaimsAreExclusive'
  BY <1>3 DEF IInv, ClaimsFollowRows, ProcessClaimsAreExclusive, rowVars, history
<1>5. DeletedRowsAreFresh' /\ DispatchedMeansHandedOver' /\ ClaimsAreRecoverable'
  BY DEF IInv, DeletedRowsAreFresh, DispatchedMeansHandedOver, ClaimsAreRecoverable,
         rowVars, history
<1> QED
  BY <1>1, <1>2, <1>4, <1>5 DEF IInv

-------------------------------------------------------------------------------
(* The webhook handler.                                                    *)

\* Steps that leave every row alone: a message is taken, read, posted or dropped.
CarryingStep(h) ==
    \/ \E e \in Events : TakeWebhook(h, e)
    \/ LoadEvent(h) \/ NothingToDeliver(h)
    \/ \E answer \in Answers : Post(h, answer)
    \/ DeliveryRaises(h) \/ HandlerDies(h)

LEMMA RowsRest ==
    ASSUME IInv, UNCHANGED rowVars, handedOver \subseteq handedOver',
           redirected \subseteq handedOver' \union redirected'
    PROVE  DeletedRowsAreFresh' /\ DispatchedMeansHandedOver' /\ ClaimsAreRecoverable'
BY DEF IInv, TypeOK, DeletedRowsAreFresh, DispatchedMeansHandedOver, ClaimsAreRecoverable, rowVars

\* How a handler moves in such a step: it takes up an event of a result, goes on with it
\* (marking it only after Django took or redirected it), or drops it.
Moves(h) ==
    \/ \E e \in Events :
          /\ e[2] = WebhookEvent
          /\ hpc' = [hpc EXCEPT ![h] = "loading"]
          /\ delivering' = [delivering EXCEPT ![h] = e]
    \/ \E step \in {"posting", "marking", "releasing", "raising"} :
          /\ hpc[h] # "idle"
          /\ hpc' = [hpc EXCEPT ![h] = step]
          /\ delivering' = delivering
          /\ step = "marking" => delivering[h] \in handedOver' \union redirected'
    \/ /\ hpc' = [hpc EXCEPT ![h] = "idle"]
       /\ delivering' = [delivering EXCEPT ![h] = NoEvent]

LEMMA MovingHandler ==
    ASSUME IInv, NEW h \in Handlers, Moves(h), handedOver \subseteq handedOver',
           redirected \subseteq handedOver' \union redirected'
    PROVE  /\ HandlersFollowStep'
           /\ hpc' \in [Handlers -> HandlerSteps]
           /\ delivering' \in [Handlers -> Events \union {NoEvent}]
<1>1. hpc' \in [Handlers -> HandlerSteps]
  BY DEF IInv, TypeOK, Moves, HandlerSteps
<1>2. delivering' \in [Handlers -> Events \union {NoEvent}]
  BY DEF IInv, TypeOK, Moves
<1>3. HandlersFollowStep'
  BY EventTypesDiffer DEF IInv, TypeOK, Moves, HandlersFollowStep
<1> QED
  BY <1>1, <1>2, <1>3

LEMMA CarryingIsSafe == ASSUME IInv, NEW h \in Handlers, CarryingStep(h) PROVE IInv'
<1>1. UNCHANGED <<rowVars, dispatcherVars, recovered>>
  BY DEF CarryingStep, TakeWebhook, LoadEvent, NothingToDeliver, Post, DeliveryRaises,
         HandlerDies, EndOfDelivery, rowVars, history
<1>2. /\ handedOver \subseteq handedOver' /\ handedOver' \in SUBSET Events
      /\ redirected \subseteq handedOver' \union redirected'
      /\ redirected' \in SUBSET {e \in Events : e[2] = WebhookEvent}
  <2>1. CASE \E answer \in Answers : Post(h, answer)
    <3>1. delivering[h] \in Events /\ delivering[h][2] = WebhookEvent
      BY <2>1 DEF Post, IInv, TypeOK, HandlersFollowStep
    <3> QED
      BY <2>1, <3>1 DEF Post, IInv, TypeOK
  <2>2. CASE UNCHANGED <<handedOver, redirected>>
    BY <2>2 DEF IInv, TypeOK
  <2> QED
    BY <2>1, <2>2 DEF CarryingStep, TakeWebhook, LoadEvent, NothingToDeliver, DeliveryRaises,
                      HandlerDies, EndOfDelivery, history
<1>3. Moves(h)
  <2>1. CASE \E e \in Events : TakeWebhook(h, e)
    BY <2>1 DEF TakeWebhook, Moves
  <2>2. CASE LoadEvent(h)
    BY <2>2 DEF LoadEvent, Moves
  <2>3. CASE NothingToDeliver(h) \/ DeliveryRaises(h) \/ HandlerDies(h)
    BY <2>3 DEF NothingToDeliver, DeliveryRaises, HandlerDies, EndOfDelivery, Moves
  <2>4. CASE \E answer \in Answers : Post(h, answer)
    <3>1. PICK answer \in Answers : Post(h, answer)
      BY <2>4
    <3>2. StepAfter(answer) \in {"marking", "releasing", "raising"}
      BY DEF StepAfter
    <3>3. StepAfter(answer) = "marking" => delivering[h] \in handedOver' \union redirected'
      BY <3>1 DEF StepAfter, Success, Stored, Post
    <3> QED
      BY <3>1, <3>2, <3>3 DEF Post, Moves
  <2> QED
    BY <2>1, <2>2, <2>3, <2>4 DEF CarryingStep
<1>4. broker' \in [Events -> 0..MaxCopies]
  <2>1. CASE \E e \in Events : TakeWebhook(h, e)
    BY <2>1, OutboxAssumption DEF TakeWebhook, Receive, IInv, TypeOK
  <2>2. CASE HandlerDies(h)
    <3>1. delivering[h] \in Events /\ Send(delivering[h])
      BY <2>2 DEF HandlerDies, IInv, TypeOK, HandlersFollowStep
    <3> QED
      BY <3>1, CopiesAreBounded DEF IInv, TypeOK
  <2>3. CASE UNCHANGED broker
    BY <2>3 DEF IInv, TypeOK
  <2> QED
    BY <2>1, <2>2, <2>3 DEF CarryingStep, LoadEvent, NothingToDeliver, Post, DeliveryRaises
<1>5. TypeOK'
  BY <1>1, <1>2, <1>3, <1>4, MovingHandler DEF IInv, TypeOK, rowVars, dispatcherVars
<1> QED
  BY <1>1, <1>2, <1>3, <1>5, MovingHandler, RowsRest, RowStep DEF rowVars, IInv, TypeOK

\* The handler's transactions write the row of a result, which no dispatcher ever marks
\* or counts on.
DeliveryEnds(h) == MarkDelivered(h) \/ ReleaseDelivery(h)

LEMMA DeliveryEndIsSafe == ASSUME IInv, NEW h \in Handlers, DeliveryEnds(h) PROVE IInv'
<1> DEFINE e == delivering[h]
<1> USE DEF DeliveryEnds, MarkDelivered, ReleaseDelivery
<1>1. e \in Events /\ e[2] = WebhookEvent
  BY DEF IInv, TypeOK, HandlersFollowStep
<1>2. /\ hpc' = [hpc EXCEPT ![h] = "idle"]
      /\ delivering' = [delivering EXCEPT ![h] = NoEvent]
        /\ UNCHANGED <<dispatcherVars, broker, handedOver, redirected, recovered, outbox, inserted>>
      /\ Unlock({e})
      /\ due' \in {due, due \ {e}}
  BY DEF EndOfDelivery, SetDispatched, SetReleased, history
<1>3. \/ evStatus' = evStatus /\ e \notin outbox
      \/ /\ evStatus' = [evStatus EXCEPT ![e] = "dispatched"]
         /\ e \in handedOver \union redirected /\ e \in outbox
      \/ evStatus' = [evStatus EXCEPT ![e] = "pending"] /\ e \in outbox
  BY DEF SetDispatched, SetReleased, ReleasedStatus, IInv, HandlersFollowStep
<1>4. TypeOK'
  BY <1>1, <1>2, <1>3 DEF IInv, TypeOK, dispatcherVars, Unlock, DispatchOutboxStatus,
                          HandlerSteps
<1>5. HandlersFollowStep'
  BY <1>2, MovingHandler DEF Moves
<1>6. DeletedRowsAreFresh' /\ DispatchedMeansHandedOver' /\ ClaimsAreRecoverable'
  BY <1>1, <1>2, <1>3 DEF IInv, TypeOK, DeletedRowsAreFresh, DispatchedMeansHandedOver,
                          ClaimsAreRecoverable, Unlock
<1>7. \A f \in outbox : f[2] = ProcessEvent => evStatus'[f] = evStatus[f]
  BY <1>1, <1>3, EventTypesDiffer DEF IInv, TypeOK
<1> QED
  BY <1>2, <1>4, <1>5, <1>6, <1>7, RowStep

-------------------------------------------------------------------------------
LEMMA NextIsSafe == ASSUME IInv, Next PROVE IInv'
<1>1. CASE \E e \in Events : Insert(e)
  BY <1>1, InsertIsSafe
<1>2. CASE \E S \in SUBSET Jobs : Delete(S)
  BY <1>2, DeleteIsSafe
<1>3. CASE \E e \in Events : Passing(e)
  BY <1>3, PassingIsSafe
<1>4. CASE MessageStep
  BY <1>4, MessagesAreSafe
<1>5. CASE \E d \in Dispatchers : DispatcherStep(d)
  BY <1>5, RecoverIsSafe, ClaimIsSafe, PublishingIsSafe, SettlingIsSafe
     DEF DispatcherStep, Publishing, Settling
<1>6. CASE \E d \in Dispatchers : DispatcherFails(d) \/ \E e \in held[d] : EnqueueFails(d, e)
  BY <1>6, FailingIsSafe, PublishingIsSafe DEF Publishing
<1>7. CASE \E h \in Handlers : CarryingStep(h)
  BY <1>7, CarryingIsSafe
<1>8. CASE \E h \in Handlers : DeliveryEnds(h)
  BY <1>8, DeliveryEndIsSafe
<1> QED
  BY <1>1, <1>2, <1>3, <1>4, <1>5, <1>6, <1>7, <1>8
     DEF Next, HandlerStep, Fault, Environment, MessageStep, CarryingStep, DeliveryEnds

LEMMA StutteringIsSafe == ASSUME IInv, UNCHANGED vars PROVE IInv'
<1>1. TypeOK'
  BY DEF IInv, TypeOK, vars, rowVars, dispatcherVars, handlerVars, history
<1> QED
  BY <1>1, RowStep, RowsRest, HandlersRest
     DEF vars, rowVars, history, IInv, TypeOK

\* The rows, the locks, the batches in memory and the messages stay consistent whichever
\* of the outbox's transactions and failures happen.
THEOREM OutboxInvariance == Spec => []IInv
<1>1. IInv /\ [Next]_vars => IInv'
  BY NextIsSafe, StutteringIsSafe
<1> QED
  BY InitIsSafe, <1>1, PTL DEF Spec

\* Rows, processes and messages always have the values the code knows.
THEOREM OutboxTypeCorrect == Spec => []TypeOK
<1>1. IInv => TypeOK
  BY DEF IInv
<1> QED
  BY OutboxInvariance, <1>1, PTL

\* A row is DISPATCHED only after the broker or Django took what it stands for, or, for a
\* result, after a redirect that the client counts as success.
THEOREM HonestDispatch == Spec => []DispatchedMeansHandedOver
<1>1. IInv => DispatchedMeansHandedOver
  BY DEF IInv
<1> QED
  BY OutboxInvariance, <1>1, PTL

\* No claim outlives its lock, and no lock its claim: recover_stale_locks misses nothing.
THEOREM RecoverableClaims == Spec => []ClaimsAreRecoverable
<1>1. IInv => ClaimsAreRecoverable
  BY DEF IInv
<1> QED
  BY OutboxInvariance, <1>1, PTL

\* Without a lock taken back, no two runs of the dispatcher hold one process event.
THEOREM ExclusiveClaims == Spec => []ProcessClaimsAreExclusive
<1>1. IInv => ProcessClaimsAreExclusive
  BY DEF IInv
<1> QED
  BY OutboxInvariance, <1>1, PTL

\* Without a lock taken back, a dispatched job's event never becomes pending again.
THEOREM DispatchIsFinal == Spec => DispatchedJobStaysDispatched
<1> DEFINE Stays == \A e \in Events \ recovered :
                        e[2] = ProcessEvent /\ evStatus[e] = "dispatched"
                           => evStatus'[e] = "dispatched" \/ e \notin outbox'
<1>1. ASSUME IInv, [Next]_vars PROVE Stays
  <2> SUFFICES ASSUME NEW e \in Events \ recovered,
                      e[2] = ProcessEvent, evStatus[e] = "dispatched"
               PROVE  evStatus'[e] = "dispatched" \/ e \notin outbox'
    OBVIOUS
  <2>1. CASE \E d \in Dispatchers : Settling(d)
    <3>1. PICK d \in Dispatchers : Settling(d)
      BY <2>1
    <3>2. current[d] = e /\ e \in outbox => evStatus[e] = "dispatching"
      BY <1>1 DEF IInv, ClaimsFollowRows, Holds
    <3> QED
      BY <1>1, <3>1, <3>2 DEF Settling, MarkDispatched, ReleaseForRetry, SetDispatched, SetReleased,
                        IInv, TypeOK
  <2>2. CASE \E h \in Handlers : DeliveryEnds(h)
    <3>1. PICK h \in Handlers : DeliveryEnds(h)
      BY <2>2
    <3>2. delivering[h] # e
      BY <1>1, <3>1, EventTypesDiffer DEF DeliveryEnds, MarkDelivered, ReleaseDelivery,
                                           IInv, HandlersFollowStep
    <3> QED
      BY <1>1, <3>1, <3>2 DEF DeliveryEnds, MarkDelivered, ReleaseDelivery, SetDispatched,
                        SetReleased, IInv, TypeOK
  <2>3. CASE \E d \in Dispatchers : RecoverStaleLocks(d)
    BY <2>3 DEF RecoverStaleLocks, Recoverable
  <2>4. CASE \E d \in Dispatchers : \E S \in Batches : ClaimPending(d, S)
    BY <2>4 DEF ClaimPending, Batches, Available
  <2>5. CASE \E S \in SUBSET Jobs : Delete(S)
    BY <2>5 DEF Delete, DeleteRows
  <2>6. CASE UNCHANGED evStatus
    BY <2>6
  <2> QED
    BY <1>1, <2>1, <2>2, <2>3, <2>4, <2>5, <2>6
       DEF Next, DispatcherStep, HandlerStep, Fault, Environment, Passing, Settling,
           DeliveryEnds, Insert, InsertRow, BackoffElapses, LockAges, Enqueue, EnqueueFails,
           DispatcherFails, ConsumeProcess, ProcessMessageReturns, TakeWebhook, LoadEvent,
           NothingToDeliver, Post, DeliveryRaises, DeliveredAgain, HandlerDies, vars, rowVars
<1>2. IInv /\ [Next]_vars => [Stays]_vars
  BY <1>1
<1> QED
  BY OutboxInvariance, <1>2, PTL DEF Spec, DispatchedJobStaysDispatched
===============================================================================
