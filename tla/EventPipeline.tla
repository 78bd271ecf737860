---------------------------- MODULE EventPipeline ----------------------------
(***************************************************************************)
(* FTSEventPipelineCoordinator: the queue composed with the payloads, the  *)
(* bindings that tie an emission to its payload, the chat batches that can *)
(* still grow and the notification that an emission is ready.              *)
(*                                                                         *)
(* An operation that reaches the core runs inside the core's prepare and   *)
(* commit: what the coordinator validates in the callback is a guard of    *)
(* the step, because a callback that throws leaves the core as it was; the *)
(* commits that follow throw nothing.  The family of a binding follows     *)
(* from its flow (IsSupportedFamilyFlowPair) and is left out.              *)
(*                                                                         *)
(* SubmitChat reads the clock, and a new batch reads it again in the core. *)
(* If the pending batch is due at the first reading it is due at the       *)
(* second, and an append looks at the first only, so one reading stands    *)
(* for both: the later for a new batch, the earlier for an append.         *)
(***************************************************************************)
EXTENDS EventQueueCore
LOCAL INSTANCE SequencesExt

CONSTANTS Chat,                 \* the chat flow
          Routes,               \* the flows the coordinator has a route for
          Users,                \* chat users, by unique id
          ChatInputs,           \* inputs of SubmitChat
          bOnlyAllowCommands,   \* PipelineSettings.Chat, fixed at construction
          bRefreshTtlOnAppend,
          MaxMessagesPerBatch,
          MaxMessageBytes,
          MaxBatchBytes,
          MaxHandle             \* the last payload handle, 2^64 - 1 in the program

\* A chat message is the bytes it costs; adjustment is what the priority policy makes
\* of its user, userBytes what the user's data cost, and an absent user an empty id.
ChatInput == [user : Users \cup {None}, userBytes : Nat, adjustment : Score,
              bytes : Nat, bIsCommand : BOOLEAN]

ASSUME PipelineAssumption ==
  /\ Chat \in Routes
  /\ Routes \subseteq Flow
  /\ Routes \subseteq FlowInputs
  /\ None \notin Users
  /\ None \notin Envelope
  /\ None \notin TerminalReason
  /\ ChatInputs \subseteq ChatInput
  /\ 0 \in Adjustments
  /\ \A input \in ChatInputs : input.adjustment \in Adjustments
  /\ None \in TTLOverrides
  /\ None \in NewScores
  /\ Time \subseteq ExpectedTimes
  /\ bOnlyAllowCommands \in BOOLEAN
  /\ bRefreshTtlOnAppend \in BOOLEAN
  /\ MaxMessagesPerBatch \in Nat \ {0}
  /\ MaxMessageBytes \in Nat \ {0}
  /\ MaxBatchBytes \in Nat /\ MaxBatchBytes >= MaxMessageBytes
  /\ MaxHandle \in Nat \ {0}

VARIABLES payloads,              \* the ten repositories, by flow and handle
          nextHandle,            \* next handle of each repository, 0 when exhausted
          bindings,              \* the registry, by emission
          chatPendingBatches,    \* the batch that can still grow, by user
          pendingReadyEmission,  \* the notification not yet consumed, or None
          outcome                \* what the last operation answered

externalVars == <<payloads, nextHandle, bindings, chatPendingBatches, pendingReadyEmission>>
pipelineVars == <<vars, externalVars, outcome>>

Handle == 1..MaxHandle
Payload == [user : Users \cup {None}, userBytes : Nat, messages : Seq(Nat)]
Binding == [expectedFlow : Routes, handle : Handle, state : {"Bound", "Processing"}]
Batch == [emissionId : Identity, expiresAt : Time]
OutcomeStatus ==
  {"Done", "NoEmission", "RejectedInvalidInput", "RejectedSemanticLimit", "Accumulated",
   "RejectedPayloadIdentityExhausted", "RejectedByCore", "Accepted", "NoEmissionReady",
   "Dispatched", "Completed", "RejectedCompletion", "LogicError"}
Outcome == [status : OutcomeStatus, emissionId : Identity \cup {0},
            payload : Payload \cup {None}]

Told(status, id) == [status |-> status, emissionId |-> id, payload |-> None]

PipelineTypeOK ==
  /\ DOMAIN payloads \subseteq Routes \X Handle
  /\ payloads \in [DOMAIN payloads -> Payload]
  /\ nextHandle \in [Routes -> Handle \cup {0}]
  /\ DOMAIN bindings \subseteq Identity
  /\ bindings \in [DOMAIN bindings -> Binding]
  /\ DOMAIN chatPendingBatches \subseteq Users
  /\ chatPendingBatches \in [DOMAIN chatPendingBatches -> Batch]
  /\ pendingReadyEmission \in Envelope \cup {None}
  /\ outcome \in Outcome
------------------------------------------------------------------------------
PayloadKey(binding) == <<binding.expectedFlow, binding.handle>>
PayloadOf(id) == payloads[PayloadKey(bindings[id])]

IsReady(id) == pendingReadyEmission # None /\ pendingReadyEmission.emissionId = id

ContainsExact(user, id) ==
  user \in DOMAIN chatPendingBatches /\ chatPendingBatches[user].emissionId = id

GetExpectedExternalState(reason) ==
  IF reason \in {"Confirmed", "Cancelled"} THEN "Processing" ELSE "Bound"

\* A terminal event must find its binding, in the state its reason calls for, its
\* payload, and a chat batch in the index just while it was Bound.
IsLifecycleEntryValid(event) ==
  LET id == event.envelope.emissionId
  IN  /\ id \in DOMAIN bindings
      /\ bindings[id].expectedFlow = event.envelope.flow
      /\ bindings[id].state = GetExpectedExternalState(event.reason)
      /\ PayloadKey(bindings[id]) \in DOMAIN payloads
      /\ event.envelope.flow = Chat =>
           (ContainsExact(PayloadOf(id).user, id) <=> bindings[id].state = "Bound")

IsPendingTerminalReason(reason) == reason \in {"ExpiredDiscard", "ExpiredConsolidate"}

\* PrepareLifecycleBatch: the whole batch is validated before anything changes.
\* first is the reason of the leading event of a completion of id, None otherwise.
PrepareLifecycleBatch(events, first, id) ==
  /\ \A i, j \in DOMAIN events :
       events[i].envelope.emissionId = events[j].envelope.emissionId => i = j
  /\ \A i \in DOMAIN events :
       /\ IsLifecycleEntryValid(events[i])
       /\ IF first # None /\ i = 1
          THEN events[i].reason = first /\ events[i].envelope.emissionId = id
          ELSE IsPendingTerminalReason(events[i].reason)
  /\ first # None => events # <<>>
  /\ first = "Cancelled" => Len(events) = 1

\* PrepareCorePumpOutcome: what becomes ready is Bound, and a chat batch in the index,
\* unless it is the emission that this very operation admits.
PrepareCorePumpOutcome(answer, admitted) ==
  answer.pump = "EmissionReady" =>
    /\ pendingReadyEmission = None
    /\ LET id == answer.ready.emissionId
       IN  id # admitted =>
             /\ id \in DOMAIN bindings
             /\ bindings[id].expectedFlow = answer.ready.flow
             /\ bindings[id].state = "Bound"
             /\ PayloadKey(bindings[id]) \in DOMAIN payloads
             /\ answer.ready.flow = Chat => ContainsExact(PayloadOf(id).user, id)

Ended(answer) == {answer.events[i].envelope.emissionId : i \in DOMAIN answer.events}

\* Mutation: a batch that becomes ready stays in the index.
ReadyStaysOpen(answer) == {}

MadeReady(answer) == IF answer.pump = "EmissionReady" THEN {answer.ready.emissionId} ELSE {}

\* CommitLifecycleBatch and CommitCorePumpOutcome, on bindings and payloads that may
\* hold the admission as well: the ended leave, a batch that ends or becomes ready can
\* no longer grow, and the notification follows the core.
CommitExternal(answer, bound, stored) ==
  /\ bindings' = Without(bound, Ended(answer))
  /\ payloads' = Without(stored, {PayloadKey(bound[id]) : id \in Ended(answer)})
  /\ pendingReadyEmission' =
       IF answer.pump = "EmissionReady" THEN answer.ready
       ELSE IF \E id \in Ended(answer) : IsReady(id) THEN None
       ELSE pendingReadyEmission

\* Mutation: a batch that ends stays in the index.
EndedStayOpen(answer) ==
  Without(chatPendingBatches,
          {user \in DOMAIN chatPendingBatches :
             chatPendingBatches[user].emissionId \in MadeReady(answer)})

OpenBatches(answer) ==
  Without(chatPendingBatches,
          {user \in DOMAIN chatPendingBatches :
             chatPendingBatches[user].emissionId \in Ended(answer) \cup MadeReady(answer)})
------------------------------------------------------------------------------
\* Insert: a handle is used up whatever becomes of the payload.
InsertPayload(flow) ==
  /\ nextHandle[flow] # 0
  /\ nextHandle' = [nextHandle EXCEPT ![flow] = IF @ = MaxHandle THEN 0 ELSE @ + 1]

Admission(flow, payload) ==
  LET handle == nextHandle[flow]
      id == reply'.emission.emissionId
      binding == [expectedFlow |-> flow, handle |-> handle, state |-> "Bound"]
  IN  /\ id \notin DOMAIN bindings
      /\ PrepareLifecycleBatch(reply'.events, None, 0)
      /\ PrepareCorePumpOutcome(reply', id)
      /\ CommitExternal(reply', With(bindings, id, binding),
                        With(payloads, <<flow, handle>>, payload))
      /\ outcome' = Told("Accepted", id)

\* The handles of a repository are used up: the core is not asked.
RejectPayload(flow) ==
  /\ nextHandle[flow] = 0
  /\ outcome' = Told("RejectedPayloadIdentityExhausted", 0)
  /\ UNCHANGED <<vars, externalVars>>

\* The core refused: the provisional payload is erased again.
RollbackNow ==
  /\ reply'.status # "Accepted"
  /\ outcome' = Told("RejectedByCore", 0)
  /\ UNCHANGED <<payloads, bindings, chatPendingBatches, pendingReadyEmission>>

\* Every family but chat turns each input into one emission.
SubmitDecision(flow) ==
  \/ RejectPayload(flow)
  \/ /\ InsertPayload(flow)
     /\ Enqueue(flow, 0, None)
     /\ \/ RollbackNow
        \/ /\ reply'.status = "Accepted"
           /\ Admission(flow, [user |-> None, userBytes |-> 0, messages |-> <<>>])
           /\ chatPendingBatches' = OpenBatches(reply')

\* An exception after Insert (the callback throws or memory runs out): the guard
\* erases the payload, and only the handle is gone.
ThrowAfterInsert(flow) ==
  /\ InsertPayload(flow)
  /\ outcome' = Told("LogicError", 0)
  /\ UNCHANGED <<vars, payloads, bindings, chatPendingBatches, pendingReadyEmission>>
------------------------------------------------------------------------------
BatchBytes(payload) ==
  payload.userBytes + FoldSeq(LAMBDA bytes, sum : bytes + sum, 0, payload.messages)

IsWithinBatchLimits(payload) ==
  /\ payload.messages # <<>>
  /\ Len(payload.messages) <= MaxMessagesPerBatch
  /\ \A i \in DOMAIN payload.messages : payload.messages[i] <= MaxMessageBytes
  /\ BatchBytes(payload) <= MaxBatchBytes

\* Mutation: the newest message replaces the others.
LatestMessage(input, messages) ==
  [user |-> input.user, userBytes |-> input.userBytes, messages |-> <<input.bytes>>]

ChatPayload(input, messages) ==
  [user |-> input.user, userBytes |-> input.userBytes,
   messages |-> Append(messages, input.bytes)]

ChatDecision(input) ==
  IF bOnlyAllowCommands /\ ~input.bIsCommand THEN "NoEmission"
  ELSE IF input.bytes > MaxMessageBytes THEN "RejectedSemanticLimit"
  ELSE IF input.user = None THEN "RejectedInvalidInput"
  ELSE IF ~IsWithinBatchLimits(ChatPayload(input, <<>>)) THEN "RejectedSemanticLimit"
  ELSE "Candidate"

HasBatch(user) == user \in DOMAIN chatPendingBatches

\* Mutation: the instant of expiration still belongs to the batch.
IsBatchOpenOrDue(user) == HasBatch(user) /\ now <= chatPendingBatches[user].expiresAt

\* Mutation: the batch closes one instant before its expiration.
IsBatchOpenUntilLast(user) == HasBatch(user) /\ now + 1 < chatPendingBatches[user].expiresAt

\* The batch of the user is in the index and its time has not come.
IsBatchOpen(user) == HasBatch(user) /\ now < chatPendingBatches[user].expiresAt

DeclineChat(input) ==
  /\ ChatDecision(input) # "Candidate"
  /\ outcome' = Told(ChatDecision(input), 0)
  /\ UNCHANGED <<vars, externalVars>>

\* A batch at its limits refuses the message; it is not closed.
RejectAppend(input) ==
  LET id == chatPendingBatches[input.user].emissionId
  IN  /\ ChatDecision(input) = "Candidate"
      /\ IsBatchOpen(input.user)
      /\ ~IsWithinBatchLimits(ChatPayload(input, PayloadOf(id).messages))
      /\ outcome' = Told("RejectedSemanticLimit", 0)
      /\ UNCHANGED <<vars, externalVars>>

\* The expiration the batch was filed with must still be the one the core has.
Renew(input, batch) ==
  UpdatePendingScheduling(batch.emissionId, now, TRUE, None, batch.expiresAt)

\* The message joins the open batch, and may renew its expiration with the TTL
\* frozen in the core: batch, payload and record change together or, if the core
\* finds the emission due, not at all.
Accumulate(input) ==
  LET user == input.user
      batch == chatPendingBatches[user]
      id == batch.emissionId
      payload == ChatPayload(input, PayloadOf(id).messages)
      refused == bRefreshTtlOnAppend /\ reply'.status = "RejectedExpired"
  IN  /\ ChatDecision(input) = "Candidate"
      /\ IsBatchOpen(user)
      /\ id \in DOMAIN bindings
      /\ bindings[id].expectedFlow = Chat
      /\ bindings[id].state = "Bound"
      /\ ~IsReady(id)
      /\ PayloadOf(id).user = user
      /\ IsWithinBatchLimits(payload)
      /\ \/ ~bRefreshTtlOnAppend /\ UNCHANGED <<vars, chatPendingBatches>>
         \/ /\ bRefreshTtlOnAppend
            /\ Renew(input, batch)
            /\ reply'.status \in {"Updated", "Unchanged", "RejectedExpired"}
            /\ chatPendingBatches' =
                 [chatPendingBatches EXCEPT
                    ![user].expiresAt = IF refused THEN @ ELSE reply'.emission.expiresAt]
      /\ payloads' = IF refused THEN payloads
                     ELSE [payloads EXCEPT ![PayloadKey(bindings[id])] = payload]
      /\ outcome' = IF refused THEN Told("RejectedByCore", 0) ELSE Told("Accumulated", id)
      /\ UNCHANGED <<nextHandle, bindings, pendingReadyEmission>>

\* No open batch: a new emission.  A batch of the user whose time has come must be
\* among the expirations of the pump, unless the newcomer is ready at once.
OpenBatch(input) ==
  LET user == input.user
  IN  /\ ChatDecision(input) = "Candidate"
      /\ ~IsBatchOpen(user)
      /\ InsertPayload(Chat)
      /\ Enqueue(Chat, input.adjustment, None)
      /\ \/ RollbackNow
         \/ /\ reply'.status = "Accepted"
            /\ Admission(Chat, ChatPayload(input, <<>>))
            /\ LET id == reply'.emission.emissionId
               IN  \/ /\ id \in MadeReady(reply')
                      /\ chatPendingBatches' = OpenBatches(reply')
                   \/ /\ id \notin MadeReady(reply')
                      /\ HasBatch(user) =>
                           chatPendingBatches[user].emissionId \in Ended(reply')
                      /\ chatPendingBatches' =
                           With(OpenBatches(reply'), user,
                                [emissionId |-> id,
                                 expiresAt |-> reply'.emission.expiresAt])

SubmitChat(input) ==
  \/ DeclineChat(input)
  \/ RejectAppend(input)
  \/ Accumulate(input)
  \/ OpenBatch(input)
  \/ /\ ChatDecision(input) = "Candidate"
     /\ ~IsBatchOpen(input.user)
     /\ RejectPayload(Chat)

\* The core has no revision left for the renewal of the batch.
IsRenewalExhausted(input) ==
  LET batch == chatPendingBatches[input.user]
  IN  /\ bRefreshTtlOnAppend
      /\ IsBatchOpen(input.user)
      /\ IsWithinBatchLimits(ChatPayload(input, PayloadOf(batch.emissionId).messages))
      /\ UpdateStatus(batch.emissionId, now, TRUE, None, batch.expiresAt) =
           "RejectedRevisionExhausted"

\* The batch of the user is due and would outlive the admission, which does not pump.
IsPredecessorInTheWay(input) ==
  /\ HasBatch(input.user)
  /\ ~IsBatchOpen(input.user)
  /\ EnqueueStatus(Chat, None) = "Accepted"
  /\ ~bPumpAfterEnqueueWhenIdle \/ inFlightEmissionId # 0

\* The two messages SubmitChat has no answer for: it throws.
SubmitChatThrows(input) ==
  /\ ChatDecision(input) = "Candidate"
  /\ \/ /\ IsRenewalExhausted(input)
        /\ outcome' = Told("LogicError", 0)
        /\ UNCHANGED <<vars, externalVars>>
     \/ IsPredecessorInTheWay(input) /\ ThrowAfterInsert(Chat)
------------------------------------------------------------------------------
\* ValidateReadyBinding: the notification leads to a Bound binding with a payload, and
\* to a chat batch that can no longer grow.
IsReadyBindingValid ==
  LET id == pendingReadyEmission.emissionId
  IN  /\ id \in DOMAIN bindings
      /\ bindings[id].expectedFlow = pendingReadyEmission.flow
      /\ bindings[id].state = "Bound"
      /\ PayloadKey(bindings[id]) \in DOMAIN payloads
      /\ bindings[id].expectedFlow = Chat => ~ContainsExact(PayloadOf(id).user, id)

\* Only the route of the emission consumes the notification.
BeginProcessing(flow) ==
  \/ /\ pendingReadyEmission = None
     /\ outcome' = Told("NoEmissionReady", 0)
     /\ UNCHANGED <<vars, externalVars>>
  \/ /\ pendingReadyEmission # None
     /\ IsReadyBindingValid
     /\ pendingReadyEmission.flow # flow
     /\ outcome' = Told("NoEmissionReady", 0)
     /\ UNCHANGED <<vars, externalVars>>
  \/ /\ pendingReadyEmission # None
     /\ IsReadyBindingValid
     /\ pendingReadyEmission.flow = flow
     /\ LET id == pendingReadyEmission.emissionId
        IN  /\ bindings' = [bindings EXCEPT ![id].state = "Processing"]
            /\ outcome' = [Told("Dispatched", id) EXCEPT !.payload = PayloadOf(id)]
     /\ pendingReadyEmission' = None
     /\ UNCHANGED <<vars, payloads, nextHandle, chatPendingBatches>>

\* Any other completion is rejected for good.
IsCompletionValid(id, flow) ==
  /\ id \in DOMAIN bindings
  /\ bindings[id].expectedFlow = flow
  /\ bindings[id].state = "Processing"

\* Succeeded confirms; Cancelled and Failed cancel, and nothing is retried.
CompleteInCore(id, succeeded) ==
  \/ /\ succeeded
     /\ Confirm(id)
     /\ reply'.status = "Confirmed"
     /\ PrepareLifecycleBatch(reply'.events, "Confirmed", id)
     /\ PrepareCorePumpOutcome(reply', 0)
  \/ /\ ~succeeded
     /\ CancelInFlight(id)
     /\ reply'.status = "Cancelled"
     /\ PrepareLifecycleBatch(reply'.events, "Cancelled", id)

CompleteProcessing(id, succeeded, flow) ==
  \/ /\ id = 0 \/ pendingReadyEmission # None
     /\ outcome' = Told("LogicError", 0)
     /\ UNCHANGED <<vars, externalVars>>
  \/ /\ id # 0 /\ pendingReadyEmission = None
     /\ ~IsCompletionValid(id, flow)
     /\ outcome' = Told("RejectedCompletion", id)
     /\ UNCHANGED <<vars, externalVars>>
  \/ /\ id # 0 /\ pendingReadyEmission = None
     /\ IsCompletionValid(id, flow)
     /\ PayloadKey(bindings[id]) \in DOMAIN payloads
     /\ CompleteInCore(id, succeeded)
     /\ CommitExternal(reply', bindings, payloads)
     /\ chatPendingBatches' = OpenBatches(reply')
     /\ outcome' = Told("Completed", id)
     /\ UNCHANGED nextHandle
------------------------------------------------------------------------------
PumpPipeline ==
  /\ Pump
  /\ PrepareLifecycleBatch(reply'.events, None, 0)
  /\ PrepareCorePumpOutcome(reply', 0)
  /\ CommitExternal(reply', bindings, payloads)
  /\ chatPendingBatches' = OpenBatches(reply')
  /\ outcome' = Told("Done", 0)
  /\ UNCHANGED nextHandle

ProcessPipelineExpirations ==
  /\ ProcessDueExpirations
  /\ PrepareLifecycleBatch(reply'.events, None, 0)
  /\ CommitExternal(reply', bindings, payloads)
  /\ chatPendingBatches' = OpenBatches(reply')
  /\ outcome' = Told("Done", 0)
  /\ UNCHANGED nextHandle

\* Operations the coordinator passes on to the core, and the clock.
PassToCore ==
  /\ \/ \E flow \in FlowInputs, new \in SettingsInputs : UpdateFlowSettings(flow, new)
     \/ GetNextWakeTime
     \/ Tick
  /\ outcome' = Told("Done", 0)
  /\ UNCHANGED externalVars

PipelineInit ==
  /\ Init
  /\ payloads = [key \in {} |-> None]
  /\ nextHandle = [flow \in Routes |-> 1]
  /\ bindings = [id \in {} |-> None]
  /\ chatPendingBatches = [user \in {} |-> None]
  /\ pendingReadyEmission = None
  /\ outcome = Told("Done", 0)

PipelineNext ==
  \/ \E flow \in Routes \ {Chat} : SubmitDecision(flow)
  \/ \E flow \in Routes : ThrowAfterInsert(flow)
  \/ \E input \in ChatInputs : SubmitChat(input) \/ SubmitChatThrows(input)
  \/ \E flow \in Routes : BeginProcessing(flow)
  \/ \E id \in Identity \cup {0}, succeeded \in BOOLEAN, flow \in Routes :
       CompleteProcessing(id, succeeded, flow)
  \/ PumpPipeline
  \/ ProcessPipelineExpirations
  \/ PassToCore

PipelineSpec == PipelineInit /\ [][PipelineNext]_pipelineVars
------------------------------------------------------------------------------
(* Properties *)

\* Every emission the core keeps alive has its binding and its payload, and neither
\* outlives it ("Toda emision administrada por el Coordinator conserva binding y
\* payload coherentes", PROJECT_CONTEXT.md section 7).  No two share a payload, and
\* no handle lies ahead of its repository's counter.
BindingsMatchCore ==
  /\ DOMAIN bindings = DOMAIN records
  /\ DOMAIN payloads = {PayloadKey(bindings[id]) : id \in DOMAIN bindings}
  /\ \A id, other \in DOMAIN bindings :
       PayloadKey(bindings[id]) = PayloadKey(bindings[other]) => id = other
  /\ \A id \in DOMAIN bindings :
       LET binding == bindings[id]
       IN  /\ binding.expectedFlow = records[id].envelope.flow
           /\ nextHandle[binding.expectedFlow] = 0
                \/ binding.handle < nextHandle[binding.expectedFlow]

\* The notification is no authority of its own: it stands for the emission the core
\* has in flight as long as no handler took it, and then the binding is Processing.
\* There is never a notification without its emission in flight, nor both at once.
ReadyMatchesCore ==
  /\ \A id \in DOMAIN bindings :
       IF id = inFlightEmissionId
       THEN IF bindings[id].state = "Bound"
            THEN pendingReadyEmission = records[id].envelope
            ELSE pendingReadyEmission = None
       ELSE bindings[id].state = "Bound"
  /\ inFlightEmissionId = 0 => pendingReadyEmission = None

\* A chat batch is within its limits, and no other payload has a user or messages.
FitsFlow(flow, payload) ==
  IF flow = Chat THEN IsWithinBatchLimits(payload)
  ELSE payload.user = None /\ payload.messages = <<>>

\* The index holds exactly the chat emissions that wait, each under the user of its
\* payload and with the expiration the core has for it: a batch that is handed out
\* or ended cannot grow, and a user never has two that can.
BatchesMatchCore ==
  LET waiting == {id \in Pending(records) : records[id].envelope.flow = Chat}
  IN  /\ \A id \in waiting : ContainsExact(PayloadOf(id).user, id)
      /\ \A user \in DOMAIN chatPendingBatches :
           LET batch == chatPendingBatches[user]
           IN  /\ batch.emissionId \in waiting
               /\ PayloadOf(batch.emissionId).user = user
               /\ batch.expiresAt = records[batch.emissionId].envelope.expiresAt
      /\ \A id \in DOMAIN bindings : FitsFlow(bindings[id].expectedFlow, PayloadOf(id))

PipelineInv ==
  IInv /\ PipelineTypeOK /\ BindingsMatchCore /\ ReadyMatchesCore /\ BatchesMatchCore

\* What the coordinator validates before it commits always holds: looking after the
\* queue, taking what is ready and completing what is processed never throw, and an
\* emission that can be completed is never stuck.
OperationsNeverThrow ==
  /\ ENABLED PumpPipeline
  /\ ENABLED ProcessPipelineExpirations
  /\ pendingReadyEmission # None => IsReadyBindingValid
  /\ \A flow \in Routes \ {Chat} : ENABLED SubmitDecision(flow)
  /\ \A id \in DOMAIN bindings :
       bindings[id].state = "Processing" =>
         \A succeeded \in BOOLEAN :
           ENABLED (CompleteInCore(id, succeeded) /\ CommitExternal(reply', bindings, payloads))

\* A chat message is answered, one way or the other, unless the batch of its user is
\* overdue and the admission does not pump, or its record has no revision left: in
\* these cases, and in no other, SubmitChat throws.
ChatIsAnswered ==
  \A input \in ChatInputs : ENABLED SubmitChat(input) <=> ~ENABLED SubmitChatThrows(input)

\* A batch grows only while the core keeps its emission waiting and not yet due, even
\* when the append does not ask the core ("nunca revive una emision vencida",
\* PROJECT_CONTEXT.md section 7); any other payload stays as it was admitted.
GrowthBeforeDue ==
  [][\A key \in DOMAIN payloads \cap DOMAIN payloads' :
       payloads'[key] # payloads[key] =>
         \E id \in Pending(records) : /\ PayloadKey(bindings[id]) = key
                                      /\ records[id].envelope.flow = Chat
                                      /\ ~Due(records[id].envelope, now)]_pipelineVars

\* The pipeline as producers and handlers see it: the deliveries of EventDelivery, with
\* the queue, the clock, the handles and the index hidden.
Delivery == INSTANCE EventDelivery WITH
  deliveries <- [id \in DOMAIN bindings |->
                   [stage |-> IF bindings[id].state = "Processing" THEN "Processing"
                              ELSE IF IsReady(id) THEN "Ready" ELSE "Waiting",
                    payload |-> PayloadOf(id)]],
  used <- IF nextIdentity = 0 THEN MaxIdentity ELSE nextIdentity - 1

ImplementsDelivery == Delivery!Spec
==============================================================================
