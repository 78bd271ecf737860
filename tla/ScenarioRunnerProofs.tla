------------------------- MODULE ScenarioRunnerProofs -------------------------
(***************************************************************************)
(* The scenario runner, for any scenario that its validation lets through  *)
(* and any settings of the flow: what it takes for granted of the host     *)
(* holds, the timeline that was validated is long enough, no time passes   *)
(* over an expiration or over work, and a run leaves nothing behind.       *)
(*                                                                         *)
(* The runner is a caller of the host: its steps are posts, steps of a     *)
(* cycle, and the clock, so what EventHostProofs says of any caller holds. *)
(* On top of it lies what this caller adds: one command at a time, which   *)
(* handler works on what, which wake-up time is known, and how much work   *)
(* there can be.                                                           *)
(***************************************************************************)
EXTENDS ScenarioRunner, EventHostProofs

------------------------------------------------------------------------------
(* What the calls of the runner do to the queue *)

\* A step of the queue admits one emission at most, with its first revision, adds one
\* revision at most to the others, and while time stands still nothing becomes due.
LEMMA StepGrows ==
  ASSUME IInv, [Next]_vars
  PROVE  /\ DOMAIN records' \subseteq DOMAIN records \cup {nextIdentity}
         /\ \A id \in DOMAIN records' :
              records'[id].revision <= IF id \in DOMAIN records
                                       THEN records[id].revision + 1 ELSE 1
         /\ now' = now => DueIds(records)' \subseteq DueIds(records)
<1> DEFINE Grown(recs) ==
      /\ DOMAIN recs \subseteq DOMAIN records \cup {nextIdentity}
      /\ \A id \in DOMAIN recs :
           /\ recs[id].revision \in Nat
           /\ recs[id].revision <= IF id \in DOMAIN records
                                   THEN records[id].revision + 1 ELSE 1
      /\ DueIds(recs) \subseteq DueIds(records)
<1>1. /\ records \in [DOMAIN records -> Record]
      /\ \A id \in DOMAIN records : records[id].revision \in Nat
  BY DEF IInv, TypeOK, Record, Revision
<1>2. Grown(records)
  BY <1>1
<1>3. ASSUME NEW record, Admits(record)
      PROVE  Grown(Filed(record))
  <2>1. /\ DOMAIN Filed(record) = DOMAIN records \cup {nextIdentity}
        /\ nextIdentity \notin DOMAIN records
        /\ \A id \in DOMAIN records : Filed(record)[id] = records[id]
        /\ Filed(record)[nextIdentity].revision = 1
    BY <1>3, FiledRecords DEF Admits
  <2>2. DueIds(Filed(record)) = DueIds(records)
    BY <1>3, DueOfPrepared
  <2> QED
    BY <1>1, <2>1, <2>2
<1>4. ASSUME inFlightEmissionId # 0
      PROVE  Grown(Completed)
  <2>1. /\ DOMAIN Completed \subseteq DOMAIN records
        /\ \A id \in DOMAIN Completed : Completed[id] = records[id]
        /\ DueIds(Completed) = DueIds(records)
    BY <1>4, CompletedRecords, DueOfPrepared
  <2> QED
    BY <1>1, <2>1
<1>5. ASSUME NEW recs, NEW active, NEW answer, Pumps(recs, active, answer), Grown(recs)
      PROVE  Grown(records')
  <2>1. PICK told : TellsDue(told, recs) /\ PumpEffect(recs, active, answer, told)
    BY <1>5, PumpFacts
  <2>2. recs \in [DOMAIN recs -> Record]
    BY <1>5, PumpFacts
  <2>3. ASSUME NEW id \in DOMAIN records'
        PROVE  /\ id \in DOMAIN recs /\ id \notin DueIds(recs)
               /\ records'[id].revision = recs[id].revision
               /\ records'[id].envelope = recs[id].envelope
               /\ records'[id].state = "Pending" => recs[id].state = "Pending"
    BY <2>1, <2>2, <2>3 DEF PumpEffect, Record
  <2>4. DueIds(records') = {}
    BY <2>3 DEF DueIds, Pending
  <2> QED
    BY <1>5, <2>3, <2>4
<1>6. ASSUME NEW id, Reschedules(id)
      PROVE  Grown(records')
  <2>1. PICK expiresAt \in Time, score \in Score :
          /\ expiresAt >= records[id].envelope.expiresAt
          /\ records'[id].envelope = [records[id].envelope EXCEPT !.expiresAt = expiresAt,
                                                                  !.priorityScore = score]
    BY <1>6 DEF Reschedules
  <2>2. /\ id \in DOMAIN records /\ DOMAIN records' = DOMAIN records
        /\ \A other \in DOMAIN records \ {id} : records'[other] = records[other]
        /\ records'[id].revision = records[id].revision + 1
        /\ ~Due(records[id].envelope, now)
    BY <1>6 DEF Reschedules, Pending
  <2>3. records[id].envelope \in Envelope /\ now \in Nat
    BY <1>1, <2>2, CoreAssumption DEF Record, IInv, TypeOK, Time
  <2>4. records'[id].envelope.expiresAt = expiresAt
    BY <2>1, <2>3 DEF Envelope
  <2>5. ~Due(records'[id].envelope, now)
    BY <2>1, <2>2, <2>3, <2>4, TypesAssumption DEF Due, Finite, Time, Envelope
  <2>6. DueIds(records') \subseteq DueIds(records)
    BY <2>2, <2>5 DEF DueIds, Pending
  <2> QED
    BY <1>1, <2>2, <2>6
<1>7. ASSUME ProcessDueExpirations
      PROVE  Grown(records')
  <2>1. /\ DOMAIN records' \subseteq DOMAIN records
        /\ \A id \in DOMAIN records' : records'[id] = records[id]
    BY <1>7, ExpirationStep
  <2> QED
    BY <1>1, <2>1 DEF DueIds, Pending
<1>8. Next => Grown(records')
  <2> SUFFICES ASSUME Next PROVE Grown(records')
    OBVIOUS
  <2>1. CASE Quiet
    BY <1>2, <2>1 DEF Quiet
  <2>2. CASE \E record : Files(record) \/ FilesAndPumps(record)
    <3>1. PICK record : Files(record) \/ FilesAndPumps(record)
      BY <2>2
    <3>2. Grown(Filed(record))
      BY <3>1, <1>3 DEF Files, FilesAndPumps
    <3>3. CASE Files(record)
      BY <3>2, <3>3 DEF Files
    <3>4. CASE FilesAndPumps(record)
      BY <3>2, <3>4, <1>5, PumpKinds
    <3> QED
      BY <3>1, <3>3, <3>4
  <2>3. CASE \E id : Reschedules(id)
    BY <2>3, <1>6
  <2>4. CASE Pump
    BY <2>4, <1>2, <1>5, PumpKinds
  <2>5. CASE Completes("Confirm", "Confirmed") \/ Completes("CancelInFlight", "Cancelled")
    BY <2>5, <1>4 DEF Completes
  <2>6. CASE CompletesAndPumps
    BY <2>6, <1>4, <1>5, PumpKinds DEF CompletesAndPumps
  <2>7. CASE ProcessDueExpirations
    BY <2>7, <1>7
  <2> QED
    BY <2>1, <2>2, <2>3, <2>4, <2>5, <2>6, <2>7, StepShape
<1>9. Grown(records')
  BY <1>2, <1>8 DEF vars, queueVars
<1> QED
  <2>1. now' = now => DueIds(records)' = DueIds(records')
    BY DEF DueIds, Due, Finite, Pending
  <2> QED
    BY <1>9, <2>1

\* Looking after the queue and completing what is in flight admit nothing and revise
\* nothing.
Shrinks ==
  /\ DOMAIN records' \subseteq DOMAIN records
  /\ \A id \in DOMAIN records' : records'[id].revision = records[id].revision

LEMMA LookingShrinks ==
  ASSUME IInv,
         Pump \/ ProcessDueExpirations \/ GetNextWakeTime \/ \E id : Confirm(id)
  PROVE  Shrinks
<1>1. records \in [DOMAIN records -> Record]
  BY DEF IInv, TypeOK
<1>2. ASSUME NEW recs, NEW active, NEW answer, Pumps(recs, active, answer),
             DOMAIN recs \subseteq DOMAIN records,
             \A id \in DOMAIN recs : recs[id] = records[id]
      PROVE  Shrinks
  <2>1. PICK told : PumpEffect(recs, active, answer, told)
    BY <1>2, PumpFacts
  <2>2. recs \in [DOMAIN recs -> Record]
    BY <1>2, PumpFacts
  <2>3. ASSUME NEW id \in DOMAIN records'
        PROVE  id \in DOMAIN recs /\ records'[id].revision = recs[id].revision
    BY <2>1, <2>2, <2>3 DEF PumpEffect, Record
  <2> QED
    BY <1>2, <2>3 DEF Shrinks
<1>3. CASE Pump
  BY <1>2, <1>3, PumpKinds
<1>4. CASE ProcessDueExpirations
  BY <1>4, ExpirationStep DEF Shrinks
<1>5. CASE GetNextWakeTime
  BY <1>5 DEF GetNextWakeTime, Shrinks
<1>6. ASSUME NEW id, Confirm(id)
      PROVE  Shrinks
  <2>1. CASE RejectCompletion("Confirm", id)
    BY <2>1 DEF RejectCompletion, queueVars, Shrinks
  <2>2. CASE InFlightTargetStatus(id) = "Valid" /\ ~RejectCompletion("Confirm", id)
    <3>1. inFlightEmissionId # 0
      BY <2>2 DEF InFlightTargetStatus
    <3>2. /\ DOMAIN Completed \subseteq DOMAIN records
          /\ \A other \in DOMAIN Completed : Completed[other] = records[other]
      BY <3>1, CompletedRecords
    <3>3. CASE bPumpAfterConfirm
      <4>1. CompletesAndPumps
        BY <1>6, <2>2, <3>1, <3>3 DEF Confirm, CompletesAndPumps
      <4> QED
        BY <1>2, <3>2, <4>1, PumpKinds
    <3>4. CASE ~bPumpAfterConfirm
      <4>1. records' = Completed
        BY <1>6, <2>2, <3>4 DEF Confirm
      <4> QED
        BY <3>2, <4>1 DEF Shrinks
    <3> QED
      BY <3>3, <3>4
  <2> QED
    BY <1>6, <2>1, <2>2 DEF Confirm
<1> QED
  BY <1>3, <1>4, <1>5, <1>6

\* After the expirations nothing that waits is due.
LEMMA ExpirationsClear ==
  ASSUME IInv, ProcessDueExpirations
  PROVE  DueIds(records)' = {}
<1>1. /\ DOMAIN records' = DOMAIN records \ DueIds(records)
      /\ \A id \in DOMAIN records' : records'[id] = records[id]
  BY ExpirationStep
<1>2. now' = now
  BY DEF ProcessDueExpirations
<1> QED
  BY <1>1, <1>2 DEF DueIds, Due, Finite, Pending

\* The number of live emissions with what a step does to it.
LEMMA LiveCount ==
  ASSUME IInv, IInv'
  PROVE  /\ Cardinality(DOMAIN records) \in Nat
         /\ Cardinality(DOMAIN records) = 0 <=> DOMAIN records = {}
         /\ Cardinality(DOMAIN records)' \in Nat
         /\ DOMAIN records' \subseteq DOMAIN records \cup {nextIdentity} =>
              Cardinality(DOMAIN records)' <= Cardinality(DOMAIN records) + 1
         /\ DOMAIN records' \subseteq DOMAIN records =>
              Cardinality(DOMAIN records)' <= Cardinality(DOMAIN records)
         /\ \A id \in DOMAIN records : DOMAIN records' \subseteq DOMAIN records \ {id} =>
              Cardinality(DOMAIN records)' <= Cardinality(DOMAIN records) - 1
<1>1. IsFiniteSet(Identity)
  BY FS_Interval, TypesAssumption DEF Identity
<1>2. IsFiniteSet(DOMAIN records) /\ IsFiniteSet(DOMAIN records')
  BY <1>1, FS_Subset DEF IInv, TypeOK
<1>3. /\ Cardinality(DOMAIN records) \in Nat /\ Cardinality(DOMAIN records') \in Nat
      /\ Cardinality(DOMAIN records) = 0 <=> DOMAIN records = {}
  BY <1>2, FS_CardinalityType, FS_EmptySet
<1>4. /\ IsFiniteSet(DOMAIN records \cup {nextIdentity})
      /\ Cardinality(DOMAIN records \cup {nextIdentity}) \in Nat
      /\ Cardinality(DOMAIN records \cup {nextIdentity}) <= Cardinality(DOMAIN records) + 1
  <2>1. /\ IsFiniteSet(DOMAIN records \cup {nextIdentity})
        /\ Cardinality(DOMAIN records \cup {nextIdentity}) =
             IF nextIdentity \in DOMAIN records THEN Cardinality(DOMAIN records)
             ELSE Cardinality(DOMAIN records) + 1
    BY <1>2, FS_AddElement, Zenon
  <2> QED
    BY <1>3, <2>1
<1>5. DOMAIN records' \subseteq DOMAIN records \cup {nextIdentity} =>
        Cardinality(DOMAIN records') <= Cardinality(DOMAIN records) + 1
  BY <1>3, <1>4, FS_Subset
<1>6. DOMAIN records' \subseteq DOMAIN records =>
        Cardinality(DOMAIN records') <= Cardinality(DOMAIN records)
  BY <1>2, FS_Subset
<1>7. ASSUME NEW id \in DOMAIN records, DOMAIN records' \subseteq DOMAIN records \ {id}
      PROVE  Cardinality(DOMAIN records') <= Cardinality(DOMAIN records) - 1
  <2>1. /\ IsFiniteSet(DOMAIN records \ {id})
        /\ Cardinality(DOMAIN records \ {id}) = Cardinality(DOMAIN records) - 1
    BY <1>2, FS_RemoveElement
  <2> QED
    BY <1>7, <2>1, FS_Subset
<1>8. Cardinality(DOMAIN records)' = Cardinality(DOMAIN records')
  OBVIOUS
<1> QED
  BY <1>3, <1>5, <1>6, <1>7, <1>8
------------------------------------------------------------------------------
(* What they do to the handlers *)

\* Neither an input nor a look after the queue begins or ends the processing of an
\* emission.
LEMMA ProcessingGoesOn ==
  ASSUME PipelineInv, NEW input,
         \/ SubmitChat(input) \/ SubmitChatThrows(input)
         \/ ProcessPipelineExpirations \/ PumpPipeline
  PROVE  BeingProcessed(bindings') = BeingProcessed(bindings)
<1>1. ASSUME NEW bound, NEW stored, PrepareLifecycleBatch(reply'.events, None, 0),
             CommitExternal(reply', bound, stored),
             \A id \in BeingProcessed(bindings) : id \in DOMAIN bound /\ bound[id] = bindings[id],
             BeingProcessed(bound) = BeingProcessed(bindings)
      PROVE  BeingProcessed(bindings') = BeingProcessed(bindings)
  <2>1. ASSUME NEW i \in DOMAIN reply'.events
        PROVE  /\ reply'.events[i].envelope.emissionId \in DOMAIN bindings
               /\ bindings[reply'.events[i].envelope.emissionId].state = "Bound"
    BY <1>1, <2>1
    DEF PrepareLifecycleBatch, IsLifecycleEntryValid, GetExpectedExternalState,
        IsPendingTerminalReason
  <2>2. Ended(reply') \cap BeingProcessed(bindings) = {}
    BY <2>1 DEF Ended, BeingProcessed
  <2>3. /\ DOMAIN bindings' = DOMAIN bound \ Ended(reply')
        /\ \A id \in DOMAIN bindings' : bindings'[id] = bound[id]
    BY <1>1 DEF CommitExternal, Without
  <2> QED
    BY <1>1, <2>2, <2>3 DEF BeingProcessed
<1>2. CASE ProcessPipelineExpirations \/ PumpPipeline
  BY <1>1, <1>2 DEF ProcessPipelineExpirations, PumpPipeline, BeingProcessed
<1>3. ASSUME NEW flow, NEW payload, Admission(flow, payload)
      PROVE  BeingProcessed(bindings') = BeingProcessed(bindings)
  <2> DEFINE new == reply'.emission.emissionId
             bound == With(bindings, new, NewBinding(flow))
             stored == With(payloads, <<flow, nextHandle[flow]>>, payload)
  <2>1. /\ new \notin DOMAIN bindings
        /\ PrepareLifecycleBatch(reply'.events, None, 0)
        /\ CommitExternal(reply', bound, stored)
    BY <1>3 DEF Admission, NewBinding
  <2>2. BeingProcessed(bound) = BeingProcessed(bindings)
    BY <2>1 DEF BeingProcessed, With, NewBinding
  <2>3. \A id \in BeingProcessed(bindings) : id \in DOMAIN bound /\ bound[id] = bindings[id]
    BY <2>1 DEF BeingProcessed, With
  <2> QED
    BY <1>1, <2>1, <2>2, <2>3
<1>4. CASE SubmitChat(input)
  <2>1. CASE DeclineChat(input) \/ RejectAppend(input) \/ Accumulate(input) \/ RejectPayload(Chat)
    BY <2>1 DEF DeclineChat, RejectAppend, Accumulate, RejectPayload, externalVars
  <2>2. CASE OpenBatch(input)
    <3>1. RollbackNow \/ Admission(Chat, ChatPayload(input, <<>>))
      BY <2>2 DEF OpenBatch
    <3> QED
      BY <3>1, <1>3 DEF RollbackNow
  <2> QED
    BY <1>4, <2>1, <2>2 DEF SubmitChat
<1>5. CASE SubmitChatThrows(input)
  BY <1>5 DEF SubmitChatThrows, ThrowAfterInsert, externalVars
<1> QED
  BY <1>2, <1>4, <1>5

\* The completion of what is in processing is valid, and after it nothing is.
LEMMA CompletionEnds ==
  ASSUME PipelineInv, NEW id \in BeingProcessed(bindings), CompleteProcessing(id, TRUE, Chat)
  PROVE  /\ Confirm(id)
         /\ outcome'.status = "Completed"
         /\ BeingProcessed(bindings') = {}
         /\ id \in DOMAIN records /\ id \notin DOMAIN bindings'
<1>1. /\ DOMAIN bindings = DOMAIN records /\ DOMAIN records \subseteq Identity
      /\ bindings \in [DOMAIN bindings -> Binding]
  BY DEF PipelineInv, BindingsMatchCore, PipelineTypeOK, IInv, TypeOK
<1>2. /\ id \in DOMAIN bindings /\ bindings[id].state = "Processing"
      /\ id = inFlightEmissionId /\ pendingReadyEmission = None
  BY DEF BeingProcessed, PipelineInv, ReadyMatchesCore
<1>3. \A other \in DOMAIN bindings \ {id} : bindings[other].state = "Bound"
  BY <1>2 DEF PipelineInv, ReadyMatchesCore
<1>4. id # 0 /\ IsCompletionValid(id, Chat)
  BY <1>1, <1>2, TypesAssumption, RunnerAssumption DEF IsCompletionValid, Binding, Identity
<1>5. /\ CompleteInCore(id, TRUE)
      /\ CommitExternal(reply', bindings, payloads)
      /\ outcome' = Told("Completed", id)
  BY <1>2, <1>4 DEF CompleteProcessing
<1>6. Confirm(id) /\ PrepareLifecycleBatch(reply'.events, "Confirmed", id)
  BY <1>5 DEF CompleteInCore
<1>7. reply'.events \in Seq(Terminal)
  <2>1. IInv'
    BY <1>1, <1>2, <1>6, ConfirmPreserves DEF PipelineInv
  <2> QED
    BY <2>1 DEF IInv, TypeOK, Reply
<1>8. id \in Ended(reply')
  <2>1. "Confirmed" # None
    BY PipelineAssumption DEF TerminalReason
  <2>2. reply'.events # <<>> /\ \A i \in DOMAIN reply'.events :
          i = 1 => reply'.events[i].envelope.emissionId = id
    BY <1>6, <2>1 DEF PrepareLifecycleBatch
  <2>3. 1 \in DOMAIN reply'.events
    BY <1>7, <2>2
  <2> QED
    BY <2>2, <2>3 DEF Ended
<1>9. /\ DOMAIN bindings' = DOMAIN bindings \ Ended(reply')
      /\ \A other \in DOMAIN bindings' : bindings'[other] = bindings[other]
  BY <1>5 DEF CommitExternal, Without
<1> QED
  BY <1>1, <1>2, <1>3, <1>5, <1>6, <1>8, <1>9 DEF BeingProcessed, Told

\* A chat message is answered when nothing that waits is due and every record has a
\* revision left.
LEMMA InputAnswered ==
  ASSUME PipelineInv, NEW input \in ChatInputs,
         SubmitChat(input) \/ SubmitChatThrows(input),
         DueIds(records) = {},
         \A id \in DOMAIN records : records[id].revision < MaxRevision
  PROVE  outcome'.status \notin {"LogicError", "RejectedCompletion"}
<1>1. ASSUME HasBatch(input.user)
      PROVE  IsBatchOpen(input.user) /\ ~IsRenewalExhausted(input)
  <2> DEFINE batch == chatPendingBatches[input.user]
             id == batch.emissionId
  <2>1. /\ id \in Pending(records)
        /\ batch.expiresAt = records[id].envelope.expiresAt
    BY <1>1 DEF PipelineInv, BatchesMatchCore, HasBatch
  <2>2. /\ id \in DOMAIN records /\ records[id].envelope.expiresAt \in Time
        /\ now \in 0..MaxNow /\ records[id].revision \in Revision
    BY <2>1 DEF PipelineInv, IInv, TypeOK, Pending, Record, Envelope
  <2>3. ~Due(records[id].envelope, now)
    BY <2>1 DEF DueIds
  <2>4. now < batch.expiresAt
    BY <2>1, <2>2, <2>3, RunnerAssumption, CoreAssumption, TypesAssumption
    DEF Due, Finite, Time
  <2>5. records[id].revision # MaxRevision
    BY <2>2, TypesAssumption DEF Revision
  <2>6. UpdateStatus(id, now, TRUE, None, batch.expiresAt) # "RejectedRevisionExhausted"
    BY <2>5 DEF UpdateStatus
  <2> QED
    BY <1>1, <2>4, <2>6 DEF IsBatchOpen, IsRenewalExhausted
<1>2. ~SubmitChatThrows(input)
  BY <1>1 DEF SubmitChatThrows, IsRenewalExhausted, IsPredecessorInTheWay, IsBatchOpen
<1>3. SubmitChat(input)
  BY <1>2
<1>4. CASE DeclineChat(input)
  BY <1>4 DEF DeclineChat, ChatDecision, Told
<1>5. CASE RejectAppend(input)
  BY <1>5 DEF RejectAppend, Told
<1>6. CASE Accumulate(input)
  <2>1. outcome' \in {Told("RejectedByCore", 0),
                     Told("Accumulated", chatPendingBatches[input.user].emissionId)}
    BY <1>6 DEF Accumulate
  <2> QED
    BY <2>1 DEF Told
<1>7. CASE OpenBatch(input)
  <2>1. RollbackNow \/ Admission(Chat, ChatPayload(input, <<>>))
    BY <1>7 DEF OpenBatch
  <2> QED
    BY <2>1 DEF RollbackNow, Admission, Told
<1>8. CASE RejectPayload(Chat)
  BY <1>8 DEF RejectPayload, Told
<1> QED
  BY <1>3, <1>4, <1>5, <1>6, <1>7, <1>8 DEF SubmitChat
------------------------------------------------------------------------------
(* The invariant of a run *)

\* A command is posted and the cycles it takes are run, or a cycle by itself.
WithCommand == phase \in {"CompletionCycles", "InputCycles"}
RunsCycles == WithCommand \/ phase = "Maintenance"

\* The coordinator has not yet been asked for what this cycle leases.
IsUnserved == stage \in {"Idle", "Lease"}

TheCommands ==
  IF phase = "CompletionCycles" THEN {CompletionCommand(expectedCompletionEmissionId)}
  ELSE {InputCommand(input) : input \in ChatInputs}

\* The runner posts one command at a time and runs one cycle for it: the cycle completes
\* what is expected and leaves no command behind.
CommandInv ==
  /\ ~RunsCycles => stage = "Idle"
  /\ stage # "Reject"
  /\ IF WithCommand /\ stage \in {"Idle", "Lease", "Acknowledge"}
     THEN /\ postedCommands # <<>> /\ Tail(postedCommands) = <<>>
          /\ Head(postedCommands).command \in TheCommands
     ELSE postedCommands = <<>> /\ stage # "Acknowledge"
  /\ phase = "CompletionCycles" <=> expectedCompletionEmissionId # 0
  /\ result.completed = IF phase = "CompletionCycles" /\ ~IsUnserved
                        THEN expectedCompletionEmissionId ELSE 0
  /\ result.processed # "FlowSettingsUpdate"
  /\ ~result.threw
  /\ ~result.more
  /\ result.dispatch # 0 => stage \in {"Wake", "Report"}

\* What is in processing is in the hands of somebody: the handler that is active, the
\* cycle that dispatched it, or the completion that was posted for it.
InHands ==
  IF activeProcessing # None THEN {activeProcessing.emissionId}
  ELSE IF result.dispatch # 0 THEN {result.dispatch}
  ELSE IF phase = "CompletionCycles" /\ IsUnserved THEN {expectedCompletionEmissionId}
  ELSE {}

\* Nothing else is in processing, and between cycles nothing waits that could be.
HandlerInv ==
  /\ BeingProcessed(bindings) = InHands
  /\ activeProcessing # None => /\ result.dispatch = 0
                                /\ phase # "CompletionCycles"
                                /\ activeProcessing.completionOffset >= now
  /\ bLastCycleProducedDispatch => activeProcessing # None \/ phase = "CompletionCycles"
  /\ stage = "Idle" => Busy

\* After the expirations at the start of a cycle nothing that waits is due, so the
\* wake-up time that the cycle asks for lies ahead and has something to wake up for.
WakeTimeInv ==
  /\ stage # "Idle" => DueIds(records) = {}
  /\ stage \notin {"Idle", "Report"} => result.wake = None
  /\ result.wake # None => Finite(result.wake) /\ Pending(records) # {}
  /\ stage = "Report" /\ result.wake # None => result.wake > now
  /\ stage = "Idle" => /\ nextWakeOffset = result.wake
                       /\ nextWakeOffset # None => nextWakeOffset >= now

\* Inputs posted so far, and those that the coordinator has seen.
Posted == nextInputIndex - 1
InputWaits == phase = "InputCycles" /\ IsUnserved
Served == IF InputWaits THEN Posted - 1 ELSE Posted

\* Since when the handlers are busy with what is alive, and how much that is.
Base ==
  IF activeProcessing # None THEN activeProcessing.completionOffset - ProcessingDuration
  ELSE IF phase = "CompletionCycles" /\ IsUnserved THEN now - ProcessingDuration
  ELSE now
Load == Cardinality(DOMAIN records) + (IF InputWaits THEN 1 ELSE 0)

\* The work of all the inputs posted so far, each as long as a processing, is done by
\* the time that all of them take one after the other since the last one arrived.  An
\* input makes one revision of a record at most.
LoadInv ==
  /\ InputWaits => Posted > 0
  /\ \A id \in DOMAIN records : records[id].revision <= Served
  /\ Load > 0 =>
       /\ Posted > 0
       /\ Base + Load * ProcessingDuration <=
            scenario[Posted].arrivalOffset + Posted * ProcessingDuration

\* No input is late.
TimeInv ==
  /\ now <= TimelineEnd(scenario)
  /\ IsInputLeft => scenario[nextInputIndex].arrivalOffset >= now

\* The run is over when there are no inputs left and no handler works.
EndInv == phase = "Done" => ~IsInputLeft /\ activeProcessing = None

\* What the host keeps for any caller, and what this one keeps.
CallerInv == HostBase /\ WakeInv /\ WorkInv

RunInv ==
  /\ CallerInv
  /\ RunnerTypeOK
  /\ RunnerNeverThrows
  /\ CommandInv
  /\ HandlerInv
  /\ WakeTimeInv
  /\ LoadInv
  /\ TimeInv
  /\ EndInv
------------------------------------------------------------------------------
(* The host under this caller *)

\* Posts and cycles of the runner are steps of the host.
LEMMA CallerStep ==
  ASSUME CallerInv, [HostNext]_hostVars
  PROVE  CallerInv'
<1>1. HostBase'
  BY HostBaseStep DEF CallerInv
<1> QED
  BY <1>1, WakeStep, WorkStep DEF CallerInv

\* The clock of the runner moves as far as it likes: the host keeps what it has.
LEMMA CallerAdvances ==
  ASSUME CallerInv, NEW offset \in 0..MaxNow, AdvanceTo(offset)
  PROVE  CallerInv'
<1>1. PipelineInv /\ MailboxInv /\ HostTypeOK
  BY DEF CallerInv, HostBase
<1>2. UNCHANGED <<settings, nextIdentity, queueVars, reply, externalVars, outcome,
                  mailboxVars, ownerVars, signal>>
  BY DEF AdvanceTo
<1>3. IInv'
  BY <1>1, <1>2, AnsweringPreserves DEF PipelineInv, IInv, TypeOK, AdvanceTo
<1>4. PipelineInv'
  <2>1. outcome' \in Outcome
    BY <1>1, <1>2 DEF PipelineInv, PipelineTypeOK
  <2> QED
    BY <1>1, <1>2, <1>3, <2>1, RefusalKeeps DEF queueVars, externalVars
<1>5. MailboxInv' /\ HostTypeOK'
  BY <1>1, <1>2 DEF MailboxInv, MailboxTypes, LeaseIsFront, NoLostWakeup, HostTypeOK,
                    mailboxVars, ownerVars
<1>6. WakeInv' /\ WorkInv'
  BY <1>2 DEF CallerInv, WakeInv, WorkInv, Busy, queueVars, externalVars, ownerVars
<1> QED
  BY <1>4, <1>5, <1>6 DEF CallerInv, HostBase

\* No time passes during a cycle.
LEMMA CyclesTakeNoTime ==
  ASSUME RunOneCycle
  PROVE  now' = now
BY DEF RunOneCycle, BeginCycle, ProcessPipelineExpirations, ProcessDueExpirations,
       FindNoCommand, pipelineVars, vars, ProcessPostedCommand, Perform, SubmitDecision,
       RejectPayload, Enqueue, SubmitChat, DeclineChat, RejectAppend, Accumulate, Renew,
       UpdatePendingScheduling, OpenBatch, SubmitChatThrows, ThrowAfterInsert,
       CompleteProcessing, CompleteInCore, Confirm, CancelInFlight, UpdateFlowSettings,
       RejectCompletion, Acknowledge, Reject, FindNothingReady, BeginPendingDispatch,
       BeginProcessing, PumpOnce, PumpPipeline, Pump, FindNextWakeTime, AskWake,
       GetNextWakeTime, ReturnResult, CycleThrows

\* What is left of the queue when no handler works and no cycle is under way.
LEMMA NothingWaits ==
  ASSUME CallerInv, CommandInv, HandlerInv, WakeTimeInv,
         stage = "Idle", activeProcessing = None, phase # "CompletionCycles"
  PROVE  DOMAIN records = {} /\ nextWakeOffset = None
<1>1. /\ PipelineInv
      /\ DOMAIN bindings = DOMAIN records /\ DOMAIN records \subseteq Identity
      /\ bindings \in [DOMAIN bindings -> Binding]
      /\ records \in [DOMAIN records -> Record]
  BY DEF CallerInv, HostBase, PipelineInv, BindingsMatchCore, PipelineTypeOK, IInv, TypeOK
<1>2. BeingProcessed(bindings) = {} /\ Busy
  BY DEF HandlerInv, InHands, CommandInv
<1>3. inFlightEmissionId = 0
  <2> SUFFICES ASSUME inFlightEmissionId # 0
               PROVE  FALSE
    OBVIOUS
  <2>1. inFlightEmissionId \in DOMAIN bindings
    BY <1>1 DEF PipelineInv, IInv, InFlightCoherent
  <2>2. bindings[inFlightEmissionId].state = "Bound"
    BY <1>1, <1>2, <2>1 DEF BeingProcessed, Binding
  <2>3. pendingReadyEmission = records[inFlightEmissionId].envelope
    BY <1>1, <2>1, <2>2 DEF PipelineInv, ReadyMatchesCore
  <2>4. records[inFlightEmissionId].envelope \in Envelope
    BY <1>1, <2>1 DEF Record
  <2> QED
    BY <1>2, <2>3, <2>4, PipelineAssumption DEF Busy
<1>4. Pending(records) = {}
  BY <1>2, <1>3 DEF Busy
<1>5. DOMAIN records = {}
  <2> SUFFICES ASSUME NEW id \in DOMAIN records
               PROVE  FALSE
    OBVIOUS
  <2>1. id # 0 /\ records[id].state \in {"Pending", "InFlight"}
    BY <1>1, TypesAssumption DEF Record, Identity
  <2>2. records[id].state # "InFlight"
    BY <1>1, <1>3, <2>1 DEF PipelineInv, IInv, InFlightCoherent
  <2> QED
    BY <1>4, <2>1, <2>2 DEF Pending
<1> QED
  BY <1>4, <1>5 DEF WakeTimeInv
------------------------------------------------------------------------------
(* Scenarios and their timeline *)

\* Products of numbers of emissions with a duration.
LEMMA Products ==
  ASSUME NEW m \in Nat, NEW n \in Nat, NEW d \in Nat
  PROVE  /\ m * d \in Nat
         /\ (m + 1) * d = m * d + d
         /\ m <= n => m * d <= n * d
         /\ m > 0 => m * d >= d
<1>1. ASSUME NEW i \in Nat
      PROVE  i * d \in Nat /\ (m + i) * d = m * d + i * d /\ 1 * d = d
  OBVIOUS
<1>2. ASSUME m <= n
      PROVE  m * d <= n * d
  <2>1. n - m \in Nat /\ m + (n - m) = n
    BY <1>2
  <2> QED
    BY <1>1, <2>1
<1>3. ASSUME m > 0
      PROVE  m * d >= d
  <2>1. m - 1 \in Nat /\ m = (m - 1) + 1
    BY <1>3
  <2>2. (m - 1) * d \in Nat
    BY <2>1
  <2>3. m * d = (m - 1) * d + d
    BY <2>1, <2>2
  <2> QED
    BY <2>2, <2>3
<1> QED
  BY <1>1, <1>2, <1>3

\* A scenario as the runner finds it.
LEMMA ScenarioFacts ==
  ASSUME scenario \in Scenarios
  PROVE  /\ Len(scenario) \in 1..MaxInputs /\ DOMAIN scenario = 1..Len(scenario)
         /\ \A i \in 1..Len(scenario) : /\ scenario[i].arrivalOffset \in 0..MaxNow
                                        /\ scenario[i].input \in ChatInputs
         /\ \A i, j \in 1..Len(scenario) :
              i <= j => scenario[i].arrivalOffset <= scenario[j].arrivalOffset
         /\ TimelineEnd(scenario) \in 0..MaxNow
         /\ \A i \in 1..Len(scenario) :
              scenario[i].arrivalOffset + i * ProcessingDuration <= TimelineEnd(scenario)
<1>1. PICK n \in 1..MaxInputs : scenario \in [1..n -> ScheduledInput]
  BY DEF Scenarios
<1>2. /\ n \in Nat /\ n >= 1 /\ Len(scenario) = n /\ DOMAIN scenario = 1..n
      /\ MaxNow \in Nat /\ ProcessingDuration \in Nat
  BY <1>1, RunnerAssumption, CoreAssumption, TypesAssumption DEF Time
<1>3. \A i \in 1..n : /\ scenario[i].arrivalOffset \in 0..MaxNow
                      /\ scenario[i].input \in ChatInputs
  BY <1>1, RunnerAssumption DEF ScheduledInput
<1>4. \A i, j \in 1..n : i <= j => scenario[i].arrivalOffset <= scenario[j].arrivalOffset
  <2>1. \A i, j \in 1..n : i < j => scenario[i].arrivalOffset <= scenario[j].arrivalOffset
    BY <1>2 DEF Scenarios
  <2>2. \A i, j \in 1..n : i <= j => i < j \/ i = j
    BY <1>2
  <2> QED
    BY <1>3, <2>1, <2>2
<1>5. \A i \in 1..n : i * ProcessingDuration \in Nat
                      /\ i * ProcessingDuration <= n * ProcessingDuration
  BY <1>2, Products
<1>6. /\ TimelineEnd(scenario) = scenario[n].arrivalOffset + n * ProcessingDuration
      /\ TimelineEnd(scenario) <= MaxNow
  BY <1>2 DEF Scenarios, TimelineEnd
<1>7. ASSUME NEW i \in 1..n
      PROVE  /\ scenario[i].arrivalOffset + i * ProcessingDuration <= TimelineEnd(scenario)
             /\ TimelineEnd(scenario) \in 0..MaxNow
  <2> DEFINE span == i * ProcessingDuration
             all == n * ProcessingDuration
  <2>1. span \in Nat /\ all \in Nat /\ span <= all
    BY <1>2, <1>5
  <2>2. i <= n /\ n \in 1..n
    BY <1>2
  <2>3. scenario[i].arrivalOffset <= scenario[n].arrivalOffset
    BY <1>4, <2>2
  <2>4. /\ scenario[i].arrivalOffset \in Nat /\ scenario[n].arrivalOffset \in Nat
        /\ TimelineEnd(scenario) = scenario[n].arrivalOffset + all
    BY <1>2, <1>3, <1>6, <2>2
  <2> HIDE DEF span, all
  <2>5. /\ scenario[i].arrivalOffset + span <= TimelineEnd(scenario)
        /\ TimelineEnd(scenario) \in 0..MaxNow
    BY <1>2, <1>6, <2>1, <2>3, <2>4
  <2> QED
    BY <2>5 DEF span
<1>8. TimelineEnd(scenario) \in 0..MaxNow
  BY <1>2, <1>7
<1> QED
  BY <1>1, <1>2, <1>3, <1>4, <1>7, <1>8

\* The live emissions are finitely many.
LEMMA LiveIsNumber ==
  ASSUME CallerInv
  PROVE  /\ Cardinality(DOMAIN records) \in Nat
         /\ DOMAIN records # {} => Cardinality(DOMAIN records) > 0
<1>1. IsFiniteSet(Identity)
  BY FS_Interval, TypesAssumption DEF Identity
<1>2. IsFiniteSet(DOMAIN records)
  BY <1>1, FS_Subset DEF CallerInv, HostBase, PipelineInv, IInv, TypeOK
<1>3. Cardinality(DOMAIN records) \in Nat
      /\ (Cardinality(DOMAIN records) = 0 <=> DOMAIN records = {})
  BY <1>2, FS_CardinalityType, FS_EmptySet
<1> QED
  BY <1>3

\* The numbers of a run are numbers.
LEMMA RunNumbers ==
  ASSUME CallerInv, RunnerTypeOK
  PROVE  /\ now \in 0..MaxNow /\ MaxNow \in Nat
         /\ ProcessingDuration \in Nat /\ ProcessingDuration > 0
         /\ nextInputIndex \in 1..(Len(scenario) + 1) /\ Len(scenario) \in Nat
         /\ Posted \in 0..Len(scenario)
         /\ activeProcessing # None => /\ activeProcessing.completionOffset \in Nat
                                       /\ activeProcessing.emissionId \in Identity
         /\ Base \in Int
         /\ Load \in Nat
         /\ InputWaits => Load > 0
         /\ Load * ProcessingDuration \in Nat
         /\ \A id : id \in DOMAIN records => Load > 0
<1>1. scenario \in Scenarios /\ nextInputIndex \in 1..Len(scenario) + 1
  BY DEF RunnerTypeOK
<1>2. Len(scenario) \in Nat /\ MaxNow \in Nat /\ ProcessingDuration \in Nat \ {0}
  BY <1>1, ScenarioFacts, RunnerAssumption, CoreAssumption, TypesAssumption DEF Time
<1>3. now \in 0..MaxNow /\ IInv
  BY DEF CallerInv, HostBase, PipelineInv, IInv, TypeOK
<1>4. activeProcessing # None => /\ activeProcessing.completionOffset \in Nat
                                 /\ activeProcessing.emissionId \in Identity
  BY TypesAssumption DEF RunnerTypeOK, Processing, Time
<1>5. /\ Cardinality(DOMAIN records) \in Nat
      /\ DOMAIN records # {} => Cardinality(DOMAIN records) > 0
  BY LiveIsNumber
<1>6. Base \in Int
  BY <1>2, <1>3, <1>4 DEF Base
<1>7. /\ Load \in Nat
      /\ InputWaits => Load > 0
      /\ \A id : id \in DOMAIN records => Load > 0
  BY <1>5 DEF Load
<1>8. Load * ProcessingDuration \in Nat
  <2>1. \A m, d \in Nat : m * d \in Nat
    BY Products
  <2> QED
    BY <1>2, <1>7, <2>1
<1>9. Posted \in 0..Len(scenario) /\ ProcessingDuration \in Nat /\ ProcessingDuration > 0
  BY <1>1, <1>2 DEF Posted
<1> QED
  BY <1>1, <1>2, <1>3, <1>4, <1>6, <1>7, <1>8, <1>9

\* Whatever is alive is done within the timeline.
LEMMA WorkFits ==
  ASSUME CallerInv, RunnerTypeOK, LoadInv, Load > 0
  PROVE  Base + ProcessingDuration <= TimelineEnd(scenario)
<1>1. /\ Base \in Int /\ Load \in Nat /\ ProcessingDuration \in Nat
      /\ Load * ProcessingDuration \in Nat
      /\ Posted \in 0..Len(scenario) /\ Len(scenario) \in Nat
  BY RunNumbers
<1>2. ProcessingDuration <= Load * ProcessingDuration
  BY <1>1, Products
<1>3. /\ Posted > 0
      /\ Base + Load * ProcessingDuration <=
           scenario[Posted].arrivalOffset + Posted * ProcessingDuration
  BY DEF LoadInv
<1>4. Posted \in 1..Len(scenario)
  BY <1>1, <1>3
<1>5. /\ scenario[Posted].arrivalOffset + Posted * ProcessingDuration <= TimelineEnd(scenario)
      /\ scenario[Posted].arrivalOffset \in 0..MaxNow /\ TimelineEnd(scenario) \in 0..MaxNow
  BY <1>4, ScenarioFacts DEF RunnerTypeOK
<1>6. Posted * ProcessingDuration \in Nat
  BY <1>1, Products
<1> QED
  BY <1>1, <1>2, <1>3, <1>5, <1>6

\* What a handler works on is alive, so it is done in time as well.
LEMMA HandlerFits ==
  ASSUME CallerInv, RunnerTypeOK, HandlerInv, LoadInv, activeProcessing # None
  PROVE  /\ activeProcessing.emissionId \in DOMAIN records
         /\ activeProcessing.completionOffset <= TimelineEnd(scenario)
<1>1. activeProcessing.emissionId \in BeingProcessed(bindings)
  BY DEF HandlerInv, InHands
<1>2. activeProcessing.emissionId \in DOMAIN records
  BY <1>1 DEF BeingProcessed, CallerInv, HostBase, PipelineInv, BindingsMatchCore
<1>3. Base + ProcessingDuration <= TimelineEnd(scenario)
  BY <1>2, RunNumbers, WorkFits
<1>4. Base + ProcessingDuration = activeProcessing.completionOffset
  BY RunNumbers DEF Base
<1> QED
  BY <1>2, <1>3, <1>4
------------------------------------------------------------------------------
(* The steps of the runner between cycles *)

\* Between cycles the phase may pass on.
LEMMA PhasePasses ==
  ASSUME RunInv, ~RunsCycles,
         UNCHANGED <<hostVars, scenario, nextInputIndex, activeProcessing,
                     expectedCompletionEmissionId, nextWakeOffset,
                     bLastCycleProducedDispatch, repeatedImmediateWake, eventful,
                     bAnythingDue>>,
         phase' \in {"Select", "Completion", "Inputs", "Maintenance", "Done"},
         phase' = "Done" => ~IsInputLeft /\ activeProcessing = None
  PROVE  RunInv'
<1>1. CallerInv'
  BY CallerStep DEF RunInv
<1>2. /\ stage = "Idle"
      /\ UNCHANGED <<now, settings, nextIdentity, records, inFlightEmissionId, bindings,
                     pendingReadyEmission, postedCommands, stage, result>>
      /\ UNCHANGED <<TypeOK, Busy, DueIds(records), Pending(records)>>
  BY DEF RunInv, CommandInv, hostVars, pipelineVars, vars, queueVars, externalVars,
         mailboxVars, ownerVars, TypeOK, Busy, DueIds, Pending, Due, Finite
<1>3. /\ ~WithCommand /\ ~WithCommand' /\ ~InputWaits /\ ~InputWaits'
      /\ phase # "CompletionCycles" /\ phase' # "CompletionCycles"
      /\ IsUnserved /\ IsUnserved'
  BY <1>2 DEF RunsCycles, WithCommand, InputWaits, IsUnserved
<1>4. RunnerTypeOK' /\ RunnerNeverThrows'
  BY <1>2 DEF RunInv, RunnerTypeOK, RunnerNeverThrows, Phase
<1>5. CommandInv'
  BY <1>2, <1>3 DEF RunInv, CommandInv
<1>6. HandlerInv'
  BY <1>2, <1>3 DEF RunInv, HandlerInv, InHands
<1>7. WakeTimeInv'
  BY <1>2 DEF RunInv, WakeTimeInv
<1>8. LoadInv'
  <2>1. UNCHANGED <<Load, Base, Served, Posted, scenario>>
    BY <1>2, <1>3 DEF Load, Base, Served, Posted
  <2> QED
    BY <1>2, <1>3, <2>1 DEF RunInv, LoadInv
<1>9. TimeInv'
  BY <1>2 DEF RunInv, TimeInv, IsInputLeft, TimelineEnd
<1>10. EndInv'
  BY DEF EndInv, IsInputLeft
<1> QED
  BY <1>1, <1>4, <1>5, <1>6, <1>7, <1>8, <1>9, <1>10 DEF RunInv

\* When nothing is to be waited for, nothing is left either.
LEMMA FinishKeeps ==
  ASSUME RunInv, Finish
  PROVE  RunInv' /\ phase' = "Done"
<1>1. ~RunsCycles /\ phase = "Select" /\ Candidates = {}
  BY DEF Finish, RunsCycles, WithCommand
<1>2. ~IsInputLeft
  <2> SUFFICES ASSUME IsInputLeft
               PROVE  FALSE
    OBVIOUS
  <2>1. nextInputIndex \in DOMAIN scenario
    BY RunNumbers, ScenarioFacts DEF RunInv, RunnerTypeOK, IsInputLeft
  <2>2. scenario[nextInputIndex].arrivalOffset \in Candidates
    BY <2>1 DEF Candidates
  <2> QED
    BY <1>1, <2>2
<1>3. activeProcessing = None /\ nextWakeOffset = None /\ ~result.more
  BY <1>1 DEF Candidates
<1>4. ~bLastCycleProducedDispatch
  BY <1>1, <1>3 DEF RunInv, HandlerInv, RunnerTypeOK
<1>5. phase' = "Done"
  BY <1>2, <1>3, <1>4 DEF Finish
<1>6. UNCHANGED <<hostVars, scenario, nextInputIndex, activeProcessing,
                  expectedCompletionEmissionId, nextWakeOffset,
                  bLastCycleProducedDispatch, repeatedImmediateWake, eventful,
                  bAnythingDue>>
  BY DEF Finish
<1> QED
  BY <1>1, <1>2, <1>3, <1>5, <1>6, PhasePasses

LEMMA SkipCompletionKeeps ==
  ASSUME RunInv, SkipCompletion
  PROVE  RunInv'
<1>1. ~RunsCycles
  BY DEF SkipCompletion, RunsCycles, WithCommand
<1> QED
  BY <1>1, PhasePasses DEF SkipCompletion

LEMMA EndInputsKeeps ==
  ASSUME RunInv, EndInputs
  PROVE  RunInv'
<1>1. ~RunsCycles /\ phase' \in {"Maintenance", "Select"}
  BY DEF EndInputs, RunsCycles, WithCommand
<1> QED
  BY <1>1, PhasePasses DEF EndInputs

\* What there is to wait for never lies behind, and nothing is waited for beyond the
\* timeline: a wake-up without inputs and handlers has nothing to wake up for.
LEMMA CandidatesAhead ==
  ASSUME RunInv, phase = "Select", NEW next \in Candidates,
         \A other \in Candidates : next <= other
  PROVE  /\ next >= now /\ next \in 0..MaxNow /\ next <= TimelineEnd(scenario)
         /\ IsInputLeft => next <= scenario[nextInputIndex].arrivalOffset
         /\ activeProcessing # None => next <= activeProcessing.completionOffset
         /\ nextWakeOffset # None => next <= nextWakeOffset
<1>1. /\ CallerInv /\ RunnerTypeOK /\ CommandInv /\ HandlerInv /\ WakeTimeInv /\ LoadInv
      /\ TimeInv
  BY DEF RunInv
<1>2. /\ stage = "Idle" /\ phase # "CompletionCycles" /\ ~InputWaits /\ ~result.more
      /\ scenario \in Scenarios
  BY <1>1 DEF CommandInv, RunsCycles, WithCommand, InputWaits, RunnerTypeOK
<1>3. /\ now \in 0..MaxNow /\ MaxNow \in Nat /\ ProcessingDuration \in Nat
      /\ DOMAIN scenario = 1..Len(scenario) /\ Len(scenario) \in Nat
      /\ nextInputIndex \in 1..(Len(scenario) + 1)
      /\ TimelineEnd(scenario) \in 0..MaxNow
      /\ activeProcessing # None => activeProcessing.completionOffset \in Nat
  BY <1>1, <1>2, RunNumbers, ScenarioFacts
<1>4. IsInputLeft =>
        /\ nextInputIndex \in DOMAIN scenario
        /\ scenario[nextInputIndex].arrivalOffset \in Candidates
        /\ scenario[nextInputIndex].arrivalOffset \in 0..MaxNow
        /\ scenario[nextInputIndex].arrivalOffset >= now
        /\ scenario[nextInputIndex].arrivalOffset <= TimelineEnd(scenario)
  <2> SUFFICES ASSUME IsInputLeft
               PROVE  /\ nextInputIndex \in 1..Len(scenario)
                      /\ scenario[nextInputIndex].arrivalOffset \in Candidates
                      /\ scenario[nextInputIndex].arrivalOffset \in 0..MaxNow
                      /\ scenario[nextInputIndex].arrivalOffset >= now
                      /\ scenario[nextInputIndex].arrivalOffset <= TimelineEnd(scenario)
    BY <1>3
  <2>1. nextInputIndex \in 1..Len(scenario)
    BY <1>3 DEF IsInputLeft
  <2>2. scenario[nextInputIndex].arrivalOffset \in Candidates
    BY <1>3, <2>1 DEF Candidates
  <2>3. /\ scenario[nextInputIndex].arrivalOffset \in 0..MaxNow
        /\ scenario[nextInputIndex].arrivalOffset + nextInputIndex * ProcessingDuration
             <= TimelineEnd(scenario)
    BY <1>2, <2>1, ScenarioFacts
  <2>4. nextInputIndex * ProcessingDuration \in Nat
    BY <1>3, <2>1, Products
  <2> QED
    BY <1>1, <1>3, <2>1, <2>2, <2>3, <2>4 DEF TimeInv
<1>5. activeProcessing # None =>
        /\ activeProcessing.completionOffset \in Candidates
        /\ activeProcessing.completionOffset >= now
        /\ activeProcessing.completionOffset <= TimelineEnd(scenario)
  BY <1>1, HandlerFits DEF Candidates, HandlerInv
<1>6. nextWakeOffset # None => /\ nextWakeOffset \in Candidates
                               /\ nextWakeOffset >= now
                               /\ activeProcessing # None
  BY <1>1, <1>2, NothingWaits DEF Candidates, WakeTimeInv
<1>7. \/ IsInputLeft /\ next = scenario[nextInputIndex].arrivalOffset
      \/ activeProcessing # None /\ next = activeProcessing.completionOffset
      \/ nextWakeOffset # None /\ next = nextWakeOffset
  BY <1>2, <1>3 DEF Candidates, IsInputLeft
<1>8. next \in Nat /\ next >= now
  <2>1. nextWakeOffset # None => nextWakeOffset \in Nat
    BY <1>1, TypesAssumption DEF RunnerTypeOK, Time
  <2> QED
    BY <1>3, <1>4, <1>5, <1>6, <1>7, <2>1
<1>9. next <= TimelineEnd(scenario)
  <2>1. IsInputLeft \/ activeProcessing # None
    BY <1>6, <1>7
  <2> QED
    BY <1>3, <1>4, <1>5, <1>8, <2>1
<1>10. next \in 0..MaxNow
  BY <1>3, <1>8, <1>9
<1>11. /\ IsInputLeft => next <= scenario[nextInputIndex].arrivalOffset
       /\ activeProcessing # None => next <= activeProcessing.completionOffset
       /\ nextWakeOffset # None => next <= nextWakeOffset
  BY <1>4, <1>5, <1>6
<1> QED
  BY <1>8, <1>9, <1>10, <1>11

\* The clock moves to what there is to wait for and passes over nothing.
LEMMA NextEvent ==
  ASSUME RunInv, SelectNextEvent
  PROVE  /\ AdvanceTo(now') /\ phase' = "Completion"
         /\ repeatedImmediateWake' \in {None, repeatedImmediateWake}
         /\ now \in 0..MaxNow /\ MaxNow \in Nat
         /\ now' >= now /\ now' \in 0..MaxNow /\ now' <= TimelineEnd(scenario)
         /\ IsInputLeft => now' <= scenario[nextInputIndex].arrivalOffset
         /\ activeProcessing # None => now' <= activeProcessing.completionOffset
         /\ nextWakeOffset # None => now' <= nextWakeOffset
<1>1. PICK next \in Candidates :
        /\ \A other \in Candidates : next <= other
        /\ IF next < now
           THEN Fail /\ UNCHANGED <<hostVars, repeatedImmediateWake>>
           ELSE /\ AdvanceTo(next)
                /\ repeatedImmediateWake' = IF next > now THEN None ELSE repeatedImmediateWake
                /\ phase' = "Completion"
  BY DEF SelectNextEvent
<1>2. phase = "Select"
  BY DEF SelectNextEvent
<1>3. /\ next >= now /\ next \in 0..MaxNow /\ next <= TimelineEnd(scenario)
      /\ IsInputLeft => next <= scenario[nextInputIndex].arrivalOffset
      /\ activeProcessing # None => next <= activeProcessing.completionOffset
      /\ nextWakeOffset # None => next <= nextWakeOffset
  BY <1>1, <1>2, CandidatesAhead
<1>4. now \in 0..MaxNow /\ MaxNow \in Nat
  BY RunNumbers DEF RunInv
<1>5. /\ AdvanceTo(next) /\ phase' = "Completion"
      /\ repeatedImmediateWake' \in {None, repeatedImmediateWake}
  BY <1>1, <1>3, <1>4
<1>6. now' = next
  BY <1>5 DEF AdvanceTo
<1> QED
  BY <1>3, <1>4, <1>5, <1>6

\* So the invariant is kept when it moves.
LEMMA SelectNextEventKeeps ==
  ASSUME RunInv, SelectNextEvent
  PROVE  RunInv'
<1>1. /\ AdvanceTo(now') /\ phase' = "Completion"
      /\ repeatedImmediateWake' \in {None, repeatedImmediateWake}
      /\ now \in 0..MaxNow /\ MaxNow \in Nat
      /\ now' >= now /\ now' \in 0..MaxNow /\ now' <= TimelineEnd(scenario)
      /\ IsInputLeft => now' <= scenario[nextInputIndex].arrivalOffset
      /\ activeProcessing # None => now' <= activeProcessing.completionOffset
      /\ nextWakeOffset # None => now' <= nextWakeOffset
  BY NextEvent
<1>2. /\ phase = "Select" /\ bAnythingDue' = FALSE
      /\ UNCHANGED <<scenario, nextInputIndex, activeProcessing,
                     expectedCompletionEmissionId, nextWakeOffset,
                     bLastCycleProducedDispatch, eventful>>
  BY DEF SelectNextEvent
<1>3. /\ CallerInv /\ RunnerTypeOK /\ CommandInv /\ HandlerInv /\ WakeTimeInv /\ LoadInv
      /\ TimeInv
  BY DEF RunInv
<1>4. CallerInv'
  BY <1>1, <1>3, CallerAdvances
<1>5. UNCHANGED <<records, inFlightEmissionId, bindings, pendingReadyEmission,
                  postedCommands, stage, result, Pending(records), Busy>>
  BY <1>1 DEF AdvanceTo, queueVars, externalVars, mailboxVars, ownerVars, Pending, Busy
<1>6. /\ stage = "Idle" /\ ~WithCommand /\ ~WithCommand' /\ ~RunsCycles
      /\ ~InputWaits /\ ~InputWaits'
      /\ phase # "CompletionCycles" /\ phase' # "CompletionCycles"
      /\ IsUnserved /\ IsUnserved'
  BY <1>1, <1>2, <1>3, <1>5 DEF CommandInv, RunsCycles, WithCommand, InputWaits, IsUnserved
<1>7. RunnerTypeOK' /\ RunnerNeverThrows'
  <2>1. TypeOK'
    BY <1>4 DEF CallerInv, HostBase, PipelineInv, IInv
  <2> QED
    BY <1>1, <1>2, <1>3, <2>1 DEF RunnerTypeOK, RunnerNeverThrows, Phase
<1>8. CommandInv'
  BY <1>2, <1>3, <1>5, <1>6 DEF CommandInv
<1>9. HandlerInv'
  <2>1. InHands' = InHands
    BY <1>2, <1>5, <1>6 DEF InHands
  <2>2. activeProcessing' # None => activeProcessing'.completionOffset >= now'
    BY <1>1, <1>2, <1>3, <1>5, RunNumbers
  <2> QED
    BY <1>2, <1>3, <1>5, <1>6, <2>1, <2>2 DEF HandlerInv
<1>10. WakeTimeInv'
  <2>1. nextWakeOffset' # None => nextWakeOffset' >= now'
    BY <1>1, <1>2, <1>3, <1>5, TypesAssumption DEF RunnerTypeOK, Time
  <2> QED
    BY <1>2, <1>3, <1>5, <1>6, <2>1 DEF WakeTimeInv
<1>11. LoadInv'
  <2>1. UNCHANGED <<Load, Served, Posted, scenario>>
    BY <1>2, <1>5, <1>6 DEF Load, Served, Posted
  <2>2. activeProcessing = None => Load = 0
    <3>1. IsFiniteSet({}) /\ Cardinality({}) = 0
      BY FS_EmptySet
    <3> QED
      BY <1>3, <1>6, <3>1, NothingWaits DEF Load
  <2>3. activeProcessing # None => Base' = Base
    BY <1>2 DEF Base
  <2> QED
    BY <1>3, <1>5, <1>6, <2>1, <2>2, <2>3 DEF LoadInv
<1>12. TimeInv'
  <2>1. TimelineEnd(scenario)' = TimelineEnd(scenario) /\ IsInputLeft' = IsInputLeft
    BY <1>2 DEF TimelineEnd, IsInputLeft
  <2>2. IsInputLeft => scenario[nextInputIndex].arrivalOffset \in 0..MaxNow
    BY <1>3, RunNumbers, ScenarioFacts DEF RunnerTypeOK, IsInputLeft
  <2> QED
    BY <1>1, <1>2, <1>5, <2>1, <2>2 DEF TimeInv
<1>13. EndInv'
  BY <1>1 DEF EndInv
<1> QED
  BY <1>4, <1>7, <1>8, <1>9, <1>10, <1>11, <1>12, <1>13 DEF RunInv

\* A post to an empty mailbox leaves its command alone there and touches nothing else.
LEMMA PostAlone ==
  ASSUME NEW command, Post(command), postedCommands = <<>>
  PROVE  /\ postedCommands' # <<>> /\ Tail(postedCommands') = <<>>
         /\ Head(postedCommands').command = command
         /\ UNCHANGED <<now, records, inFlightEmissionId, bindings, pendingReadyEmission,
                        stage, result>>
         /\ UNCHANGED <<TypeOK, Busy, DueIds(records), Pending(records)>>
<1>1. postedCommands' = <<[sequence |-> nextPostedCommandSequence, command |-> command]>>
  BY DEF Post, PutLast
<1>2. UNCHANGED <<pipelineVars, ownerVars>>
  BY DEF Post
<1> QED
  BY <1>1, <1>2 DEF pipelineVars, vars, queueVars, externalVars, ownerVars, TypeOK, Busy,
                    DueIds, Pending, Due, Finite

\* The completion of the active handler takes its work over.
LEMMA PostCompletionKeeps ==
  ASSUME RunInv, PostCompletion
  PROVE  RunInv'
<1> DEFINE id == activeProcessing.emissionId
<1>1. /\ CallerInv /\ RunnerTypeOK /\ CommandInv /\ HandlerInv /\ WakeTimeInv /\ LoadInv
      /\ TimeInv
  BY DEF RunInv
<1>2. /\ phase = "Completion" /\ phase' = "CompletionCycles"
      /\ activeProcessing # None /\ activeProcessing.completionOffset = now
      /\ Post(CompletionCommand(id))
      /\ expectedCompletionEmissionId' = id
      /\ activeProcessing' = None /\ bAnythingDue' = TRUE
      /\ UNCHANGED <<scenario, nextInputIndex, nextWakeOffset, bLastCycleProducedDispatch,
                     repeatedImmediateWake, eventful>>
  BY DEF PostCompletion, IsCompletionDue, NoLongerActive
<1>3. id \in Identity /\ id # 0 /\ CompletionCommand(id) \in Commands
  BY <1>1, <1>2, RunNumbers, RunnerAssumption, TypesAssumption DEF Identity
<1>4. CallerInv'
  BY <1>1, <1>2, <1>3, CallerStep DEF HostNext
<1>5. /\ stage = "Idle" /\ postedCommands = <<>> /\ result.dispatch = 0
      /\ result.completed = 0 /\ result.processed # "FlowSettingsUpdate"
      /\ ~result.threw /\ ~result.more
  BY <1>1, <1>2 DEF CommandInv, RunsCycles, WithCommand
<1>6. /\ postedCommands' # <<>> /\ Tail(postedCommands') = <<>>
      /\ Head(postedCommands').command = CompletionCommand(id)
      /\ UNCHANGED <<now, records, inFlightEmissionId, bindings, pendingReadyEmission,
                     stage, result>>
      /\ UNCHANGED <<TypeOK, Busy, DueIds(records), Pending(records)>>
  BY <1>2, <1>5, PostAlone
<1>7. /\ WithCommand' /\ RunsCycles' /\ IsUnserved' /\ ~InputWaits /\ ~InputWaits'
      /\ TheCommands' = {CompletionCommand(id)}
  BY <1>2, <1>5, <1>6 DEF WithCommand, RunsCycles, IsUnserved, InputWaits, TheCommands,
                          CompletionCommand
<1>8. RunnerTypeOK' /\ RunnerNeverThrows'
  BY <1>1, <1>2, <1>3, <1>6 DEF RunnerTypeOK, RunnerNeverThrows, Phase
<1>9. CommandInv'
  BY <1>2, <1>3, <1>5, <1>6, <1>7 DEF CommandInv
<1>10. HandlerInv'
  <2>1. InHands = {id} /\ InHands' = {id}
    BY <1>2, <1>5, <1>6, <1>7 DEF InHands
  <2> QED
    BY <1>1, <1>2, <1>6, <2>1 DEF HandlerInv
<1>11. WakeTimeInv'
  BY <1>1, <1>2, <1>6 DEF WakeTimeInv
<1>12. LoadInv'
  <2>1. UNCHANGED <<Load, Served, Posted, scenario, Base>>
    BY <1>2, <1>6, <1>7 DEF Load, Served, Posted, Base
  <2> QED
    BY <1>1, <1>6, <1>7, <2>1 DEF LoadInv
<1>13. TimeInv' /\ EndInv'
  BY <1>1, <1>2, <1>6 DEF TimeInv, IsInputLeft, TimelineEnd, EndInv
<1> QED
  BY <1>4, <1>8, <1>9, <1>10, <1>11, <1>12, <1>13 DEF RunInv

\* An input adds one emission's worth of work, for which the timeline has room.
LEMMA PostInputKeeps ==
  ASSUME RunInv, PostInput
  PROVE  RunInv'
<1> DEFINE input == scenario[nextInputIndex].input
<1>1. /\ CallerInv /\ RunnerTypeOK /\ CommandInv /\ HandlerInv /\ WakeTimeInv /\ LoadInv
      /\ TimeInv
  BY DEF RunInv
<1>2. /\ phase = "Inputs" /\ phase' = "InputCycles"
      /\ nextInputIndex <= Len(scenario) /\ scenario[nextInputIndex].arrivalOffset = now
      /\ Post(InputCommand(input))
      /\ nextInputIndex' = nextInputIndex + 1 /\ bAnythingDue' = TRUE
      /\ UNCHANGED <<scenario, activeProcessing, expectedCompletionEmissionId,
                     nextWakeOffset, bLastCycleProducedDispatch, repeatedImmediateWake,
                     eventful>>
  BY DEF PostInput, IsInputDue, IsInputLeft
<1>3. /\ nextInputIndex \in 1..Len(scenario) /\ Len(scenario) \in Nat
      /\ Posted \in 0..Len(scenario)
      /\ now \in 0..MaxNow /\ MaxNow \in Nat /\ ProcessingDuration \in Nat
      /\ Base \in Int /\ Load \in Nat
  BY <1>1, <1>2, RunNumbers
<1>4. /\ input \in ChatInputs /\ InputCommand(input) \in Commands
      /\ \A i, j \in 1..Len(scenario) :
           i <= j => scenario[i].arrivalOffset <= scenario[j].arrivalOffset
      /\ \A i \in 1..Len(scenario) : scenario[i].arrivalOffset \in 0..MaxNow
  BY <1>1, <1>3, ScenarioFacts, RunnerAssumption DEF RunnerTypeOK
<1>5. CallerInv'
  BY <1>1, <1>2, <1>4, CallerStep DEF HostNext
<1>6. /\ stage = "Idle" /\ postedCommands = <<>> /\ result.dispatch = 0
      /\ result.completed = 0 /\ result.processed # "FlowSettingsUpdate"
      /\ ~result.threw /\ ~result.more
      /\ expectedCompletionEmissionId = 0
  BY <1>1, <1>2 DEF CommandInv, RunsCycles, WithCommand
<1>7. /\ postedCommands' # <<>> /\ Tail(postedCommands') = <<>>
      /\ Head(postedCommands').command = InputCommand(input)
      /\ UNCHANGED <<now, records, inFlightEmissionId, bindings, pendingReadyEmission,
                     stage, result>>
      /\ UNCHANGED <<TypeOK, Busy, DueIds(records), Pending(records)>>
  BY <1>2, <1>6, PostAlone
<1>8. /\ WithCommand' /\ RunsCycles' /\ IsUnserved' /\ ~InputWaits /\ InputWaits'
      /\ InputCommand(input) \in TheCommands'
      /\ phase # "CompletionCycles" /\ phase' # "CompletionCycles"
  BY <1>2, <1>4, <1>6, <1>7 DEF WithCommand, RunsCycles, IsUnserved, InputWaits, TheCommands
<1>9. RunnerTypeOK' /\ RunnerNeverThrows'
  BY <1>1, <1>2, <1>3, <1>7 DEF RunnerTypeOK, RunnerNeverThrows, Phase
<1>10. CommandInv'
  BY <1>2, <1>6, <1>7, <1>8 DEF CommandInv
<1>11. HandlerInv'
  <2>1. InHands' = InHands
    BY <1>2, <1>6, <1>7, <1>8 DEF InHands
  <2> QED
    BY <1>1, <1>2, <1>7, <1>8, <2>1 DEF HandlerInv
<1>12. WakeTimeInv'
  BY <1>1, <1>2, <1>7 DEF WakeTimeInv
<1>13. LoadInv'
  <2>1. /\ Posted = nextInputIndex - 1 /\ Posted' = nextInputIndex
        /\ Served' = Posted /\ Served = Posted
        /\ Base' = Base
    BY <1>2, <1>3, <1>7, <1>8 DEF Served, Posted, Base
  <2>2. Load' = Load + 1
    <3>1. Load = Cardinality(DOMAIN records) + 0
      BY <1>8 DEF Load
    <3>2. Load' = Cardinality(DOMAIN records) + 1
      BY <1>7, <1>8 DEF Load
    <3> QED
      BY <1>1, <3>1, <3>2, LiveIsNumber
  <2>3. /\ \A m, d \in Nat : m * d \in Nat
        /\ \A m, d \in Nat : (m + 1) * d = m * d + d
    BY Products
  <2> DEFINE work == Load * ProcessingDuration
             room == Posted * ProcessingDuration
  <2>4. /\ work \in Nat /\ room \in Nat
        /\ (Load + 1) * ProcessingDuration = work + ProcessingDuration
        /\ (Posted + 1) * ProcessingDuration = room + ProcessingDuration
    BY <1>3, <2>3
  <2>5. Base + work <= now + room
    <3>1. CASE Load > 0
      <4>1. Posted \in 1..Len(scenario) /\ nextInputIndex \in 1..Len(scenario)
            /\ Posted <= nextInputIndex
        BY <1>1, <1>3, <2>1, <3>1 DEF LoadInv
      <4>2. /\ scenario[Posted].arrivalOffset <= scenario[nextInputIndex].arrivalOffset
            /\ scenario[Posted].arrivalOffset \in 0..MaxNow
        BY <1>4, <4>1
      <4>3. Base + work <= scenario[Posted].arrivalOffset + room
        BY <1>1, <3>1 DEF LoadInv
      <4>4. /\ work \in Nat /\ room \in Nat /\ Base \in Int /\ now \in Nat
            /\ scenario[nextInputIndex].arrivalOffset = now
        BY <1>2, <1>3, <2>4
      <4> HIDE DEF work, room
      <4> QED
        BY <4>2, <4>3, <4>4
    <3>2. CASE Load = 0
      <4>1. activeProcessing = None
        BY <1>1, <3>2, HandlerFits, RunNumbers
      <4>2. Base = now
        BY <1>8, <4>1 DEF Base
      <4>3. work = 0
        BY <1>3, <3>2
      <4> HIDE DEF work, room
      <4> QED
        BY <1>3, <2>4, <4>2, <4>3
    <3> QED
      BY <1>3, <3>1, <3>2
  <2>6. Base' + Load' * ProcessingDuration <=
          scenario'[Posted'].arrivalOffset + Posted' * ProcessingDuration
    <3>1. /\ Posted' = Posted + 1 /\ scenario'[Posted'].arrivalOffset = now
      BY <1>2, <1>3, <2>1
    <3>2. /\ Load' * ProcessingDuration = work + ProcessingDuration
          /\ Posted' * ProcessingDuration = room + ProcessingDuration
      BY <2>2, <2>4, <3>1
    <3>3. /\ Base + work <= now + room
          /\ Base \in Int /\ work \in Nat /\ room \in Nat /\ now \in Nat
          /\ ProcessingDuration \in Nat
      BY <1>3, <2>4, <2>5
    <3> HIDE DEF work, room
    <3>4. Base + (work + ProcessingDuration) <= now + (room + ProcessingDuration)
      BY <3>3
    <3> QED
      BY <2>1, <3>1, <3>2, <3>4
  <2>7. \A id \in DOMAIN records' : records'[id].revision <= Served'
    BY <1>1, <1>7, <2>1 DEF LoadInv
  <2>8. Posted' > 0
    BY <1>3, <2>1
  <2> QED
    BY <2>6, <2>7, <2>8 DEF LoadInv
<1>14. TimeInv'
  <2>1. ASSUME nextInputIndex + 1 <= Len(scenario)
        PROVE  scenario[nextInputIndex + 1].arrivalOffset >= now
    <3>1. /\ nextInputIndex \in 1..Len(scenario) /\ nextInputIndex + 1 \in 1..Len(scenario)
          /\ nextInputIndex <= nextInputIndex + 1
      BY <1>3, <2>1
    <3>2. /\ scenario[nextInputIndex].arrivalOffset <= scenario[nextInputIndex + 1].arrivalOffset
          /\ scenario[nextInputIndex + 1].arrivalOffset \in 0..MaxNow
      BY <1>4, <3>1
    <3> QED
      BY <1>2, <1>3, <3>2
  <2>2. IsInputLeft' => nextInputIndex + 1 <= Len(scenario)
    BY <1>2 DEF IsInputLeft
  <2> QED
    BY <1>1, <1>2, <1>7, <2>1, <2>2 DEF TimeInv, TimelineEnd
<1>15. EndInv'
  BY <1>2 DEF EndInv
<1> QED
  BY <1>5, <1>9, <1>10, <1>11, <1>12, <1>13, <1>14, <1>15 DEF RunInv
------------------------------------------------------------------------------
(* The steps of a cycle *)

\* What any step of a cycle leaves alone, and what is known before and after it.
LEMMA CycleFrame ==
  ASSUME RunInv, RunHost
  PROVE  /\ CallerInv /\ CallerInv' /\ PipelineInv /\ PipelineInv' /\ IInv /\ IInv'
         /\ HostTypeOK /\ RunnerTypeOK
         /\ CommandInv /\ HandlerInv /\ WakeTimeInv /\ LoadInv
         /\ [Next]_vars
         /\ now' = now
         /\ RunsCycles
         /\ stage \notin {"Report", "Reject"}
         /\ ~result'.threw => phase' = phase
         /\ UNCHANGED <<scenario, nextInputIndex, activeProcessing,
                        expectedCompletionEmissionId, nextWakeOffset,
                        bLastCycleProducedDispatch, repeatedImmediateWake, bAnythingDue>>
         /\ DueIds(records)' \subseteq DueIds(records)
<1>1. /\ CallerInv /\ RunnerTypeOK /\ CommandInv /\ HandlerInv /\ WakeTimeInv /\ LoadInv
  BY DEF RunInv
<1>2. RunOneCycle /\ [HostNext]_hostVars
  BY DEF RunHost, HostNext
<1>3. PipelineInv /\ MailboxInv /\ HostTypeOK /\ IInv
  BY <1>1 DEF CallerInv, HostBase, PipelineInv
<1>4. CallerInv'
  BY <1>1, <1>2, CallerStep
<1>5. PipelineInv' /\ [Next]_vars /\ IInv'
  BY <1>2, <1>3, HostStepKeepsPipeline DEF PipelineInv
<1>6. now' = now
  BY <1>2, CyclesTakeNoTime
<1>7. DueIds(records)' \subseteq DueIds(records)
  BY <1>3, <1>5, <1>6, StepGrows
<1>8. /\ RunsCycles
      /\ stage \notin {"Report", "Reject"}
      /\ ~result'.threw => phase' = phase
      /\ UNCHANGED <<scenario, nextInputIndex, activeProcessing,
                     expectedCompletionEmissionId, nextWakeOffset,
                     bLastCycleProducedDispatch, repeatedImmediateWake, bAnythingDue>>
  BY <1>1 DEF RunHost, RunsCycles, WithCommand, CommandInv
<1> QED
  BY <1>1, <1>3, <1>4, <1>5, <1>6, <1>7, <1>8

\* Less work since then, or one emission less a processing later, ends no later.
LEMMA LessWork ==
  ASSUME NEW base \in Int, NEW load \in Nat, NEW duration \in Nat, NEW end \in Int,
         NEW left \in Nat, NEW since,
         \/ since = base /\ left <= load
         \/ since = base + duration /\ left <= load - 1,
         base + load * duration <= end
  PROVE  since + left * duration <= end
<1>1. /\ load * duration \in Nat /\ left * duration \in Nat
      /\ (left + 1) * duration = left * duration + duration
  BY Products
<1>2. CASE since = base /\ left <= load
  <2>1. left * duration <= load * duration
    BY <1>2, Products
  <2> DEFINE before == load * duration
             after == left * duration
  <2>2. before \in Nat /\ after \in Nat /\ after <= before /\ base + before <= end
    BY <1>1, <2>1
  <2> HIDE DEF before, after
  <2>3. since + after <= end
    BY <1>2, <2>2
  <2> QED
    BY <2>3 DEF after
<1>3. CASE since = base + duration /\ left <= load - 1
  <2>1. left + 1 \in Nat /\ left + 1 <= load
    BY <1>3
  <2>2. (left + 1) * duration <= load * duration
    BY <2>1, Products
  <2> DEFINE before == load * duration
             after == left * duration
  <2>3. before \in Nat /\ after \in Nat /\ after + duration <= before /\ base + before <= end
    BY <1>1, <2>2
  <2> HIDE DEF before, after
  <2>4. since + after <= end
    BY <1>3, <2>3
  <2> QED
    BY <2>4 DEF after
<1> QED
  BY <1>2, <1>3

\* The timeline keeps its room for the work that is left.
LEMMA LoadKept ==
  ASSUME CallerInv, RunnerTypeOK, LoadInv, UNCHANGED <<scenario, nextInputIndex>>,
         Load' \in Nat,
         InputWaits' => InputWaits,
         \A id \in DOMAIN records' : records'[id].revision <= Served',
         \/ Base' = Base /\ Load' <= Load
         \/ Base' = Base + ProcessingDuration /\ Load' <= Load - 1
  PROVE  LoadInv'
<1> DEFINE room == Posted * ProcessingDuration
           end == scenario[Posted].arrivalOffset + room
<1>1. /\ Base \in Int /\ Load \in Nat /\ ProcessingDuration \in Nat
      /\ Posted \in 0..Len(scenario) /\ Len(scenario) \in Nat
      /\ Posted' = Posted /\ scenario' = scenario
  BY RunNumbers DEF Posted
<1>2. InputWaits' => Posted' > 0
  BY <1>1 DEF LoadInv
<1>3. ASSUME Load' > 0
      PROVE  Posted' > 0 /\ Base' + Load' * ProcessingDuration <= end
  <2>1. Load > 0
    BY <1>1, <1>3
  <2>2. Posted > 0 /\ Base + Load * ProcessingDuration <= end
    BY <2>1 DEF LoadInv
  <2>3. scenario[Posted].arrivalOffset \in Nat
    BY <1>1, <2>2, ScenarioFacts DEF RunnerTypeOK
  <2>4. room \in Nat
    BY <1>1, Products
  <2>5. end \in Int
    <3> HIDE DEF room
    <3> QED
      BY <2>3, <2>4
  <2> HIDE DEF end
  <2> QED
    BY <1>1, <2>2, <2>5, LessWork
<1> QED
  BY <1>1, <1>2, <1>3 DEF LoadInv

\* The work of a queue that loses emissions or keeps them.
LEMMA ShrinkingKeepsLoad ==
  ASSUME CallerInv, CallerInv', RunnerTypeOK, LoadInv, Shrinks,
         UNCHANGED <<scenario, nextInputIndex, Base, InputWaits>>
  PROVE  LoadInv'
<1>1. IInv /\ IInv'
  BY DEF CallerInv, HostBase, PipelineInv
<1>2. Load' \in Nat /\ Load' <= Load
  <2>1. /\ Cardinality(DOMAIN records) \in Nat /\ Cardinality(DOMAIN records)' \in Nat
        /\ Cardinality(DOMAIN records)' <= Cardinality(DOMAIN records)
    BY <1>1, LiveCount DEF Shrinks
  <2>2. CASE InputWaits
    BY <2>1, <2>2 DEF Load
  <2>3. CASE ~InputWaits
    BY <2>1, <2>3 DEF Load
  <2> QED
    BY <2>2, <2>3
<1>3. \A id \in DOMAIN records' : records'[id].revision <= Served'
  <2>1. Served' = Served
    BY DEF Served, Posted
  <2> QED
    BY <2>1 DEF LoadInv, Shrinks
<1> QED
  BY <1>2, <1>3, LoadKept

\* The cycle starts with the expirations.
LEMMA BeginCycleKeeps ==
  ASSUME RunInv, RunHost, BeginCycle
  PROVE  CommandInv' /\ HandlerInv' /\ WakeTimeInv' /\ LoadInv'
<1>1. /\ stage = "Idle" /\ stage' = "Lease" /\ result' = NoResult
      /\ postedCommands' = postedCommands
      /\ ProcessPipelineExpirations /\ ProcessDueExpirations
  BY DEF BeginCycle, mailboxVars, ProcessPipelineExpirations
<1>2. /\ ~result'.threw /\ ~result'.more /\ result'.completed = 0 /\ result'.dispatch = 0
      /\ result'.processed = "None" /\ result'.wake = None
  BY <1>1 DEF NoResult
<1>3. /\ CallerInv /\ CallerInv' /\ PipelineInv /\ IInv /\ RunnerTypeOK
      /\ CommandInv /\ HandlerInv /\ WakeTimeInv /\ LoadInv
      /\ now' = now /\ RunsCycles /\ phase' = phase
      /\ UNCHANGED <<scenario, nextInputIndex, activeProcessing,
                     expectedCompletionEmissionId, nextWakeOffset,
                     bLastCycleProducedDispatch>>
  BY <1>2, CycleFrame
<1>4. /\ UNCHANGED <<WithCommand, RunsCycles, IsUnserved, InputWaits, TheCommands>>
      /\ IsUnserved
  BY <1>1, <1>3 DEF WithCommand, RunsCycles, IsUnserved, InputWaits, TheCommands
<1>5. CommandInv'
  BY <1>1, <1>2, <1>3, <1>4 DEF CommandInv
<1>6. HandlerInv'
  <2>1. BeingProcessed(bindings') = BeingProcessed(bindings)
    BY <1>1, <1>3, ProcessingGoesOn
  <2>2. InHands' = InHands
    BY <1>1, <1>2, <1>3, <1>4 DEF InHands, CommandInv
  <2> QED
    BY <1>1, <1>2, <1>3, <2>1, <2>2 DEF HandlerInv
<1>7. WakeTimeInv'
  BY <1>1, <1>2, <1>3, ExpirationsClear DEF WakeTimeInv
<1>8. LoadInv'
  <2>1. Shrinks
    BY <1>1, <1>3, LookingShrinks
  <2>2. Base' = Base
    BY <1>3, <1>4 DEF Base
  <2> QED
    BY <1>3, <1>4, <2>1, <2>2, ShrinkingKeepsLoad
<1> QED
  BY <1>5, <1>6, <1>7, <1>8

\* Nothing was posted for a cycle that only looks after the queue.
LEMMA FindNoCommandKeeps ==
  ASSUME RunInv, RunHost, FindNoCommand
  PROVE  CommandInv' /\ HandlerInv' /\ WakeTimeInv' /\ LoadInv'
<1>1. /\ stage = "Lease" /\ stage' = "Dispatch" /\ postedCommands = <<>>
      /\ UNCHANGED <<result, postedCommands, records, bindings, pendingReadyEmission,
                     inFlightEmissionId>>
  BY DEF FindNoCommand, mailboxVars, pipelineVars, vars, queueVars, externalVars
<1>2. CommandInv /\ ~result.threw
  BY CycleFrame DEF CommandInv
<1>3. /\ CallerInv /\ CallerInv' /\ PipelineInv /\ IInv /\ RunnerTypeOK
      /\ HandlerInv /\ WakeTimeInv /\ LoadInv
      /\ now' = now /\ RunsCycles /\ phase' = phase
      /\ UNCHANGED <<scenario, nextInputIndex, activeProcessing,
                     expectedCompletionEmissionId, nextWakeOffset,
                     bLastCycleProducedDispatch>>
      /\ DueIds(records)' \subseteq DueIds(records)
  BY <1>1, <1>2, CycleFrame
<1>4. ~WithCommand /\ phase = "Maintenance"
  BY <1>1, <1>2, <1>3 DEF CommandInv, RunsCycles
<1>5. UNCHANGED <<InputWaits, WithCommand, RunsCycles>>
  BY <1>3, <1>4 DEF InputWaits, WithCommand, RunsCycles
<1>6. CommandInv'
  BY <1>1, <1>2, <1>3, <1>4, <1>5 DEF CommandInv
<1>7. HandlerInv'
  <2>1. InHands' = InHands
    BY <1>1, <1>3, <1>4 DEF InHands
  <2> QED
    BY <1>1, <1>3, <1>4, <2>1 DEF HandlerInv
<1>8. WakeTimeInv'
  BY <1>1, <1>3 DEF WakeTimeInv
<1>9. LoadInv'
  <2>1. Base' = Base /\ Shrinks
    BY <1>1, <1>3, <1>4 DEF Base, Shrinks
  <2> QED
    BY <1>3, <1>5, <2>1, ShrinkingKeepsLoad
<1> QED
  BY <1>6, <1>7, <1>8, <1>9

\* The completion that was posted is the one in front, and the coordinator takes it.
LEMMA CompletionServedKeeps ==
  ASSUME RunInv, RunHost, ProcessPostedCommand, phase = "CompletionCycles"
  PROVE  CommandInv' /\ HandlerInv' /\ WakeTimeInv' /\ LoadInv'
<1> DEFINE id == expectedCompletionEmissionId
<1>1. /\ CallerInv /\ CallerInv' /\ PipelineInv /\ PipelineInv' /\ IInv /\ IInv'
      /\ HostTypeOK /\ RunnerTypeOK
      /\ CommandInv /\ HandlerInv /\ WakeTimeInv /\ LoadInv
      /\ now' = now
      /\ ~result'.threw => phase' = phase
      /\ UNCHANGED <<scenario, nextInputIndex, activeProcessing,
                     expectedCompletionEmissionId, nextWakeOffset,
                     bLastCycleProducedDispatch>>
      /\ DueIds(records)' \subseteq DueIds(records)
  BY CycleFrame
<1>2. /\ stage = "Lease" /\ postedCommands # <<>> /\ postedCommands' = postedCommands
      /\ Tail(postedCommands) = <<>>
      /\ Head(postedCommands).command = CompletionCommand(id)
      /\ result.dispatch = 0 /\ ~result.threw /\ ~result.more /\ result.wake = None
      /\ activeProcessing = None /\ id # 0
  BY <1>1 DEF ProcessPostedCommand, mailboxVars, CommandInv, WithCommand, TheCommands,
              HandlerInv, WakeTimeInv
<1>3. id \in BeingProcessed(bindings)
  BY <1>1, <1>2 DEF HandlerInv, InHands, IsUnserved
<1>4. CompleteProcessing(id, TRUE, Chat)
  <2>1. Perform(CompletionCommand(id))
    BY <1>2 DEF ProcessPostedCommand
  <2> QED
    BY <2>1 DEF Perform, CompletionCommand
<1>5. /\ Confirm(id) /\ outcome'.status = "Completed"
      /\ BeingProcessed(bindings') = {}
      /\ id \in DOMAIN records /\ id \notin DOMAIN bindings'
  BY <1>1, <1>3, <1>4, CompletionEnds
<1>6. /\ stage' = "Acknowledge"
      /\ result' = [result EXCEPT !.sequence = Head(postedCommands).sequence,
                                  !.processed = "Completion",
                                  !.completed = id]
  <2> DEFINE command == Head(postedCommands).command
  <2>1. command.kind = "Completion" /\ command.detail.id = id
    BY <1>2 DEF CompletionCommand
  <2>2. MayAcknowledge(outcome'.status) /\ outcome'.status # "RejectedCompletion"
    BY <1>5 DEF MayAcknowledge
  <2>3. /\ stage' = "Acknowledge"
        /\ result' = [result EXCEPT !.sequence = Head(postedCommands).sequence,
                                    !.processed = command.kind,
                                    !.completed = IF command.kind = "Completion"
                                                  THEN command.detail.id ELSE 0]
    BY <2>2 DEF ProcessPostedCommand
  <2> QED
    BY <2>1, <2>3
<1>7. /\ result'.processed = "Completion" /\ result'.completed = id
      /\ result'.dispatch = 0 /\ ~result'.threw /\ ~result'.more /\ result'.wake = None
  BY <1>1, <1>2, <1>6 DEF HostTypeOK, Result
<1>8. phase' = phase
  BY <1>1, <1>7
<1>9. /\ WithCommand /\ WithCommand' /\ RunsCycles' /\ ~IsUnserved' /\ IsUnserved
      /\ InputWaits' = InputWaits /\ ~InputWaits /\ TheCommands' = TheCommands
  BY <1>1, <1>2, <1>6, <1>8
  DEF WithCommand, RunsCycles, IsUnserved, InputWaits, TheCommands
<1>10. CommandInv'
  BY <1>1, <1>2, <1>6, <1>7, <1>8, <1>9 DEF CommandInv
<1>11. HandlerInv'
  <2>1. InHands' = {}
    BY <1>1, <1>2, <1>7, <1>9 DEF InHands
  <2> QED
    BY <1>1, <1>2, <1>5, <1>6, <1>8, <2>1 DEF HandlerInv
<1>12. WakeTimeInv'
  BY <1>1, <1>2, <1>6, <1>7 DEF WakeTimeInv
<1>13. LoadInv'
  <2>1. Shrinks
    BY <1>1, <1>5, LookingShrinks
  <2>2. DOMAIN records' \subseteq DOMAIN records \ {id}
    BY <1>1, <1>5, <2>1 DEF Shrinks, PipelineInv, BindingsMatchCore
  <2>3. /\ Cardinality(DOMAIN records) \in Nat /\ Cardinality(DOMAIN records)' \in Nat
        /\ Cardinality(DOMAIN records)' <= Cardinality(DOMAIN records) - 1
    BY <1>1, <1>5, <2>2, LiveCount
  <2>4. /\ Load = Cardinality(DOMAIN records) + 0
        /\ Load' = Cardinality(DOMAIN records)' + 0
    BY <1>9 DEF Load
  <2>5. Load' \in Nat /\ Load' <= Load - 1
    BY <2>3, <2>4
  <2>6. Base = now - ProcessingDuration /\ Base' = now
    BY <1>1, <1>2, <1>8, <1>9 DEF Base
  <2>7. now \in Nat /\ ProcessingDuration \in Nat
    BY <1>1, RunNumbers
  <2>8. Base' = Base + ProcessingDuration
    BY <2>6, <2>7
  <2>9. \A other \in DOMAIN records' : records'[other].revision <= Served'
    <3>1. Served' = Served
      BY <1>1, <1>9 DEF Served, Posted
    <3> QED
      BY <1>1, <2>1, <3>1 DEF LoadInv, Shrinks
  <2> QED
    BY <1>1, <1>9, <2>5, <2>8, <2>9, LoadKept
<1> QED
  BY <1>10, <1>11, <1>12, <1>13

\* The input that was posted is the one in front, and the coordinator answers it: no
\* batch of a user is due, and a record has a revision for every input.
LEMMA InputServedKeeps ==
  ASSUME RunInv, RunHost, ProcessPostedCommand, phase = "InputCycles"
  PROVE  CommandInv' /\ HandlerInv' /\ WakeTimeInv' /\ LoadInv'
<1>1. /\ CallerInv /\ CallerInv' /\ PipelineInv /\ PipelineInv' /\ IInv /\ IInv'
      /\ HostTypeOK /\ RunnerTypeOK
      /\ CommandInv /\ HandlerInv /\ WakeTimeInv /\ LoadInv
      /\ [Next]_vars /\ now' = now
      /\ ~result'.threw => phase' = phase
      /\ UNCHANGED <<scenario, nextInputIndex, activeProcessing,
                     expectedCompletionEmissionId, nextWakeOffset,
                     bLastCycleProducedDispatch>>
      /\ DueIds(records)' \subseteq DueIds(records)
  BY CycleFrame
<1>2. /\ stage = "Lease" /\ postedCommands # <<>> /\ postedCommands' = postedCommands
      /\ Tail(postedCommands) = <<>>
      /\ result.dispatch = 0 /\ ~result.threw /\ ~result.more /\ result.wake = None
      /\ result.completed = 0
      /\ expectedCompletionEmissionId = 0
  BY <1>1 DEF ProcessPostedCommand, mailboxVars, CommandInv, WithCommand, WakeTimeInv
<1>3. PICK input \in ChatInputs : Head(postedCommands).command = InputCommand(input)
  BY <1>1, <1>2 DEF CommandInv, WithCommand, TheCommands
<1>4. SubmitChat(input) \/ SubmitChatThrows(input)
  <2>1. Perform(InputCommand(input))
    BY <1>3 DEF ProcessPostedCommand
  <2> QED
    BY <2>1 DEF Perform, InputCommand
<1>5. InputWaits /\ Posted > 0 /\ Served = Posted - 1
  BY <1>1, <1>2 DEF LoadInv, InputWaits, IsUnserved, Served
<1>6. \A id \in DOMAIN records : records[id].revision < MaxRevision
  <2>1. /\ Posted \in 0..Len(scenario) /\ Len(scenario) \in 1..MaxInputs
        /\ MaxInputs \in Nat /\ MaxRevision \in Nat /\ MaxInputs <= MaxRevision
    BY <1>1, RunNumbers, ScenarioFacts, RunnerAssumption, TypesAssumption DEF RunnerTypeOK
  <2>2. \A id \in DOMAIN records : records[id].revision \in Nat
                                   /\ records[id].revision <= Posted - 1
    BY <1>1, <1>5 DEF LoadInv, IInv, TypeOK, Record, Revision
  <2> QED
    BY <2>1, <2>2
<1>7. outcome'.status \notin {"LogicError", "RejectedCompletion"}
  BY <1>1, <1>2, <1>4, <1>6, InputAnswered DEF WakeTimeInv
<1>8. /\ stage' = "Acknowledge"
      /\ result' = [result EXCEPT !.sequence = Head(postedCommands).sequence,
                                  !.processed = "Input",
                                  !.completed = 0]
  <2> DEFINE command == Head(postedCommands).command
  <2>1. command.kind = "Input"
    BY <1>3 DEF InputCommand
  <2>2. MayAcknowledge(outcome'.status) /\ outcome'.status # "RejectedCompletion"
    BY <1>7 DEF MayAcknowledge
  <2>3. /\ stage' = "Acknowledge"
        /\ result' = [result EXCEPT !.sequence = Head(postedCommands).sequence,
                                    !.processed = command.kind,
                                    !.completed = IF command.kind = "Completion"
                                                  THEN command.detail.id ELSE 0]
    BY <2>2 DEF ProcessPostedCommand
  <2> QED
    BY <2>1, <2>3
<1>9. /\ result'.processed = "Input" /\ result'.completed = 0
      /\ result'.dispatch = 0 /\ ~result'.threw /\ ~result'.more /\ result'.wake = None
  BY <1>1, <1>2, <1>8 DEF HostTypeOK, Result
<1>10. phase' = phase
  BY <1>1, <1>9
<1>11. /\ WithCommand /\ WithCommand' /\ RunsCycles'
       /\ ~InputWaits' /\ TheCommands' = TheCommands
  BY <1>1, <1>2, <1>8, <1>10
  DEF WithCommand, RunsCycles, IsUnserved, InputWaits, TheCommands
<1>12. CommandInv'
  BY <1>1, <1>2, <1>8, <1>9, <1>10, <1>11 DEF CommandInv
<1>13. HandlerInv'
  <2>1. BeingProcessed(bindings') = BeingProcessed(bindings)
    BY <1>1, <1>4, ProcessingGoesOn
  <2>2. InHands' = InHands
    BY <1>1, <1>2, <1>9, <1>10 DEF InHands
  <2> QED
    BY <1>1, <1>8, <1>9, <1>10, <2>1, <2>2 DEF HandlerInv
<1>14. WakeTimeInv'
  BY <1>1, <1>2, <1>8, <1>9 DEF WakeTimeInv
<1>15. LoadInv'
  <2>1. /\ DOMAIN records' \subseteq DOMAIN records \cup {nextIdentity}
        /\ \A id \in DOMAIN records' :
             records'[id].revision <= IF id \in DOMAIN records
                                      THEN records[id].revision + 1 ELSE 1
    BY <1>1, StepGrows
  <2>2. /\ Cardinality(DOMAIN records) \in Nat /\ Cardinality(DOMAIN records)' \in Nat
        /\ Cardinality(DOMAIN records)' <= Cardinality(DOMAIN records) + 1
    BY <1>1, <2>1, LiveCount
  <2>3. /\ Load = Cardinality(DOMAIN records) + 1
        /\ Load' = Cardinality(DOMAIN records)' + 0
    BY <1>5, <1>11 DEF Load
  <2>4. Load' \in Nat /\ Load' <= Load
    BY <2>2, <2>3
  <2>5. Base' = Base
    BY <1>1, <1>10 DEF Base
  <2>6. \A id \in DOMAIN records' : records'[id].revision <= Served'
    <3>1. Posted \in Nat /\ Served' = Posted
      BY <1>1, <1>11, RunNumbers DEF Served, Posted
    <3>2. \A id \in DOMAIN records : records[id].revision \in Nat
                                     /\ records[id].revision <= Posted - 1
      BY <1>1, <1>5 DEF LoadInv, IInv, TypeOK, Record, Revision
    <3>3. \A id \in DOMAIN records' : records'[id].revision \in Nat
      BY <1>1 DEF IInv, TypeOK, Record, Revision
    <3> QED
      BY <1>5, <2>1, <3>1, <3>2, <3>3
  <2> QED
    BY <1>1, <1>11, <2>4, <2>5, <2>6, LoadKept
<1> QED
  BY <1>12, <1>13, <1>14, <1>15

\* Steps of a cycle that leave the queue, the result and the command as they are.
LEMMA PassingKeeps ==
  ASSUME RunInv, RunHost,
         UNCHANGED <<result, records, bindings, pendingReadyEmission, inFlightEmissionId>>,
         \/ FindNothingReady
         \/ Acknowledge
  PROVE  CommandInv' /\ HandlerInv' /\ WakeTimeInv' /\ LoadInv'
<1>1. CommandInv /\ ~result.threw
  BY CycleFrame DEF CommandInv
<1>2. /\ CallerInv /\ CallerInv' /\ RunnerTypeOK
      /\ HandlerInv /\ WakeTimeInv /\ LoadInv
      /\ now' = now /\ RunsCycles /\ phase' = phase
      /\ UNCHANGED <<scenario, nextInputIndex, activeProcessing,
                     expectedCompletionEmissionId, nextWakeOffset,
                     bLastCycleProducedDispatch>>
      /\ DueIds(records)' \subseteq DueIds(records)
  BY <1>1, CycleFrame
<1>3. /\ stage \in {"Acknowledge", "Dispatch"} /\ stage' \in {"Dispatch", "Pump"}
      /\ postedCommands' = <<>>
  <2>1. CASE FindNothingReady
    BY <1>1, <2>1 DEF FindNothingReady, CommandInv, mailboxVars
  <2>2. CASE Acknowledge
    BY <1>1, <2>2 DEF Acknowledge, AcknowledgeCommandLease, MayDispatchOrPump, CommandInv
  <2> QED
    BY <2>1, <2>2
<1>4. /\ UNCHANGED <<WithCommand, RunsCycles, InputWaits>>
      /\ ~IsUnserved /\ ~IsUnserved' /\ ~InputWaits
  BY <1>2, <1>3 DEF WithCommand, RunsCycles, InputWaits, IsUnserved
<1>5. CommandInv'
  BY <1>1, <1>2, <1>3, <1>4 DEF CommandInv
<1>6. HandlerInv'
  <2>1. InHands' = InHands
    BY <1>2, <1>4 DEF InHands
  <2> QED
    BY <1>2, <1>3, <2>1 DEF HandlerInv
<1>7. WakeTimeInv'
  BY <1>2, <1>3 DEF WakeTimeInv
<1>8. LoadInv'
  <2>1. Base' = Base /\ Shrinks
    BY <1>2, <1>4 DEF Base, Shrinks
  <2> QED
    BY <1>2, <1>4, <2>1, ShrinkingKeepsLoad
<1> QED
  BY <1>5, <1>6, <1>7, <1>8

\* A dispatch goes to nobody but an idle handler.
LEMMA DispatchKeeps ==
  ASSUME RunInv, RunHost, BeginPendingDispatch
  PROVE  CommandInv' /\ HandlerInv' /\ WakeTimeInv' /\ LoadInv'
<1>1. /\ CallerInv /\ CallerInv' /\ PipelineInv /\ HostTypeOK /\ RunnerTypeOK
      /\ CommandInv /\ HandlerInv /\ WakeTimeInv /\ LoadInv
      /\ now' = now /\ RunsCycles
      /\ ~result'.threw => phase' = phase
      /\ UNCHANGED <<scenario, nextInputIndex, activeProcessing,
                     expectedCompletionEmissionId, nextWakeOffset,
                     bLastCycleProducedDispatch>>
      /\ DueIds(records)' \subseteq DueIds(records)
  BY CycleFrame
<1>2. /\ stage \in {"Dispatch", "DispatchPumped"} /\ stage' = "Wake"
      /\ pendingReadyEmission # None
      /\ BeginProcessing(pendingReadyEmission.flow)
      /\ result' = [result EXCEPT !.dispatch = outcome'.emissionId]
      /\ postedCommands' = postedCommands
  BY DEF BeginPendingDispatch, AfterDispatch, mailboxVars
<1>3. /\ outcome'.emissionId \in Identity /\ outcome'.emissionId # 0
      /\ BeingProcessed(bindings') = {outcome'.emissionId}
  BY <1>1, <1>2, BeginIsAlone, TypesAssumption DEF Identity
<1>4. records' = records
  BY <1>2 DEF BeginProcessing, vars, queueVars
<1>5. /\ ~result.threw /\ ~result.more /\ result.processed # "FlowSettingsUpdate"
      /\ postedCommands = <<>>
  BY <1>1, <1>2 DEF CommandInv
<1>6. /\ result'.dispatch = outcome'.emissionId
      /\ result'.threw = result.threw /\ result'.more = result.more
      /\ result'.completed = result.completed /\ result'.processed = result.processed
      /\ result'.wake = result.wake
  BY <1>1, <1>2 DEF HostTypeOK, Result
<1>7. phase' = phase
  BY <1>1, <1>5, <1>6
<1>8. BeingProcessed(bindings) = {}
  BY <1>1, <1>2 DEF BeingProcessed, PipelineInv, ReadyMatchesCore
<1>9. activeProcessing = None
  BY <1>1, <1>8 DEF HandlerInv, InHands
<1>10. /\ UNCHANGED <<WithCommand, RunsCycles, InputWaits>>
       /\ ~IsUnserved /\ ~IsUnserved' /\ ~InputWaits
  BY <1>1, <1>2, <1>7 DEF WithCommand, RunsCycles, InputWaits, IsUnserved
<1>11. CommandInv'
  BY <1>1, <1>2, <1>5, <1>6, <1>7, <1>10 DEF CommandInv
<1>12. HandlerInv'
  <2>1. InHands' = {outcome'.emissionId}
    BY <1>1, <1>3, <1>6, <1>9 DEF InHands
  <2> QED
    BY <1>1, <1>2, <1>3, <1>7, <1>9, <2>1 DEF HandlerInv
<1>13. WakeTimeInv'
  BY <1>1, <1>2, <1>6 DEF WakeTimeInv
<1>14. LoadInv'
  <2>1. Base' = Base /\ Shrinks
    BY <1>1, <1>4, <1>7, <1>10 DEF Base, Shrinks
  <2> QED
    BY <1>1, <1>10, <2>1, ShrinkingKeepsLoad
<1> QED
  BY <1>11, <1>12, <1>13, <1>14

\* The pump may make an emission ready, or nothing.
LEMMA PumpOnceKeeps ==
  ASSUME RunInv, RunHost, PumpOnce
  PROVE  CommandInv' /\ HandlerInv' /\ WakeTimeInv' /\ LoadInv'
<1>1. CommandInv /\ ~result.threw
  BY CycleFrame DEF CommandInv
<1>2. /\ stage = "Pump" /\ stage' \in {"DispatchPumped", "Wake"}
      /\ PumpPipeline /\ Pump
      /\ postedCommands' = postedCommands /\ result' = result
  BY DEF PumpOnce, AfterPump, PumpPipeline, mailboxVars
<1>3. /\ CallerInv /\ CallerInv' /\ PipelineInv /\ IInv /\ RunnerTypeOK
      /\ HandlerInv /\ WakeTimeInv /\ LoadInv
      /\ now' = now /\ RunsCycles /\ phase' = phase
      /\ UNCHANGED <<scenario, nextInputIndex, activeProcessing,
                     expectedCompletionEmissionId, nextWakeOffset,
                     bLastCycleProducedDispatch>>
      /\ DueIds(records)' \subseteq DueIds(records)
  BY <1>1, <1>2, CycleFrame
<1>4. /\ UNCHANGED <<WithCommand, RunsCycles, InputWaits>>
      /\ ~IsUnserved /\ ~IsUnserved' /\ ~InputWaits
  BY <1>2, <1>3 DEF WithCommand, RunsCycles, InputWaits, IsUnserved
<1>5. CommandInv'
  BY <1>1, <1>2, <1>3, <1>4 DEF CommandInv
<1>6. HandlerInv'
  <2>1. BeingProcessed(bindings') = BeingProcessed(bindings)
    BY <1>2, <1>3, ProcessingGoesOn
  <2>2. InHands' = InHands
    BY <1>2, <1>3, <1>4 DEF InHands
  <2> QED
    BY <1>2, <1>3, <2>1, <2>2 DEF HandlerInv
<1>7. WakeTimeInv'
  BY <1>2, <1>3 DEF WakeTimeInv
<1>8. LoadInv'
  <2>1. Shrinks
    BY <1>2, <1>3, LookingShrinks
  <2>2. Base' = Base
    BY <1>3, <1>4 DEF Base
  <2> QED
    BY <1>3, <1>4, <2>1, <2>2, ShrinkingKeepsLoad
<1> QED
  BY <1>5, <1>6, <1>7, <1>8

\* When nothing is due, the wake-up time lies ahead and something waits for it.
LEMMA WakeAhead ==
  ASSUME IInv, GetNextWakeTime, DueIds(records) = {}
  PROVE  reply'.wake # None => /\ Finite(reply'.wake) /\ reply'.wake > now
                               /\ Pending(records) # {}
<1> DEFINE current == {key \in expirationIndex : IsExpirationEntryCurrent(key, records)}
<1>1. CASE reply' = Answer("GetNextWakeTime", "NoWakeScheduled")
  BY <1>1 DEF Answer
<1>2. ASSUME NEW front \in current,
             reply' = [Answer("GetNextWakeTime", "WakeScheduled") EXCEPT
                         !.wake = front.expiresAt]
      PROVE  /\ Finite(reply'.wake) /\ reply'.wake > now
             /\ Pending(records) # {}
  <2>1. reply'.wake = front.expiresAt
    BY <1>2 DEF Answer
  <2>2. /\ front.emissionId \in Pending(records) /\ Finite(front.expiresAt)
        /\ front.expiresAt = records[front.emissionId].envelope.expiresAt
    BY <1>2 DEF IsExpirationEntryCurrent, ExpirationKeyOf
  <2>3. front.expiresAt \in Nat /\ now \in Nat
    BY <1>2, TypesAssumption, CoreAssumption DEF IInv, TypeOK, ExpirationKey, Time
  <2>4. ~(front.expiresAt <= now)
    BY <2>2 DEF DueIds, Due
  <2> QED
    BY <2>1, <2>2, <2>3, <2>4
<1> QED
  BY <1>1, <1>2 DEF GetNextWakeTime

\* The wake-up time is asked for last.
LEMMA FindNextWakeTimeKeeps ==
  ASSUME RunInv, RunHost, FindNextWakeTime
  PROVE  CommandInv' /\ HandlerInv' /\ WakeTimeInv' /\ LoadInv'
<1>1. /\ CallerInv /\ CallerInv' /\ PipelineInv /\ IInv /\ HostTypeOK /\ RunnerTypeOK
      /\ CommandInv /\ HandlerInv /\ WakeTimeInv /\ LoadInv
      /\ now' = now /\ RunsCycles
      /\ ~result'.threw => phase' = phase
      /\ UNCHANGED <<scenario, nextInputIndex, activeProcessing,
                     expectedCompletionEmissionId, nextWakeOffset,
                     bLastCycleProducedDispatch>>
      /\ DueIds(records)' \subseteq DueIds(records)
  BY CycleFrame
<1>2. /\ stage = "Wake" /\ stage' = "Report"
      /\ GetNextWakeTime
      /\ result' = [result EXCEPT !.wake = reply'.wake]
      /\ postedCommands' = postedCommands
      /\ UNCHANGED <<bindings, pendingReadyEmission, records, inFlightEmissionId>>
  BY DEF FindNextWakeTime, AskWake, GetNextWakeTime, mailboxVars, externalVars
<1>3. /\ ~result.threw /\ ~result.more /\ result.processed # "FlowSettingsUpdate"
      /\ postedCommands = <<>>
  BY <1>1, <1>2 DEF CommandInv
<1>4. /\ result'.wake = reply'.wake
      /\ result'.threw = result.threw /\ result'.more = result.more
      /\ result'.completed = result.completed /\ result'.processed = result.processed
      /\ result'.dispatch = result.dispatch
  BY <1>1, <1>2 DEF HostTypeOK, Result
<1>5. phase' = phase
  BY <1>1, <1>3, <1>4
<1>6. /\ UNCHANGED <<WithCommand, RunsCycles, InputWaits>>
      /\ ~IsUnserved /\ ~IsUnserved' /\ ~InputWaits
  BY <1>1, <1>2, <1>5 DEF WithCommand, RunsCycles, InputWaits, IsUnserved
<1>7. CommandInv'
  BY <1>1, <1>2, <1>3, <1>4, <1>5, <1>6 DEF CommandInv
<1>8. HandlerInv'
  <2>1. InHands' = InHands
    BY <1>1, <1>4, <1>5, <1>6 DEF InHands
  <2> QED
    BY <1>1, <1>2, <1>4, <1>5, <2>1 DEF HandlerInv
<1>9. WakeTimeInv'
  <2>1. DueIds(records) = {}
    BY <1>1, <1>2 DEF WakeTimeInv
  <2>2. Pending(records)' = Pending(records)
    BY <1>2 DEF Pending
  <2> QED
    BY <1>1, <1>2, <1>4, <2>1, <2>2, WakeAhead DEF WakeTimeInv
<1>10. LoadInv'
  <2>1. Base' = Base /\ Shrinks
    BY <1>1, <1>2, <1>5, <1>6 DEF Base, Shrinks
  <2> QED
    BY <1>1, <1>6, <2>1, ShrinkingKeepsLoad
<1> QED
  BY <1>7, <1>8, <1>9, <1>10

\* A cycle of the runner does not throw, so it goes on to its report.
LEMMA RunHostKeeps ==
  ASSUME RunInv, RunHost
  PROVE  RunInv'
<1>1. /\ CallerInv' /\ IInv' /\ RunnerTypeOK /\ CommandInv
      /\ now' = now
      /\ stage \notin {"Report", "Reject"}
      /\ RunsCycles
      /\ ~result'.threw => phase' = phase
      /\ UNCHANGED <<scenario, nextInputIndex, activeProcessing,
                     expectedCompletionEmissionId, nextWakeOffset,
                     bLastCycleProducedDispatch, repeatedImmediateWake, bAnythingDue>>
  BY CycleFrame
<1>2. CommandInv' /\ HandlerInv' /\ WakeTimeInv' /\ LoadInv'
  <2>1. CASE BeginCycle
    BY <2>1, BeginCycleKeeps
  <2>2. CASE FindNoCommand
    BY <2>2, FindNoCommandKeeps
  <2>3. CASE ProcessPostedCommand
    <3>1. WithCommand
      BY <1>1, <2>3 DEF ProcessPostedCommand, CommandInv
    <3> QED
      BY <2>3, <3>1, CompletionServedKeeps, InputServedKeeps DEF WithCommand
  <2>4. CASE Acknowledge
    BY <2>4, PassingKeeps DEF Acknowledge, pipelineVars, vars, queueVars, externalVars
  <2>5. CASE FindNothingReady
    BY <2>5, PassingKeeps DEF FindNothingReady, pipelineVars, vars, queueVars, externalVars
  <2>6. CASE BeginPendingDispatch
    BY <2>6, DispatchKeeps
  <2>7. CASE PumpOnce
    BY <2>7, PumpOnceKeeps
  <2>8. CASE FindNextWakeTime
    BY <2>8, FindNextWakeTimeKeeps
  <2>9. ~Reject /\ ~ReturnResult
    BY <1>1 DEF Reject, ReturnResult
  <2>10. ~CycleThrows
    BY RunnerAssumption DEF CycleThrows
  <2> QED
    BY <2>1, <2>2, <2>3, <2>4, <2>5, <2>6, <2>7, <2>8, <2>9, <2>10 DEF RunHost, RunOneCycle
<1>3. phase' = phase
  BY <1>1, <1>2 DEF CommandInv
<1>4. RunnerTypeOK' /\ RunnerNeverThrows'
  <2>1. eventful' \in BOOLEAN
    BY DEF RunHost
  <2> QED
    BY <1>1, <1>3, <2>1 DEF RunnerTypeOK, RunnerNeverThrows, RunInv, IInv
<1>5. TimeInv' /\ EndInv'
  BY <1>1, <1>3 DEF RunInv, TimeInv, EndInv, IsInputLeft, TimelineEnd
<1> QED
  BY <1>1, <1>2, <1>4, <1>5 DEF RunInv

\* The result of a cycle is as the runner expects it, and what the runner keeps of it
\* takes the dispatch over from the cycle.
LEMMA ReceiveResultKeeps ==
  ASSUME RunInv, ReceiveResult
  PROVE  RunInv'
<1>1. /\ CallerInv /\ RunnerTypeOK /\ CommandInv /\ HandlerInv /\ WakeTimeInv /\ LoadInv
      /\ TimeInv /\ HostTypeOK
  BY DEF RunInv, CallerInv, HostBase
<1>2. /\ stage = "Report" /\ stage' = "Idle"
      /\ result' = [NoResult EXCEPT !.wake = result.wake, !.more = MoreCommandsPending]
      /\ UNCHANGED <<now, records, inFlightEmissionId, bindings, pendingReadyEmission,
                     postedCommands>>
      /\ UNCHANGED <<TypeOK, Busy, Pending(records)>>
      /\ RunOneCycle
  BY DEF ReceiveResult, ReturnResult, RunOneCycle, pipelineVars, vars, queueVars,
         externalVars, mailboxVars, TypeOK, Busy, Pending
<1>3. CallerInv'
  BY <1>1, <1>2, CallerStep DEF HostNext
<1>4. /\ postedCommands = <<>>
      /\ result.completed = IF phase = "CompletionCycles"
                            THEN expectedCompletionEmissionId ELSE 0
      /\ phase = "CompletionCycles" <=> expectedCompletionEmissionId # 0
  BY <1>1, <1>2 DEF CommandInv, IsUnserved
<1>5. /\ result'.wake = result.wake /\ result'.more = FALSE /\ result'.threw = FALSE
      /\ result'.completed = 0 /\ result'.dispatch = 0 /\ result'.processed = "None"
  BY <1>2, <1>4 DEF NoResult, MoreCommandsPending
<1>6. /\ result.wake \in Time \cup {None} /\ result.dispatch \in Identity \cup {0}
      /\ result.wake # None => Finite(result.wake) /\ result.wake > now
                               /\ Pending(records) # {}
      /\ activeProcessing # None => result.dispatch = 0
  BY <1>1, <1>2 DEF HostTypeOK, Result, WakeTimeInv, HandlerInv
<1>7. /\ now \in 0..MaxNow /\ MaxNow \in Nat /\ ProcessingDuration \in Nat
      /\ TimelineEnd(scenario) \in 0..MaxNow /\ MaxNow < MaxTime /\ MaxTime \in Nat
  BY <1>1, RunNumbers, ScenarioFacts, RunnerAssumption, TypesAssumption DEF RunnerTypeOK
<1>8. IsResultAsExpected
  BY <1>4, <1>6 DEF IsResultAsExpected
<1>9. KeepResult /\ phase' = AfterResult
      /\ repeatedImmediateWake' \in {repeatedImmediateWake, result.wake, None}
  BY <1>8 DEF ReceiveResult
<1>10. UNCHANGED <<scenario, nextInputIndex, eventful, bAnythingDue>>
  BY DEF ReceiveResult
<1>11. /\ expectedCompletionEmissionId' = 0
       /\ bLastCycleProducedDispatch' = (result.dispatch # 0)
       /\ nextWakeOffset' = result.wake
       /\ activeProcessing' =
            IF result.dispatch # 0
            THEN [emissionId |-> result.dispatch, completionOffset |-> now + ProcessingDuration]
            ELSE activeProcessing
  BY <1>4, <1>9 DEF KeepResult
<1>12. phase' \in {"Select", "Inputs"}
  <2>1. ~IsFruitless
    <3>1. result.wake # None => result.wake \in Nat
      BY <1>6, <1>7 DEF Time
    <3> QED
      BY <1>6, <1>7, <3>1 DEF IsFruitless
  <2> QED
    BY <1>5, <1>9, <1>11, <2>1 DEF AfterResult
<1>13. result.dispatch # 0 =>
         /\ Base = now /\ now + ProcessingDuration \in Time
         /\ activeProcessing = None
  <2> SUFFICES ASSUME result.dispatch # 0
               PROVE  Base = now /\ now + ProcessingDuration \in Time
                      /\ activeProcessing = None
    OBVIOUS
  <2>1. activeProcessing = None
    BY <1>6
  <2>2. result.dispatch \in BeingProcessed(bindings)
    BY <1>1, <2>1 DEF HandlerInv, InHands
  <2>3. result.dispatch \in DOMAIN records
    BY <1>1, <2>2 DEF BeingProcessed, CallerInv, HostBase, PipelineInv, BindingsMatchCore
  <2>4. Base = now
    BY <1>2, <2>1 DEF Base, IsUnserved
  <2>5. Base + ProcessingDuration <= TimelineEnd(scenario)
    BY <1>1, <2>3, RunNumbers, WorkFits
  <2>6. now + ProcessingDuration \in Time
    BY <1>7, <2>4, <2>5 DEF Time
  <2> QED
    BY <2>1, <2>4, <2>6
<1>14. /\ ~WithCommand' /\ ~RunsCycles' /\ IsUnserved' /\ ~IsUnserved
       /\ InputWaits' = InputWaits /\ ~InputWaits
  BY <1>2, <1>12 DEF WithCommand, RunsCycles, IsUnserved, InputWaits
<1>15. result.dispatch # 0 => activeProcessing' \in Processing
  BY <1>6, <1>11, <1>13 DEF Processing
<1>16. RunnerTypeOK' /\ RunnerNeverThrows'
  <2>1. activeProcessing' \in Processing \cup {None}
    BY <1>1, <1>11, <1>15 DEF RunnerTypeOK
  <2>2. repeatedImmediateWake' \in Time \cup {None}
    BY <1>1, <1>6, <1>9 DEF RunnerTypeOK
  <2> QED
    BY <1>1, <1>2, <1>6, <1>10, <1>11, <1>12, <2>1, <2>2
    DEF RunnerTypeOK, RunnerNeverThrows, Phase
<1>17. CommandInv'
  BY <1>2, <1>4, <1>5, <1>11, <1>12, <1>14 DEF CommandInv
<1>18. HandlerInv'
  <2>1. InHands' = InHands
    BY <1>5, <1>6, <1>11, <1>12, <1>14, <1>15, RunnerAssumption DEF InHands
  <2>2. activeProcessing' # None => activeProcessing'.completionOffset >= now
    BY <1>1, <1>7, <1>11 DEF HandlerInv
  <2>3. result.dispatch # 0 => activeProcessing' # None
    BY <1>15, RunnerAssumption
  <2>4. Busy
    BY <1>1, <1>2 DEF CallerInv, WorkInv, CommandInv
  <2> QED
    BY <1>1, <1>2, <1>5, <1>11, <1>12, <2>1, <2>2, <2>3, <2>4 DEF HandlerInv
<1>19. WakeTimeInv'
  <2>1. result.wake # None => result.wake >= now
    BY <1>6, <1>7 DEF Time
  <2> QED
    BY <1>2, <1>5, <1>6, <1>11, <2>1 DEF WakeTimeInv
<1>20. LoadInv'
  <2>1. UNCHANGED <<Load, Served, Posted, scenario>>
    BY <1>2, <1>10, <1>14 DEF Load, Served, Posted
  <2>2. Base' = Base
    <3>1. CASE result.dispatch # 0
      <4>1. Base' = (now + ProcessingDuration) - ProcessingDuration
        BY <1>11, <1>15, <3>1, RunnerAssumption DEF Base
      <4> QED
        BY <1>7, <1>13, <3>1, <4>1
    <3>2. CASE result.dispatch = 0
      BY <1>2, <1>11, <1>12, <1>14, <3>2 DEF Base
    <3> QED
      BY <3>1, <3>2
  <2> QED
    BY <1>1, <1>2, <1>14, <2>1, <2>2 DEF LoadInv
<1>21. TimeInv' /\ EndInv'
  BY <1>1, <1>2, <1>10, <1>12 DEF TimeInv, IsInputLeft, TimelineEnd, EndInv
<1> QED
  BY <1>3, <1>16, <1>17, <1>18, <1>19, <1>20, <1>21 DEF RunInv
------------------------------------------------------------------------------
(* The invariant of a run at any time *)

\* A run starts with nothing but its scenario.
LEMMA RunInit ==
  ASSUME RunnerInit
  PROVE  RunInv
<1>1. /\ HostInit /\ scenario \in Scenarios /\ nextInputIndex = 1
      /\ activeProcessing = None /\ expectedCompletionEmissionId = 0
      /\ nextWakeOffset = None /\ bLastCycleProducedDispatch = FALSE
      /\ repeatedImmediateWake = None /\ eventful = FALSE /\ bAnythingDue = FALSE
      /\ phase = "Select"
  BY DEF RunnerInit
<1>2. /\ postedCommands = <<>> /\ stage = "Idle" /\ result = NoResult
      /\ now = 0 /\ DOMAIN records = {} /\ inFlightEmissionId = 0 /\ DOMAIN bindings = {}
      /\ pendingReadyEmission = None
  BY <1>1 DEF HostInit, PipelineInit, Init
<1>3. /\ ~result.threw /\ ~result.more /\ result.completed = 0 /\ result.dispatch = 0
      /\ result.processed = "None" /\ result.wake = None
  BY <1>2 DEF NoResult
<1>4. Pending(records) = {} /\ BeingProcessed(bindings) = {} /\ Busy
  BY <1>2 DEF Pending, BeingProcessed, Busy
<1>5. CallerInv
  <2>1. HostBase
    BY <1>1, HostBaseInit
  <2>2. WakeInv /\ WorkInv
    BY <1>2, <1>4 DEF WakeInv, Covers, WorkInv
  <2> QED
    BY <2>1, <2>2 DEF CallerInv
<1>6. /\ Len(scenario) \in 1..MaxInputs /\ MaxInputs \in Nat
      /\ \A i \in 1..Len(scenario) : scenario[i].arrivalOffset \in 0..MaxNow
      /\ TimelineEnd(scenario) \in 0..MaxNow /\ MaxNow \in Nat
  BY <1>1, ScenarioFacts, RunnerAssumption, CoreAssumption, TypesAssumption DEF Time
<1>7. RunnerTypeOK /\ RunnerNeverThrows
  <2>1. TypeOK
    BY <1>5 DEF CallerInv, HostBase, PipelineInv, IInv
  <2>2. 1 \in 1..Len(scenario) + 1
    BY <1>6
  <2> QED
    BY <1>1, <2>1, <2>2 DEF RunnerTypeOK, RunnerNeverThrows, Phase
<1>8. ~WithCommand /\ ~RunsCycles /\ ~InputWaits
  BY <1>1 DEF WithCommand, RunsCycles, InputWaits
<1>9. CommandInv
  BY <1>1, <1>2, <1>3, <1>8 DEF CommandInv
<1>10. HandlerInv
  <2>1. InHands = {}
    BY <1>1, <1>3 DEF InHands
  <2> QED
    BY <1>1, <1>4, <2>1 DEF HandlerInv
<1>11. WakeTimeInv
  BY <1>1, <1>2, <1>3 DEF WakeTimeInv
<1>12. LoadInv
  <2>1. IsFiniteSet({}) /\ Cardinality({}) = 0
    BY FS_EmptySet
  <2>2. Load = 0
    BY <1>2, <1>8, <2>1 DEF Load
  <2> QED
    BY <1>2, <1>8, <2>2 DEF LoadInv
<1>13. TimeInv
  BY <1>1, <1>2, <1>6 DEF TimeInv, IsInputLeft
<1>14. EndInv
  BY <1>1 DEF EndInv
<1> QED
  BY <1>5, <1>7, <1>9, <1>10, <1>11, <1>12, <1>13, <1>14 DEF RunInv

\* Nothing happens, and nothing changes.
LEMMA RunStands ==
  ASSUME RunInv, UNCHANGED allVars
  PROVE  RunInv'
<1>1. /\ UNCHANGED hostVars
      /\ UNCHANGED <<scenario, nextInputIndex, activeProcessing,
                     expectedCompletionEmissionId, nextWakeOffset,
                     bLastCycleProducedDispatch, repeatedImmediateWake, eventful,
                     bAnythingDue, phase>>
  BY DEF allVars, runnerVars
<1>2. UNCHANGED <<now, records, inFlightEmissionId, bindings, pendingReadyEmission,
                  postedCommands, stage, result>>
  BY <1>1 DEF hostVars, pipelineVars, vars, queueVars, externalVars, mailboxVars, ownerVars
<1>3. CallerInv'
  BY <1>1, CallerStep DEF RunInv
<1>4. RunnerTypeOK' /\ RunnerNeverThrows'
  <2>1. TypeOK'
    BY <1>3 DEF CallerInv, HostBase, PipelineInv, IInv
  <2> QED
    BY <1>1, <2>1 DEF RunInv, RunnerTypeOK, RunnerNeverThrows
<1>5. UNCHANGED <<WithCommand, RunsCycles, IsUnserved, InputWaits, TheCommands, InHands,
                  Base, Load, Posted, Served, Busy, DueIds(records), Pending(records)>>
  BY <1>1, <1>2 DEF WithCommand, RunsCycles, IsUnserved, InputWaits, TheCommands, InHands,
                    Base, Load, Posted, Served, Busy, DueIds, Pending, Due, Finite
<1>6. CommandInv' /\ HandlerInv'
  BY <1>1, <1>2, <1>5 DEF RunInv, CommandInv, HandlerInv
<1>7. WakeTimeInv' /\ LoadInv'
  BY <1>1, <1>2, <1>5 DEF RunInv, WakeTimeInv, LoadInv
<1>8. TimeInv' /\ EndInv'
  BY <1>1, <1>2 DEF RunInv, TimeInv, EndInv, IsInputLeft, TimelineEnd
<1> QED
  BY <1>3, <1>4, <1>6, <1>7, <1>8 DEF RunInv

\* Every step of a run keeps the invariant.
LEMMA RunStep ==
  ASSUME RunInv, [Run]_allVars
  PROVE  RunInv'
<1>1. CASE Finish
  BY <1>1, FinishKeeps
<1>2. CASE SelectNextEvent
  BY <1>2, SelectNextEventKeeps
<1>3. CASE PostCompletion
  BY <1>3, PostCompletionKeeps
<1>4. CASE SkipCompletion
  BY <1>4, SkipCompletionKeeps
<1>5. CASE PostInput
  BY <1>5, PostInputKeeps
<1>6. CASE EndInputs
  BY <1>6, EndInputsKeeps
<1>7. CASE RunHost
  BY <1>7, RunHostKeeps
<1>8. CASE ReceiveResult
  BY <1>8, ReceiveResultKeeps
<1>9. CASE UNCHANGED allVars
  BY <1>9, RunStands
<1> QED
  BY <1>1, <1>2, <1>3, <1>4, <1>5, <1>6, <1>7, <1>8, <1>9 DEF Run

\* So it holds at any time.
LEMMA RunInvariant == RunnerSpec => []RunInv
<1>1. RunnerInit => RunInv
  BY RunInit
<1>2. RunInv /\ [Run]_allVars => RunInv'
  BY RunStep
<1> QED
  BY <1>1, <1>2, PTL DEF RunnerSpec

\* What the runner takes for granted of the host holds in every run: a dispatch only when
\* no handler works, the completion it posted and no other, a wake-up time that is finite
\* and brings something, no exception, and nothing left over at the end.
THEOREM RunnerTakesNothingAmiss == RunnerSpec => []RunnerInv
<1>1. RunInv => RunnerInv
  BY DEF RunInv, RunnerInv
<1> QED
  BY <1>1, RunInvariant, PTL

\* The timeline that ValidateAndOrderScenario accepts is long enough: neither the clock
\* nor a completion lies beyond the last arrival and a processing for each input.
THEOREM RunFitsTimeline == RunnerSpec => []RunWithinTimeline
<1>1. RunInv => RunWithinTimeline
  BY HandlerFits DEF RunInv, TimeInv, RunWithinTimeline
<1> QED
  BY <1>1, RunInvariant, PTL

\* A run that is over has posted all its inputs and leaves no command, no emission, no
\* payload and no batch behind.
THEOREM RunLeavesNothing == RunnerSpec => []NothingLeftBehind
<1>1. ASSUME RunInv, phase = "Done"
      PROVE  /\ postedCommands = <<>>
             /\ DOMAIN records = {} /\ DOMAIN payloads = {} /\ DOMAIN chatPendingBatches = {}
             /\ nextInputIndex = Len(scenario) + 1
  <2>1. /\ CallerInv /\ RunnerTypeOK /\ CommandInv /\ HandlerInv /\ WakeTimeInv
        /\ PipelineInv
    BY <1>1 DEF RunInv, CallerInv, HostBase
  <2>2. stage = "Idle" /\ postedCommands = <<>>
    BY <1>1, <2>1 DEF CommandInv, RunsCycles, WithCommand
  <2>3. ~IsInputLeft /\ activeProcessing = None
    BY <1>1 DEF RunInv, EndInv
  <2>4. DOMAIN records = {}
    BY <1>1, <2>1, <2>2, <2>3, NothingWaits
  <2>5. DOMAIN payloads = {}
    BY <2>1, <2>4 DEF PipelineInv, BindingsMatchCore
  <2>6. DOMAIN chatPendingBatches = {}
    BY <2>1, <2>4 DEF PipelineInv, BatchesMatchCore, Pending
  <2>7. nextInputIndex = Len(scenario) + 1
    BY <2>1, <2>3, RunNumbers DEF IsInputLeft
  <2> QED
    BY <2>2, <2>4, <2>5, <2>6, <2>7
<1>2. RunInv => NothingLeftBehind
  BY <1>1 DEF NothingLeftBehind
<1> QED
  BY <1>2, RunInvariant, PTL

\* The dispatches and wake-up times of the host are all that a caller needs to go by:
\* the clock of the runner passes over no expiration, and while something waits it moves
\* no further than the completion of the handler that works.
THEOREM TimePassesOverNothing == RunnerSpec => TimePassesInOrder
<1> DEFINE InOrder ==
      /\ \A id \in Pending(records) :
           Finite(records[id].envelope.expiresAt) =>
             records[id].envelope.expiresAt > now /\ records[id].envelope.expiresAt >= now'
      /\ Pending(records) # {} => /\ activeProcessing # None
                                  /\ activeProcessing.completionOffset >= now'
<1>1. ASSUME RunInv, [Run]_allVars, now' # now
      PROVE  InOrder
  <2>1. SelectNextEvent
    <3>1. (RunHost \/ ReceiveResult) => now' = now
      BY CyclesTakeNoTime DEF RunHost, ReceiveResult, RunOneCycle
    <3>2. (PostCompletion \/ PostInput) => now' = now
      BY DEF PostCompletion, PostInput, Post, pipelineVars, vars
    <3>3. (Finish \/ SkipCompletion \/ EndInputs \/ UNCHANGED allVars) => now' = now
      BY DEF Finish, SkipCompletion, EndInputs, allVars, hostVars, pipelineVars, vars
    <3> QED
      BY <1>1, <3>1, <3>2, <3>3 DEF Run
  <2>2. phase = "Select"
    BY <2>1 DEF SelectNextEvent
  <2>3. /\ now \in Nat /\ now' \in Nat /\ now' > now
        /\ activeProcessing # None => now' <= activeProcessing.completionOffset
        /\ nextWakeOffset # None => now' <= nextWakeOffset
    BY <1>1, <2>1, NextEvent
  <2>4. /\ CallerInv /\ RunnerTypeOK /\ CommandInv /\ HandlerInv /\ WakeTimeInv /\ WakeInv
        /\ IInv
    BY <1>1 DEF RunInv, CallerInv, HostBase, PipelineInv
  <2>5. activeProcessing # None => activeProcessing.completionOffset \in Nat
    BY <2>4, RunNumbers
  <2>6. stage = "Idle" /\ ~result.threw /\ nextWakeOffset = result.wake
    BY <2>2, <2>4 DEF CommandInv, RunsCycles, WithCommand, WakeTimeInv
  <2>7. ASSUME NEW id \in Pending(records), Finite(records[id].envelope.expiresAt)
        PROVE  /\ records[id].envelope.expiresAt > now
               /\ records[id].envelope.expiresAt >= now'
    <3>1. nextWakeOffset # None /\ nextWakeOffset <= records[id].envelope.expiresAt
      BY <2>4, <2>6, <2>7 DEF WakeInv, Covers
    <3>2. nextWakeOffset \in Nat /\ records[id].envelope.expiresAt \in Nat
      BY <2>4, <2>7, <3>1, TypesAssumption
      DEF RunnerTypeOK, IInv, TypeOK, Pending, Record, Envelope, Time
    <3> QED
      BY <2>3, <3>1, <3>2
  <2>8. Pending(records) # {} => activeProcessing # None
    BY <2>2, <2>4, <2>6, NothingWaits DEF Pending
  <2> QED
    BY <2>3, <2>5, <2>7, <2>8
<1>2. RunInv /\ [Run]_allVars => [now' # now => InOrder]_allVars
  BY <1>1
<1> QED
  BY <1>2, RunInvariant, PTL DEF RunnerSpec, TimePassesInOrder
==============================================================================
