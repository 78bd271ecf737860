--------------------------- MODULE ScenarioRunner ---------------------------
(***************************************************************************)
(* FTSEventScenarioRunner: one thread that posts the inputs of a scenario  *)
(* to a host, runs the host's cycles, processes what they dispatch for a   *)
(* fixed time, and moves a simulated clock straight to the next event.  It *)
(* is a caller of the host that relies on what a cycle returns: the        *)
(* dispatch, the wake-up time and whether commands are left.               *)
(*                                                                         *)
(* The runner keeps the wake-up time and bMoreCommandsPending of the last  *)
(* result; the latter is result.more.  An exception anywhere ends the run. *)
(***************************************************************************)
EXTENDS EventHost

CONSTANTS Offsets,             \* arrival offsets of the inputs
          MaxInputs,           \* inputs of a scenario
          ProcessingDuration   \* how long a handler takes

\* What ValidateAndOrderScenario lets through: some inputs, in the order they arrive,
\* and a timeline that the clock can hold even if everything is processed in turn.
ScheduledInput == [arrivalOffset : Offsets, input : ChatInputs]

\* Mutation: time for one of the inputs only.
TimelineOfOne(inputs) == inputs[Len(inputs)].arrivalOffset + ProcessingDuration

TimelineEnd(inputs) ==
  inputs[Len(inputs)].arrivalOffset + Len(inputs) * ProcessingDuration

Scenarios ==
  {inputs \in UNION {[1..n -> ScheduledInput] : n \in 1..MaxInputs} :
     /\ \A i, j \in DOMAIN inputs :
          i < j => inputs[i].arrivalOffset <= inputs[j].arrivalOffset
     /\ TimelineEnd(inputs) <= MaxNow}

\* The commands that the runner makes of an input and of a completion.
InputCommand(input) == [kind |-> "Input", flow |-> Chat, detail |-> input]
CompletionCommand(id) ==
  [kind |-> "Completion", flow |-> Chat, detail |-> [id |-> id, succeeded |-> TRUE]]

\* An emission that a handler works on, and when it is done.
Processing == [emissionId : Identity, completionOffset : Time]

\* The clock counts milliseconds in a finer period whose last instant is none of them,
\* and a scenario has fewer inputs than a record has revisions (2^63 - 1 at most).
ASSUME RunnerAssumption ==
  /\ Offsets \subseteq 0..MaxNow
  /\ MaxNow < MaxTime
  /\ MaxInputs \in Nat \ {0}
  /\ MaxInputs <= MaxRevision
  /\ ProcessingDuration \in Nat \ {0}
  /\ None \notin Processing
  /\ Routes = {Chat}
  /\ FailureStages = {}
  /\ \A input \in ChatInputs : InputCommand(input) \in Commands
  /\ \A id \in Identity : CompletionCommand(id) \in Commands

VARIABLES scenario,                      \* the inputs
          nextInputIndex,
          activeProcessing,              \* the emission a handler works on, or None
          expectedCompletionEmissionId,  \* the completion just posted, or 0
          nextWakeOffset,                \* what the last cycle asked for, or None
          bLastCycleProducedDispatch,
          repeatedImmediateWake,         \* a wake-up that came to nothing, or None
          eventful,                      \* the cycle under way told of terminals
          bAnythingDue,                  \* a completion or an input fell on this instant
          phase                          \* where Run is

runnerVars == <<scenario, nextInputIndex, activeProcessing, expectedCompletionEmissionId,
                nextWakeOffset, bLastCycleProducedDispatch, repeatedImmediateWake,
                eventful, bAnythingDue, phase>>
allVars == <<hostVars, runnerVars>>

Phase == {"Select", "Completion", "CompletionCycles", "Inputs", "InputCycles",
          "Maintenance", "Done", "Failed"}

RunnerTypeOK ==
  /\ TypeOK
  /\ scenario \in Scenarios
  /\ nextInputIndex \in 1..Len(scenario) + 1
  /\ activeProcessing \in Processing \cup {None}
  /\ expectedCompletionEmissionId \in Identity \cup {0}
  /\ nextWakeOffset \in Time \cup {None}
  /\ bLastCycleProducedDispatch \in BOOLEAN
  /\ repeatedImmediateWake \in Time \cup {None}
  /\ eventful \in BOOLEAN
  /\ bAnythingDue \in BOOLEAN
  /\ phase \in Phase

Fail == phase' = "Failed"
------------------------------------------------------------------------------
IsInputLeft == nextInputIndex <= Len(scenario)

IsInputDue == IsInputLeft /\ scenario[nextInputIndex].arrivalOffset = now

IsCompletionDue == activeProcessing # None /\ activeProcessing.completionOffset = now

\* Mutation: the expirations are left to the next command.
CandidatesWithoutWake ==
  {scenario[i].arrivalOffset : i \in {nextInputIndex} \cap DOMAIN scenario}
    \cup (IF activeProcessing = None THEN {} ELSE {activeProcessing.completionOffset})
    \cup (IF result.more THEN {now} ELSE {})

\* GetNextEventOffset chooses the first of these.
Candidates ==
  {scenario[i].arrivalOffset : i \in {nextInputIndex} \cap DOMAIN scenario}
    \cup (IF activeProcessing = None THEN {} ELSE {activeProcessing.completionOffset})
    \cup ({nextWakeOffset} \ {None})
    \cup (IF result.more THEN {now} ELSE {})

\* Nothing to wait for: the run is over, unless something is left after all.
Finish ==
  /\ phase = "Select"
  /\ Candidates = {}
  /\ phase' = IF \/ IsInputLeft \/ activeProcessing # None \/ nextWakeOffset # None
                 \/ result.more \/ bLastCycleProducedDispatch
              THEN "Failed" ELSE "Done"
  /\ UNCHANGED <<hostVars, scenario, nextInputIndex, activeProcessing,
                 expectedCompletionEmissionId, nextWakeOffset,
                 bLastCycleProducedDispatch, repeatedImmediateWake, eventful, bAnythingDue>>

\* The clock moves straight to the next event, never back.
AdvanceTo(offset) ==
  /\ now' = offset
  /\ UNCHANGED <<settings, nextIdentity, queueVars, reply, externalVars, outcome,
                 mailboxVars, ownerVars, signal>>

SelectNextEvent ==
  /\ phase = "Select"
  /\ \E next \in Candidates :
       /\ \A other \in Candidates : next <= other
       /\ IF next < now
          THEN Fail /\ UNCHANGED <<hostVars, repeatedImmediateWake>>
          ELSE /\ AdvanceTo(next)
               /\ repeatedImmediateWake' = IF next > now THEN None ELSE repeatedImmediateWake
               /\ phase' = "Completion"
  /\ bAnythingDue' = FALSE
  /\ UNCHANGED <<scenario, nextInputIndex, activeProcessing, expectedCompletionEmissionId,
                 nextWakeOffset, bLastCycleProducedDispatch, eventful>>

\* Mutation: the handler that completes still counts as busy.
StillActive == activeProcessing

NoLongerActive == None

\* ExecuteDueCompletion: the emission in flight completes before inputs arrive.
PostCompletion ==
  /\ phase = "Completion"
  /\ IsCompletionDue
  /\ LET id == activeProcessing.emissionId
     IN  /\ Post(CompletionCommand(id))
         /\ expectedCompletionEmissionId' = id
  /\ activeProcessing' = NoLongerActive
  /\ bAnythingDue' = TRUE
  /\ phase' = "CompletionCycles"
  /\ UNCHANGED <<scenario, nextInputIndex, nextWakeOffset, bLastCycleProducedDispatch,
                 repeatedImmediateWake, eventful>>

SkipCompletion ==
  /\ phase = "Completion"
  /\ ~IsCompletionDue
  /\ phase' = "Inputs"
  /\ UNCHANGED <<hostVars, scenario, nextInputIndex, activeProcessing,
                 expectedCompletionEmissionId, nextWakeOffset,
                 bLastCycleProducedDispatch, repeatedImmediateWake, eventful, bAnythingDue>>

\* ExecuteInputsAtCurrentOffset: one input at a time, each with the cycles it takes.
PostInput ==
  /\ phase = "Inputs"
  /\ IsInputDue
  /\ Post(InputCommand(scenario[nextInputIndex].input))
  /\ nextInputIndex' = nextInputIndex + 1
  /\ bAnythingDue' = TRUE
  /\ phase' = "InputCycles"
  /\ UNCHANGED <<scenario, activeProcessing, expectedCompletionEmissionId, nextWakeOffset,
                 bLastCycleProducedDispatch, repeatedImmediateWake, eventful>>

\* Maintenance by itself only if neither a completion nor an input was due.
EndInputs ==
  /\ phase = "Inputs"
  /\ ~IsInputDue
  /\ phase' = IF ~bAnythingDue /\ nextWakeOffset # None /\ nextWakeOffset <= now
              THEN "Maintenance" ELSE "Select"
  /\ UNCHANGED <<hostVars, scenario, nextInputIndex, activeProcessing,
                 expectedCompletionEmissionId, nextWakeOffset,
                 bLastCycleProducedDispatch, repeatedImmediateWake, eventful, bAnythingDue>>
------------------------------------------------------------------------------
\* The host works; an exception of the cycle ends the run.
RunHost ==
  /\ phase \in {"CompletionCycles", "InputCycles", "Maintenance"}
  /\ stage # "Report"
  /\ RunOneCycle
  /\ eventful' = ((stage # "Idle" /\ eventful) \/ reply'.events # <<>>)
  /\ phase' = IF result'.threw THEN "Failed" ELSE phase
  /\ UNCHANGED <<scenario, nextInputIndex, activeProcessing, expectedCompletionEmissionId,
                 nextWakeOffset, bLastCycleProducedDispatch, repeatedImmediateWake,
                 bAnythingDue>>

\* ProcessCycleResult: what a result must be like, and what is kept of it.
IsResultAsExpected ==
  /\ result.completed # 0 => result.completed = expectedCompletionEmissionId
  /\ result.dispatch # 0 => activeProcessing = None
  /\ result.wake # None => Finite(result.wake)

KeepResult ==
  /\ expectedCompletionEmissionId' =
       IF result.completed # 0 THEN 0 ELSE expectedCompletionEmissionId
  /\ bLastCycleProducedDispatch' = (result.dispatch # 0)
  /\ activeProcessing' =
       IF result.dispatch # 0
       THEN [emissionId |-> result.dispatch, completionOffset |-> now + ProcessingDuration]
       ELSE activeProcessing
  /\ nextWakeOffset' = result.wake

\* RunMaintenanceCycle: a wake-up that is due and brings nothing, twice running.
MadeProgress ==
  \/ result.processed # "None"
  \/ result.dispatch # 0
  \/ eventful
  \/ result.wake # nextWakeOffset

IsFruitless == ~MadeProgress /\ result.wake # None /\ result.wake <= now

\* RunHostCycles goes on while commands are left; a completion must have come back.
AfterResult ==
  IF phase = "Maintenance"
  THEN IF IsFruitless /\ repeatedImmediateWake = result.wake THEN "Failed" ELSE "Select"
  ELSE IF result'.more THEN phase
  ELSE IF phase = "CompletionCycles" /\ expectedCompletionEmissionId' # 0 THEN "Failed"
  ELSE "Inputs"

ReceiveResult ==
  /\ phase \in {"CompletionCycles", "InputCycles", "Maintenance"}
  /\ ReturnResult
  /\ IF IsResultAsExpected
     THEN /\ KeepResult
          /\ phase' = AfterResult
          /\ repeatedImmediateWake' =
               IF phase # "Maintenance" THEN repeatedImmediateWake
               ELSE IF IsFruitless THEN result.wake ELSE None
     ELSE /\ Fail
          /\ UNCHANGED <<activeProcessing, expectedCompletionEmissionId, nextWakeOffset,
                         bLastCycleProducedDispatch, repeatedImmediateWake>>
  /\ UNCHANGED <<scenario, nextInputIndex, eventful, bAnythingDue>>

RunnerInit ==
  /\ HostInit
  /\ scenario \in Scenarios
  /\ nextInputIndex = 1
  /\ activeProcessing = None
  /\ expectedCompletionEmissionId = 0
  /\ nextWakeOffset = None
  /\ bLastCycleProducedDispatch = FALSE
  /\ repeatedImmediateWake = None
  /\ eventful = FALSE
  /\ bAnythingDue = FALSE
  /\ phase = "Select"

Run ==
  \/ Finish
  \/ SelectNextEvent
  \/ PostCompletion
  \/ SkipCompletion
  \/ PostInput
  \/ EndInputs
  \/ RunHost
  \/ ReceiveResult

RunnerSpec == RunnerInit /\ [][Run]_allVars /\ WF_allVars(Run)
------------------------------------------------------------------------------
(* Properties *)

\* What the runner takes for granted of the host holds: a dispatch only when no handler
\* works, the completion it posted and no other, a wake-up time that is finite and never
\* comes twice for nothing, no exception, nothing left over at the end.
RunnerNeverThrows == phase # "Failed"

RunnerInv == RunnerTypeOK /\ RunnerNeverThrows

\* The timeline that was validated holds the run: an emission per input at most, handled
\* one after the other without pauses, so neither the clock nor a completion lies beyond
\* the last arrival and a processing for each input.
RunWithinTimeline ==
  /\ now <= TimelineEnd(scenario)
  /\ activeProcessing # None => activeProcessing.completionOffset <= TimelineEnd(scenario)

\* When the run is over nothing is left behind: no command, emission, payload or batch.
NothingLeftBehind ==
  phase = "Done" =>
    /\ postedCommands = <<>>
    /\ DOMAIN records = {} /\ DOMAIN payloads = {} /\ DOMAIN chatPendingBatches = {}
    /\ nextInputIndex = Len(scenario) + 1

\* Time passes over no expiration, and over nothing that waits unless a handler works:
\* the dispatches and wake-up times of the host are all that a caller needs to go by.
TimePassesInOrder ==
  [][now' # now =>
       /\ \A id \in Pending(records) :
            Finite(records[id].envelope.expiresAt) =>
              records[id].envelope.expiresAt > now /\ records[id].envelope.expiresAt >= now'
       /\ Pending(records) # {} => /\ activeProcessing # None
                                   /\ activeProcessing.completionOffset >= now']_allVars

\* Every scenario comes to its end.
ScenarioEnds == <>(phase = "Done")
==============================================================================
