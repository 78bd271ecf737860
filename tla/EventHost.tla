------------------------------ MODULE EventHost ------------------------------
(***************************************************************************)
(* FTSEventExecutionHost: any thread posts commands to one mailbox under a *)
(* mutex; the owner thread runs cycles of the coordinator, each of which   *)
(* looks after the expirations, processes at most the command in front,    *)
(* and hands out at most one emission.                                     *)
(*                                                                         *)
(* The owner does not hold the mutex while the coordinator works, so a     *)
(* cycle is a machine of stages, and posts and the clock come in between   *)
(* any two of them.  The front is leased, not taken: it leaves only when   *)
(* it is acknowledged.  A cycle that throws returns nothing, and what it   *)
(* had committed by then stays committed.                                  *)
(***************************************************************************)
EXTENDS EventPipeline

CONSTANTS Commands,       \* what the threads post
          MaxSequence,    \* the last command sequence, 2^64 - 1 in the program
          FailureStages,  \* where a cycle may meet a failure of the machine
          MaxFailures     \* bound on those failures

\* The commands of all the families: an input (with what a chat message says), the
\* completion of an emission, new settings of a flow.  Cancelled and Failed are alike.
Command ==
  [kind : {"Input"}, flow : Routes, detail : ChatInputs \cup {None}]
    \cup [kind : {"Completion"}, flow : Routes,
          detail : [id : Identity, succeeded : BOOLEAN]]
    \cup [kind : {"FlowSettingsUpdate"}, flow : FlowInputs, detail : SettingsInputs]

Stage == {"Idle", "Lease", "Acknowledge", "Reject", "Dispatch", "Pump", "DispatchPumped",
          "Wake", "Report"}

ASSUME HostAssumption ==
  /\ Commands \subseteq Command
  /\ \A command \in Commands :
       command.kind = "Input" => (command.detail # None <=> command.flow = Chat)
  /\ MaxSequence \in Nat \ {0}
  /\ FailureStages \subseteq {"Idle", "Lease", "Dispatch", "Pump", "DispatchPumped"}
  /\ MaxFailures \in Nat

VARIABLES postedCommands,             \* the mailbox
          nextPostedCommandSequence,  \* 0 when exhausted
          stage,                      \* how far the owner's cycle has got
          result,                     \* what the cycle has for its caller so far
          signal,                     \* a post that answered TRUE since the last cycle began
          handed,                     \* the last dispatch that reached the caller
          failures                    \* failures so far, for the bound

mailboxVars == <<postedCommands, nextPostedCommandSequence>>
ownerVars == <<stage, result, handed, failures>>
hostVars == <<pipelineVars, mailboxVars, ownerVars, signal>>

Sequence == 1..MaxSequence
Entry == [sequence : Sequence, command : Commands]
CommandKind == {"None", "Input", "Completion", "FlowSettingsUpdate"}
Result == [threw : BOOLEAN, sequence : Sequence \cup {0}, processed : CommandKind,
           completed : Identity \cup {0}, dispatch : Identity \cup {0},
           wake : Time \cup {None}, more : BOOLEAN]

NoResult == [threw |-> FALSE, sequence |-> 0, processed |-> "None", completed |-> 0,
             dispatch |-> 0, wake |-> None, more |-> FALSE]

HostTypeOK ==
  /\ postedCommands \in Seq(Entry)
  /\ nextPostedCommandSequence \in Sequence \cup {0}
  /\ stage \in Stage
  /\ result \in Result
  /\ signal \in BOOLEAN
  /\ handed \in Identity \cup {0}
  /\ failures \in 0..MaxFailures
------------------------------------------------------------------------------
\* Mutation: the sequences start again after the last one.
NextSequenceOrWrap(sequence) == IF sequence = MaxSequence THEN 1 ELSE sequence + 1

NextSequence(sequence) == IF sequence = MaxSequence THEN 0 ELSE sequence + 1

PutLast(entry) == Append(postedCommands, entry)

\* PostCommand, by any thread.  It answers whether the mailbox was empty: then the
\* owner may be asleep.  When the sequences are used up it throws and puts nothing.
Post(command) ==
  /\ nextPostedCommandSequence # 0
  /\ postedCommands' = PutLast([sequence |-> nextPostedCommandSequence,
                                command |-> command])
  /\ nextPostedCommandSequence' = NextSequence(nextPostedCommandSequence)
  /\ signal' = (signal \/ postedCommands = <<>>)
  /\ UNCHANGED <<pipelineVars, ownerVars>>

\* The exception reaches the caller of RunOneCycle, the result is gone.
Throw ==
  /\ stage' = "Idle"
  /\ result' = [NoResult EXCEPT !.threw = TRUE]
  /\ UNCHANGED handed

\* Expirations come first, before a command is leased.
BeginCycle ==
  /\ stage = "Idle"
  /\ ProcessPipelineExpirations
  /\ stage' = "Lease"
  /\ result' = NoResult
  /\ signal' = FALSE
  /\ UNCHANGED <<mailboxVars, handed, failures>>

FindNoCommand ==
  /\ stage = "Lease"
  /\ postedCommands = <<>>
  /\ stage' = "Dispatch"
  /\ UNCHANGED <<pipelineVars, mailboxVars, result, signal, handed, failures>>

\* What the coordinator is asked for.
Perform(command) ==
  \/ /\ command.kind = "Input"
     /\ command.flow # Chat
     /\ SubmitDecision(command.flow)
  \/ /\ command.kind = "Input"
     /\ command.flow = Chat
     /\ SubmitChat(command.detail) \/ SubmitChatThrows(command.detail)
  \/ /\ command.kind = "Completion"
     /\ CompleteProcessing(command.detail.id, command.detail.succeeded, command.flow)
  \/ /\ command.kind = "FlowSettingsUpdate"
     /\ UpdateFlowSettings(command.flow, command.detail)
     /\ outcome' = Told("Done", 0)
     /\ UNCHANGED externalVars

\* Mutations: a command is done with whatever came of it, or only if it was served.
IsDoneWith(status) == TRUE
IsServed(status) == status \notin {"LogicError", "RejectedCompletion"}

\* Only an unclassified exception keeps the command in front.
MayAcknowledge(status) == status # "LogicError"

ProcessPostedCommand ==
  /\ stage = "Lease"
  /\ postedCommands # <<>>
  /\ LET lease == Head(postedCommands)
     IN  /\ Perform(lease.command)
         /\ \/ /\ ~MayAcknowledge(outcome'.status)
               /\ Throw
            \/ /\ MayAcknowledge(outcome'.status)
               /\ stage' = IF outcome'.status = "RejectedCompletion" THEN "Reject"
                           ELSE "Acknowledge"
               /\ result' = [result EXCEPT
                               !.sequence = lease.sequence,
                               !.processed = lease.command.kind,
                               !.completed = IF lease.command.kind = "Completion"
                                             THEN lease.command.detail.id ELSE 0]
               /\ UNCHANGED handed
  /\ UNCHANGED <<mailboxVars, signal, failures>>

\* The program terminates if the front is not the command that was leased.
AcknowledgeCommandLease ==
  /\ postedCommands # <<>>
  /\ Head(postedCommands).sequence = result.sequence
  /\ postedCommands' = Tail(postedCommands)
  /\ UNCHANGED nextPostedCommandSequence

\* Mutation: a completion is followed by no dispatch either.
DispatchesAfterInputs(kind) == kind \notin {"FlowSettingsUpdate", "Completion"}

\* A cycle that updated settings neither dispatches nor pumps.
MayDispatchOrPump(kind) == kind # "FlowSettingsUpdate"

Acknowledge ==
  /\ stage = "Acknowledge"
  /\ AcknowledgeCommandLease
  /\ stage' = IF MayDispatchOrPump(result.processed) THEN "Dispatch" ELSE "Wake"
  /\ UNCHANGED <<pipelineVars, result, signal, handed, failures>>

\* A completion rejected for good leaves, and the exception goes on to the caller.
Reject ==
  /\ stage = "Reject"
  /\ AcknowledgeCommandLease
  /\ Throw
  /\ UNCHANGED <<pipelineVars, signal, failures>>

\* TryBeginPendingDispatch: the ready emission is peeked for its route.  One that the
\* pump of this cycle made ready must come out.
FindNothingReady ==
  /\ stage = "Dispatch"
  /\ pendingReadyEmission = None
  /\ stage' = "Pump"
  /\ UNCHANGED <<pipelineVars, mailboxVars, result, signal, handed, failures>>

\* Mutation: the cycle pumps whether or not it dispatched.
AfterDispatchPump == "Pump"

AfterDispatch == "Wake"

BeginPendingDispatch ==
  /\ stage \in {"Dispatch", "DispatchPumped"}
  /\ pendingReadyEmission # None
  /\ BeginProcessing(pendingReadyEmission.flow)
  /\ result' = [result EXCEPT !.dispatch = outcome'.emissionId]
  /\ stage' = AfterDispatch
  /\ UNCHANGED <<mailboxVars, signal, handed, failures>>

\* Mutation: what the pump made ready waits for the next cycle.
AfterPumpLater(status) == "Wake"

AfterPump(status) == IF status = "EmissionReady" THEN "DispatchPumped" ELSE "Wake"

PumpOnce ==
  /\ stage = "Pump"
  /\ PumpPipeline
  /\ stage' = AfterPump(reply'.pump)
  /\ UNCHANGED <<mailboxVars, result, signal, handed, failures>>

\* Mutation: the wake-up time was asked for when the cycle began.
KeepWake == UNCHANGED <<vars, result>>

AskWake == GetNextWakeTime /\ result' = [result EXCEPT !.wake = reply'.wake]

FindNextWakeTime ==
  /\ stage = "Wake"
  /\ AskWake
  /\ outcome' = Told("Done", 0)
  /\ stage' = "Report"
  /\ UNCHANGED <<externalVars, mailboxVars, signal, handed, failures>>

\* Mutation: one command left is not worth another cycle.
MoreThanOnePending == Len(postedCommands) > 1

MoreCommandsPending == postedCommands # <<>>

\* The mailbox is read once more, and the result goes to the caller.
ReturnResult ==
  /\ stage = "Report"
  /\ stage' = "Idle"
  /\ result' = [NoResult EXCEPT !.wake = result.wake, !.more = MoreCommandsPending]
  /\ handed' = IF result.dispatch # 0 THEN result.dispatch ELSE handed
  /\ UNCHANGED <<pipelineVars, mailboxVars, signal, failures>>

\* The clock throws, or memory runs out: the operation under way leaves nothing
\* behind but perhaps the handle an input had taken.
CycleThrows ==
  /\ stage \in FailureStages
  /\ failures < MaxFailures
  /\ failures' = failures + 1
  /\ \/ UNCHANGED pipelineVars
     \/ /\ stage = "Lease"
        /\ postedCommands # <<>>
        /\ Head(postedCommands).command.kind = "Input"
        /\ ThrowAfterInsert(Head(postedCommands).command.flow)
  /\ stage = "Lease" => postedCommands # <<>>
  /\ stage = "Dispatch" => pendingReadyEmission # None
  /\ Throw
  /\ signal' = (signal /\ stage # "Idle")
  /\ UNCHANGED mailboxVars

HostTick == Tick /\ UNCHANGED <<externalVars, outcome, mailboxVars, ownerVars, signal>>

RunOneCycle ==
  \/ BeginCycle
  \/ FindNoCommand
  \/ ProcessPostedCommand
  \/ Acknowledge
  \/ Reject
  \/ FindNothingReady
  \/ BeginPendingDispatch
  \/ PumpOnce
  \/ FindNextWakeTime
  \/ ReturnResult
  \/ CycleThrows

HostInit ==
  /\ PipelineInit
  /\ postedCommands = <<>>
  /\ nextPostedCommandSequence = 1
  /\ stage = "Idle"
  /\ result = NoResult
  /\ signal = FALSE
  /\ handed = 0
  /\ failures = 0

HostNext ==
  \/ \E command \in Commands : Post(command)
  \/ RunOneCycle
  \/ HostTick

HostSpec == HostInit /\ [][HostNext]_hostVars

\* What a caller has to go by: it runs the next cycle when a post told it to, when the
\* last cycle said that commands are left, or threw, and when the wake-up time has come.
IsAwake ==
  \/ stage # "Idle"
  \/ signal \/ result.more \/ result.threw
  \/ result.wake # None /\ result.wake <= now

FairHostSpec == HostSpec /\ WF_hostVars(RunOneCycle /\ IsAwake)
------------------------------------------------------------------------------
(* Properties *)

\* The mailbox is a line of consecutive sequences that ends at the last one given,
\* and what is acknowledged stands in front of it, so the program never terminates.
LeaseIsFront ==
  /\ \A i \in DOMAIN postedCommands :
       postedCommands[i].sequence =
         (IF nextPostedCommandSequence = 0 THEN MaxSequence ELSE nextPostedCommandSequence - 1)
           - (Len(postedCommands) - i)
  /\ stage \in {"Acknowledge", "Reject"} =>
       /\ postedCommands # <<>>
       /\ Head(postedCommands).sequence = result.sequence

\* A caller that sleeps because no post answered TRUE, the last cycle did not throw
\* and said that nothing is left, sleeps before an empty mailbox.
NoLostWakeup ==
  (stage = "Idle" /\ ~signal /\ ~result.threw /\ ~result.more) => postedCommands = <<>>

\* A caller that sleeps until the wake-up time of its last cycle oversleeps no
\* expiration, whatever the cycle admitted, renewed, handed out or expired.
WakeCoversExpirations ==
  (stage = "Idle" /\ ~result.threw) =>
    \A id \in Pending(records) :
      Finite(records[id].envelope.expiresAt) =>
        result.wake # None /\ result.wake <= records[id].envelope.expiresAt

\* No handler is forgotten: the dispatch of an emission in processing has reached the
\* caller or is in the result of the cycle under way, also when cycles throw.
NoDispatchLost ==
  \A id \in DOMAIN bindings :
    bindings[id].state = "Processing" =>
      handed = id \/ result.dispatch = id

\* No dispatchable work waits beside an idle handler ("garantia work-conserving del Host"):
\* neither when a cycle that may dispatch reports, whatever failed before it, nor, as long
\* as the machine has not failed, between any two cycles, those that change settings, admit
\* nothing, reject a completion or throw for a logic error included.
WorkConserving ==
  (\/ stage = "Report" /\ result.processed # "FlowSettingsUpdate"
   \/ stage = "Idle" /\ failures = 0) =>
    /\ pendingReadyEmission = None
    /\ inFlightEmissionId = 0 => Pending(records) = {}

\* What a caller and the mailbox may rely on at any stage of a cycle.
HostInv == HostTypeOK /\ LeaseIsFront /\ NoLostWakeup

\* Every command that is posted is served in the end, although its processing may
\* throw because of the machine or because a chat batch is in its way.
EveryCommandConsumed ==
  \A sequence \in Sequence :
    (\E i \in DOMAIN postedCommands : postedCommands[i].sequence = sequence)
      ~> (\A i \in DOMAIN postedCommands : postedCommands[i].sequence # sequence)

\* "Una completion definitivamente rechazada se consume y no puede envenenar el FIFO"
\* (PROJECT_CONTEXT.md:250): the completion of an emission that is gone can never
\* succeed, and it leaves the front.
RejectedCompletionConsumed ==
  \A sequence \in Sequence :
    (/\ postedCommands # <<>>
     /\ Head(postedCommands).sequence = sequence
     /\ Head(postedCommands).command.kind = "Completion"
     /\ nextIdentity = 0 \/ Head(postedCommands).command.detail.id < nextIdentity
     /\ Head(postedCommands).command.detail.id \notin DOMAIN records)
      ~> (\A i \in DOMAIN postedCommands : postedCommands[i].sequence # sequence)

\* The host as the threads that post see it: the line of EventService, with the
\* sequences, the lease and the cycle hidden.  A command is served when the
\* coordinator has answered it, although it is acknowledged later.
Service == INSTANCE EventService WITH
  Command <- Commands,
  waiting <- LET line == [i \in DOMAIN postedCommands |-> postedCommands[i].command]
             IN  IF stage \in {"Acknowledge", "Reject"} THEN Tail(line) ELSE line,
  deliveries <- [id \in DOMAIN bindings |->
                   [stage |-> IF bindings[id].state = "Processing" THEN "Processing"
                              ELSE IF IsReady(id) THEN "Ready" ELSE "Waiting",
                    payload |-> PayloadOf(id)]],
  used <- IF nextIdentity = 0 THEN MaxIdentity ELSE nextIdentity - 1

ImplementsService == Service!ServiceSpec
==============================================================================
