---------------------------- MODULE EventHostProofs ----------------------------
(***************************************************************************)
(* The host, for any commands, any number of sequences and failures at any *)
(* stage.                                                                  *)
(*                                                                         *)
(* The mailbox comes first: what the coordinator does within a step does   *)
(* not matter to it, only posts, leases and acknowledgements touch it.     *)
(* Then the coordinator inside the host: each step of a cycle is one call  *)
(* or none, so its invariant and the core's specification carry over.  On  *)
(* these two rest what a caller of RunOneCycle goes by (the dispatch, the  *)
(* wake-up time, the work left) and, at last, that the threads see the     *)
(* service of EventService.                                                *)
(***************************************************************************)
EXTENDS EventHost, EventPipelineProofs, SequenceTheorems

\* The sequence of the command posted last, and of the command at a place of a line of
\* consecutive sequences that ends with it.
Last(next) == IF next = 0 THEN MaxSequence ELSE next - 1
At(length, next, i) == Last(next) - (length - i)

\* The line itself, its counter, and the fields a result always has.
MailboxTypes ==
  /\ postedCommands \in Seq(Entry)
  /\ nextPostedCommandSequence \in Sequence \cup {0}
  /\ DOMAIN result = DOMAIN NoResult
  /\ signal \in BOOLEAN

MailboxInv == MailboxTypes /\ LeaseIsFront /\ NoLostWakeup

\* The result of a cycle that throws has its fields.
LEMMA ResultFields == DOMAIN [NoResult EXCEPT !.threw = TRUE] = DOMAIN NoResult
BY DEF NoResult

\* The numbering of the line, with the name of its last sequence.
LEMMA Numbering ==
  LeaseIsFront <=>
    /\ \A i \in DOMAIN postedCommands :
         postedCommands[i].sequence = At(Len(postedCommands), nextPostedCommandSequence, i)
    /\ stage \in {"Acknowledge", "Reject"} =>
         /\ postedCommands # <<>>
         /\ Head(postedCommands).sequence = result.sequence
BY DEF LeaseIsFront, At, Last

\* A step of the owner that leaves the mailbox and the signal alone and leases nothing
\* keeps the invariant if the cycle goes on, throws, or tells whether commands are left.
LEMMA QuietStep ==
  ASSUME MailboxInv, UNCHANGED <<mailboxVars, signal>>,
         DOMAIN result' = DOMAIN NoResult,
         stage' \notin {"Acknowledge", "Reject"},
         stage' # "Idle" \/ result'.threw = TRUE \/ result'.more = (postedCommands # <<>>)
  PROVE  MailboxInv'
BY DEF MailboxInv, MailboxTypes, LeaseIsFront, NoLostWakeup, mailboxVars

\* A post numbers its command next to the last one, and tells of an empty mailbox.
LEMMA PostKeeps ==
  ASSUME MailboxInv, NEW command \in Commands, Post(command)
  PROVE  MailboxInv'
<1> DEFINE next == nextPostedCommandSequence
           entry == [sequence |-> next, command |-> command]
<1>1. /\ next \in Sequence /\ MaxSequence \in Nat \ {0}
      /\ entry \in Entry
      /\ postedCommands \in Seq(Entry)
      /\ postedCommands' = Append(postedCommands, entry)
      /\ next' = IF next = MaxSequence THEN 0 ELSE next + 1
  BY HostAssumption DEF MailboxInv, MailboxTypes, Post, PutLast, NextSequence, Entry, Sequence
<1>2. /\ stage' = stage /\ result' = result
      /\ signal' = (signal \/ postedCommands = <<>>)
  BY DEF Post, ownerVars
<1>3. MailboxTypes'
  <2>1. postedCommands' \in Seq(Entry)
    BY <1>1, AppendProperties
  <2>2. next' \in Sequence \cup {0}
    BY <1>1 DEF Sequence
  <2>3. QED
    BY <1>2, <2>1, <2>2 DEF MailboxInv, MailboxTypes
<1>4. LeaseIsFront'
  <2>1. /\ Len(postedCommands') = Len(postedCommands) + 1
        /\ \A i \in 1..Len(postedCommands) : postedCommands'[i] = postedCommands[i]
        /\ postedCommands'[Len(postedCommands) + 1] = entry
        /\ DOMAIN postedCommands' = 1..(Len(postedCommands) + 1)
        /\ DOMAIN postedCommands = 1..Len(postedCommands)
        /\ Len(postedCommands) \in Nat
    BY <1>1, AppendProperties, LenProperties
  <2>2. Last(next') = Last(next) + 1 /\ Last(next) \in Int /\ Last(next') = next
    BY <1>1 DEF Last, Sequence
  <2>3. ASSUME NEW i \in DOMAIN postedCommands'
        PROVE  postedCommands'[i].sequence = At(Len(postedCommands'), next', i)
    <3>1. CASE i = Len(postedCommands) + 1
      BY <3>1, <2>1, <2>2 DEF At
    <3>2. CASE i \in 1..Len(postedCommands)
      <4>1. postedCommands[i].sequence = At(Len(postedCommands), next, i)
        BY <3>2, <2>1, Numbering DEF MailboxInv
      <4>2. At(Len(postedCommands'), next', i) = At(Len(postedCommands), next, i)
        BY <3>2, <2>1, <2>2 DEF At
      <4>3. QED
        BY <3>2, <4>1, <4>2, <2>1
    <3>3. QED
      BY <2>1, <3>1, <3>2
  <2>4. stage' \in {"Acknowledge", "Reject"} =>
          /\ postedCommands' # <<>>
          /\ Head(postedCommands').sequence = result'.sequence
    <3>1. SUFFICES ASSUME stage \in {"Acknowledge", "Reject"}
                   PROVE  /\ postedCommands' # <<>>
                          /\ Head(postedCommands').sequence = result.sequence
      BY <1>2
    <3>2. postedCommands # <<>> /\ Head(postedCommands).sequence = result.sequence
      BY <3>1 DEF MailboxInv, LeaseIsFront
    <3>3. postedCommands' # <<>> /\ Head(postedCommands') = Head(postedCommands)
      BY <1>1, <3>2, <2>1
    <3>4. QED
      BY <3>2, <3>3
  <2>5. QED
    BY <2>3, <2>4 DEF LeaseIsFront, At, Last
<1>5. NoLostWakeup'
  BY <1>2 DEF MailboxInv, MailboxTypes, NoLostWakeup
<1>6. QED
  BY <1>3, <1>4, <1>5 DEF MailboxInv

\* Leasing the front leaves it where it is, with its sequence in the result.
LEMMA LeaseKeeps ==
  ASSUME MailboxInv, ProcessPostedCommand
  PROVE  MailboxInv'
<1>1. CASE ~MayAcknowledge(outcome'.status)
  <2>1. Throw /\ UNCHANGED <<mailboxVars, signal>>
    BY <1>1 DEF ProcessPostedCommand
  <2>2. QED
    BY <2>1, QuietStep, ResultFields DEF Throw, NoResult
<1>2. CASE MayAcknowledge(outcome'.status)
  <2> DEFINE lease == Head(postedCommands)
  <2>1. /\ postedCommands # <<>>
        /\ UNCHANGED <<mailboxVars, signal>>
        /\ stage' \in {"Acknowledge", "Reject"}
        /\ \E completed :
             result' = [result EXCEPT !.sequence = lease.sequence,
                                      !.processed = lease.command.kind,
                                      !.completed = completed]
    BY <1>2 DEF ProcessPostedCommand
  <2>2. DOMAIN result' = DOMAIN NoResult /\ result'.sequence = lease.sequence
    BY <2>1 DEF MailboxInv, MailboxTypes, NoResult
  <2>3. QED
    BY <2>1, <2>2 DEF MailboxInv, MailboxTypes, LeaseIsFront, NoLostWakeup, mailboxVars
<1>3. QED
  BY <1>1, <1>2

\* The acknowledgement takes the front away; what is left is still consecutive.
LEMMA AcknowledgementKeeps ==
  ASSUME MailboxInv, AcknowledgeCommandLease, signal' = signal,
         DOMAIN result' = DOMAIN NoResult,
         stage' \notin {"Acknowledge", "Reject"},
         stage' # "Idle" \/ result'.threw = TRUE
  PROVE  MailboxInv'
<1> DEFINE rest == postedCommands'
<1>1. /\ postedCommands \in Seq(Entry) /\ postedCommands # <<>>
      /\ rest = Tail(postedCommands)
      /\ nextPostedCommandSequence' = nextPostedCommandSequence
  BY DEF MailboxInv, MailboxTypes, AcknowledgeCommandLease
<1>2. /\ rest \in Seq(Entry)
      /\ Len(rest) = Len(postedCommands) - 1
      /\ \A i \in 1..Len(rest) : rest[i] = postedCommands[i + 1]
      /\ DOMAIN rest = 1..Len(rest)
      /\ DOMAIN postedCommands = 1..Len(postedCommands)
      /\ Len(postedCommands) \in Nat
  BY <1>1, HeadTailProperties, LenProperties
<1>3. ASSUME NEW i \in DOMAIN rest
      PROVE  rest[i].sequence = At(Len(rest), nextPostedCommandSequence', i)
  <2>1. i + 1 \in DOMAIN postedCommands /\ rest[i] = postedCommands[i + 1] /\ i \in Nat
    BY <1>2
  <2>2. rest[i].sequence = At(Len(postedCommands), nextPostedCommandSequence, i + 1)
    BY <2>1, Numbering DEF MailboxInv
  <2>3. Last(nextPostedCommandSequence) \in Int
    BY HostAssumption DEF Last, MailboxInv, MailboxTypes, Sequence
  <2>4. QED
    BY <1>1, <1>2, <2>1, <2>2, <2>3 DEF At
<1>4. LeaseIsFront'
  BY <1>3 DEF LeaseIsFront, At, Last
<1>5. QED
  BY <1>1, <1>2, <1>4 DEF MailboxInv, MailboxTypes, NoLostWakeup

\* Every step of a cycle keeps the invariant, whatever the coordinator does in it.
LEMMA CycleKeeps ==
  ASSUME MailboxInv, RunOneCycle
  PROVE  MailboxInv'
<1>1. CASE BeginCycle
  BY <1>1 DEF BeginCycle, MailboxInv, MailboxTypes, LeaseIsFront, NoLostWakeup, mailboxVars
<1>2. CASE FindNoCommand
  BY <1>2, QuietStep DEF FindNoCommand, MailboxInv, MailboxTypes
<1>3. CASE ProcessPostedCommand
  BY <1>3, LeaseKeeps
<1>4. CASE Acknowledge
  <2>1. /\ AcknowledgeCommandLease /\ signal' = signal /\ result' = result
        /\ stage' \in {"Dispatch", "Wake"}
    BY <1>4 DEF Acknowledge
  <2>2. QED
    BY <2>1, AcknowledgementKeeps DEF MailboxInv, MailboxTypes
<1>5. CASE Reject
  BY <1>5, AcknowledgementKeeps, ResultFields DEF Reject, Throw, NoResult
<1>6. CASE FindNothingReady
  BY <1>6, QuietStep DEF FindNothingReady, MailboxInv, MailboxTypes
<1>7. CASE BeginPendingDispatch
  <2>1. /\ UNCHANGED <<mailboxVars, signal>> /\ stage' = "Wake"
        /\ result' = [result EXCEPT !.dispatch = outcome'.emissionId]
    BY <1>7 DEF BeginPendingDispatch, AfterDispatch
  <2>2. DOMAIN result' = DOMAIN NoResult
    BY <2>1 DEF MailboxInv, MailboxTypes
  <2>3. QED
    BY <2>1, <2>2, QuietStep
<1>8. CASE PumpOnce
  BY <1>8, QuietStep DEF PumpOnce, AfterPump, MailboxInv, MailboxTypes
<1>9. CASE FindNextWakeTime
  <2>1. /\ UNCHANGED <<mailboxVars, signal>> /\ stage' = "Report"
        /\ result' = [result EXCEPT !.wake = reply'.wake]
    BY <1>9 DEF FindNextWakeTime, AskWake
  <2>2. DOMAIN result' = DOMAIN NoResult
    BY <2>1 DEF MailboxInv, MailboxTypes
  <2>3. QED
    BY <2>1, <2>2, QuietStep
<1>10. CASE ReturnResult
  <2>1. /\ UNCHANGED <<mailboxVars, signal>> /\ stage' = "Idle"
        /\ result' = [NoResult EXCEPT !.wake = result.wake, !.more = (postedCommands # <<>>)]
    BY <1>10 DEF ReturnResult, MoreCommandsPending
  <2>2. DOMAIN result' = DOMAIN NoResult /\ result'.more = (postedCommands # <<>>)
    BY <2>1 DEF NoResult
  <2>3. QED
    BY <2>1, <2>2, QuietStep
<1>11. CASE CycleThrows
  <2>1. /\ UNCHANGED mailboxVars /\ Throw /\ signal' = (signal /\ stage # "Idle")
    BY <1>11 DEF CycleThrows
  <2>2. QED
    BY <2>1, ResultFields
    DEF Throw, NoResult, MailboxInv, MailboxTypes, LeaseIsFront, NoLostWakeup, mailboxVars
<1>12. QED
  BY <1>1, <1>2, <1>3, <1>4, <1>5, <1>6, <1>7, <1>8, <1>9, <1>10, <1>11 DEF RunOneCycle

\* The mailbox starts empty, with the first sequence to come.
LEMMA MailboxInit ==
  ASSUME HostInit
  PROVE  MailboxInv
<1>1. /\ postedCommands = <<>> /\ nextPostedCommandSequence = 1
      /\ stage = "Idle" /\ result = NoResult /\ signal = FALSE
  BY DEF HostInit
<1>2. postedCommands \in Seq(Entry) /\ DOMAIN postedCommands = {}
  BY <1>1
<1>3. nextPostedCommandSequence \in Sequence
  BY <1>1, HostAssumption DEF Sequence
<1>4. QED
  BY <1>1, <1>2, <1>3 DEF MailboxInv, MailboxTypes, LeaseIsFront, NoLostWakeup

\* Posts, cycles and the clock keep the invariant of the mailbox.
LEMMA MailboxStep ==
  ASSUME MailboxInv, [HostNext]_hostVars
  PROVE  MailboxInv'
<1>1. CASE UNCHANGED hostVars
  BY <1>1 DEF hostVars, mailboxVars, ownerVars, MailboxInv, MailboxTypes, LeaseIsFront,
              NoLostWakeup
<1>2. ASSUME NEW command \in Commands, Post(command)
      PROVE  MailboxInv'
  BY <1>2, PostKeeps
<1>3. CASE RunOneCycle
  BY <1>3, CycleKeeps
<1>4. CASE HostTick
  BY <1>4 DEF HostTick, mailboxVars, ownerVars, MailboxInv, MailboxTypes, LeaseIsFront,
              NoLostWakeup
<1>5. QED
  BY <1>1, <1>2, <1>3, <1>4 DEF HostNext

\* So it holds at any time.
LEMMA MailboxInvariant == HostSpec => []MailboxInv
BY MailboxInit, MailboxStep, PTL DEF HostSpec

\* The commands of all threads stand in one line of consecutive sequences, and what an
\* acknowledgement takes away is the command that was leased: the program never reaches
\* the terminate() in AcknowledgeCommandLease, however posts and cycles interleave.
THEOREM AcknowledgesWhatItLeased == HostSpec => []LeaseIsFront
<1>1. MailboxInv => LeaseIsFront
  BY DEF MailboxInv
<1>2. QED
  BY <1>1, MailboxInvariant, PTL

\* No wake-up is lost: if the owner sleeps although nobody told it to run and its last
\* cycle neither threw nor said that commands are left, the mailbox is empty.
THEOREM SleepsOnlyIfEmpty == HostSpec => []NoLostWakeup
<1>1. MailboxInv => NoLostWakeup
  BY DEF MailboxInv
<1>2. QED
  BY <1>1, MailboxInvariant, PTL
------------------------------------------------------------------------------
\* The coordinator inside the host.  The clock keeps the answer of the coordinator, so
\* a tick of the host is no step of PipelineSpec, but it changes nothing else either.

\* What a thread posts is a call the coordinator takes.
LEMMA PerformIsStep ==
  ASSUME NEW command \in Commands, Perform(command)
  PROVE  PipelineNext
<1>1. command \in Command
      /\ (command.kind = "Input" => (command.detail # None <=> command.flow = Chat))
  BY HostAssumption
<1>2. CASE command.kind = "Input"
  <2>1. command.flow \in Routes /\ command.detail \in ChatInputs \cup {None}
    BY <1>1, <1>2 DEF Command
  <2> QED
    BY <1>1, <1>2, <2>1 DEF Perform, PipelineNext
<1>3. CASE command.kind = "Completion"
  <2>1. /\ command.flow \in Routes
        /\ command.detail.id \in Identity /\ command.detail.succeeded \in BOOLEAN
    BY <1>1, <1>3 DEF Command
  <2> QED
    BY <1>3, <2>1 DEF Perform, PipelineNext
<1>4. CASE command.kind = "FlowSettingsUpdate"
  <2>1. command.flow \in FlowInputs /\ command.detail \in SettingsInputs
    BY <1>1, <1>4 DEF Command
  <2> QED
    BY <1>4, <2>1 DEF Perform, PassToCore, PipelineNext
<1> QED
  BY <1>1, <1>2, <1>3, <1>4 DEF Command

\* Each step of the owner is a call of the coordinator or leaves it alone.
LEMMA CycleOfPipeline ==
  ASSUME PipelineInv, MailboxInv, RunOneCycle
  PROVE  [PipelineNext]_pipelineVars
<1>1. ASSUME postedCommands # <<>>
      PROVE  Head(postedCommands).command \in Commands
  <2>1. postedCommands \in Seq(Entry)
    BY DEF MailboxInv, MailboxTypes
  <2>2. Head(postedCommands) \in Entry
    BY <1>1, <2>1
  <2> QED
    BY <2>2 DEF Entry
<1>2. CASE BeginCycle \/ PumpOnce
  BY <1>2 DEF BeginCycle, PumpOnce, PipelineNext
<1>3. CASE ProcessPostedCommand
  BY <1>1, <1>3, PerformIsStep DEF ProcessPostedCommand
<1>4. CASE BeginPendingDispatch
  <2>1. /\ pendingReadyEmission # None
        /\ BeginProcessing(pendingReadyEmission.flow)
    BY <1>4 DEF BeginPendingDispatch
  <2>2. IsReadyBindingValid
    BY <2>1 DEF BeginProcessing
  <2>3. pendingReadyEmission.flow \in Routes
    BY <2>2 DEF IsReadyBindingValid, PipelineInv, PipelineTypeOK, Binding
  <2> QED
    BY <2>1, <2>3 DEF PipelineNext
<1>5. CASE FindNextWakeTime
  BY <1>5 DEF FindNextWakeTime, AskWake, PassToCore, PipelineNext
<1>6. CASE CycleThrows
  <2>1. CASE UNCHANGED pipelineVars
    BY <2>1
  <2>2. CASE /\ postedCommands # <<>>
             /\ Head(postedCommands).command.kind = "Input"
             /\ ThrowAfterInsert(Head(postedCommands).command.flow)
    <3>1. Head(postedCommands).command \in Command
      BY <1>1, <2>2, HostAssumption
    <3>2. Head(postedCommands).command.flow \in Routes
      BY <2>2, <3>1 DEF Command
    <3> QED
      BY <2>2, <3>2 DEF PipelineNext
  <2> QED
    BY <1>6, <2>1, <2>2 DEF CycleThrows
<1>7. CASE FindNoCommand \/ Acknowledge \/ Reject \/ FindNothingReady \/ ReturnResult
  BY <1>7 DEF FindNoCommand, Acknowledge, Reject, FindNothingReady, ReturnResult
<1> QED
  BY <1>2, <1>3, <1>4, <1>5, <1>6, <1>7 DEF RunOneCycle

\* A tick, or a step without the coordinator, leaves its invariant alone.
LEMMA TickKeepsPipeline ==
  ASSUME PipelineInv, Tick, UNCHANGED <<externalVars, outcome>>
  PROVE  PipelineInv'
<1>1. IInv'
  BY NextPreserves DEF PipelineInv, Next
<1>2. outcome' \in Outcome
  BY DEF PipelineInv, PipelineTypeOK
<1> QED
  BY <1>1, <1>2, RefusalKeeps DEF Tick, queueVars, externalVars

\* What the coordinator and its core keep, they keep inside the host.
LEMMA HostStepKeepsPipeline ==
  ASSUME PipelineInv, MailboxInv, [HostNext]_hostVars
  PROVE  PipelineInv' /\ [Next]_vars
<1>1. ASSUME [PipelineNext]_pipelineVars
      PROVE  PipelineInv' /\ [Next]_vars
  BY <1>1, PipelineNextPreserves, PipelineStutters, StepsOfCore DEF pipelineVars
<1>2. CASE HostTick
  BY <1>2, TickKeepsPipeline DEF HostTick, Next
<1>3. ASSUME NEW command \in Commands, Post(command)
      PROVE  [PipelineNext]_pipelineVars
  BY <1>3 DEF Post
<1>4. CASE UNCHANGED hostVars
  BY <1>1, <1>4 DEF hostVars
<1> QED
  BY <1>1, <1>2, <1>3, <1>4, CycleOfPipeline DEF HostNext

\* The coordinator starts in its own initial state.
LEMMA HostInitEstablishes ==
  ASSUME HostInit
  PROVE  PipelineInv /\ MailboxInv /\ Init
BY MailboxInit, PipelineInitEstablishes DEF HostInit, PipelineInit

\* However posts, the clock and failures come in between the stages of a cycle, the
\* coordinator never works on anything but a consistent queue.
THEOREM HostKeepsPipeline == HostSpec => []PipelineInv
<1>1. PipelineInv /\ MailboxInv /\ [HostNext]_hostVars => (PipelineInv /\ MailboxInv)'
  BY HostStepKeepsPipeline, MailboxStep
<1> QED
  BY <1>1, HostInitEstablishes, PTL DEF HostSpec

\* The host uses the core as its callers may: each of its steps is one call of the
\* core or none.
THEOREM HostUsesCore == HostSpec => Spec
<1>1. PipelineInv /\ MailboxInv /\ [HostNext]_hostVars => [Next]_vars
  BY HostStepKeepsPipeline
<1> QED
  BY <1>1, HostInitEstablishes, HostKeepsPipeline, MailboxInvariant, PTL DEF HostSpec, Spec
------------------------------------------------------------------------------
\* The result a cycle puts together.

\* What comes out of a step of the owner that only moves its cycle on.
LEMMA ResultTypeKept ==
  ASSUME PipelineInv', HostTypeOK, RunOneCycle
  PROVE  result' \in Result
<1>1. result \in Result /\ NoResult \in Result
  BY DEF HostTypeOK, NoResult, Result, CommandKind
<1>2. ASSUME Throw
      PROVE  result' \in Result
  BY <1>1, <1>2 DEF Throw, Result
<1>3. CASE ProcessPostedCommand
  <2> DEFINE lease == Head(postedCommands)
             completed == IF lease.command.kind = "Completion"
                          THEN lease.command.detail.id ELSE 0
  <2>1. lease \in Entry
    BY <1>3 DEF ProcessPostedCommand, HostTypeOK
  <2>2. lease.sequence \in Sequence /\ lease.command \in Commands
    BY <2>1 DEF Entry
  <2>3. lease.command \in Command
    BY <2>2, HostAssumption
  <2>4. lease.command.kind \in CommandKind /\ completed \in Identity \cup {0}
    BY <2>3 DEF Command, CommandKind
  <2>5. Throw \/ result' = [result EXCEPT !.sequence = lease.sequence,
                                          !.processed = lease.command.kind,
                                          !.completed = completed]
    BY <1>3 DEF ProcessPostedCommand
  <2> HIDE DEF lease, completed
  <2> QED
    BY <1>1, <1>2, <2>2, <2>4, <2>5 DEF Result
<1>4. CASE BeginPendingDispatch
  <2>1. result' = [result EXCEPT !.dispatch = outcome'.emissionId]
    BY <1>4 DEF BeginPendingDispatch
  <2>2. outcome'.emissionId \in Identity \cup {0}
    BY DEF PipelineInv, PipelineTypeOK, Outcome
  <2> QED
    BY <1>1, <2>1, <2>2 DEF Result
<1>5. CASE FindNextWakeTime
  <2>1. result' = [result EXCEPT !.wake = reply'.wake]
    BY <1>5 DEF FindNextWakeTime, AskWake
  <2>2. reply'.wake \in Time \cup {None}
    BY DEF PipelineInv, IInv, TypeOK, Reply
  <2> QED
    BY <1>1, <2>1, <2>2 DEF Result
<1>6. CASE ReturnResult
  <2>1. result' = [NoResult EXCEPT !.wake = result.wake, !.more = MoreCommandsPending]
    BY <1>6 DEF ReturnResult
  <2>2. result.wake \in Time \cup {None} /\ MoreCommandsPending \in BOOLEAN
    BY <1>1 DEF Result, MoreCommandsPending
  <2> QED
    BY <1>1, <2>1, <2>2 DEF Result
<1>7. CASE BeginCycle
  BY <1>1, <1>7 DEF BeginCycle
<1>8. CASE Reject \/ CycleThrows
  BY <1>2, <1>8 DEF Reject, CycleThrows
<1>9. CASE FindNoCommand \/ Acknowledge \/ FindNothingReady \/ PumpOnce
  BY <1>1, <1>9 DEF FindNoCommand, Acknowledge, FindNothingReady, PumpOnce
<1> QED
  BY <1>3, <1>4, <1>5, <1>6, <1>7, <1>8, <1>9 DEF RunOneCycle

\* The owner's own variables keep their types in every step of a cycle.
LEMMA OwnerTypeKept ==
  ASSUME HostTypeOK, RunOneCycle
  PROVE  /\ stage' \in Stage
         /\ handed' \in Identity \cup {0}
         /\ failures' \in 0..MaxFailures
<1>1. /\ stage \in Stage /\ handed \in Identity \cup {0} /\ failures \in 0..MaxFailures
      /\ result.dispatch \in Identity \cup {0}
      /\ MaxFailures \in Nat
  BY HostAssumption DEF HostTypeOK, Result
<1>2. CASE ProcessPostedCommand
  BY <1>1, <1>2 DEF ProcessPostedCommand, Throw, Stage
<1>3. CASE CycleThrows
  BY <1>1, <1>3 DEF CycleThrows, Throw, Stage
<1>4. CASE Reject
  BY <1>1, <1>4 DEF Reject, Throw, Stage
<1>5. CASE ReturnResult
  BY <1>1, <1>5 DEF ReturnResult, Stage
<1>6. CASE BeginCycle \/ FindNoCommand \/ Acknowledge \/ FindNothingReady
  BY <1>1, <1>6 DEF BeginCycle, FindNoCommand, Acknowledge, FindNothingReady, Stage
<1>7. CASE BeginPendingDispatch \/ PumpOnce \/ FindNextWakeTime
  BY <1>1, <1>7
  DEF BeginPendingDispatch, AfterDispatch, PumpOnce, AfterPump, FindNextWakeTime, Stage
<1> QED
  BY <1>2, <1>3, <1>4, <1>5, <1>6, <1>7 DEF RunOneCycle

\* Every step keeps the types of the host.
LEMMA HostTypesKept ==
  ASSUME PipelineInv', MailboxInv', HostTypeOK, [HostNext]_hostVars
  PROVE  HostTypeOK'
<1>1. /\ postedCommands' \in Seq(Entry) /\ nextPostedCommandSequence' \in Sequence \cup {0}
      /\ signal' \in BOOLEAN
  BY DEF MailboxInv, MailboxTypes
<1>2. ASSUME UNCHANGED ownerVars
      PROVE  HostTypeOK'
  BY <1>1, <1>2 DEF HostTypeOK, ownerVars
<1>3. CASE RunOneCycle
  BY <1>1, <1>3, ResultTypeKept, OwnerTypeKept DEF HostTypeOK
<1>4. ASSUME NEW command \in Commands, Post(command)
      PROVE  UNCHANGED ownerVars
  BY <1>4 DEF Post
<1>5. CASE HostTick
  BY <1>2, <1>5 DEF HostTick
<1>6. CASE UNCHANGED hostVars
  BY <1>2, <1>6 DEF hostVars
<1> QED
  BY <1>2, <1>3, <1>4, <1>5, <1>6 DEF HostNext

\* What a caller and the mailbox may rely on at any stage of a cycle.
HostBase == PipelineInv /\ MailboxInv /\ HostTypeOK

\* It holds when the host starts,
LEMMA HostBaseInit ==
  ASSUME HostInit
  PROVE  HostBase
<1>1. stage = "Idle" /\ result = NoResult /\ handed = 0 /\ failures = 0 /\ signal = FALSE
  BY DEF HostInit
<1>2. NoResult \in Result /\ MaxFailures \in Nat
  BY HostAssumption DEF NoResult, Result, CommandKind
<1> QED
  BY <1>1, <1>2, HostInitEstablishes
  DEF HostBase, HostTypeOK, MailboxInv, MailboxTypes, Stage

\* is kept by every step,
LEMMA HostBaseStep ==
  ASSUME HostBase, [HostNext]_hostVars
  PROVE  HostBase'
BY HostStepKeepsPipeline, MailboxStep, HostTypesKept DEF HostBase

\* and so holds at any time.
LEMMA HostBaseInvariant == HostSpec => []HostBase
BY HostBaseInit, HostBaseStep, PTL DEF HostSpec

\* What a thread and a caller of RunOneCycle may rely on holds at any stage of a cycle:
\* the line is consecutive, the front is what was leased, and no wake-up is lost.
THEOREM HostConsistent == HostSpec => []HostInv
<1>1. HostBase => HostInv
  BY DEF HostBase, MailboxInv, HostInv
<1> QED
  BY <1>1, HostBaseInvariant, PTL
------------------------------------------------------------------------------
\* No handler is forgotten.

BeingProcessed(bound) == {id \in DOMAIN bound : bound[id].state = "Processing"}

\* What the result of the cycle has, else the last one the caller got.
DispatchKnown == IF result.dispatch # 0 THEN result.dispatch ELSE handed

\* A result has a dispatch only until it is returned, and what is in processing is the
\* dispatch given last.
DispatchInv ==
  /\ result.dispatch # 0 => stage \in {"Wake", "Report"}
  /\ BeingProcessed(bindings) \subseteq {DispatchKnown}

\* A commit begins no processing, with or without an admission.
LEMMA CommitBeginsNothing ==
  ASSUME NEW answer, NEW bound, NEW stored, CommitExternal(answer, bound, stored),
         BeingProcessed(bound) \subseteq BeingProcessed(bindings)
  PROVE  BeingProcessed(bindings') \subseteq BeingProcessed(bindings)
BY DEF CommitExternal, Without, BeingProcessed

\* Nor does an admission.
LEMMA AdmissionBeginsNothing ==
  ASSUME NEW flow, NEW payload, Admission(flow, payload)
  PROVE  BeingProcessed(bindings') \subseteq BeingProcessed(bindings)
<1> DEFINE id == reply'.emission.emissionId
           binding == [expectedFlow |-> flow, handle |-> nextHandle[flow], state |-> "Bound"]
           bound == With(bindings, id, binding)
           stored == With(payloads, <<flow, nextHandle[flow]>>, payload)
<1>1. CommitExternal(reply', bound, stored)
  BY DEF Admission
<1>2. binding.state = "Bound"
  OBVIOUS
<1>3. BeingProcessed(bound) \subseteq BeingProcessed(bindings)
  BY <1>2 DEF With, BeingProcessed
<1> QED
  BY <1>1, <1>3, CommitBeginsNothing

\* Only BeginProcessing begins the processing of an emission.
LEMMA OnlyBeginBegins ==
  ASSUME NEW command, Perform(command) \/ ProcessPipelineExpirations \/ PumpPipeline
  PROVE  BeingProcessed(bindings') \subseteq BeingProcessed(bindings)
<1>1. ASSUME UNCHANGED bindings
      PROVE  BeingProcessed(bindings') \subseteq BeingProcessed(bindings)
  BY <1>1
<1>2. ASSUME CommitExternal(reply', bindings, payloads)
      PROVE  BeingProcessed(bindings') \subseteq BeingProcessed(bindings)
  BY <1>2, CommitBeginsNothing
<1>3. CASE ProcessPipelineExpirations \/ PumpPipeline
  BY <1>2, <1>3 DEF ProcessPipelineExpirations, PumpPipeline
<1>4. ASSUME NEW flow, SubmitDecision(flow)
      PROVE  BeingProcessed(bindings') \subseteq BeingProcessed(bindings)
  BY <1>1, <1>4, AdmissionBeginsNothing DEF SubmitDecision, RejectPayload, RollbackNow, externalVars
<1>5. ASSUME NEW input, SubmitChat(input)
      PROVE  BeingProcessed(bindings') \subseteq BeingProcessed(bindings)
  <2>1. CASE OpenBatch(input)
    BY <1>1, <2>1, AdmissionBeginsNothing DEF OpenBatch, RollbackNow
  <2>2. CASE Accumulate(input)
    BY <1>1, <2>2 DEF Accumulate
  <2>3. CASE DeclineChat(input) \/ RejectAppend(input) \/ RejectPayload(Chat)
    BY <1>1, <2>3 DEF DeclineChat, RejectAppend, RejectPayload, externalVars
  <2> QED
    BY <1>5, <2>1, <2>2, <2>3 DEF SubmitChat
<1>6. ASSUME NEW input, SubmitChatThrows(input)
      PROVE  BeingProcessed(bindings') \subseteq BeingProcessed(bindings)
  BY <1>1, <1>6 DEF SubmitChatThrows, ThrowAfterInsert, externalVars
<1>7. ASSUME NEW id, NEW succeeded, NEW flow, CompleteProcessing(id, succeeded, flow)
      PROVE  BeingProcessed(bindings') \subseteq BeingProcessed(bindings)
  BY <1>1, <1>2, <1>7 DEF CompleteProcessing, externalVars
<1>8. CASE Perform(command)
  BY <1>1, <1>4, <1>5, <1>6, <1>7, <1>8 DEF Perform, externalVars
<1> QED
  BY <1>3, <1>8

\* The emission that is ready begins, alone: nothing was processed before.
LEMMA BeginIsAlone ==
  ASSUME PipelineInv, pendingReadyEmission # None,
         BeginProcessing(pendingReadyEmission.flow)
  PROVE  /\ outcome'.emissionId \in Identity
         /\ outcome'.status = "Dispatched"
         /\ BeingProcessed(bindings') = {outcome'.emissionId}
<1> DEFINE id == pendingReadyEmission.emissionId
<1>1. /\ IsReadyBindingValid
      /\ bindings' = [bindings EXCEPT ![id].state = "Processing"]
      /\ outcome' = [Told("Dispatched", id) EXCEPT !.payload = PayloadOf(id)]
  BY DEF BeginProcessing
<1>2. id \in DOMAIN bindings /\ DOMAIN bindings \subseteq Identity
  BY <1>1 DEF IsReadyBindingValid, PipelineInv, PipelineTypeOK
<1>3. outcome'.emissionId = id /\ outcome'.status = "Dispatched"
  BY <1>1 DEF Told
<1>4. BeingProcessed(bindings) = {}
  <2>1. ReadyMatchesCore
    BY DEF PipelineInv
  <2>2. ASSUME NEW other \in DOMAIN bindings, bindings[other].state = "Processing"
        PROVE  FALSE
    BY <2>1, <2>2 DEF ReadyMatchesCore
  <2> QED
    BY <2>2 DEF BeingProcessed
<1>5. bindings[id] \in Binding
  BY <1>2 DEF PipelineInv, PipelineTypeOK
<1>6. /\ DOMAIN bindings' = DOMAIN bindings
      /\ bindings'[id].state = "Processing"
      /\ \A other \in DOMAIN bindings \ {id} : bindings'[other] = bindings[other]
  BY <1>1, <1>2, <1>5 DEF Binding
<1> QED
  BY <1>2, <1>3, <1>4, <1>6 DEF BeingProcessed

\* A step that begins no processing leaves the dispatch with the owner or its caller.
LEMMA DispatchPasses ==
  ASSUME DispatchInv, BeingProcessed(bindings') \subseteq BeingProcessed(bindings),
         result'.dispatch = 0 \/ stage' \in {"Wake", "Report"},
         (IF result'.dispatch # 0 THEN result'.dispatch ELSE handed') = DispatchKnown
  PROVE  DispatchInv'
BY DEF DispatchInv, DispatchKnown

\* Every step of a cycle keeps hold of the dispatch.
LEMMA DispatchKept ==
  ASSUME HostBase, DispatchInv, RunOneCycle
  PROVE  DispatchInv'
<1>1. /\ result \in Result /\ result.dispatch \in Identity \cup {0}
      /\ handed \in Identity \cup {0}
  BY DEF HostBase, HostTypeOK, Result
<1>2. stage \notin {"Wake", "Report"} => result.dispatch = 0
  BY DEF DispatchInv
<1>3. NoResult.dispatch = 0 /\ [NoResult EXCEPT !.threw = TRUE].dispatch = 0
  BY DEF NoResult
<1>4. ASSUME Throw, stage \notin {"Wake", "Report"},
             BeingProcessed(bindings') \subseteq BeingProcessed(bindings)
      PROVE  DispatchInv'
  <2>1. result'.dispatch = 0 /\ handed' = handed
    BY <1>3, <1>4 DEF Throw
  <2> QED
    BY <1>2, <1>4, <2>1, DispatchPasses DEF DispatchKnown
<1>5. CASE BeginCycle
  <2>1. /\ stage = "Idle" /\ result'.dispatch = 0 /\ handed' = handed
        /\ ProcessPipelineExpirations
    BY <1>3, <1>5 DEF BeginCycle
  <2> QED
    BY <1>2, <2>1, OnlyBeginBegins, DispatchPasses DEF DispatchKnown
<1>6. CASE ProcessPostedCommand
  <2> DEFINE lease == Head(postedCommands)
  <2>1. stage = "Lease" /\ Perform(lease.command)
    BY <1>6 DEF ProcessPostedCommand
  <2>2. BeingProcessed(bindings') \subseteq BeingProcessed(bindings)
    BY <2>1, OnlyBeginBegins
  <2>3. CASE Throw
    BY <1>4, <2>1, <2>2, <2>3
  <2>4. ASSUME ~Throw
        PROVE  result'.dispatch = result.dispatch /\ handed' = handed
    BY <1>1, <1>6, <2>4 DEF ProcessPostedCommand, Result
  <2> QED
    BY <1>2, <2>1, <2>2, <2>3, <2>4, DispatchPasses DEF DispatchKnown
<1>7. CASE BeginPendingDispatch
  <2>1. /\ outcome'.emissionId \in Identity
        /\ BeingProcessed(bindings') = {outcome'.emissionId}
    BY <1>7, BeginIsAlone DEF BeginPendingDispatch, HostBase
  <2>2. /\ stage' = "Wake"
        /\ result' = [result EXCEPT !.dispatch = outcome'.emissionId]
    BY <1>7 DEF BeginPendingDispatch, AfterDispatch
  <2>3. result'.dispatch = outcome'.emissionId /\ result'.dispatch # 0
    BY <1>1, <2>1, <2>2 DEF Result, Identity
  <2> QED
    BY <2>1, <2>2, <2>3 DEF DispatchInv, DispatchKnown
<1>8. CASE FindNextWakeTime
  <2>1. /\ result' = [result EXCEPT !.wake = reply'.wake]
        /\ stage' = "Report" /\ handed' = handed /\ bindings' = bindings
    BY <1>8 DEF FindNextWakeTime, AskWake, externalVars
  <2>2. result'.dispatch = result.dispatch
    BY <1>1, <2>1 DEF Result
  <2> QED
    BY <2>1, <2>2, DispatchPasses DEF DispatchKnown
<1>9. CASE ReturnResult
  <2>1. /\ result' = [NoResult EXCEPT !.wake = result.wake, !.more = MoreCommandsPending]
        /\ handed' = IF result.dispatch # 0 THEN result.dispatch ELSE handed
        /\ bindings' = bindings
    BY <1>9 DEF ReturnResult, pipelineVars, externalVars
  <2>2. result'.dispatch = 0
    BY <2>1 DEF NoResult
  <2> QED
    BY <2>1, <2>2, DispatchPasses DEF DispatchKnown
<1>10. CASE Reject
  BY <1>4, <1>10 DEF Reject, pipelineVars, externalVars
<1>11. CASE CycleThrows
  <2>1. stage \notin {"Wake", "Report"} /\ Throw
    BY <1>11, HostAssumption DEF CycleThrows
  <2>2. bindings' = bindings
    BY <1>11 DEF CycleThrows, ThrowAfterInsert, pipelineVars, externalVars
  <2> QED
    BY <1>4, <2>1, <2>2
<1>12. CASE PumpOnce
  <2>1. PumpPipeline /\ stage = "Pump" /\ result' = result /\ handed' = handed
    BY <1>12 DEF PumpOnce
  <2> QED
    BY <1>2, <2>1, OnlyBeginBegins, DispatchPasses DEF DispatchKnown
<1>13. CASE FindNoCommand \/ Acknowledge \/ FindNothingReady
  <2>1. /\ bindings' = bindings /\ result' = result /\ handed' = handed
        /\ stage \notin {"Wake", "Report"}
    BY <1>13 DEF FindNoCommand, Acknowledge, FindNothingReady, pipelineVars, externalVars
  <2> QED
    BY <1>2, <2>1, DispatchPasses DEF DispatchKnown
<1> QED
  BY <1>5, <1>6, <1>7, <1>8, <1>9, <1>10, <1>11, <1>12, <1>13 DEF RunOneCycle

\* No handler is forgotten: what the coordinator has in processing is what the caller
\* was given last, or what it gets when the cycle under way returns, wherever cycles
\* throw.
THEOREM DispatchReachesCaller == HostSpec => []NoDispatchLost
<1>1. HostInit => DispatchInv
  BY DEF HostInit, PipelineInit, DispatchInv, BeingProcessed, NoResult
<1>2. HostBase /\ DispatchInv /\ [HostNext]_hostVars => DispatchInv'
  <2> SUFFICES ASSUME HostBase, DispatchInv, [HostNext]_hostVars
               PROVE  DispatchInv'
    OBVIOUS
  <2>1. ASSUME UNCHANGED <<bindings, ownerVars>>
        PROVE  DispatchInv'
    BY <2>1 DEF DispatchInv, DispatchKnown, ownerVars
  <2>2. ASSUME NEW command \in Commands, Post(command)
        PROVE  DispatchInv'
    BY <2>1, <2>2 DEF Post, pipelineVars, externalVars
  <2>3. CASE HostTick
    BY <2>1, <2>3 DEF HostTick, externalVars
  <2>4. CASE UNCHANGED hostVars
    BY <2>1, <2>4 DEF hostVars, pipelineVars, externalVars
  <2> QED
    BY <2>2, <2>3, <2>4, DispatchKept DEF HostNext
<1>3. DispatchInv => NoDispatchLost
  BY DEF DispatchInv, DispatchKnown, BeingProcessed, NoDispatchLost
<1> QED
  BY <1>1, <1>2, <1>3, HostBaseInvariant, PTL DEF HostSpec
------------------------------------------------------------------------------
\* No expiration is overslept.

\* A wake-up time that comes no later than any expiration.
Covers(wake, recs) ==
  \A id \in Pending(recs) :
    Finite(recs[id].envelope.expiresAt) =>
      wake # None /\ wake <= recs[id].envelope.expiresAt

\* The wake-up time asked for last covers what waits until the next cycle begins.
WakeInv == (stage = "Report" \/ (stage = "Idle" /\ ~result.threw)) => Covers(result.wake, records)

\* The front of the expiration heap, once the stale keys before it are popped, covers
\* whatever waits.
LEMMA NextWakeCovers ==
  ASSUME IInv, GetNextWakeTime
  PROVE  Covers(reply'.wake, records) /\ records' = records
<1> DEFINE current == {key \in expirationIndex : IsExpirationEntryCurrent(key, records)}
<1>1. ASSUME NEW id \in Pending(records), Finite(records[id].envelope.expiresAt)
      PROVE  ExpirationKeyOf(records[id]) \in current
  <2>1. ExpirationKeyOf(records[id]) \in expirationIndex
    BY <1>1 DEF IInv, IndexesComplete, ExpirationKeysOf
  <2>2. records[id].envelope.emissionId = id
    BY DEF IInv, RecordsKeyed, Pending
  <2> QED
    BY <1>1, <2>1, <2>2 DEF IsExpirationEntryCurrent, ExpirationKeyOf
<1>2. \A key \in current : key.expiresAt \in Time
  BY DEF IInv, TypeOK, ExpirationKey
<1>3. records' = records
  BY DEF GetNextWakeTime
<1>4. \/ current = {}
      \/ \E front \in current :
           /\ \A key \in current \ {front} : ExpirationAhead(front, key)
           /\ reply' = [Answer("GetNextWakeTime", "WakeScheduled") EXCEPT
                          !.wake = front.expiresAt]
  BY DEF GetNextWakeTime
<1>5. ASSUME NEW front \in current,
             \A key \in current \ {front} : ExpirationAhead(front, key),
             reply' = [Answer("GetNextWakeTime", "WakeScheduled") EXCEPT
                         !.wake = front.expiresAt]
      PROVE  Covers(reply'.wake, records)
  <2>1. reply'.wake = front.expiresAt
    BY <1>5 DEF Answer
  <2>2. front.expiresAt # None
    BY <1>2, TypesAssumption DEF Time
  <2>3. ASSUME NEW key \in current
        PROVE  front.expiresAt <= key.expiresAt
    <3>1. front.expiresAt \in Int /\ key.expiresAt \in Int
      BY <1>2, TypesAssumption DEF Time
    <3> QED
      BY <1>5, <3>1 DEF ExpirationAhead
  <2>4. \A id : ExpirationKeyOf(records[id]).expiresAt = records[id].envelope.expiresAt
    BY DEF ExpirationKeyOf
  <2> HIDE DEF current
  <2> QED
    BY <1>1, <2>1, <2>2, <2>3, <2>4 DEF Covers
<1>6. current = {} => Covers(reply'.wake, records)
  BY <1>1 DEF Covers
<1> QED
  BY <1>3, <1>4, <1>5, <1>6

\* Every step of a cycle keeps the promise of the last wake-up time or asks anew.
LEMMA WakeKept ==
  ASSUME HostBase, WakeInv, RunOneCycle
  PROVE  WakeInv'
<1>1. /\ result \in Result
      /\ [NoResult EXCEPT !.threw = TRUE].threw = TRUE
      /\ IInv
  BY DEF HostBase, HostTypeOK, NoResult, PipelineInv
<1>2. ASSUME Throw
      PROVE  WakeInv'
  <2>1. stage' = "Idle" /\ result'.threw
    BY <1>1, <1>2 DEF Throw
  <2> QED
    BY <2>1 DEF WakeInv
<1>3. CASE FindNextWakeTime
  <2>1. /\ result' = [result EXCEPT !.wake = reply'.wake]
        /\ GetNextWakeTime
    BY <1>3 DEF FindNextWakeTime, AskWake
  <2>2. result'.wake = reply'.wake
    BY <1>1, <2>1 DEF Result
  <2> QED
    BY <1>1, <2>1, <2>2, NextWakeCovers DEF WakeInv
<1>4. CASE ReturnResult
  <2>1. /\ result' = [NoResult EXCEPT !.wake = result.wake, !.more = MoreCommandsPending]
        /\ stage = "Report" /\ records' = records
    BY <1>4 DEF ReturnResult, pipelineVars, vars, queueVars
  <2>2. result'.wake = result.wake
    BY <2>1 DEF NoResult
  <2> QED
    BY <2>1, <2>2 DEF WakeInv
<1>5. CASE Reject \/ CycleThrows
  BY <1>2, <1>5 DEF Reject, CycleThrows
<1>6. CASE ProcessPostedCommand
  BY <1>2, <1>6 DEF ProcessPostedCommand, WakeInv
<1>7. ASSUME stage' \notin {"Report", "Idle"}
      PROVE  WakeInv'
  BY <1>7 DEF WakeInv
<1>8. CASE BeginCycle \/ FindNoCommand \/ Acknowledge \/ FindNothingReady
  BY <1>7, <1>8 DEF BeginCycle, FindNoCommand, Acknowledge, FindNothingReady
<1>9. CASE BeginPendingDispatch \/ PumpOnce
  BY <1>7, <1>9 DEF BeginPendingDispatch, AfterDispatch, PumpOnce, AfterPump
<1> QED
  BY <1>3, <1>4, <1>5, <1>6, <1>8, <1>9 DEF RunOneCycle

\* Posts and the clock leave the last wake-up time and what waits alone.
LEMMA WakeStep ==
  ASSUME HostBase, WakeInv, [HostNext]_hostVars
  PROVE  WakeInv'
<1>1. ASSUME UNCHANGED <<records, ownerVars>>
      PROVE  WakeInv'
  BY <1>1 DEF WakeInv, ownerVars
<1>2. ASSUME NEW command \in Commands, Post(command)
      PROVE  WakeInv'
  BY <1>1, <1>2 DEF Post, pipelineVars, vars, queueVars
<1>3. CASE HostTick
  BY <1>1, <1>3 DEF HostTick, Tick, queueVars
<1>4. CASE UNCHANGED hostVars
  BY <1>1, <1>4 DEF hostVars, pipelineVars, vars, queueVars
<1> QED
  BY <1>2, <1>3, <1>4, WakeKept DEF HostNext

\* A caller that sleeps until the wake-up time it was given oversleeps no expiration,
\* whatever the cycle did and whatever is posted meanwhile.
THEOREM SleepsNoLongerThanDue == HostSpec => []WakeCoversExpirations
<1>1. HostInit => WakeInv
  BY DEF HostInit, PipelineInit, Init, WakeInv, Covers, Pending
<1>2. HostBase /\ WakeInv /\ [HostNext]_hostVars => WakeInv'
  BY WakeStep
<1>3. WakeInv => WakeCoversExpirations
  BY DEF WakeInv, Covers, WakeCoversExpirations
<1> QED
  BY <1>1, <1>2, <1>3, HostBaseInvariant, PTL DEF HostSpec
------------------------------------------------------------------------------
\* The host conserves work.

\* Nothing is ready and, unless something is out, nothing waits.
Busy == pendingReadyEmission = None /\ (inFlightEmissionId = 0 => Pending(records) = {})

\* The owner pumps only what it could not dispatch, and leaves the pump or the dispatch
\* with all the work there is under way.
WorkInv ==
  /\ stage = "Pump" => pendingReadyEmission = None
  /\ (stage \in {"Wake", "Report"} /\ result.processed # "FlowSettingsUpdate") => Busy

\* A pump that makes nothing ready found something out, or nothing left at all.
LEMMA PumpLeavesBusy ==
  ASSUME PipelineInv, PipelineInv', PumpPipeline, pendingReadyEmission = None,
         reply'.pump # "EmissionReady"
  PROVE  Busy'
<1>1. /\ IInv /\ IInv' /\ Pump
      /\ CommitExternal(reply', bindings, payloads)
  BY DEF PipelineInv, PumpPipeline
<1>2. Pumps(records, inFlightEmissionId, Answer("Pump", "Done"))
  BY <1>1, PumpKinds
<1>3. /\ reply'.pump = "QueueEmpty" => DOMAIN records' = {}
      /\ reply'.pump = "Busy" => inFlightEmissionId' # 0
      /\ reply'.pump # "NotRequested"
  BY <1>1, <1>2, PumpSelectsBest
<1>4. reply'.pump \in PumpStatus
  BY <1>1 DEF IInv, TypeOK, Reply
<1>5. pendingReadyEmission' = None
  BY <1>1 DEF CommitExternal, IsReady
<1> QED
  BY <1>3, <1>4, <1>5 DEF PumpStatus, Busy, Pending

\* Every step of a cycle gets on with the work.
LEMMA WorkKept ==
  ASSUME HostBase, HostBase', WorkInv, RunOneCycle
  PROVE  WorkInv'
<1>1. result \in Result /\ PipelineInv /\ PipelineInv'
  BY DEF HostBase, HostTypeOK
<1>2. ASSUME stage' \notin {"Pump", "Wake", "Report"}
      PROVE  WorkInv'
  BY <1>2 DEF WorkInv
<1>3. CASE Acknowledge
  <2>1. /\ result' = result
        /\ stage' = IF result.processed # "FlowSettingsUpdate" THEN "Dispatch" ELSE "Wake"
    BY <1>3 DEF Acknowledge, MayDispatchOrPump
  <2> QED
    BY <2>1 DEF WorkInv
<1>4. CASE FindNothingReady
  BY <1>4 DEF FindNothingReady, WorkInv, pipelineVars, externalVars
<1>5. CASE BeginPendingDispatch
  <2>1. /\ stage' = "Wake" /\ pendingReadyEmission # None
        /\ BeginProcessing(pendingReadyEmission.flow)
    BY <1>5 DEF BeginPendingDispatch, AfterDispatch
  <2>2. inFlightEmissionId # 0
    BY <1>1, <2>1 DEF PipelineInv, ReadyMatchesCore
  <2>3. pendingReadyEmission' = None /\ inFlightEmissionId' = inFlightEmissionId
    BY <2>1 DEF BeginProcessing, vars, queueVars
  <2> QED
    BY <2>1, <2>2, <2>3 DEF WorkInv, Busy
<1>6. CASE PumpOnce
  <2>1. /\ PumpPipeline /\ pendingReadyEmission = None
        /\ stage' = IF reply'.pump = "EmissionReady" THEN "DispatchPumped" ELSE "Wake"
    BY <1>6 DEF PumpOnce, AfterPump, WorkInv
  <2>2. CASE reply'.pump = "EmissionReady"
    BY <1>2, <2>1, <2>2
  <2>3. CASE reply'.pump # "EmissionReady"
    BY <1>1, <2>1, <2>3, PumpLeavesBusy DEF WorkInv
  <2> QED
    BY <2>2, <2>3
<1>7. CASE FindNextWakeTime
  <2>1. /\ stage = "Wake" /\ stage' = "Report"
        /\ result' = [result EXCEPT !.wake = reply'.wake]
        /\ UNCHANGED <<pendingReadyEmission, records, inFlightEmissionId>>
    BY <1>7 DEF FindNextWakeTime, AskWake, GetNextWakeTime, externalVars
  <2>2. result'.processed = result.processed
    BY <1>1, <2>1 DEF Result
  <2> QED
    BY <2>1, <2>2 DEF WorkInv, Busy
<1>8. CASE BeginCycle \/ FindNoCommand \/ ReturnResult
  BY <1>2, <1>8 DEF BeginCycle, FindNoCommand, ReturnResult
<1>9. CASE ProcessPostedCommand \/ Reject \/ CycleThrows
  BY <1>2, <1>9 DEF ProcessPostedCommand, Reject, CycleThrows, Throw
<1> QED
  BY <1>3, <1>4, <1>5, <1>6, <1>7, <1>8, <1>9 DEF RunOneCycle

\* Posts and the clock leave the work alone.
LEMMA WorkStep ==
  ASSUME HostBase, HostBase', WorkInv, [HostNext]_hostVars
  PROVE  WorkInv'
<1>1. ASSUME UNCHANGED <<records, inFlightEmissionId, pendingReadyEmission, ownerVars>>
      PROVE  WorkInv'
  BY <1>1 DEF WorkInv, Busy, ownerVars
<1>2. ASSUME NEW command \in Commands, Post(command)
      PROVE  WorkInv'
  BY <1>1, <1>2 DEF Post, pipelineVars, vars, queueVars, externalVars
<1>3. CASE HostTick
  BY <1>1, <1>3 DEF HostTick, Tick, queueVars, externalVars
<1>4. CASE UNCHANGED hostVars
  BY <1>1, <1>4 DEF hostVars, pipelineVars, vars, queueVars, externalVars
<1> QED
  BY <1>2, <1>3, <1>4, WorkKept DEF HostNext

\* As long as the machine has not failed, there is nothing to dispatch between cycles and
\* before a command takes effect, and a change of settings finds it so and leaves it so.
RestInv ==
  /\ stage \in {"Lease", "Dispatch", "Pump", "DispatchPumped"} =>
       result.processed # "FlowSettingsUpdate"
  /\ /\ failures = 0
     /\ \/ stage \in {"Idle", "Lease", "Reject"}
        \/ /\ stage \in {"Acknowledge", "Wake", "Report"}
           /\ result.processed = "FlowSettingsUpdate"
     => Busy

\* Commands that are refused, and changes of settings, make nothing to dispatch.
LEMMA PerformRests ==
  ASSUME NEW command \in Commands, Perform(command), Busy,
         \/ outcome'.status \in {"LogicError", "RejectedCompletion"}
         \/ command.kind = "FlowSettingsUpdate"
  PROVE  Busy'
<1>1. ASSUME UNCHANGED <<records, inFlightEmissionId, pendingReadyEmission>>
      PROVE  Busy'
  BY <1>1 DEF Busy
<1>2. \A status, id : Told(status, id).status = status
  BY DEF Told
<1>3. CASE command.kind = "Input" /\ command.flow # Chat /\ SubmitDecision(command.flow)
  <2>1. outcome'.status \notin {"LogicError", "RejectedCompletion"}
    BY <1>2, <1>3 DEF SubmitDecision, RejectPayload, RollbackNow, Admission
  <2> QED
    BY <1>3, <2>1
<1>4. CASE command.kind = "Input" /\ SubmitChat(command.detail)
  <2> DEFINE input == command.detail
  <2>1. ChatDecision(input) \notin {"LogicError", "RejectedCompletion"}
    BY DEF ChatDecision
  <2>2. DeclineChat(input) => outcome'.status \notin {"LogicError", "RejectedCompletion"}
    BY <1>2, <2>1 DEF DeclineChat
  <2>3. RejectAppend(input) => outcome'.status \notin {"LogicError", "RejectedCompletion"}
    BY <1>2 DEF RejectAppend
  <2>4. Accumulate(input) => outcome'.status \notin {"LogicError", "RejectedCompletion"}
    <3> SUFFICES ASSUME Accumulate(input)
                 PROVE  outcome'.status \notin {"LogicError", "RejectedCompletion"}
      OBVIOUS
    <3>1. \/ outcome' = Told("RejectedByCore", 0)
          \/ outcome' = Told("Accumulated", chatPendingBatches[input.user].emissionId)
      BY DEF Accumulate
    <3> QED
      BY <1>2, <3>1
  <2>5. OpenBatch(input) => outcome'.status \notin {"LogicError", "RejectedCompletion"}
    BY <1>2 DEF OpenBatch, RollbackNow, Admission
  <2>6. RejectPayload(Chat) => outcome'.status \notin {"LogicError", "RejectedCompletion"}
    BY <1>2 DEF RejectPayload
  <2> QED
    BY <1>4, <2>2, <2>3, <2>4, <2>5, <2>6 DEF SubmitChat
<1>5. CASE command.kind = "Input" /\ SubmitChatThrows(command.detail)
  BY <1>1, <1>5 DEF SubmitChatThrows, ThrowAfterInsert, vars, queueVars, externalVars
<1>6. CASE /\ command.kind = "Completion"
           /\ CompleteProcessing(command.detail.id, command.detail.succeeded, command.flow)
  <2>1. \/ outcome' = Told("Completed", command.detail.id)
        \/ UNCHANGED <<vars, externalVars>>
    BY <1>6 DEF CompleteProcessing
  <2>2. UNCHANGED <<vars, externalVars>>
    BY <1>2, <1>6, <2>1
  <2> QED
    BY <1>1, <2>2 DEF vars, queueVars, externalVars
<1>7. CASE UpdateFlowSettings(command.flow, command.detail) /\ UNCHANGED externalVars
  BY <1>1, <1>7 DEF UpdateFlowSettings, queueVars, externalVars
<1> QED
  BY <1>3, <1>4, <1>5, <1>6, <1>7 DEF Perform

\* Nor do the expirations.
LEMMA ExpirationsRest ==
  ASSUME PipelineInv, ProcessPipelineExpirations, Busy
  PROVE  Busy'
<1>1. /\ IInv /\ ProcessDueExpirations
      /\ CommitExternal(reply', bindings, payloads)
  BY DEF PipelineInv, ProcessPipelineExpirations
<1>2. /\ DOMAIN records' \subseteq DOMAIN records
      /\ \A id \in DOMAIN records' : records'[id] = records[id]
  BY <1>1, ExpirationStep
<1>3. inFlightEmissionId' = inFlightEmissionId /\ reply'.pump # "EmissionReady"
  BY <1>1 DEF ProcessDueExpirations, Answer
<1>4. pendingReadyEmission' = None
  BY <1>1, <1>3 DEF CommitExternal, Busy
<1>5. Pending(records') \subseteq Pending(records)
  BY <1>2 DEF Pending
<1> QED
  BY <1>3, <1>4, <1>5 DEF Busy

\* Every step of a cycle rests on what the last cycle left.
LEMMA RestKept ==
  ASSUME HostBase, HostBase', WorkInv, RestInv, RunOneCycle
  PROVE  RestInv'
<1>1. result \in Result /\ PipelineInv /\ postedCommands \in Seq(Entry)
  BY DEF HostBase, HostTypeOK
<1>2. NoResult.processed = "None"
  BY DEF NoResult
<1>3. CASE BeginCycle
  <2>1. /\ stage = "Idle" /\ stage' = "Lease" /\ result' = NoResult
        /\ failures' = failures /\ ProcessPipelineExpirations
    BY <1>3 DEF BeginCycle
  <2>2. failures = 0 => Busy'
    BY <1>1, <2>1, ExpirationsRest DEF RestInv
  <2> QED
    BY <1>2, <2>1, <2>2 DEF RestInv
<1>4. CASE FindNoCommand
  BY <1>4 DEF FindNoCommand, RestInv
<1>5. CASE ProcessPostedCommand
  <2> DEFINE lease == Head(postedCommands)
  <2>1. /\ stage = "Lease" /\ postedCommands # <<>> /\ failures' = failures
        /\ Perform(lease.command)
        /\ \/ outcome'.status = "LogicError" /\ stage' = "Idle"
           \/ outcome'.status = "RejectedCompletion" /\ stage' = "Reject"
           \/ /\ stage' = "Acknowledge"
              /\ result' = [result EXCEPT
                              !.sequence = lease.sequence,
                              !.processed = lease.command.kind,
                              !.completed = IF lease.command.kind = "Completion"
                                            THEN lease.command.detail.id ELSE 0]
    BY <1>5 DEF ProcessPostedCommand, MayAcknowledge, Throw
  <2>2. lease.command \in Commands
    <3>1. lease \in Entry
      BY <1>1, <2>1
    <3> QED
      BY <3>1 DEF Entry
  <2> HIDE DEF lease
  <2>3. stage' = "Acknowledge" => result'.processed = lease.command.kind
    BY <1>1, <2>1 DEF Result
  <2>4. CASE failures = 0 /\ Busy
    BY <2>1, <2>2, <2>3, <2>4, PerformRests DEF RestInv
  <2>5. CASE failures # 0
    BY <2>1, <2>5 DEF RestInv
  <2> QED
    BY <2>1, <2>4, <2>5 DEF RestInv
<1>6. CASE Acknowledge
  <2>1. /\ result' = result /\ failures' = failures /\ stage = "Acknowledge"
        /\ stage' = IF result.processed # "FlowSettingsUpdate" THEN "Dispatch" ELSE "Wake"
        /\ UNCHANGED <<records, inFlightEmissionId, pendingReadyEmission>>
    BY <1>6 DEF Acknowledge, MayDispatchOrPump, pipelineVars, vars, queueVars, externalVars
  <2> QED
    BY <2>1 DEF RestInv, Busy
<1>7. CASE Reject
  <2>1. /\ stage = "Reject" /\ stage' = "Idle" /\ failures' = failures
        /\ UNCHANGED <<records, inFlightEmissionId, pendingReadyEmission>>
    BY <1>7 DEF Reject, Throw, pipelineVars, vars, queueVars, externalVars
  <2> QED
    BY <2>1 DEF RestInv, Busy
<1>8. CASE FindNothingReady
  BY <1>8 DEF FindNothingReady, RestInv
<1>9. CASE BeginPendingDispatch
  <2>1. /\ stage \in {"Dispatch", "DispatchPumped"} /\ stage' = "Wake"
        /\ result' = [result EXCEPT !.dispatch = outcome'.emissionId]
    BY <1>9 DEF BeginPendingDispatch, AfterDispatch
  <2>2. result'.processed = result.processed
    BY <1>1, <2>1 DEF Result
  <2> QED
    BY <2>1, <2>2 DEF RestInv
<1>10. CASE PumpOnce
  BY <1>10 DEF PumpOnce, AfterPump, RestInv
<1>11. CASE FindNextWakeTime
  <2>1. /\ stage = "Wake" /\ stage' = "Report" /\ failures' = failures
        /\ result' = [result EXCEPT !.wake = reply'.wake]
        /\ UNCHANGED <<pendingReadyEmission, records, inFlightEmissionId>>
    BY <1>11 DEF FindNextWakeTime, AskWake, GetNextWakeTime, externalVars
  <2>2. result'.processed = result.processed
    BY <1>1, <2>1 DEF Result
  <2> QED
    BY <2>1, <2>2 DEF RestInv, Busy
<1>12. CASE ReturnResult
  <2>1. /\ stage = "Report" /\ stage' = "Idle" /\ failures' = failures
        /\ UNCHANGED <<records, inFlightEmissionId, pendingReadyEmission>>
    BY <1>12 DEF ReturnResult, pipelineVars, vars, queueVars, externalVars
  <2> QED
    BY <2>1 DEF RestInv, WorkInv, Busy
<1>13. CASE CycleThrows
  <2>1. stage' = "Idle" /\ failures' = failures + 1 /\ failures \in 0..MaxFailures
    BY <1>13 DEF CycleThrows, Throw, HostBase, HostTypeOK
  <2>2. failures' # 0
    BY <2>1
  <2> QED
    BY <2>1, <2>2 DEF RestInv
<1> QED
  BY <1>3, <1>4, <1>5, <1>6, <1>7, <1>8, <1>9, <1>10, <1>11, <1>12, <1>13 DEF RunOneCycle

\* Posts and the clock let it rest.
LEMMA RestStep ==
  ASSUME HostBase, HostBase', WorkInv, RestInv, [HostNext]_hostVars
  PROVE  RestInv'
<1>1. ASSUME UNCHANGED <<records, inFlightEmissionId, pendingReadyEmission, ownerVars>>
      PROVE  RestInv'
  BY <1>1 DEF RestInv, Busy, ownerVars
<1>2. ASSUME NEW command \in Commands, Post(command)
      PROVE  RestInv'
  BY <1>1, <1>2 DEF Post, pipelineVars, vars, queueVars, externalVars
<1>3. CASE HostTick
  BY <1>1, <1>3 DEF HostTick, Tick, queueVars, externalVars
<1>4. CASE UNCHANGED hostVars
  BY <1>1, <1>4 DEF hostVars, pipelineVars, vars, queueVars, externalVars
<1> QED
  BY <1>2, <1>3, <1>4, RestKept DEF HostNext

\* No dispatchable work waits beside an idle handler ("garantia work-conserving del
\* Host"): not when a cycle that may dispatch reports, whatever failed before it; and not
\* between any two cycles, whatever they did, as long as the machine has not failed.
THEOREM CyclesConserveWork == HostSpec => []WorkConserving
<1>1. HostInit => WorkInv /\ RestInv
  BY DEF HostInit, PipelineInit, Init, WorkInv, RestInv, Busy, Pending
<1>2. HostBase /\ HostBase' /\ WorkInv /\ RestInv /\ [HostNext]_hostVars
        => WorkInv' /\ RestInv'
  BY WorkStep, RestStep
<1>3. WorkInv /\ RestInv => WorkConserving
  BY DEF WorkInv, RestInv, Busy, WorkConserving
<1> QED
  BY <1>1, <1>2, <1>3, HostBaseInvariant, PTL DEF HostSpec
------------------------------------------------------------------------------
\* The host implements the service: what the threads see of it is one line of commands
\* with the effect each has on the deliveries.

\* The refinement mapping of the line: a command that was answered has left it.
Line(posted) == [i \in DOMAIN posted |-> posted[i].command]
ServiceWaiting ==
  IF stage \in {"Acknowledge", "Reject"} THEN Tail(Line(postedCommands)) ELSE Line(postedCommands)

\* EventService extends EventDelivery, so the steps of the deliveries are its own.
LEMMA ServiceDelivers ==
  /\ Delivery!Admit => Service!Admit
  /\ Delivery!AppendMessage => Service!AppendMessage
  /\ Delivery!Begin => Service!Begin
  /\ Delivery!Finish => Service!Finish
  /\ Delivery!Maintain => Service!Maintain
  /\ Delivery!Refuse => Service!Refuse
<1>1. /\ \A f, S : Service!Without(f, S) = Delivery!Without(f, S)
      /\ \A f, i, v : Service!With(f, i, v) = Delivery!With(f, i, v)
  BY DEF Delivery!Without, Service!Without, Delivery!With, Service!With
<1>2. \A st : Service!At(st) = Delivery!At(st)
  BY DEF Service!At, Delivery!At
<1>3. \A f, S : Service!Advance(f, S) = Delivery!Advance(f, S)
  BY <1>1 DEF Service!Advance, Delivery!Advance
<1>4. \A x, y : Service!Extends(x, y) = Delivery!Extends(x, y)
  BY DEF Service!Extends, Delivery!Extends
<1>5. Delivery!Admit => Service!Admit
  BY <1>1, <1>2, <1>3, Zenon DEF Delivery!Admit, Service!Admit
<1>6. Delivery!AppendMessage => Service!AppendMessage
  BY <1>2, <1>4, Zenon DEF Delivery!AppendMessage, Service!AppendMessage
<1>7. Delivery!Begin => Service!Begin
  BY <1>2, Zenon DEF Delivery!Begin, Service!Begin
<1>8. Delivery!Finish => Service!Finish
  BY <1>2, <1>3, Zenon DEF Delivery!Finish, Service!Finish
<1>9. Delivery!Maintain => Service!Maintain
  BY <1>2, <1>3, Zenon DEF Delivery!Maintain, Service!Maintain
<1>10. Delivery!Refuse => Service!Refuse
  BY Zenon DEF Delivery!Refuse, Service!Refuse
<1> QED
  BY <1>5, <1>6, <1>7, <1>8, <1>9, <1>10

\* What a post and an acknowledgement do to the line.
LEMMA LineProperties ==
  ASSUME NEW posted \in Seq(Entry)
  PROVE  /\ Line(posted) \in Seq(Commands)
         /\ Len(Line(posted)) = Len(posted)
         /\ \A entry \in Entry :
              Line(Append(posted, entry)) = Append(Line(posted), entry.command)
         /\ posted # <<>> => /\ Line(posted) # <<>>
                             /\ Head(Line(posted)) = Head(posted).command
                             /\ Line(Tail(posted)) = Tail(Line(posted))
<1>1. /\ DOMAIN posted = 1..Len(posted) /\ Len(posted) \in Nat
      /\ \A i \in 1..Len(posted) : posted[i] \in Entry
  OBVIOUS
<1>2. \A i \in 1..Len(posted) : posted[i].command \in Commands
  BY <1>1 DEF Entry
<1>3. Line(posted) \in [1..Len(posted) -> Commands]
  BY <1>1, <1>2 DEF Line
<1>4. Line(posted) \in Seq(Commands) /\ Len(Line(posted)) = Len(posted)
  BY <1>1, <1>3
<1>5. ASSUME NEW entry \in Entry
      PROVE  Line(Append(posted, entry)) = Append(Line(posted), entry.command)
  <2> DEFINE longer == Append(posted, entry)
  <2>1. /\ longer \in Seq(Entry) /\ Len(longer) = Len(posted) + 1
        /\ \A i \in 1..Len(posted) : longer[i] = posted[i]
        /\ longer[Len(posted) + 1] = entry
    BY AppendProperties
  <2>2. DOMAIN longer = 1..(Len(posted) + 1)
    BY <2>1
  <2>3. entry.command \in Commands
    BY DEF Entry
  <2> HIDE DEF longer
  <2>4. Append(Line(posted), entry.command) =
          [i \in 1..(Len(posted) + 1) |->
             IF i = Len(posted) + 1 THEN entry.command ELSE Line(posted)[i]]
    BY <1>4, <2>3
  <2>5. \A i \in 1..Len(posted) : Line(posted)[i] = posted[i].command
    BY <1>1 DEF Line
  <2>6. Line(longer) = [i \in 1..(Len(posted) + 1) |->
                          IF i = Len(posted) + 1 THEN entry.command ELSE Line(posted)[i]]
    BY <1>1, <2>1, <2>2, <2>5 DEF Line
  <2> QED
    BY <2>4, <2>6 DEF longer
<1>6. ASSUME posted # <<>>
      PROVE  /\ Line(posted) # <<>>
             /\ Head(Line(posted)) = Head(posted).command
             /\ Line(Tail(posted)) = Tail(Line(posted))
  <2> DEFINE rest == Tail(posted)
  <2>1. Len(posted) >= 1
    BY <1>1, <1>6, EmptySeq
  <2>2. /\ rest \in Seq(Entry) /\ Len(rest) = Len(posted) - 1
        /\ \A i \in 1..Len(rest) : rest[i] = posted[i + 1]
        /\ Head(posted) = posted[1]
    BY <1>6, HeadTailProperties
  <2>3. DOMAIN rest = 1..(Len(posted) - 1)
    BY <2>2
  <2> HIDE DEF rest
  <2>4. Line(posted) # <<>> /\ Head(Line(posted)) = Line(posted)[1]
    BY <1>4, <2>1
  <2>5. Line(posted)[1] = posted[1].command
    BY <1>1, <2>1 DEF Line
  <2>6. /\ Tail(Line(posted)) \in Seq(Commands)
        /\ Len(Tail(Line(posted))) = Len(posted) - 1
        /\ \A i \in 1..(Len(posted) - 1) : Tail(Line(posted))[i] = Line(posted)[i + 1]
    BY <1>4, <2>4, HeadTailProperties
  <2>7. /\ Line(rest) \in Seq(Commands) /\ Len(Line(rest)) = Len(posted) - 1
        /\ \A i \in 1..(Len(posted) - 1) : Line(rest)[i] = posted[i + 1].command
    <3>1. \A i \in 1..(Len(posted) - 1) : i + 1 \in 1..Len(posted)
      BY <1>1
    <3>2. \A i \in 1..(Len(posted) - 1) : posted[i + 1].command \in Commands
      BY <1>2, <3>1
    <3>3. Line(rest) = [i \in 1..(Len(posted) - 1) |-> posted[i + 1].command]
      BY <2>2, <2>3 DEF Line
    <3> QED
      BY <1>1, <2>1, <3>2, <3>3
  <2>8. \A i \in 1..(Len(posted) - 1) : Line(posted)[i + 1] = posted[i + 1].command
    BY <1>1 DEF Line
  <2>9. Line(rest) = Tail(Line(posted))
    BY <2>6, <2>7, <2>8, SeqEqual
  <2> QED
    BY <2>2, <2>4, <2>5, <2>9 DEF rest
<1> QED
  BY <1>4, <1>5, <1>6

\* The line without its front grows at its end as well.
LEMMA TailOfAppend ==
  ASSUME NEW S, NEW line \in Seq(S), line # <<>>, NEW x \in S
  PROVE  Tail(Append(line, x)) = Append(Tail(line), x)
<1>1. /\ Len(line) \in Nat /\ Len(line) >= 1
      /\ Append(line, x) \in Seq(S) /\ Len(Append(line, x)) = Len(line) + 1
      /\ Tail(line) \in Seq(S) /\ Len(Tail(line)) = Len(line) - 1
  OBVIOUS
<1>2. Tail(Append(line, x)) \in Seq(S) /\ Len(Tail(Append(line, x))) = Len(line)
  BY <1>1
<1>3. Append(Tail(line), x) \in Seq(S) /\ Len(Append(Tail(line), x)) = Len(line)
  BY <1>1
<1>4. ASSUME NEW i \in 1..Len(line)
      PROVE  Tail(Append(line, x))[i] = Append(Tail(line), x)[i]
  <2>1. Append(line, x) # <<>> /\ Len(Tail(Append(line, x))) = Len(line)
    BY <1>2, AppendProperties
  <2>2. Tail(Append(line, x))[i] = Append(line, x)[i + 1]
    BY <1>1, <2>1, HeadTailProperties
  <2>3. CASE i = Len(line)
    BY <1>1, <2>2, <2>3, AppendProperties
  <2>4. CASE i \in 1..(Len(line) - 1)
    <3>1. Append(line, x)[i + 1] = line[i + 1]
      BY <1>1, <2>4, AppendProperties
    <3>2. Append(Tail(line), x)[i] = Tail(line)[i]
      BY <1>1, <2>4, AppendProperties
    <3>3. Tail(line)[i] = line[i + 1]
      BY <1>1, <2>4, HeadTailProperties
    <3> QED
      BY <2>2, <3>1, <3>2, <3>3
  <2>5. \A n \in Nat : i \in 1..n => i = n \/ i \in 1..(n - 1)
    OBVIOUS
  <2> QED
    BY <1>1, <2>3, <2>4, <2>5
<1> QED
  BY <1>2, <1>3, <1>4, SeqEqual

\* Without a step of the coordinator and without a command served, the service stutters.
LEMMA ServiceStutters ==
  ASSUME UNCHANGED <<DeliveriesNow, UsedNow, outcome, ServiceWaiting>>
  PROVE  UNCHANGED <<Service!vars, ServiceWaiting>>
BY DEF Service!vars, DeliveriesNow, UsedNow

\* What the deliveries are made of.
LEMMA DeliveriesUnchanged ==
  ASSUME UNCHANGED <<bindings, payloads, pendingReadyEmission, nextIdentity>>
  PROVE  UNCHANGED <<DeliveriesNow, UsedNow>>
BY DEF DeliveriesNow, UsedNow, PayloadOf, PayloadKey, IsReady

\* A post puts its command at the end of the line.
LEMMA PostServed ==
  ASSUME MailboxInv, NEW command \in Commands, Post(command)
  PROVE  Service!Post
<1> DEFINE entry == [sequence |-> nextPostedCommandSequence, command |-> command]
<1>1. /\ postedCommands \in Seq(Entry) /\ entry \in Entry /\ entry.command = command
      /\ postedCommands' = Append(postedCommands, entry)
      /\ stage' = stage
  BY DEF MailboxInv, MailboxTypes, Post, PutLast, Entry, ownerVars
<1>2. UNCHANGED <<DeliveriesNow, UsedNow, outcome>>
  <2>1. UNCHANGED <<bindings, payloads, pendingReadyEmission, nextIdentity, outcome>>
    BY DEF Post, pipelineVars, vars, externalVars
  <2> QED
    BY <2>1, DeliveriesUnchanged
<1> HIDE DEF entry
<1>3. /\ Line(postedCommands) \in Seq(Commands)
      /\ Line(postedCommands') = Append(Line(postedCommands), command)
      /\ postedCommands # <<>> => Line(postedCommands) # <<>>
  BY <1>1, LineProperties
<1>4. ServiceWaiting' = Append(ServiceWaiting, command)
  <2>1. CASE stage \in {"Acknowledge", "Reject"}
    <3>1. Line(postedCommands) # <<>>
      BY <1>3, <2>1 DEF MailboxInv, LeaseIsFront
    <3>2. Tail(Line(postedCommands')) = Append(Tail(Line(postedCommands)), command)
      BY <1>3, <3>1, TailOfAppend
    <3> QED
      BY <1>1, <2>1, <3>2 DEF ServiceWaiting
  <2>2. CASE stage \notin {"Acknowledge", "Reject"}
    BY <1>1, <1>3, <2>2 DEF ServiceWaiting
  <2> QED
    BY <2>1, <2>2
<1> QED
  BY <1>2, <1>4
  DEF Service!Post, Service!vars, DeliveriesNow, UsedNow, ServiceWaiting, Line

\* The payload of a chat message carries what the message says.
LEMMA MessageCarried ==
  ASSUME NEW input \in ChatInputs, NEW messages \in Seq(Nat), NEW payload,
         payload = ChatPayload(input, messages)
  PROVE  Service!Carries(payload, input)
<1>1. input.bytes \in Nat
  BY PipelineAssumption DEF ChatInput
<1>2. /\ Len(Append(messages, input.bytes)) = Len(messages) + 1
      /\ Append(messages, input.bytes)[Len(messages) + 1] = input.bytes
  BY <1>1, AppendProperties
<1>3. payload.user = input.user /\ payload.messages = Append(messages, input.bytes)
  BY DEF ChatPayload
<1> QED
  BY <1>2, <1>3 DEF Service!Carries

\* What a command comes to: it has its effect, is refused for good, or failed and
\* changed nothing.
LEMMA CommandServed ==
  ASSUME MaxNow < MaxTime, PipelineInv, PipelineInv', NEW command \in Commands,
         Perform(command)
  PROVE  \/ Delivery!Refuse /\ outcome'.status = "LogicError"
         \/ /\ outcome'.status # "LogicError"
            /\ \/ command.kind = "Input" /\ Service!ServeInput(command)
               \/ command.kind = "Completion" /\ Service!ServeCompletion(command)
               \/ command.kind = "FlowSettingsUpdate" /\ Service!ServeSettings
<1> DEFINE refusals == {"NoEmission", "RejectedInvalidInput", "RejectedSemanticLimit",
                        "RejectedPayloadIdentityExhausted", "RejectedByCore"}
<1>0. command \in Command
      /\ (command.kind = "Input" => (command.detail # None <=> command.flow = Chat))
  BY HostAssumption
<1>1. ASSUME Delivery!Admit \/ Delivery!AppendMessage \/ Delivery!Finish
      PROVE  outcome'.status # "LogicError"
  <2> DEFINE Says(status) ==
        \E id : outcome' = [status |-> status, emissionId |-> id, payload |-> None]
  <2>1. Delivery!Admit => Says("Accepted")
    <3>1. Delivery!Admit =>
            outcome' = [status |-> "Accepted", emissionId |-> UsedNow', payload |-> None]
      BY Zenon DEF Delivery!Admit, UsedNow
    <3> QED
      BY <3>1, Zenon
  <2>2. Delivery!AppendMessage => Says("Accumulated")
    BY Zenon DEF Delivery!AppendMessage
  <2>3. Delivery!Finish => Says("Completed")
    BY Zenon DEF Delivery!Finish
  <2>4. Says("Accepted") \/ Says("Accumulated") \/ Says("Completed")
    BY <1>1, <2>1, <2>2, <2>3
  <2> QED
    BY <2>4
<1>2. ASSUME Delivery!Refuse, outcome'.status \in refusals
      PROVE  Service!ServeInput(command)
  BY <1>2, ServiceDelivers DEF Service!ServeInput
<1>3. ASSUME Delivery!Admit, Service!Carries(DeliveriesNow'[UsedNow'].payload, command.detail)
      PROVE  Service!ServeInput(command)
  BY <1>3, ServiceDelivers DEF Service!ServeInput, DeliveriesNow, UsedNow
<1>4. ASSUME Delivery!AppendMessage,
             Service!Carries(DeliveriesNow'[outcome'.emissionId].payload, command.detail)
      PROVE  Service!ServeInput(command)
  BY <1>4, ServiceDelivers DEF Service!ServeInput, DeliveriesNow
<1>5. ASSUME command.kind = "Input", command.flow # Chat, SubmitDecision(command.flow)
      PROVE  Service!ServeInput(command) /\ outcome'.status # "LogicError"
  <2>1. command.flow \in Routes \ {Chat} /\ command.detail = None
    BY <1>0, <1>5 DEF Command
  <2>2. \A payload : Service!Carries(payload, command.detail)
    BY <2>1 DEF Service!Carries
  <2> QED
    BY <1>1, <1>2, <1>3, <1>5, <2>1, <2>2, SubmitDecisionMaps
<1>6. ASSUME command.kind = "Input", command.flow = Chat,
             SubmitChat(command.detail) \/ SubmitChatThrows(command.detail)
      PROVE  \/ Delivery!Refuse /\ outcome'.status = "LogicError"
             \/ Service!ServeInput(command) /\ outcome'.status # "LogicError"
  <2> DEFINE input == command.detail
  <2>1. input \in ChatInputs
    BY <1>0, <1>6 DEF Command
  <2>2. <<>> \in Seq(Nat)
    OBVIOUS
  <2>3. \A messages \in Seq(Nat) : \A payload :
          payload = ChatPayload(input, messages) => Service!Carries(payload, input)
    BY <2>1, MessageCarried
  <2>4. \/ Delivery!Refuse /\ outcome'.status = "LogicError"
        \/ Delivery!Refuse /\ outcome'.status \in refusals
        \/ Delivery!Admit /\ DeliveriesNow'[UsedNow'].payload = ChatPayload(input, <<>>)
        \/ /\ Delivery!AppendMessage
           /\ \E messages \in Seq(Nat) :
                DeliveriesNow'[outcome'.emissionId].payload = ChatPayload(input, messages)
    BY <1>6, <2>1, SubmitChatMaps
  <2>5. ASSUME Delivery!Admit, DeliveriesNow'[UsedNow'].payload = ChatPayload(input, <<>>)
        PROVE  Service!ServeInput(command)
    BY <1>3, <2>2, <2>3, <2>5
  <2>6. ASSUME Delivery!AppendMessage, NEW messages \in Seq(Nat),
               DeliveriesNow'[outcome'.emissionId].payload = ChatPayload(input, messages)
        PROVE  Service!ServeInput(command)
    BY <1>4, <2>3, <2>6
  <2> QED
    BY <1>1, <1>2, <2>4, <2>5, <2>6
<1>7. ASSUME command.kind = "Completion",
             CompleteProcessing(command.detail.id, command.detail.succeeded, command.flow)
      PROVE  \/ Delivery!Refuse /\ outcome'.status = "LogicError"
             \/ Service!ServeCompletion(command) /\ outcome'.status # "LogicError"
  <2> DEFINE id == command.detail.id
  <2>1. /\ command.flow \in Routes /\ id \in Identity \cup {0}
        /\ command.detail.succeeded \in BOOLEAN
    BY <1>0, <1>7 DEF Command
  <2>2. \/ Delivery!Refuse /\ outcome'.status = "LogicError"
        \/ Delivery!Refuse /\ outcome' = Told("RejectedCompletion", id)
        \/ Delivery!Finish /\ outcome' = Told("Completed", id)
    BY <1>7, <2>1, CompleteMaps
  <2>3. /\ Told("RejectedCompletion", id).status = "RejectedCompletion"
        /\ Told("RejectedCompletion", id).emissionId = id
        /\ Told("Completed", id).emissionId = id
        /\ Told("Completed", id).status = "Completed"
    BY DEF Told
  <2> QED
    BY <2>2, <2>3, ServiceDelivers DEF Service!ServeCompletion
<1>8. ASSUME UpdateFlowSettings(command.flow, command.detail),
             outcome' = Told("Done", 0), UNCHANGED externalVars
      PROVE  Service!ServeSettings /\ outcome'.status # "LogicError"
  <2>1. UNCHANGED <<bindings, payloads, pendingReadyEmission, nextIdentity>>
    BY <1>8 DEF UpdateFlowSettings, externalVars
  <2>2. UNCHANGED <<DeliveriesNow, UsedNow>> /\ outcome'.status = "Done"
    BY <1>8, <2>1, DeliveriesUnchanged DEF Told
  <2> QED
    BY <2>2 DEF Service!ServeSettings, DeliveriesNow, UsedNow
<1> HIDE DEF refusals
<1> QED
  BY <1>5, <1>6, <1>7, <1>8 DEF Perform

\* Asking for the wake-up time is looking after a queue in which nothing was due.
LEMMA NothingMaintained ==
  ASSUME UNCHANGED <<DeliveriesNow, UsedNow>>, outcome' = Told("Done", 0)
  PROVE  Delivery!Maintain
<1> DEFINE ended == {}
           left == Delivery!Without(DeliveriesNow, ended)
<1>1. DeliveriesNow' = left
  <2>1. DeliveriesNow = [id \in DOMAIN DeliveriesNow |-> DeliveriesNow[id]]
    BY DEF DeliveriesNow
  <2> QED
    BY <2>1 DEF Delivery!Without
<1>2. ended \in SUBSET {id \in DOMAIN DeliveriesNow : DeliveriesNow[id].stage = "Waiting"}
  OBVIOUS
<1>3. outcome' = [status |-> "Done", emissionId |-> 0, payload |-> None]
  BY DEF Told
<1>4. \E some \in SUBSET {id \in DOMAIN DeliveriesNow : DeliveriesNow[id].stage = "Waiting"} :
        DeliveriesNow' = Delivery!Without(DeliveriesNow, some)
  BY <1>1, <1>2, Zenon DEF left
<1>5. UsedNow' = UsedNow
  OBVIOUS
<1> HIDE DEF ended, left
<1> QED
  BY <1>3, <1>4, <1>5, Zenon
  DEF Delivery!Maintain, Delivery!Advance, Delivery!At, DeliveriesNow, UsedNow

\* The owner looks after the deliveries while the line stands still.
LEMMA LookServed ==
  ASSUME \/ Delivery!Begin
         \/ Delivery!Maintain
         \/ Delivery!Refuse /\ outcome'.status = "LogicError",
         ServiceWaiting' = ServiceWaiting
  PROVE  Service!Look
BY ServiceDelivers DEF Service!Look, ServiceWaiting, Line

\* The line stands still as long as the mailbox does and nothing is or was leased.
LEMMA LineStands ==
  ASSUME UNCHANGED postedCommands,
         stage \notin {"Acknowledge", "Reject"}, stage' \notin {"Acknowledge", "Reject"}
  PROVE  ServiceWaiting' = ServiceWaiting
BY DEF ServiceWaiting, Line

\* The command in front is served, or it stays because the coordinator threw.
LEMMA FrontServed ==
  ASSUME MaxNow < MaxTime, HostBase, HostBase', ProcessPostedCommand
  PROVE  Service!Serve \/ Service!Look
<1>1. /\ PipelineInv /\ PipelineInv'
      /\ postedCommands \in Seq(Entry) /\ postedCommands # <<>>
      /\ stage = "Lease" /\ postedCommands' = postedCommands
      /\ Perform(Head(postedCommands).command)
  BY DEF HostBase, MailboxInv, MailboxTypes, ProcessPostedCommand, mailboxVars
<1>2. Head(postedCommands).command \in Commands
  <2>1. Head(postedCommands) \in Entry
    BY <1>1
  <2> QED
    BY <2>1 DEF Entry
<1>3. PICK command \in Commands : command = Head(postedCommands).command
  BY <1>2
<1>4. /\ ServiceWaiting = Line(postedCommands)
      /\ ServiceWaiting # <<>> /\ Head(ServiceWaiting) = command
  BY <1>1, <1>3, LineProperties DEF ServiceWaiting
<1>5. Perform(command)
  BY <1>1, <1>3 DEF Perform
<1>6. \/ Delivery!Refuse /\ outcome'.status = "LogicError"
      \/ /\ outcome'.status # "LogicError"
         /\ \/ command.kind = "Input" /\ Service!ServeInput(command)
            \/ command.kind = "Completion" /\ Service!ServeCompletion(command)
            \/ command.kind = "FlowSettingsUpdate" /\ Service!ServeSettings
  BY <1>1, <1>5, CommandServed
<1>7. ASSUME outcome'.status = "LogicError"
      PROVE  stage' = "Idle"
  BY <1>7 DEF ProcessPostedCommand, MayAcknowledge, Throw
<1>8. ASSUME outcome'.status # "LogicError"
      PROVE  stage' \in {"Acknowledge", "Reject"}
  BY <1>8 DEF ProcessPostedCommand, MayAcknowledge
<1>9. ASSUME Delivery!Refuse, outcome'.status = "LogicError"
      PROVE  Service!Look
  BY <1>1, <1>7, <1>9, LineStands, LookServed
<1>10. ASSUME outcome'.status # "LogicError",
              \/ command.kind = "Input" /\ Service!ServeInput(command)
              \/ command.kind = "Completion" /\ Service!ServeCompletion(command)
              \/ command.kind = "FlowSettingsUpdate" /\ Service!ServeSettings
       PROVE  Service!Serve
  <2>1. ServiceWaiting' = Tail(ServiceWaiting)
    BY <1>1, <1>4, <1>8, <1>10 DEF ServiceWaiting, Line
  <2>2. (CASE command.kind = "Input" -> Service!ServeInput(command)
           [] command.kind = "Completion" -> Service!ServeCompletion(command)
           [] command.kind = "FlowSettingsUpdate" -> Service!ServeSettings)
    <3>1. CASE command.kind = "Input"
      BY <1>10, <3>1
    <3>2. CASE command.kind = "Completion"
      BY <1>10, <3>2
    <3>3. CASE command.kind = "FlowSettingsUpdate"
      BY <1>10, <3>3
    <3> QED
      BY <1>10, <3>1, <3>2, <3>3
  <2>3. (CASE Head(ServiceWaiting).kind = "Input" -> Service!ServeInput(Head(ServiceWaiting))
           [] Head(ServiceWaiting).kind = "Completion" ->
                Service!ServeCompletion(Head(ServiceWaiting))
           [] Head(ServiceWaiting).kind = "FlowSettingsUpdate" -> Service!ServeSettings)
    BY <1>4, <2>2, Zenon DEF Service!ServeInput, Service!ServeCompletion, Service!Carries
  <2> QED
    BY <1>4, <2>1, <2>3, Zenon DEF Service!Serve, ServiceWaiting, Line
<1> QED
  BY <1>6, <1>9, <1>10

\* An acknowledgement ends the lease of a command that had left the line already.
LEMMA AcknowledgementServed ==
  ASSUME HostBase, Acknowledge \/ Reject
  PROVE  UNCHANGED <<DeliveriesNow, UsedNow, outcome, ServiceWaiting>>
<1>1. /\ postedCommands \in Seq(Entry) /\ postedCommands # <<>>
      /\ postedCommands' = Tail(postedCommands)
      /\ stage \in {"Acknowledge", "Reject"} /\ stage' \notin {"Acknowledge", "Reject"}
  BY DEF HostBase, MailboxInv, MailboxTypes, Acknowledge, Reject, AcknowledgeCommandLease, Throw
<1>2. Line(postedCommands') = Tail(Line(postedCommands))
  BY <1>1, LineProperties
<1>3. UNCHANGED <<bindings, payloads, pendingReadyEmission, nextIdentity, outcome>>
  BY DEF Acknowledge, Reject, pipelineVars, vars, externalVars
<1> QED
  BY <1>1, <1>2, <1>3, DeliveriesUnchanged DEF ServiceWaiting

\* Every step of a cycle is a step of the service or none that is seen.
LEMMA CycleServed ==
  ASSUME MaxNow < MaxTime, HostBase, HostBase', RunOneCycle
  PROVE  Service!ServiceNext \/ UNCHANGED <<Service!vars, ServiceWaiting>>
<1>1. PipelineInv /\ PipelineInv'
  BY DEF HostBase
<1>2. Service!Serve \/ Service!Look => Service!ServiceNext
  BY Zenon DEF Service!ServiceNext
<1>3. ASSUME UNCHANGED pipelineVars, UNCHANGED postedCommands,
             stage \notin {"Acknowledge", "Reject"}, stage' \notin {"Acknowledge", "Reject"}
      PROVE  UNCHANGED <<Service!vars, ServiceWaiting>>
  <2>1. UNCHANGED <<bindings, payloads, pendingReadyEmission, nextIdentity, outcome>>
    BY <1>3 DEF pipelineVars, vars, externalVars
  <2> QED
    BY <1>3, <2>1, DeliveriesUnchanged, LineStands, ServiceStutters
<1>4. ASSUME BeginCycle
      PROVE  Service!Look
  <2>1. Delivery!Maintain
    BY <1>1, <1>4, MaintainMaps DEF BeginCycle
  <2>2. ServiceWaiting' = ServiceWaiting
    BY <1>4, LineStands DEF BeginCycle, mailboxVars
  <2> QED
    BY <2>1, <2>2, LookServed
<1>5. ASSUME PumpOnce
      PROVE  Service!Look
  <2>1. Delivery!Maintain
    BY <1>1, <1>5, MaintainMaps DEF PumpOnce
  <2>2. ServiceWaiting' = ServiceWaiting
    BY <1>5, LineStands DEF PumpOnce, AfterPump, mailboxVars
  <2> QED
    BY <2>1, <2>2, LookServed
<1>6. ASSUME BeginPendingDispatch
      PROVE  Service!Look
  <2>1. /\ pendingReadyEmission # None /\ BeginProcessing(pendingReadyEmission.flow)
        /\ stage \notin {"Acknowledge", "Reject"} /\ stage' = "Wake"
        /\ postedCommands' = postedCommands
    BY <1>6 DEF BeginPendingDispatch, AfterDispatch, mailboxVars
  <2>2. pendingReadyEmission.flow \in Routes
    <3>1. IsReadyBindingValid
      BY <2>1 DEF BeginProcessing
    <3> QED
      BY <1>1, <3>1 DEF IsReadyBindingValid, PipelineInv, PipelineTypeOK, Binding
  <2>3. outcome'.status = "Dispatched"
    BY <1>1, <2>1, BeginIsAlone
  <2>4. Delivery!Refuse => outcome'.status # "Dispatched"
    BY DEF Delivery!Refuse
  <2>5. Delivery!Begin
    BY <1>1, <2>1, <2>2, <2>3, <2>4, BeginMaps
  <2>6. ServiceWaiting' = ServiceWaiting
    BY <2>1, LineStands
  <2> QED
    BY <2>5, <2>6, LookServed
<1>7. ASSUME FindNextWakeTime
      PROVE  Service!Look
  <2>1. /\ UNCHANGED <<bindings, payloads, pendingReadyEmission, nextIdentity>>
        /\ outcome' = Told("Done", 0)
        /\ stage = "Wake" /\ stage' = "Report" /\ postedCommands' = postedCommands
    BY <1>7 DEF FindNextWakeTime, AskWake, GetNextWakeTime, externalVars, mailboxVars
  <2>2. Delivery!Maintain
    BY <2>1, DeliveriesUnchanged, NothingMaintained
  <2>3. ServiceWaiting' = ServiceWaiting
    BY <2>1, LineStands
  <2> QED
    BY <2>2, <2>3, LookServed
<1>8. ASSUME CycleThrows
      PROVE  Service!Look \/ UNCHANGED <<Service!vars, ServiceWaiting>>
  <2>1. /\ stage \notin {"Acknowledge", "Reject"} /\ stage' = "Idle"
        /\ postedCommands' = postedCommands
    BY <1>8, HostAssumption DEF CycleThrows, Throw, mailboxVars
  <2>2. CASE UNCHANGED pipelineVars
    BY <1>3, <2>1, <2>2
  <2>3. ASSUME NEW flow, ThrowAfterInsert(flow)
        PROVE  Service!Look
    <3>1. outcome'.status = "LogicError"
      BY <2>3 DEF ThrowAfterInsert, Told
    <3>2. Delivery!Refuse
      BY <2>3, <3>1, RefuseMaps DEF ThrowAfterInsert, vars, queueVars
    <3>3. ServiceWaiting' = ServiceWaiting
      BY <2>1, LineStands
    <3> QED
      BY <3>1, <3>2, <3>3, LookServed
  <2> QED
    BY <1>8, <2>2, <2>3 DEF CycleThrows
<1>9. ASSUME Acknowledge \/ Reject
      PROVE  UNCHANGED <<Service!vars, ServiceWaiting>>
  BY <1>9, AcknowledgementServed, ServiceStutters
<1>10. ASSUME FindNoCommand \/ FindNothingReady \/ ReturnResult
       PROVE  UNCHANGED <<Service!vars, ServiceWaiting>>
  BY <1>3, <1>10 DEF FindNoCommand, FindNothingReady, ReturnResult, mailboxVars
<1>11. ASSUME ProcessPostedCommand
       PROVE  Service!Serve \/ Service!Look
  BY <1>11, FrontServed
<1> QED
  BY <1>2, <1>4, <1>5, <1>6, <1>7, <1>8, <1>9, <1>10, <1>11, Zenon DEF RunOneCycle

\* The threads that post see a service: one line for all of them, from which one command
\* at a time is served, in the order posted and with exactly the effect it has on the
\* deliveries; a failure in between leaves the line and the deliveries as they were.
THEOREM HostImplementsService ==
  ASSUME MaxNow < MaxTime
  PROVE  HostSpec => ImplementsService
<1>1. HostInit => Service!ServiceInit
  <2>1. ASSUME HostInit
        PROVE  /\ DeliveriesNow = [id \in {} |-> None] /\ UsedNow = 0
               /\ outcome = [status |-> "Done", emissionId |-> 0, payload |-> None]
               /\ ServiceWaiting = <<>>
    <3>1. ServiceWaiting = <<>>
      BY <2>1 DEF HostInit, ServiceWaiting, Line
    <3>2. DeliveriesNow = [id \in {} |-> None] /\ UsedNow = 0
      BY <2>1, TypesAssumption DEF HostInit, PipelineInit, Init, DeliveriesNow, UsedNow
    <3> QED
      BY <2>1, <3>1, <3>2 DEF HostInit, PipelineInit, Told
  <2> QED
    BY <2>1 DEF Service!ServiceInit, Service!Init, DeliveriesNow, UsedNow, ServiceWaiting, Line
<1>2. HostBase /\ HostBase' /\ [HostNext]_hostVars
        => [Service!ServiceNext]_<<Service!vars, ServiceWaiting>>
  <2>1. ASSUME UNCHANGED <<bindings, payloads, pendingReadyEmission, nextIdentity, outcome,
                           postedCommands, stage>>
        PROVE  UNCHANGED <<Service!vars, ServiceWaiting>>
    <3>1. ServiceWaiting' = ServiceWaiting
      BY <2>1 DEF ServiceWaiting, Line
    <3> QED
      BY <2>1, <3>1, DeliveriesUnchanged, ServiceStutters
  <2>2. ASSUME HostBase, NEW command \in Commands, Post(command)
        PROVE  Service!ServiceNext
    <3>1. Service!Post
      BY <2>2, PostServed DEF HostBase
    <3> QED
      BY <3>1, Zenon DEF Service!ServiceNext
  <2>3. ASSUME HostTick
        PROVE  UNCHANGED <<Service!vars, ServiceWaiting>>
    BY <2>1, <2>3 DEF HostTick, Tick, externalVars, mailboxVars, ownerVars
  <2>4. ASSUME UNCHANGED hostVars
        PROVE  UNCHANGED <<Service!vars, ServiceWaiting>>
    BY <2>1, <2>4 DEF hostVars, pipelineVars, vars, externalVars, mailboxVars, ownerVars
  <2> QED
    BY <2>2, <2>3, <2>4, CycleServed DEF HostNext
<1> QED
  BY <1>1, <1>2, HostBaseInvariant, PTL
  DEF HostSpec, ImplementsService, Service!ServiceSpec, ServiceWaiting, Line
==============================================================================
