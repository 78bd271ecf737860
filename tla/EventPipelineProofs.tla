------------------------- MODULE EventPipelineProofs -------------------------
(***************************************************************************)
(* What the coordinator keeps outside the queue agrees with what the queue *)
(* keeps inside, for every value of the constants: PipelineInv is          *)
(* inductive, and every step of the pipeline is a step of the core.        *)
(*                                                                         *)
(* An operation admits at most one emission and then commits what the core *)
(* answered.  Both halves are lemmas about a queue, bindings, payloads and *)
(* an index that need not be the variables, because between the halves     *)
(* they are not: the admission is prepared and not yet published.          *)
(*                                                                         *)
(* Then, that the pipeline implements EventDelivery: what producers and    *)
(* handlers see of the coordinator and its queue is what that module       *)
(* promises. Under the invariant the stage of a delivery follows from the  *)
(* emission in flight and the state of its binding alone. A commit then is *)
(* one step of Advance, and each operation adds to it the deliveries that  *)
(* it admits, extends or completes.                                        *)
(***************************************************************************)
EXTENDS EventPipeline, EventQueueCoreStepProofs

\* The emissions that a sequence of events tells of.
EndedBy(told) == {told[i].envelope.emissionId : i \in DOMAIN told}

\* What the core did when it answered, as far as the coordinator can tell from the
\* answer: the emissions of recs that the events tell of left, the others keep their
\* envelope, and what the pump made ready is in flight, where nothing was any more.
Commits(recs) ==
  /\ Ended(reply') \subseteq DOMAIN recs
  /\ DOMAIN records' = DOMAIN recs \ Ended(reply')
  /\ \A id \in DOMAIN records' : records'[id].envelope = recs[id].envelope
  /\ \/ /\ reply'.pump = "EmissionReady"
        /\ inFlightEmissionId' \in DOMAIN records'
        /\ reply'.ready = records'[inFlightEmissionId'].envelope
        /\ inFlightEmissionId = 0 \/ inFlightEmissionId \in Ended(reply')
     \/ /\ reply'.pump # "EmissionReady"
        /\ inFlightEmissionId' =
             IF inFlightEmissionId \in Ended(reply') THEN 0 ELSE inFlightEmissionId
------------------------------------------------------------------------------
\* The events of what is due tell of exactly the emissions that are due.
LEMMA EndedOfDue ==
  ASSUME NEW recs, NEW told, TellsDue(told, recs),
         \A id \in DOMAIN recs : recs[id].envelope.emissionId = id
  PROVE  EndedBy(told) = DueIds(recs)
<1>1. DOMAIN told = 1..Len(told)
  BY DEF TellsDue
<1>2. \A id \in DueIds(recs) : recs[id].envelope.emissionId = id
  BY DEF DueIds, Pending
<1>3. ASSUME NEW id \in DueIds(recs)
      PROVE  id \in EndedBy(told)
  <2>1. PICK i \in 1..Len(told) : told[i].envelope = recs[id].envelope
    BY DEF TellsDue
  <2> QED
    BY <1>1, <1>2, <2>1 DEF EndedBy
<1>4. ASSUME NEW i \in 1..Len(told)
      PROVE  told[i].envelope.emissionId \in DueIds(recs)
  BY <1>2 DEF TellsDue
<1> QED
  BY <1>1, <1>3, <1>4 DEF EndedBy

\* A sequence of events tells of what its two parts tell of.
LEMMA EndedOfBoth ==
  ASSUME NEW a \in Seq(Terminal), NEW b \in Seq(Terminal)
  PROVE  EndedBy(a \o b) = EndedBy(a) \cup EndedBy(b)
<1>1. Len(a) \in Nat /\ Len(b) \in Nat /\ a \o b \in Seq(Terminal)
  OBVIOUS
<1>2. Len(a \o b) = Len(a) + Len(b)
  OBVIOUS
<1>3. /\ DOMAIN a = 1..Len(a) /\ DOMAIN b = 1..Len(b)
      /\ DOMAIN (a \o b) = 1..(Len(a) + Len(b))
  BY <1>1, <1>2
<1>4. \A i \in 1..Len(a) : (a \o b)[i] = a[i]
  OBVIOUS
<1>5. \A i \in 1..Len(b) : Len(a) + i \in DOMAIN (a \o b) /\ (a \o b)[Len(a) + i] = b[i]
  BY Appended
<1> DEFINE c == a \o b
<1>6. ASSUME NEW i \in DOMAIN c
      PROVE  c[i].envelope.emissionId \in EndedBy(a) \cup EndedBy(b)
  <2>1. CASE i <= Len(a)
    <3>1. i \in 1..Len(a)
      BY <1>1, <1>3, <2>1
    <3> QED
      BY <1>3, <1>4, <3>1 DEF EndedBy
  <2>2. CASE ~(i <= Len(a))
    <3>1. i - Len(a) \in 1..Len(b) /\ Len(a) + (i - Len(a)) = i
      BY <1>1, <1>3, <2>2
    <3>2. c[i] = b[i - Len(a)]
      BY <1>5, <3>1
    <3> HIDE DEF c
    <3> QED
      BY <1>3, <3>1, <3>2 DEF EndedBy
  <2> QED
    BY <2>1, <2>2
<1>7. ASSUME NEW i \in DOMAIN a
      PROVE  a[i].envelope.emissionId \in EndedBy(c)
  <2>1. i \in DOMAIN c /\ c[i] = a[i]
    BY <1>1, <1>3, <1>4
  <2> HIDE DEF c
  <2> QED
    BY <2>1 DEF EndedBy
<1>8. ASSUME NEW i \in DOMAIN b
      PROVE  b[i].envelope.emissionId \in EndedBy(c)
  <2>1. Len(a) + i \in DOMAIN c /\ c[Len(a) + i] = b[i]
    BY <1>3, <1>5
  <2> HIDE DEF c
  <2> QED
    BY <2>1 DEF EndedBy
<1> HIDE DEF c
<1>9. EndedBy(c) = EndedBy(a) \cup EndedBy(b)
  BY <1>6, <1>7, <1>8 DEF EndedBy
<1> QED
  BY <1>9 DEF c

\* A pump: what was told before it and what is due end, and its answer is Commits'
\* for the state it is run on.
LEMMA PumpEnds ==
  ASSUME IInv, NEW recs, NEW active, NEW answer, Pumps(recs, active, answer)
  PROVE  /\ Ended(reply') = EndedBy(answer.events) \cup DueIds(recs)
         /\ DOMAIN records' = DOMAIN recs \ DueIds(recs)
         /\ \A id \in DOMAIN records' : records'[id].envelope = recs[id].envelope
         /\ reply'.status = answer.status
         /\ reply'.emission = answer.emission
         /\ \/ active # 0 /\ inFlightEmissionId' = active /\ reply'.pump = "Busy"
            \/ active = 0 /\ inFlightEmissionId' = 0 /\ reply'.pump = "QueueEmpty"
            \/ /\ active = 0
               /\ inFlightEmissionId' \in DOMAIN records'
               /\ reply'.pump = "EmissionReady"
               /\ reply'.ready = recs[inFlightEmissionId'].envelope
<1>1. PICK told : TellsDue(told, recs) /\ PumpEffect(recs, active, answer, told)
  BY PumpFacts
<1>2. answer.events \in Seq(Terminal) /\ told \in Seq(Terminal)
  BY <1>1 DEF Pumps, Reply, TellsDue
<1>3. EndedBy(told) = DueIds(recs)
  BY <1>1, PumpFacts, EndedOfDue
<1>4. reply'.events = answer.events \o told
  BY <1>1 DEF PumpEffect
<1>5. Ended(reply') = EndedBy(reply'.events)
  BY DEF Ended, EndedBy
<1>6. Ended(reply') = EndedBy(answer.events) \cup DueIds(recs)
  BY <1>2, <1>3, <1>4, <1>5, EndedOfBoth
<1>7. /\ DOMAIN records' = DOMAIN recs \ DueIds(recs)
      /\ \A id \in DOMAIN records' : records'[id] \in
           {recs[id], [recs[id] EXCEPT !.state = "InFlight"]}
  BY <1>1 DEF PumpEffect
<1>8. ASSUME NEW id \in DOMAIN records'
      PROVE  records'[id].envelope = recs[id].envelope
  <2>1. recs[id] \in Record
    BY <1>7, PumpFacts
  <2>2. [recs[id] EXCEPT !.state = "InFlight"].envelope = recs[id].envelope
    BY <2>1 DEF Record
  <2> QED
    BY <1>7, <2>2
<1> QED
  BY <1>1, <1>6, <1>7, <1>8 DEF PumpEffect

\* An answer without events ends nothing, and one that does not pump readies nothing.
LEMMA NothingEnded ==
  ASSUME NEW answer, answer.events = <<>>
  PROVE  Ended(answer) = {} /\ EndedBy(answer.events) = {}
BY DEF Ended, EndedBy

\* The waiting emissions that are due are emissions of the state.
LEMMA DueAreLive ==
  ASSUME NEW recs
  PROVE  DueIds(recs) \subseteq DOMAIN recs
BY DEF DueIds, Pending
------------------------------------------------------------------------------
\* Filing a record, whether the queue pumps or not.
LEMMA FilingCommits ==
  ASSUME IInv, IInv', NEW record, Files(record) \/ FilesAndPumps(record)
  PROVE  /\ Commits(Filed(record))
         /\ Admits(record)
         /\ reply'.status = "Accepted"
         /\ reply'.emission = record.envelope
         /\ Ended(reply') = IF reply'.pump = "NotRequested" THEN {} ELSE DueIds(records)
<1> DEFINE answer == FiledAnswer(record)
<1>1. answer.events = <<>> /\ answer.status = "Accepted" /\ answer.pump = "NotRequested"
      /\ answer.emission = record.envelope
  BY DEF FiledAnswer, Answer
<1>2. CASE Files(record)
  <2>1. /\ Admits(record) /\ records' = Filed(record) /\ reply' = answer
        /\ inFlightEmissionId' = inFlightEmissionId
    BY <1>2 DEF Files
  <2> HIDE DEF answer
  <2>2. Ended(reply') = {}
    BY <1>1, <2>1, NothingEnded
  <2> QED
    BY <1>1, <2>1, <2>2 DEF Commits
<1>3. CASE FilesAndPumps(record)
  <2>1. Admits(record) /\ inFlightEmissionId = 0
    BY <1>3 DEF FilesAndPumps
  <2>2. Pumps(Filed(record), 0, answer)
    BY <1>3, PumpKinds
  <2> HIDE DEF answer
  <2>3. Ended(reply') = DueIds(Filed(record))
    BY <1>1, <2>2, PumpEnds, NothingEnded
  <2>4. Ended(reply') = DueIds(records) /\ reply'.pump # "NotRequested"
    BY <2>1, <2>2, <2>3, PumpEnds, DueOfPrepared
  <2> QED
    BY <1>1, <2>1, <2>2, <2>3, <2>4, PumpEnds, DueAreLive DEF Commits
<1> QED
  BY <1>2, <1>3

\* What ends while a record is filed was due: the new emission is not among it.
LEMMA FilingEnds ==
  ASSUME IInv, NEW record, Files(record) \/ FilesAndPumps(record)
  PROVE  nextIdentity \notin Ended(reply')
<1>1. nextIdentity \notin DueIds(Filed(record))
  BY FiledRecords DEF Files, FilesAndPumps
<1>2. FiledAnswer(record).events = <<>>
  BY DEF FiledAnswer, Answer
<1>3. CASE Files(record)
  <2>1. reply' = FiledAnswer(record)
    BY <1>3 DEF Files
  <2> QED
    BY <1>2, <2>1, NothingEnded
<1>4. CASE FilesAndPumps(record)
  <2>1. Pumps(Filed(record), 0, FiledAnswer(record))
    BY <1>4, PumpKinds
  <2> QED
    BY <1>1, <1>2, <2>1, PumpEnds, NothingEnded
<1> QED
  BY <1>3, <1>4

\* Pumping on request.
LEMMA PumpCommits ==
  ASSUME IInv, IInv', Pump
  PROVE  Commits(records) /\ Ended(reply') = DueIds(records)
<1> DEFINE answer == Answer("Pump", "Done")
<1>1. answer.events = <<>>
  BY DEF Answer
<1>2. Pumps(records, inFlightEmissionId, answer)
  BY PumpKinds
<1> HIDE DEF answer
<1>3. Ended(reply') = DueIds(records)
  BY <1>1, <1>2, PumpEnds, NothingEnded
<1>4. inFlightEmissionId \notin DueIds(records)
  BY DueOfPrepared
<1>5. /\ DOMAIN records' = DOMAIN records \ Ended(reply')
      /\ \A id \in DOMAIN records' : records'[id].envelope = records[id].envelope
  BY <1>2, <1>3, PumpEnds
<1>6. \/ inFlightEmissionId' = inFlightEmissionId /\ reply'.pump # "EmissionReady"
      \/ /\ inFlightEmissionId = 0
         /\ inFlightEmissionId' \in DOMAIN records'
         /\ reply'.pump = "EmissionReady"
         /\ reply'.ready = records'[inFlightEmissionId'].envelope
  BY <1>2, <1>5, PumpEnds
<1>7. Ended(reply') \subseteq DOMAIN records /\ inFlightEmissionId \notin Ended(reply')
  BY <1>3, <1>4, DueAreLive
<1> QED
  BY <1>3, <1>5, <1>6, <1>7 DEF Commits

\* Processing what is due.
LEMMA ExpirationCommits ==
  ASSUME IInv, IInv', ProcessDueExpirations
  PROVE  Commits(records) /\ Ended(reply') = DueIds(records)
<1>1. /\ DOMAIN records' = DOMAIN records \ DueIds(records)
      /\ \A id \in DOMAIN records' : records'[id] = records[id]
      /\ TellsDue(reply'.events, records)
  BY ExpirationStep
<1>2. EndedBy(reply'.events) = DueIds(records)
  BY <1>1, EndedOfDue DEF IInv, RecordsKeyed
<1>3. Ended(reply') = DueIds(records)
  BY <1>2 DEF Ended, EndedBy
<1>4. inFlightEmissionId \notin DueIds(records)
  BY DueOfPrepared
<1>5. inFlightEmissionId' = inFlightEmissionId
  BY DEF ProcessDueExpirations
<1>6. reply'.pump = "NotRequested"
  BY DEF ProcessDueExpirations, Answer
<1> QED
  BY <1>1, <1>3, <1>4, <1>5, <1>6, DueAreLive DEF Commits

\* Completing what is in flight, whether the queue pumps after it or not.
LEMMA CompletionCommits ==
  ASSUME IInv, IInv', NEW op, NEW reason \in {"Confirmed", "Cancelled"},
         Completes(op, reason) \/ CompletesAndPumps
  PROVE  /\ Commits(records)
         /\ inFlightEmissionId \in Ended(reply')
         /\ Ended(reply') \ {inFlightEmissionId} \subseteq DueIds(records)
<1>1. inFlightEmissionId # 0
  BY DEF Completes, CompletesAndPumps
<1>2. /\ DOMAIN Completed = DOMAIN records \ {inFlightEmissionId}
      /\ inFlightEmissionId \in DOMAIN records
      /\ \A id \in DOMAIN Completed : Completed[id] = records[id]
      /\ records[inFlightEmissionId].envelope.emissionId = inFlightEmissionId
  BY <1>1, CompletedRecords DEF IInv, RecordsKeyed
<1>3. ASSUME NEW o, NEW why \in {"Confirmed", "Cancelled"}
      PROVE  EndedBy(CompletionAnswer(o, why).events) = {inFlightEmissionId}
  <2> DEFINE told == CompletionAnswer(o, why).events
  <2>1. /\ told \in Seq(Terminal) /\ Len(told) = 1
        /\ told[1] = [envelope |-> records[inFlightEmissionId].envelope, reason |-> why]
    BY <1>1, <1>3, CompletionTells
  <2>2. told[1].envelope.emissionId = inFlightEmissionId
    BY <1>2, <2>1
  <2> HIDE DEF told
  <2>3. DOMAIN told = {1}
    BY <2>1
  <2> QED
    BY <2>2, <2>3 DEF EndedBy, told
<1>4. CASE Completes(op, reason)
  <2>1. /\ records' = Completed /\ inFlightEmissionId' = 0
        /\ reply' = CompletionAnswer(op, reason)
    BY <1>4 DEF Completes
  <2>2. Ended(reply') = {inFlightEmissionId}
    <3>1. Ended(reply') = EndedBy(reply'.events)
      BY DEF Ended, EndedBy
    <3> QED
      BY <1>3, <2>1, <3>1
  <2>3. reply'.pump = "NotRequested"
    BY <2>1 DEF CompletionAnswer, Answer
  <2> QED
    BY <1>2, <2>1, <2>2, <2>3 DEF Commits
<1>5. CASE CompletesAndPumps
  <2> DEFINE answer == CompletionAnswer("Confirm", "Confirmed")
  <2>1. Pumps(Completed, 0, answer)
    BY <1>5, PumpKinds
  <2>2. DueIds(Completed) = DueIds(records)
    BY <1>1, DueOfPrepared
  <2>3. EndedBy(answer.events) = {inFlightEmissionId}
    BY <1>3
  <2> HIDE DEF answer
  <2>4. Ended(reply') = {inFlightEmissionId} \cup DueIds(records)
    BY <2>1, <2>2, <2>3, PumpEnds
  <2>5. DOMAIN records' = DOMAIN records \ Ended(reply')
    BY <1>2, <2>1, <2>2, <2>4, PumpEnds
  <2>6. Ended(reply') \subseteq DOMAIN records
    BY <1>2, <2>4, DueAreLive
  <2>7. \A id \in DOMAIN records' : records'[id].envelope = records[id].envelope
    BY <1>2, <2>1, PumpEnds
  <2>8. reply'.pump = "EmissionReady" =>
          /\ inFlightEmissionId' \in DOMAIN records'
          /\ reply'.ready = records'[inFlightEmissionId'].envelope
    BY <2>1, PumpEnds
  <2>9. reply'.pump # "EmissionReady" => inFlightEmissionId' = 0
    BY <2>1, PumpEnds
  <2> QED
    BY <2>4, <2>5, <2>6, <2>7, <2>8, <2>9 DEF Commits
<1> QED
  BY <1>4, <1>5
------------------------------------------------------------------------------
\* The parts of PipelineInv, of a queue, bindings, payloads and an index given.

PayloadAt(id, bound, stored) == stored[PayloadKey(bound[id])]

\* BindingsMatchCore and the types of what it speaks of.
BindingsMatch(recs, bound, stored, next) ==
  /\ DOMAIN bound = DOMAIN recs
  /\ bound \in [DOMAIN bound -> Binding]
  /\ stored \in [DOMAIN stored -> Payload]
  /\ DOMAIN stored = {PayloadKey(bound[id]) : id \in DOMAIN bound}
  /\ \A id, other \in DOMAIN bound :
       PayloadKey(bound[id]) = PayloadKey(bound[other]) => id = other
  /\ \A id \in DOMAIN bound :
       /\ bound[id].expectedFlow = recs[id].envelope.flow
       /\ \/ next[bound[id].expectedFlow] = 0
          \/ bound[id].handle < next[bound[id].expectedFlow]

\* ReadyMatchesCore.
ReadyMatch(recs, active, bound, ready) ==
  /\ \A id \in DOMAIN bound :
       IF id = active
       THEN IF bound[id].state = "Bound" THEN ready = recs[id].envelope ELSE ready = None
       ELSE bound[id].state = "Bound"
  /\ active = 0 => ready = None

\* BatchesMatchCore, but for the emission that is missing from the index because it
\* is being admitted.
ChatWaiting(recs, active) == {id \in DOMAIN recs \ {active} : recs[id].envelope.flow = Chat}

BatchesMatch(recs, active, bound, stored, batches, missing) ==
  /\ DOMAIN batches \subseteq Users
  /\ batches \in [DOMAIN batches -> Batch]
  /\ \A id \in ChatWaiting(recs, active) \ missing :
       /\ PayloadAt(id, bound, stored).user \in DOMAIN batches
       /\ batches[PayloadAt(id, bound, stored).user].emissionId = id
  /\ \A user \in DOMAIN batches :
       /\ batches[user].emissionId \in ChatWaiting(recs, active) \ missing
       /\ PayloadAt(batches[user].emissionId, bound, stored).user = user
       /\ batches[user].expiresAt = recs[batches[user].emissionId].envelope.expiresAt

LimitsMatch(bound, stored) ==
  \A id \in DOMAIN bound : FitsFlow(bound[id].expectedFlow, PayloadAt(id, bound, stored))

\* All that an operation finds when it starts to commit.
ExternalInv(recs, bound, stored, next, missing) ==
  /\ BindingsMatch(recs, bound, stored, next)
  /\ ReadyMatch(recs, inFlightEmissionId, bound, pendingReadyEmission)
  /\ BatchesMatch(recs, inFlightEmissionId, bound, stored, chatPendingBatches, missing)
  /\ LimitsMatch(bound, stored)

\* The queue an operation commits to: its records are keyed by their identities, and
\* what is in flight is among them.
Keyed(recs) ==
  /\ DOMAIN recs \subseteq Identity
  /\ \A id \in DOMAIN recs : recs[id].envelope.emissionId = id
  /\ \A id \in DOMAIN recs : recs[id].envelope \in Envelope
  /\ inFlightEmissionId = 0 \/ inFlightEmissionId \in DOMAIN recs
------------------------------------------------------------------------------
\* Removing the bindings and the payloads of what ended leaves each of the others
\* its own payload.
LEMMA CommitBindings ==
  ASSUME NEW recs, NEW bound, NEW stored, NEW next,
         Commits(recs), Keyed(recs),
         BindingsMatch(recs, bound, stored, next), LimitsMatch(bound, stored),
         CommitExternal(reply', bound, stored)
  PROVE  /\ BindingsMatch(records', bindings', payloads', next)
         /\ LimitsMatch(bindings', payloads')
         /\ \A id \in DOMAIN records' :
              /\ bindings'[id] = bound[id]
              /\ PayloadAt(id, bindings', payloads') = PayloadAt(id, bound, stored)
         /\ \A key \in DOMAIN payloads' : key \in DOMAIN stored /\ payloads'[key] = stored[key]
<1> DEFINE ended == Ended(reply')
           keys == {PayloadKey(bound[id]) : id \in ended}
<1>1. bindings' = Without(bound, ended) /\ payloads' = Without(stored, keys)
  BY DEF CommitExternal
<1>2. /\ DOMAIN records' = DOMAIN recs \ ended
      /\ ended \subseteq DOMAIN recs
      /\ \A id \in DOMAIN records' : records'[id].envelope = recs[id].envelope
  BY DEF Commits
<1> HIDE DEF ended
<1>3. /\ DOMAIN bindings' = DOMAIN records'
      /\ \A id \in DOMAIN records' : bindings'[id] = bound[id]
  <2>1. DOMAIN bound = DOMAIN recs
    BY DEF BindingsMatch
  <2> QED
    BY <1>1, <1>2, <2>1 DEF Without
<1>4. /\ DOMAIN payloads' = DOMAIN stored \ keys
      /\ \A key \in DOMAIN payloads' : payloads'[key] = stored[key]
  <2> HIDE DEF keys
  <2> QED
    BY <1>1 DEF Without
<1>5. \A id \in DOMAIN records' : PayloadKey(bound[id]) \in DOMAIN stored \ keys
  BY <1>2 DEF BindingsMatch
<1>6. DOMAIN payloads' = {PayloadKey(bindings'[id]) : id \in DOMAIN bindings'}
  <2>1. \A key \in DOMAIN stored \ keys : \E id \in DOMAIN records' : key = PayloadKey(bound[id])
    BY <1>2 DEF BindingsMatch
  <2> QED
    BY <1>3, <1>4, <1>5, <2>1
<1>7. \A id \in DOMAIN records' : PayloadAt(id, bindings', payloads') = PayloadAt(id, bound, stored)
  BY <1>3, <1>4, <1>5 DEF PayloadAt
<1>8. bindings' \in [DOMAIN bindings' -> Binding]
  <2>1. bindings' = [id \in DOMAIN bound \ ended |-> bound[id]]
    BY <1>1 DEF Without
  <2> QED
    BY <2>1 DEF BindingsMatch
<1>9. payloads' \in [DOMAIN payloads' -> Payload]
  <2>1. payloads' = [key \in DOMAIN stored \ keys |-> stored[key]]
    BY <1>1 DEF Without
  <2> HIDE DEF keys
  <2> QED
    BY <2>1 DEF BindingsMatch
<1>10. DOMAIN records' \subseteq DOMAIN bound
  BY <1>2 DEF BindingsMatch
<1> HIDE DEF keys
<1>11. BindingsMatch(records', bindings', payloads', next)
  BY <1>2, <1>3, <1>6, <1>8, <1>9, <1>10 DEF BindingsMatch
<1>12. LimitsMatch(bindings', payloads')
  BY <1>3, <1>7, <1>10 DEF LimitsMatch
<1> QED
  BY <1>3, <1>4, <1>7, <1>11, <1>12

\* The notification follows the core: taken back when its emission ends, given when
\* one becomes ready, and never overwritten.
LEMMA CommitReady ==
  ASSUME NEW recs, NEW bound, NEW stored,
         Commits(recs), Keyed(recs), DOMAIN bound = DOMAIN recs,
         DOMAIN bindings' = DOMAIN records',
         \A id \in DOMAIN records' : bindings'[id] = bound[id],
         ReadyMatch(recs, inFlightEmissionId, bound, pendingReadyEmission),
         CommitExternal(reply', bound, stored)
  PROVE  /\ ReadyMatch(records', inFlightEmissionId', bindings', pendingReadyEmission')
         /\ pendingReadyEmission' \in Envelope \cup {None}
<1> DEFINE ended == Ended(reply')
<1>1. /\ DOMAIN records' = DOMAIN recs \ ended
      /\ \A id \in DOMAIN records' : records'[id].envelope = recs[id].envelope
  BY DEF Commits
<1>2. pendingReadyEmission # None =>
        /\ inFlightEmissionId \in DOMAIN recs
        /\ pendingReadyEmission = recs[inFlightEmissionId].envelope
        /\ pendingReadyEmission.emissionId = inFlightEmissionId
  BY DEF Keyed, ReadyMatch
<1>3. 0 \notin DOMAIN recs
  BY DEF Keyed, Identity
<1>4. CASE reply'.pump = "EmissionReady"
  <2>1. /\ inFlightEmissionId' \in DOMAIN records'
        /\ pendingReadyEmission' = records'[inFlightEmissionId'].envelope
        /\ inFlightEmissionId = 0 \/ inFlightEmissionId \in ended
    BY <1>4 DEF Commits, CommitExternal
  <2>2. \A id \in DOMAIN records' : bound[id].state = "Bound"
    BY <1>1, <1>3, <2>1 DEF ReadyMatch
  <2>3. pendingReadyEmission' \in Envelope
    BY <1>1, <2>1 DEF Keyed
  <2> QED
    BY <1>1, <1>3, <2>1, <2>2, <2>3 DEF ReadyMatch
<1>5. CASE reply'.pump # "EmissionReady"
  <2>1. inFlightEmissionId' = IF inFlightEmissionId \in ended THEN 0 ELSE inFlightEmissionId
    BY <1>5 DEF Commits
  <2>2. pendingReadyEmission' = IF \E id \in ended : IsReady(id) THEN None
                                ELSE pendingReadyEmission
    BY <1>5 DEF CommitExternal
  <2>3. pendingReadyEmission # None =>
          ((\E id \in ended : IsReady(id)) <=> inFlightEmissionId \in ended)
    BY <1>2 DEF IsReady
  <2> HIDE DEF ended
  <2>4. pendingReadyEmission' \in Envelope \cup {None}
    BY <1>2, <2>2 DEF Keyed
  <2>5. CASE inFlightEmissionId \in ended
    <3>1. inFlightEmissionId' = 0 /\ pendingReadyEmission' = None
      BY <2>1, <2>2, <2>3, <2>5
    <3>2. \A id \in DOMAIN records' : bound[id].state = "Bound" /\ id # 0
      BY <1>1, <1>3, <2>5 DEF ReadyMatch
    <3> QED
      BY <2>4, <3>1, <3>2 DEF ReadyMatch
  <2>6. CASE inFlightEmissionId \notin ended
    <3>1. inFlightEmissionId' = inFlightEmissionId /\ pendingReadyEmission' = pendingReadyEmission
      BY <2>1, <2>2, <2>3, <2>6
    <3> QED
      BY <1>1, <2>4, <3>1 DEF ReadyMatch
  <2> QED
    BY <2>5, <2>6
<1> QED
  BY <1>4, <1>5

\* A batch leaves the index when its emission ends or becomes ready, and only then.
LEMMA CommitBatches ==
  ASSUME NEW recs, NEW bound, NEW stored, NEW missing,
         Commits(recs), Keyed(recs), DOMAIN bound = DOMAIN recs,
         \A id \in DOMAIN records' :
           PayloadAt(id, bindings', payloads') = PayloadAt(id, bound, stored),
         BatchesMatch(recs, inFlightEmissionId, bound, stored, chatPendingBatches, missing)
  PROVE  /\ BatchesMatch(records', inFlightEmissionId', bindings', payloads',
                         OpenBatches(reply'), missing)
         /\ ChatWaiting(records', inFlightEmissionId') =
              ChatWaiting(recs, inFlightEmissionId) \ (Ended(reply') \cup MadeReady(reply'))
<1> DEFINE closed == Ended(reply') \cup MadeReady(reply')
           before == ChatWaiting(recs, inFlightEmissionId)
           after == ChatWaiting(records', inFlightEmissionId')
           batches == OpenBatches(reply')
<1>1. /\ DOMAIN records' = DOMAIN recs \ Ended(reply')
      /\ \A id \in DOMAIN records' : records'[id].envelope = recs[id].envelope
  BY DEF Commits
<1>2. \/ /\ MadeReady(reply') = {inFlightEmissionId'}
         /\ inFlightEmissionId = 0 \/ inFlightEmissionId \in Ended(reply')
      \/ /\ MadeReady(reply') = {}
         /\ inFlightEmissionId' =
              IF inFlightEmissionId \in Ended(reply') THEN 0 ELSE inFlightEmissionId
  <2>1. CASE reply'.pump = "EmissionReady"
    <3>1. /\ inFlightEmissionId' \in DOMAIN records'
          /\ reply'.ready = recs[inFlightEmissionId'].envelope
          /\ inFlightEmissionId = 0 \/ inFlightEmissionId \in Ended(reply')
      BY <1>1, <2>1 DEF Commits
    <3>2. reply'.ready.emissionId = inFlightEmissionId'
      BY <1>1, <3>1 DEF Keyed
    <3> QED
      BY <2>1, <3>1, <3>2 DEF MadeReady
  <2>2. CASE reply'.pump # "EmissionReady"
    BY <2>2 DEF Commits, MadeReady
  <2> QED
    BY <2>1, <2>2
<1>3. 0 \notin DOMAIN recs
  BY DEF Keyed, Identity
<1>4. after = before \ closed
  BY <1>1, <1>2, <1>3 DEF ChatWaiting
<1>5. /\ DOMAIN batches = {user \in DOMAIN chatPendingBatches :
                             chatPendingBatches[user].emissionId \notin closed}
      /\ \A user \in DOMAIN batches : batches[user] = chatPendingBatches[user]
  BY DEF OpenBatches, Without
<1>6. batches \in [DOMAIN batches -> Batch] /\ DOMAIN batches \subseteq Users
  <2>1. batches = [user \in DOMAIN batches |-> chatPendingBatches[user]]
    BY DEF OpenBatches, Without
  <2> HIDE DEF batches
  <2> QED
    BY <1>5, <2>1 DEF BatchesMatch
<1> HIDE DEF closed, batches
<1>7. after \subseteq DOMAIN records'
  BY DEF ChatWaiting
<1>8. \A id \in after : PayloadAt(id, bindings', payloads') = PayloadAt(id, bound, stored)
  BY <1>7
<1> HIDE DEF before, after
<1>9. ASSUME NEW id \in after \ missing
      PROVE  /\ PayloadAt(id, bindings', payloads').user \in DOMAIN batches
             /\ batches[PayloadAt(id, bindings', payloads').user].emissionId = id
  <2>1. id \in before \ missing /\ id \notin closed
    BY <1>4
  <2>2. /\ PayloadAt(id, bound, stored).user \in DOMAIN chatPendingBatches
        /\ chatPendingBatches[PayloadAt(id, bound, stored).user].emissionId = id
    BY <2>1 DEF BatchesMatch, before
  <2> QED
    BY <1>5, <1>8, <2>1, <2>2
<1>10. ASSUME NEW user \in DOMAIN batches
       PROVE  /\ batches[user].emissionId \in after \ missing
              /\ PayloadAt(batches[user].emissionId, bindings', payloads').user = user
              /\ batches[user].expiresAt = records'[batches[user].emissionId].envelope.expiresAt
  <2> DEFINE id == chatPendingBatches[user].emissionId
  <2>1. user \in DOMAIN chatPendingBatches /\ id \notin closed
        /\ batches[user] = chatPendingBatches[user]
    BY <1>5
  <2>2. /\ id \in before \ missing
        /\ PayloadAt(id, bound, stored).user = user
        /\ chatPendingBatches[user].expiresAt = recs[id].envelope.expiresAt
    BY <2>1 DEF BatchesMatch, before
  <2>3. id \in after \ missing
    BY <1>4, <2>1, <2>2
  <2>4. records'[id].envelope = recs[id].envelope
    BY <1>1, <1>7, <2>3
  <2>5. PayloadAt(id, bindings', payloads').user = user
    BY <1>8, <2>2, <2>3
  <2> QED
    BY <2>1, <2>2, <2>3, <2>4, <2>5
<1> QED
  BY <1>4, <1>6, <1>9, <1>10 DEF BatchesMatch, before, after, closed, batches
------------------------------------------------------------------------------
\* PipelineInv taken apart.
LEMMA InvariantParts ==
  ASSUME PipelineInv
  PROVE  /\ Keyed(records)
         /\ ExternalInv(records, bindings, payloads, nextHandle, {})
<1>1. Keyed(records)
  BY DEF PipelineInv, IInv, TypeOK, RecordsKeyed, InFlightCoherent, Keyed, Record
<1>2. BindingsMatch(records, bindings, payloads, nextHandle)
  BY DEF PipelineInv, PipelineTypeOK, BindingsMatchCore, BindingsMatch
<1>3. ReadyMatch(records, inFlightEmissionId, bindings, pendingReadyEmission)
  BY DEF PipelineInv, ReadyMatchesCore, ReadyMatch
<1>4. ChatWaiting(records, inFlightEmissionId) =
        {id \in Pending(records) : records[id].envelope.flow = Chat}
  BY DEF PipelineInv, IInv, TypeOK, InFlightCoherent, Record, Pending, ChatWaiting
<1>5. BatchesMatch(records, inFlightEmissionId, bindings, payloads, chatPendingBatches, {})
  BY <1>4 DEF PipelineInv, PipelineTypeOK, BatchesMatchCore, ContainsExact, PayloadOf,
              PayloadAt, BatchesMatch
<1>6. LimitsMatch(bindings, payloads)
  BY DEF PipelineInv, BatchesMatchCore, PayloadOf, PayloadAt, LimitsMatch
<1> QED
  BY <1>1, <1>2, <1>3, <1>5, <1>6 DEF ExternalInv

\* And put together, for the state after a step.
LEMMA InvariantWhole ==
  ASSUME IInv', nextHandle' \in [Routes -> Handle \cup {0}],
         pendingReadyEmission' \in Envelope \cup {None}, outcome' \in Outcome,
         BindingsMatch(records', bindings', payloads', nextHandle'),
         ReadyMatch(records', inFlightEmissionId', bindings', pendingReadyEmission'),
         BatchesMatch(records', inFlightEmissionId', bindings', payloads',
                      chatPendingBatches', {}),
         LimitsMatch(bindings', payloads')
  PROVE  PipelineInv'
<1>1. BindingsMatchCore'
  BY DEF BindingsMatch, BindingsMatchCore, PayloadKey
<1>2. ReadyMatchesCore'
  BY DEF ReadyMatch, ReadyMatchesCore
<1>3. ChatWaiting(records', inFlightEmissionId') =
        {id \in Pending(records)' : records'[id].envelope.flow = Chat}
  BY DEF IInv, TypeOK, InFlightCoherent, Record, Pending, ChatWaiting
<1>4. \A id \in DOMAIN bindings' : PayloadOf(id)' = PayloadAt(id, bindings', payloads')
  BY DEF PayloadOf, PayloadAt, PayloadKey
<1>5. BatchesMatchCore'
  <2> DEFINE waiting == ChatWaiting(records', inFlightEmissionId')
  <2>1. waiting \subseteq DOMAIN bindings'
    BY DEF ChatWaiting, BindingsMatch
  <2> HIDE DEF waiting
  <2>2. \A id \in waiting :
          /\ PayloadOf(id)'.user \in DOMAIN chatPendingBatches'
          /\ chatPendingBatches'[PayloadOf(id)'.user].emissionId = id
    BY <1>4, <2>1 DEF BatchesMatch, waiting
  <2>3. \A user \in DOMAIN chatPendingBatches' :
          /\ chatPendingBatches'[user].emissionId \in waiting
          /\ PayloadAt(chatPendingBatches'[user].emissionId, bindings', payloads').user = user
          /\ chatPendingBatches'[user].expiresAt =
               records'[chatPendingBatches'[user].emissionId].envelope.expiresAt
    BY DEF BatchesMatch, waiting
  <2>4. \A id \in DOMAIN bindings' :
          FitsFlow(bindings'[id].expectedFlow, PayloadOf(id)')
    BY <1>4 DEF LimitsMatch
  <2>5. waiting = {id \in Pending(records)' : records'[id].envelope.flow = Chat}
    BY <1>3 DEF waiting
  <2> QED
    BY <1>4, <2>1, <2>2, <2>3, <2>4, <2>5 DEF BatchesMatchCore, ContainsExact
<1>6. PipelineTypeOK'
  <2>1. DOMAIN bindings' \subseteq Identity
    BY DEF BindingsMatch, IInv, TypeOK
  <2>2. DOMAIN payloads' \subseteq Routes \X Handle
    BY DEF BindingsMatch, Binding, PayloadKey
  <2> QED
    BY <2>1, <2>2 DEF BindingsMatch, BatchesMatch, PipelineTypeOK
<1> QED
  BY <1>1, <1>2, <1>5, <1>6 DEF PipelineInv

\* What a commit leaves for the index to settle: everything else agrees again.
LEMMA CommitPreserves ==
  ASSUME IInv', NEW recs, NEW bound, NEW stored, NEW missing,
         Commits(recs), Keyed(recs), ExternalInv(recs, bound, stored, nextHandle', missing),
         CommitExternal(reply', bound, stored),
         nextHandle' \in [Routes -> Handle \cup {0}], outcome' \in Outcome
  PROVE  /\ BatchesMatch(records', inFlightEmissionId', bindings', payloads',
                         OpenBatches(reply'), missing)
         /\ ChatWaiting(records', inFlightEmissionId') =
              ChatWaiting(recs, inFlightEmissionId) \ (Ended(reply') \cup MadeReady(reply'))
         /\ BatchesMatch(records', inFlightEmissionId', bindings', payloads',
                         chatPendingBatches', {}) => PipelineInv'
         /\ \A id \in DOMAIN records' :
              PayloadAt(id, bindings', payloads') = PayloadAt(id, bound, stored)
         /\ \A key \in DOMAIN payloads' : key \in DOMAIN stored /\ payloads'[key] = stored[key]
<1>1. /\ BindingsMatch(recs, bound, stored, nextHandle')
      /\ ReadyMatch(recs, inFlightEmissionId, bound, pendingReadyEmission)
      /\ BatchesMatch(recs, inFlightEmissionId, bound, stored, chatPendingBatches, missing)
      /\ LimitsMatch(bound, stored)
  BY DEF ExternalInv
<1>2. /\ BindingsMatch(records', bindings', payloads', nextHandle')
      /\ LimitsMatch(bindings', payloads')
      /\ \A id \in DOMAIN records' :
           /\ bindings'[id] = bound[id]
           /\ PayloadAt(id, bindings', payloads') = PayloadAt(id, bound, stored)
      /\ \A key \in DOMAIN payloads' : key \in DOMAIN stored /\ payloads'[key] = stored[key]
  BY <1>1, CommitBindings
<1>3. DOMAIN bound = DOMAIN recs /\ DOMAIN bindings' = DOMAIN records'
  BY <1>1, <1>2 DEF BindingsMatch
<1>4. /\ ReadyMatch(records', inFlightEmissionId', bindings', pendingReadyEmission')
      /\ pendingReadyEmission' \in Envelope \cup {None}
  BY <1>1, <1>2, <1>3, CommitReady
<1>5. /\ BatchesMatch(records', inFlightEmissionId', bindings', payloads',
                      OpenBatches(reply'), missing)
      /\ ChatWaiting(records', inFlightEmissionId') =
           ChatWaiting(recs, inFlightEmissionId) \ (Ended(reply') \cup MadeReady(reply'))
  BY <1>1, <1>2, <1>3, CommitBatches
<1> QED
  BY <1>2, <1>4, <1>5, InvariantWhole

\* An operation that admits nothing and commits.
LEMMA PlainCommit ==
  ASSUME PipelineInv, IInv', Commits(records), CommitExternal(reply', bindings, payloads),
         chatPendingBatches' = OpenBatches(reply'), UNCHANGED nextHandle, outcome' \in Outcome
  PROVE  /\ PipelineInv'
         /\ \A key \in DOMAIN payloads' :
              key \in DOMAIN payloads /\ payloads'[key] = payloads[key]
<1>1. /\ Keyed(records)
      /\ ExternalInv(records, bindings, payloads, nextHandle', {})
      /\ nextHandle' \in [Routes -> Handle \cup {0}]
  BY InvariantParts DEF PipelineInv, PipelineTypeOK
<1> QED
  BY <1>1, CommitPreserves
------------------------------------------------------------------------------
\* The answer of an operation that tells an identity or none.
LEMMA ToldType ==
  ASSUME NEW status \in OutcomeStatus, NEW id \in Identity \cup {0}
  PROVE  Told(status, id) \in Outcome
BY DEF Told, Outcome

\* The binding and the payload of an admission.
NewBinding(flow) ==
  [expectedFlow |-> flow, handle |-> nextHandle[flow], state |-> "Bound"]
Bound(flow) == With(bindings, nextIdentity, NewBinding(flow))
Stored(flow, payload) == With(payloads, <<flow, nextHandle[flow]>>, payload)

\* An extended map keeps the type of its values.
LEMMA WithType ==
  ASSUME NEW f, NEW T, f \in [DOMAIN f -> T], NEW i, NEW v \in T
  PROVE  With(f, i, v) \in [DOMAIN f \cup {i} -> T]
BY DEF With

\* A handle is used once: the next one of a repository is ahead of all it gave, and
\* stays so when it is used up.
LEMMA HandleIsNew ==
  ASSUME PipelineInv, NEW flow \in Routes, InsertPayload(flow)
  PROVE  /\ <<flow, nextHandle[flow]>> \notin DOMAIN payloads
         /\ NewBinding(flow) \in Binding
         /\ nextHandle' \in [Routes -> Handle \cup {0}]
         /\ \A id \in DOMAIN bindings :
              \/ nextHandle'[bindings[id].expectedFlow] = 0
              \/ bindings[id].handle < nextHandle'[bindings[id].expectedFlow]
         /\ nextHandle'[flow] = 0 \/ nextHandle[flow] < nextHandle'[flow]
<1>1. /\ nextHandle \in [Routes -> Handle \cup {0}] /\ nextHandle[flow] # 0
      /\ bindings \in [DOMAIN bindings -> Binding]
      /\ DOMAIN payloads = {PayloadKey(bindings[id]) : id \in DOMAIN bindings}
      /\ \A id \in DOMAIN bindings :
           \/ nextHandle[bindings[id].expectedFlow] = 0
           \/ bindings[id].handle < nextHandle[bindings[id].expectedFlow]
  BY DEF PipelineInv, PipelineTypeOK, BindingsMatchCore, InsertPayload
<1>2. nextHandle[flow] \in Handle /\ MaxHandle \in Nat
  BY <1>1, PipelineAssumption
<1>3. ASSUME NEW id \in DOMAIN bindings
      PROVE  PayloadKey(bindings[id]) # <<flow, nextHandle[flow]>>
  <2>1. bindings[id].expectedFlow = flow => bindings[id].handle < nextHandle[flow]
    BY <1>1
  <2>2. bindings[id].handle \in Int /\ nextHandle[flow] \in Int
    BY <1>1, <1>2 DEF Binding, Handle
  <2> QED
    BY <2>1, <2>2 DEF PayloadKey
<1>4. /\ nextHandle'[flow] = IF nextHandle[flow] = MaxHandle THEN 0 ELSE nextHandle[flow] + 1
      /\ \A other \in Routes \ {flow} : nextHandle'[other] = nextHandle[other]
  BY <1>1 DEF InsertPayload
<1>5. nextHandle'[flow] \in Handle \cup {0}
  BY <1>2, <1>4 DEF Handle
<1>6. nextHandle' \in [Routes -> Handle \cup {0}]
  BY <1>1, <1>5 DEF InsertPayload
<1>7. nextHandle'[flow] = 0 \/ nextHandle[flow] < nextHandle'[flow]
  BY <1>2, <1>4 DEF Handle
<1>8. ASSUME NEW id \in DOMAIN bindings
      PROVE  \/ nextHandle'[bindings[id].expectedFlow] = 0
             \/ bindings[id].handle < nextHandle'[bindings[id].expectedFlow]
  <2>1. bindings[id].expectedFlow \in Routes /\ bindings[id].handle \in Handle
    BY <1>1 DEF Binding
  <2>2. CASE bindings[id].expectedFlow = flow
    <3>1. bindings[id].handle < nextHandle[flow]
      BY <1>1, <2>2
    <3>2. nextHandle'[flow] # 0 => nextHandle'[flow] \in Handle
      BY <1>5
    <3> QED
      BY <1>2, <1>7, <2>1, <2>2, <3>1, <3>2 DEF Handle
  <2>3. CASE bindings[id].expectedFlow # flow
    BY <1>1, <1>4, <2>1, <2>3
  <2> QED
    BY <2>2, <2>3
<1>9. NewBinding(flow) \in Binding
  BY <1>2 DEF NewBinding, Binding
<1> QED
  BY <1>1, <1>3, <1>6, <1>7, <1>8, <1>9

\* The admission, not yet published, disturbs nothing: it agrees with the queue the
\* record is filed in, but for the index.
LEMMA AdmissionMatches ==
  ASSUME PipelineInv, NEW flow \in Routes, NEW payload \in Payload, NEW record,
         Admits(record), record.envelope.flow = flow, InsertPayload(flow),
         FitsFlow(flow, payload)
  PROVE  /\ Keyed(Filed(record))
         /\ ExternalInv(Filed(record), Bound(flow), Stored(flow, payload), nextHandle',
                        {nextIdentity})
         /\ nextHandle' \in [Routes -> Handle \cup {0}]
         /\ PayloadAt(nextIdentity, Bound(flow), Stored(flow, payload)) = payload
         /\ \A key \in DOMAIN payloads : Stored(flow, payload)[key] = payloads[key]
<1> DEFINE new == nextIdentity
           key == <<flow, nextHandle[flow]>>
           binding == NewBinding(flow)
           recs == Filed(record)
           bound == Bound(flow)
           stored == Stored(flow, payload)
<1>0. IInv
  BY DEF PipelineInv
<1>1. /\ DOMAIN recs = DOMAIN records \cup {new}
      /\ new \notin DOMAIN records
      /\ \A id \in DOMAIN records : recs[id] = records[id]
      /\ recs[new] = record
  BY <1>0, FiledRecords
<1>2. /\ Keyed(records)
      /\ BindingsMatch(records, bindings, payloads, nextHandle)
      /\ ReadyMatch(records, inFlightEmissionId, bindings, pendingReadyEmission)
      /\ BatchesMatch(records, inFlightEmissionId, bindings, payloads, chatPendingBatches, {})
      /\ LimitsMatch(bindings, payloads)
  BY InvariantParts DEF ExternalInv
<1>3. /\ key \notin DOMAIN payloads
      /\ binding \in Binding
      /\ nextHandle' \in [Routes -> Handle \cup {0}]
      /\ \A id \in DOMAIN bindings :
           \/ nextHandle'[bindings[id].expectedFlow] = 0
           \/ bindings[id].handle < nextHandle'[bindings[id].expectedFlow]
      /\ nextHandle'[flow] = 0 \/ nextHandle[flow] < nextHandle'[flow]
  BY HandleIsNew
<1>4. binding.expectedFlow = flow /\ binding.handle = nextHandle[flow]
      /\ binding.state = "Bound" /\ PayloadKey(binding) = key
  BY DEF NewBinding, PayloadKey
<1>5. /\ new \in Identity /\ record.envelope.emissionId = new /\ record.envelope \in Envelope
  BY <1>0 DEF IInv, TypeOK, Admits, Record
<1>6. new \notin DOMAIN bindings /\ DOMAIN bindings = DOMAIN records
  BY <1>1, <1>2 DEF BindingsMatch
<1>7. /\ DOMAIN bound = DOMAIN bindings \cup {new}
      /\ bound[new] = binding
      /\ \A id \in DOMAIN bindings : bound[id] = bindings[id]
  <2>1. bound = With(bindings, new, binding)
    BY DEF Bound
  <2> HIDE DEF bound, binding, new
  <2> QED
    BY <1>6, <2>1 DEF With
<1>8. /\ DOMAIN stored = DOMAIN payloads \cup {key}
      /\ stored[key] = payload
      /\ \A k \in DOMAIN payloads : stored[k] = payloads[k]
  <2>1. stored = With(payloads, key, payload)
    BY DEF Stored
  <2> HIDE DEF stored, key
  <2> QED
    BY <1>3, <2>1 DEF With
<1>9. bound \in [DOMAIN bound -> Binding]
  BY <1>2, <1>3, <1>7, WithType DEF BindingsMatch, Bound
<1>10. stored \in [DOMAIN stored -> Payload]
  BY <1>2, <1>8, WithType DEF BindingsMatch, Stored
<1> HIDE DEF key, binding, recs, bound, stored, new
<1>11. /\ PayloadAt(new, bound, stored) = payload
       /\ \A id \in DOMAIN bindings :
            /\ PayloadKey(bindings[id]) \in DOMAIN payloads
            /\ PayloadAt(id, bound, stored) = PayloadAt(id, bindings, payloads)
  BY <1>2, <1>4, <1>7, <1>8 DEF PayloadAt, BindingsMatch
<1>12. Keyed(recs)
  BY <1>1, <1>2, <1>5 DEF Keyed
<1>13. BindingsMatch(recs, bound, stored, nextHandle')
  <2>1. DOMAIN stored = {PayloadKey(bound[id]) : id \in DOMAIN bound}
    BY <1>2, <1>4, <1>7, <1>8 DEF BindingsMatch
  <2>2. ASSUME NEW id \in DOMAIN bound, NEW other \in DOMAIN bound,
               PayloadKey(bound[id]) = PayloadKey(bound[other])
        PROVE  id = other
    BY <1>2, <1>3, <1>4, <1>7, <1>11, <2>2 DEF BindingsMatch
  <2>3. ASSUME NEW id \in DOMAIN bound
        PROVE  /\ bound[id].expectedFlow = recs[id].envelope.flow
               /\ \/ nextHandle'[bound[id].expectedFlow] = 0
                  \/ bound[id].handle < nextHandle'[bound[id].expectedFlow]
    BY <1>1, <1>2, <1>3, <1>4, <1>6, <1>7 DEF BindingsMatch
  <2> QED
    BY <1>1, <1>6, <1>7, <1>9, <1>10, <2>1, <2>2, <2>3 DEF BindingsMatch
<1>14. new # inFlightEmissionId
  BY <1>1, <1>2, <1>5 DEF Keyed, Identity
<1>15. ReadyMatch(recs, inFlightEmissionId, bound, pendingReadyEmission)
  BY <1>1, <1>2, <1>4, <1>6, <1>7, <1>14 DEF ReadyMatch
<1>16. ChatWaiting(recs, inFlightEmissionId) \ {new} = ChatWaiting(records, inFlightEmissionId)
  BY <1>1 DEF ChatWaiting
<1>17. ChatWaiting(records, inFlightEmissionId) \subseteq DOMAIN bindings
  BY <1>6 DEF ChatWaiting
<1>18. BatchesMatch(recs, inFlightEmissionId, bound, stored, chatPendingBatches, {new})
  <2> DEFINE waiting == ChatWaiting(records, inFlightEmissionId)
  <2>1. ChatWaiting(records, inFlightEmissionId) \ {} = waiting
    OBVIOUS
  <2>2. \A id \in waiting : PayloadAt(id, bound, stored) = PayloadAt(id, bindings, payloads)
                            /\ recs[id] = records[id]
    BY <1>1, <1>6, <1>11, <1>17
  <2> HIDE DEF waiting
  <2> QED
    BY <1>2, <1>16, <2>1, <2>2 DEF BatchesMatch, waiting
<1>19. LimitsMatch(bound, stored)
  BY <1>2, <1>4, <1>7, <1>11 DEF LimitsMatch
<1> QED
  BY <1>3, <1>8, <1>11, <1>12, <1>13, <1>15, <1>18, <1>19
     DEF ExternalInv, key, binding, recs, bound, stored, new
------------------------------------------------------------------------------
\* What GrowthBeforeDue says of a step.
Growth ==
  \A key \in DOMAIN payloads \cap DOMAIN payloads' :
    payloads'[key] # payloads[key] =>
      \E id \in Pending(records) : /\ PayloadKey(bindings[id]) = key
                                   /\ records[id].envelope.flow = Chat
                                   /\ ~Due(records[id].envelope, now)

\* An operation that is refused, or throws after it took a handle, keeps everything.
LEMMA RefusalKeeps ==
  ASSUME PipelineInv, IInv', UNCHANGED <<records, inFlightEmissionId>>,
         UNCHANGED <<payloads, bindings, chatPendingBatches, pendingReadyEmission>>,
         outcome' \in Outcome,
         UNCHANGED nextHandle \/ \E flow \in Routes : InsertPayload(flow)
  PROVE  PipelineInv' /\ Growth
<1>1. /\ BindingsMatch(records, bindings, payloads, nextHandle)
      /\ ReadyMatch(records, inFlightEmissionId, bindings, pendingReadyEmission)
      /\ BatchesMatch(records, inFlightEmissionId, bindings, payloads, chatPendingBatches, {})
      /\ LimitsMatch(bindings, payloads)
  BY InvariantParts DEF ExternalInv
<1>2. nextHandle \in [Routes -> Handle \cup {0}] /\ pendingReadyEmission \in Envelope \cup {None}
  BY DEF PipelineInv, PipelineTypeOK
<1>3. /\ nextHandle' \in [Routes -> Handle \cup {0}]
      /\ BindingsMatch(records, bindings, payloads, nextHandle')
  <2>1. CASE UNCHANGED nextHandle
    BY <1>1, <1>2, <2>1
  <2>2. ASSUME NEW flow \in Routes, InsertPayload(flow)
        PROVE  /\ nextHandle' \in [Routes -> Handle \cup {0}]
               /\ BindingsMatch(records, bindings, payloads, nextHandle')
    BY <1>1, <2>2, HandleIsNew DEF BindingsMatch
  <2> QED
    BY <2>1, <2>2
<1>4. PipelineInv'
  BY <1>1, <1>2, <1>3, InvariantWhole
<1>5. Growth
  BY DEF Growth
<1> QED
  BY <1>4, <1>5

\* Every step of the pipeline is a step of the core, or leaves the core alone.
LEMMA StepsOfCore ==
  ASSUME PipelineInv, PipelineNext
  PROVE  [Next]_vars
<1>1. 0 \in Adjustments /\ None \in TTLOverrides /\ None \in NewScores
      /\ Time \subseteq ExpectedTimes /\ Routes \subseteq FlowInputs /\ Chat \in Routes
      /\ \A input \in ChatInputs : input.adjustment \in Adjustments
  BY PipelineAssumption
<1>2. ASSUME NEW flow \in Routes, SubmitDecision(flow)
      PROVE  [Next]_vars
  <2>1. CASE RejectPayload(flow)
    BY <2>1 DEF RejectPayload
  <2>2. CASE Enqueue(flow, 0, None)
    BY <1>1, <2>2 DEF Next
  <2> QED
    BY <1>2, <2>1, <2>2 DEF SubmitDecision
<1>3. ASSUME NEW flow \in Routes, ThrowAfterInsert(flow)
      PROVE  [Next]_vars
  BY <1>3 DEF ThrowAfterInsert
<1>4. ASSUME NEW input \in ChatInputs, SubmitChat(input)
      PROVE  [Next]_vars
  <2>1. CASE DeclineChat(input) \/ RejectAppend(input) \/ RejectPayload(Chat)
    BY <2>1 DEF DeclineChat, RejectAppend, RejectPayload
  <2>2. CASE OpenBatch(input)
    <3>1. Enqueue(Chat, input.adjustment, None)
      BY <2>2 DEF OpenBatch
    <3> QED
      BY <1>1, <3>1 DEF Next
  <2>3. CASE Accumulate(input)
    <3> DEFINE batch == chatPendingBatches[input.user]
    <3>1. input.user \in DOMAIN chatPendingBatches
      BY <2>3 DEF Accumulate, IsBatchOpen, HasBatch
    <3>2. batch.emissionId \in Identity /\ batch.expiresAt \in ExpectedTimes
      BY <1>1, <3>1 DEF PipelineInv, PipelineTypeOK, Batch
    <3>3. UNCHANGED vars \/ UpdatePendingScheduling(batch.emissionId, now, TRUE, None,
                                                    batch.expiresAt)
      BY <2>3 DEF Accumulate, Renew
    <3> QED
      BY <1>1, <3>2, <3>3 DEF Next
  <2> QED
    BY <1>4, <2>1, <2>2, <2>3 DEF SubmitChat
<1>5. ASSUME NEW input \in ChatInputs, SubmitChatThrows(input)
      PROVE  [Next]_vars
  BY <1>5 DEF SubmitChatThrows, ThrowAfterInsert
<1>6. ASSUME NEW flow \in Routes, BeginProcessing(flow)
      PROVE  [Next]_vars
  BY <1>6 DEF BeginProcessing
<1>7. ASSUME NEW id \in Identity \cup {0}, NEW succeeded \in BOOLEAN, NEW flow \in Routes,
             CompleteProcessing(id, succeeded, flow)
      PROVE  [Next]_vars
  <2>1. CASE id # 0 /\ CompleteInCore(id, succeeded)
    <3>1. Confirm(id) \/ CancelInFlight(id)
      BY <2>1 DEF CompleteInCore
    <3> QED
      BY <2>1, <3>1 DEF Next
  <2>2. CASE UNCHANGED <<vars, externalVars>>
    BY <2>2
  <2> QED
    BY <1>7, <2>1, <2>2 DEF CompleteProcessing
<1>8. PumpPipeline => Next
  BY DEF PumpPipeline, Next
<1>9. ProcessPipelineExpirations => Next
  BY DEF ProcessPipelineExpirations, Next
<1>10. PassToCore => Next
  BY DEF PassToCore, Next
<1> QED
  BY <1>2, <1>3, <1>4, <1>5, <1>6, <1>7, <1>8, <1>9, <1>10 DEF PipelineNext

\* The inductive invariant of the core holds after every step of the pipeline.
LEMMA CoreInvKept ==
  ASSUME PipelineInv, PipelineNext
  PROVE  IInv'
BY StepsOfCore, NextPreserves DEF PipelineInv
------------------------------------------------------------------------------
\* An operation that admits an emission, up to what it does to the index: that is
\* then all that is left to agree.
LEMMA AdmissionCommits ==
  ASSUME PipelineInv, IInv', NEW flow \in Routes, NEW payload \in Payload, NEW record,
         Files(record) \/ FilesAndPumps(record), record.envelope.flow = flow,
         InsertPayload(flow), Admission(flow, payload),
         FitsFlow(flow, payload)
  PROVE  /\ reply'.emission = record.envelope
         /\ nextIdentity \in Identity /\ record.envelope \in Envelope
         /\ record.envelope.emissionId = nextIdentity
         /\ ChatWaiting(records', inFlightEmissionId') =
              ChatWaiting(Filed(record), inFlightEmissionId)
                \ (Ended(reply') \cup MadeReady(reply'))
         /\ BatchesMatch(records', inFlightEmissionId', bindings', payloads',
                         OpenBatches(reply'), {nextIdentity})
         /\ BatchesMatch(records', inFlightEmissionId', bindings', payloads',
                         chatPendingBatches', {}) => PipelineInv'
         /\ nextIdentity \in DOMAIN records' =>
              /\ PayloadAt(nextIdentity, bindings', payloads') = payload
              /\ records'[nextIdentity].envelope = record.envelope
         /\ Growth
<1>0. IInv
  BY DEF PipelineInv
<1>1. /\ Commits(Filed(record)) /\ Admits(record)
      /\ reply'.emission = record.envelope
  BY <1>0, FilingCommits
<1>2. /\ nextIdentity \in Identity /\ record.envelope \in Envelope
      /\ record.envelope.emissionId = nextIdentity
  BY <1>0, <1>1 DEF IInv, TypeOK, Admits, Record
<1>3. /\ Keyed(Filed(record))
      /\ ExternalInv(Filed(record), Bound(flow), Stored(flow, payload), nextHandle',
                     {nextIdentity})
      /\ nextHandle' \in [Routes -> Handle \cup {0}]
      /\ PayloadAt(nextIdentity, Bound(flow), Stored(flow, payload)) = payload
      /\ \A key \in DOMAIN payloads : Stored(flow, payload)[key] = payloads[key]
  BY <1>1, AdmissionMatches
<1>4. CommitExternal(reply', Bound(flow), Stored(flow, payload))
  BY <1>1, <1>2 DEF Admission, Bound, Stored, NewBinding
<1>5. outcome' \in Outcome
  <2>1. outcome' = Told("Accepted", nextIdentity)
    BY <1>1, <1>2 DEF Admission
  <2> QED
    BY <1>2, <2>1, ToldType DEF OutcomeStatus
<1>6. /\ ChatWaiting(records', inFlightEmissionId') =
           ChatWaiting(Filed(record), inFlightEmissionId)
             \ (Ended(reply') \cup MadeReady(reply'))
      /\ BatchesMatch(records', inFlightEmissionId', bindings', payloads',
                      OpenBatches(reply'), {nextIdentity})
      /\ BatchesMatch(records', inFlightEmissionId', bindings', payloads',
                      chatPendingBatches', {}) => PipelineInv'
      /\ \A id \in DOMAIN records' :
           PayloadAt(id, bindings', payloads') =
             PayloadAt(id, Bound(flow), Stored(flow, payload))
      /\ \A key \in DOMAIN payloads' : payloads'[key] = Stored(flow, payload)[key]
  BY <1>1, <1>3, <1>4, <1>5, CommitPreserves
<1>7. \A id \in DOMAIN records' : records'[id].envelope = Filed(record)[id].envelope
  BY <1>1 DEF Commits
<1>8. Filed(record)[nextIdentity] = record
  BY <1>0, <1>1, FiledRecords
<1>9. Growth
  BY <1>3, <1>6 DEF Growth
<1> QED
  BY <1>1, <1>2, <1>3, <1>6, <1>7, <1>8, <1>9

\* A family without accumulation.
LEMMA SubmitDecisionKeeps ==
  ASSUME PipelineInv, IInv', NEW flow \in Routes \ {Chat}, SubmitDecision(flow)
  PROVE  PipelineInv' /\ Growth
<1>0. IInv
  BY DEF PipelineInv
<1>1. CASE RejectPayload(flow)
  <2>1. outcome' \in Outcome
    BY <1>1, ToldType DEF RejectPayload, OutcomeStatus
  <2> QED
    BY <1>1, <2>1, RefusalKeeps DEF RejectPayload, vars, queueVars, externalVars
<1>2. ASSUME InsertPayload(flow), Enqueue(flow, 0, None)
      PROVE  \/ /\ UNCHANGED <<records, inFlightEmissionId>>
                /\ reply'.status # "Accepted"
             \/ \E record : record.envelope.flow = flow
                            /\ (Files(record) \/ FilesAndPumps(record))
  BY <1>0, <1>2, EnqueueShape, PipelineAssumption DEF Quiet
<1>3. ASSUME InsertPayload(flow), Enqueue(flow, 0, None), RollbackNow
      PROVE  PipelineInv' /\ Growth
  <2>1. outcome' \in Outcome
    BY <1>3, ToldType DEF RollbackNow, OutcomeStatus
  <2>2. reply'.status # "Accepted"
    BY <1>3 DEF RollbackNow
  <2>3. UNCHANGED <<records, inFlightEmissionId>>
    BY <1>0, <1>2, <1>3, <2>2, FilingCommits
  <2> QED
    BY <1>3, <2>1, <2>3, RefusalKeeps DEF RollbackNow
<1>4. ASSUME InsertPayload(flow), Enqueue(flow, 0, None), reply'.status = "Accepted",
             Admission(flow, [user |-> None, userBytes |-> 0, messages |-> <<>>]),
             chatPendingBatches' = OpenBatches(reply')
      PROVE  PipelineInv' /\ Growth
  <2> DEFINE payload == [user |-> None, userBytes |-> 0, messages |-> <<>>]
  <2>1. payload \in Payload /\ FitsFlow(flow, payload)
    BY DEF Payload, FitsFlow
  <2> HIDE DEF payload
  <2>2. PICK record : record.envelope.flow = flow /\ (Files(record) \/ FilesAndPumps(record))
    BY <1>2, <1>4
  <2>3. /\ ChatWaiting(records', inFlightEmissionId') =
             ChatWaiting(Filed(record), inFlightEmissionId)
               \ (Ended(reply') \cup MadeReady(reply'))
        /\ BatchesMatch(records', inFlightEmissionId', bindings', payloads',
                        chatPendingBatches', {nextIdentity})
        /\ BatchesMatch(records', inFlightEmissionId', bindings', payloads',
                        chatPendingBatches', {}) => PipelineInv'
        /\ Growth
    BY <1>4, <2>1, <2>2, AdmissionCommits DEF payload
  <2>4. Filed(record)[nextIdentity].envelope.flow # Chat
    BY <1>0, <2>2, FiledRecords, FilingCommits
  <2>5. nextIdentity \notin ChatWaiting(records', inFlightEmissionId')
    BY <2>3, <2>4 DEF ChatWaiting
  <2>6. ChatWaiting(records', inFlightEmissionId') \ {nextIdentity} =
          ChatWaiting(records', inFlightEmissionId') \ {}
    BY <2>5
  <2>7. BatchesMatch(records', inFlightEmissionId', bindings', payloads',
                     chatPendingBatches', {})
    BY <2>3, <2>6 DEF BatchesMatch
  <2> QED
    BY <2>3, <2>7
<1> QED
  BY <1>1, <1>3, <1>4 DEF SubmitDecision

\* A chat message without an open batch.
LEMMA OpenBatchKeeps ==
  ASSUME PipelineInv, IInv', NEW input \in ChatInputs, OpenBatch(input)
  PROVE  PipelineInv' /\ Growth
<1> DEFINE user == input.user
           payload == ChatPayload(input, <<>>)
<1>0. IInv /\ Chat \in Routes /\ Chat \in FlowInputs /\ input.adjustment \in Adjustments
      /\ None \in TTLOverrides /\ input \in ChatInput
  BY PipelineAssumption DEF PipelineInv
<1>1. InsertPayload(Chat) /\ Enqueue(Chat, input.adjustment, None)
  BY DEF OpenBatch
<1>2. \/ /\ UNCHANGED <<records, inFlightEmissionId>>
         /\ reply'.status # "Accepted"
      \/ \E record : record.envelope.flow = Chat
                     /\ (Files(record) \/ FilesAndPumps(record))
  BY <1>0, <1>1, EnqueueShape DEF Quiet
<1>3. CASE RollbackNow
  <2>1. outcome' \in Outcome
    BY <1>3, ToldType DEF RollbackNow, OutcomeStatus
  <2>2. UNCHANGED <<records, inFlightEmissionId>>
    BY <1>0, <1>2, <1>3, FilingCommits DEF RollbackNow
  <2> QED
    BY <1>0, <1>1, <1>3, <2>1, <2>2, RefusalKeeps DEF RollbackNow
<1>4. CASE ~RollbackNow
  <2> DEFINE new == reply'.emission.emissionId
             batch == [emissionId |-> new, expiresAt |-> reply'.emission.expiresAt]
             open == OpenBatches(reply')
             waiting == ChatWaiting(records', inFlightEmissionId')
  <2>1. /\ reply'.status = "Accepted"
        /\ Admission(Chat, payload)
        /\ \/ new \in MadeReady(reply') /\ chatPendingBatches' = open
           \/ /\ new \notin MadeReady(reply')
              /\ HasBatch(user) => chatPendingBatches[user].emissionId \in Ended(reply')
              /\ chatPendingBatches' = With(open, user, batch)
    BY <1>4 DEF OpenBatch
  <2>2. ChatDecision(input) = "Candidate"
    BY DEF OpenBatch
  <2>3. user \in Users /\ FitsFlow(Chat, payload)
    BY <1>0, <2>2 DEF ChatDecision, ChatInput, FitsFlow
  <2>4. payload \in Payload
    <3>1. Append(<<>>, input.bytes) \in Seq(Nat)
      BY <1>0 DEF ChatInput
    <3> QED
      BY <1>0, <3>1 DEF ChatPayload, Payload, ChatInput
  <2>5. PICK record : record.envelope.flow = Chat /\ (Files(record) \/ FilesAndPumps(record))
    BY <1>2, <2>1
  <2>6. payload.user = user
    BY DEF ChatPayload
  <2> HIDE DEF payload, waiting
  <2>7. /\ reply'.emission = record.envelope
        /\ nextIdentity \in Identity /\ record.envelope \in Envelope
        /\ record.envelope.emissionId = nextIdentity
        /\ waiting = ChatWaiting(Filed(record), inFlightEmissionId)
                       \ (Ended(reply') \cup MadeReady(reply'))
        /\ BatchesMatch(records', inFlightEmissionId', bindings', payloads', open,
                        {nextIdentity})
        /\ BatchesMatch(records', inFlightEmissionId', bindings', payloads',
                        chatPendingBatches', {}) => PipelineInv'
        /\ nextIdentity \in DOMAIN records' =>
             /\ PayloadAt(nextIdentity, bindings', payloads') = payload
             /\ records'[nextIdentity].envelope = record.envelope
        /\ Growth
    BY <1>0, <1>1, <2>1, <2>3, <2>4, <2>5, AdmissionCommits DEF waiting
  <2>8. new = nextIdentity /\ batch.emissionId = nextIdentity
        /\ batch.expiresAt = record.envelope.expiresAt
    BY <2>7
  <2>9. batch \in Batch
    BY <2>7 DEF Envelope, Batch
  <2>10. waiting \subseteq DOMAIN records'
    BY DEF waiting, ChatWaiting
  <2> HIDE DEF new, batch, open
  <2>11. CASE new \in MadeReady(reply') /\ chatPendingBatches' = open
    <3>1. nextIdentity \notin waiting
      BY <2>7, <2>8, <2>11
    <3>2. waiting \ {nextIdentity} = waiting \ {}
      BY <3>1
    <3>3. BatchesMatch(records', inFlightEmissionId', bindings', payloads',
                       chatPendingBatches', {})
      BY <2>7, <2>11, <3>2 DEF BatchesMatch, waiting
    <3> QED
      BY <2>7, <3>3
  <2>12. CASE /\ new \notin MadeReady(reply')
              /\ HasBatch(user) => chatPendingBatches[user].emissionId \in Ended(reply')
              /\ chatPendingBatches' = With(open, user, batch)
    <3>1. user \notin DOMAIN open
      BY <2>12 DEF open, OpenBatches, Without, HasBatch
    <3>2. /\ DOMAIN chatPendingBatches' = DOMAIN open \cup {user}
          /\ chatPendingBatches'[user] = batch
          /\ \A other \in DOMAIN open : chatPendingBatches'[other] = open[other]
      BY <2>12, <3>1 DEF With
    <3>3. chatPendingBatches' \in [DOMAIN chatPendingBatches' -> Batch]
          /\ DOMAIN chatPendingBatches' \subseteq Users
      <4>1. open \in [DOMAIN open -> Batch] /\ DOMAIN open \subseteq Users
        BY <2>7 DEF BatchesMatch
      <4>2. With(open, user, batch) \in [DOMAIN open \cup {user} -> Batch]
        BY <2>9, <4>1, WithType
      <4> QED
        BY <2>3, <2>12, <3>2, <4>1, <4>2
    <3>4. nextIdentity \in waiting
      <4>1. nextIdentity \notin Ended(reply')
        BY <1>0, <2>5, FilingEnds
      <4>2. nextIdentity # inFlightEmissionId
        BY <1>0, <2>5, <2>7, FilingCommits, FiledRecords, TypesAssumption
           DEF IInv, InFlightCoherent, Identity
      <4>3. nextIdentity \in ChatWaiting(Filed(record), inFlightEmissionId)
        BY <1>0, <2>5, <4>2, FilingCommits, FiledRecords DEF ChatWaiting
      <4> QED
        BY <2>7, <2>8, <2>12, <4>1, <4>3
    <3>5. \A id \in waiting \ {nextIdentity} :
            /\ PayloadAt(id, bindings', payloads').user \in DOMAIN open
            /\ open[PayloadAt(id, bindings', payloads').user].emissionId = id
      BY <2>7 DEF BatchesMatch, waiting
    <3>6. \A other \in DOMAIN open :
            /\ open[other].emissionId \in waiting \ {nextIdentity}
            /\ PayloadAt(open[other].emissionId, bindings', payloads').user = other
            /\ open[other].expiresAt = records'[open[other].emissionId].envelope.expiresAt
      BY <2>7 DEF BatchesMatch, waiting
    <3>7. /\ PayloadAt(nextIdentity, bindings', payloads').user = user
          /\ records'[nextIdentity].envelope = record.envelope
      BY <2>6, <2>7, <2>10, <3>4
    <3>8. ASSUME NEW id \in waiting
          PROVE  /\ PayloadAt(id, bindings', payloads').user \in DOMAIN chatPendingBatches'
                 /\ chatPendingBatches'[PayloadAt(id, bindings', payloads').user].emissionId = id
      BY <2>8, <3>2, <3>5, <3>7
    <3>9. ASSUME NEW other \in DOMAIN chatPendingBatches'
          PROVE  LET at == chatPendingBatches'[other]
                 IN  /\ at.emissionId \in waiting
                     /\ PayloadAt(at.emissionId, bindings', payloads').user = other
                     /\ at.expiresAt = records'[at.emissionId].envelope.expiresAt
      <4>1. CASE other = user
        BY <2>8, <3>2, <3>4, <3>7, <4>1
      <4>2. CASE other \in DOMAIN open
        BY <3>2, <3>6, <4>2
      <4> QED
        BY <3>2, <4>1, <4>2
    <3>10. BatchesMatch(records', inFlightEmissionId', bindings', payloads',
                        chatPendingBatches', {})
      BY <3>3, <3>8, <3>9 DEF BatchesMatch, waiting
    <3> QED
      BY <2>7, <3>10
  <2> QED
    BY <2>1, <2>11, <2>12
<1> QED
  BY <1>3, <1>4

\* What the renewal of a batch does, as far as the coordinator goes on with it.
LEMMA RenewalShape ==
  ASSUME PipelineInv, NEW input, input.user \in DOMAIN chatPendingBatches,
         Renew(input, chatPendingBatches[input.user]),
         reply'.status \in {"Updated", "Unchanged", "RejectedExpired"}
  PROVE  LET id == chatPendingBatches[input.user].emissionId
         IN  \/ /\ UNCHANGED <<records, inFlightEmissionId>>
                /\ \/ reply'.status = "RejectedExpired"
                   \/ /\ reply'.status # "RejectedExpired"
                      /\ reply'.emission.expiresAt = records[id].envelope.expiresAt
             \/ /\ reply'.status = "Updated"
                /\ Reschedules(id)
                /\ reply'.emission = records'[id].envelope
<1> DEFINE batch == chatPendingBatches[input.user]
           id == batch.emissionId
<1>1. batch \in Batch /\ IInv
  BY DEF PipelineInv, PipelineTypeOK
<1>2. id \in Identity \cup {0} /\ batch.expiresAt \in ExpectedTimes /\ None \in NewScores
  BY <1>1, PipelineAssumption DEF Batch
<1>3. UpdatePendingScheduling(id, now, TRUE, None, batch.expiresAt)
  BY DEF Renew
<1>4. \/ /\ Quiet
         /\ \/ reply'.emission = None /\ reply'.status # "Unchanged"
            \/ id \in Pending(records) /\ reply'.emission = records[id].envelope
         /\ reply'.status # "Updated"
      \/ Reschedules(id)
  BY <1>1, <1>2, <1>3, UpdateShape
<1>5. CASE Reschedules(id)
  <2>1. /\ reply' = [Answer("UpdatePendingScheduling", "Updated") EXCEPT
                       !.emission = records'[id].envelope]
    BY <1>5 DEF Reschedules
  <2>2. reply'.status = "Updated" /\ reply'.emission = records'[id].envelope
    BY <2>1 DEF Answer
  <2> QED
    BY <1>5, <2>2
<1>6. CASE Quiet /\ ~Reschedules(id)
  BY <1>4, <1>6 DEF Quiet
<1> QED
  BY <1>4, <1>5, <1>6

\* The message joins the batch: the payload of one emission changes, an emission that
\* waits and is not due, and its user and its limits do not.
LEMMA AccumulateKeeps ==
  ASSUME PipelineInv, IInv', NEW input \in ChatInputs, Accumulate(input)
  PROVE  PipelineInv' /\ Growth
<1> DEFINE user == input.user
           batch == chatPendingBatches[user]
           id == batch.emissionId
           payload == ChatPayload(input, PayloadOf(id).messages)
           refused == bRefreshTtlOnAppend /\ reply'.status = "RejectedExpired"
           waiting == ChatWaiting(records, inFlightEmissionId)
<1>0. IInv /\ input \in ChatInput
  BY PipelineAssumption DEF PipelineInv
<1>1. /\ BindingsMatch(records, bindings, payloads, nextHandle)
      /\ ReadyMatch(records, inFlightEmissionId, bindings, pendingReadyEmission)
      /\ BatchesMatch(records, inFlightEmissionId, bindings, payloads, chatPendingBatches, {})
      /\ LimitsMatch(bindings, payloads)
  BY InvariantParts DEF ExternalInv
<1>2. /\ user \in DOMAIN chatPendingBatches /\ now < batch.expiresAt
      /\ id \in DOMAIN bindings
      /\ PayloadOf(id).user = user
      /\ IsWithinBatchLimits(payload)
      /\ payloads' = IF refused THEN payloads
                     ELSE [payloads EXCEPT ![PayloadKey(bindings[id])] = payload]
      /\ outcome' = IF refused THEN Told("RejectedByCore", 0) ELSE Told("Accumulated", id)
      /\ UNCHANGED <<nextHandle, bindings, pendingReadyEmission>>
  BY DEF Accumulate, IsBatchOpen, HasBatch
<1>3. \/ ~bRefreshTtlOnAppend /\ UNCHANGED <<vars, chatPendingBatches>>
      \/ /\ bRefreshTtlOnAppend
         /\ Renew(input, batch)
         /\ reply'.status \in {"Updated", "Unchanged", "RejectedExpired"}
         /\ chatPendingBatches' =
              [chatPendingBatches EXCEPT
                 ![user].expiresAt = IF refused THEN @ ELSE reply'.emission.expiresAt]
  BY DEF Accumulate
<1>4. /\ id \in waiting /\ batch \in Batch
      /\ batch.expiresAt = records[id].envelope.expiresAt
      /\ bindings[id].expectedFlow = Chat
  BY <1>1, <1>2 DEF BatchesMatch, BindingsMatch, ChatWaiting
<1>5. /\ id \in Pending(records) /\ id \in DOMAIN records /\ id # inFlightEmissionId
      /\ records[id].envelope.flow = Chat
      /\ ~Due(records[id].envelope, now)
  <2>1. id \in DOMAIN records /\ id # inFlightEmissionId /\ records[id].envelope.flow = Chat
    BY <1>4 DEF ChatWaiting
  <2>2. id \in Pending(records)
    BY <1>0, <2>1 DEF IInv, TypeOK, InFlightCoherent, Record, Pending
  <2>3. now \in Int /\ batch.expiresAt \in Int
    BY <1>0, <1>4, CoreAssumption, TypesAssumption DEF IInv, TypeOK, Batch, Time
  <2> QED
    BY <1>2, <1>4, <2>1, <2>2, <2>3 DEF Due
<1>6. payload \in Payload /\ payload.user = user
  <2>1. PayloadKey(bindings[id]) \in DOMAIN payloads
    BY <1>1, <1>2 DEF BindingsMatch
  <2>2. PayloadOf(id).messages \in Seq(Nat)
    BY <1>1, <2>1 DEF BindingsMatch, PayloadOf, Payload
  <2>3. Append(PayloadOf(id).messages, input.bytes) \in Seq(Nat)
    BY <1>0, <2>2 DEF ChatInput
  <2> QED
    BY <1>0, <2>3 DEF ChatPayload, Payload, ChatInput
<1> HIDE DEF payload, refused
<1>7. \/ /\ UNCHANGED <<records, inFlightEmissionId>>
         /\ \/ UNCHANGED chatPendingBatches
            \/ /\ ~refused
               /\ chatPendingBatches' = [chatPendingBatches EXCEPT
                                           ![user].expiresAt = reply'.emission.expiresAt]
               /\ reply'.emission.expiresAt = records[id].envelope.expiresAt
      \/ /\ ~refused
         /\ Reschedules(id)
         /\ chatPendingBatches' = [chatPendingBatches EXCEPT
                                     ![user].expiresAt = reply'.emission.expiresAt]
         /\ reply'.emission = records'[id].envelope
  <2>1. CASE UNCHANGED <<vars, chatPendingBatches>>
    BY <2>1 DEF vars, queueVars
  <2>2. CASE ~UNCHANGED <<vars, chatPendingBatches>>
    <3>1. /\ bRefreshTtlOnAppend
          /\ Renew(input, batch)
          /\ reply'.status \in {"Updated", "Unchanged", "RejectedExpired"}
          /\ chatPendingBatches' =
               [chatPendingBatches EXCEPT
                  ![user].expiresAt = IF refused THEN @ ELSE reply'.emission.expiresAt]
      BY <1>3, <2>2
    <3>2. refused <=> reply'.status = "RejectedExpired"
      BY <3>1 DEF refused
    <3>3. refused => chatPendingBatches' = chatPendingBatches
      BY <1>1, <1>2, <1>4, <3>1 DEF BatchesMatch, Batch
    <3>4. ~refused => chatPendingBatches' =
            [chatPendingBatches EXCEPT ![user].expiresAt = reply'.emission.expiresAt]
      BY <3>1
    <3> QED
      BY <1>2, <3>1, <3>2, <3>3, <3>4, RenewalShape
  <2> QED
    BY <2>1, <2>2
<1>8. /\ DOMAIN records' = DOMAIN records
      /\ inFlightEmissionId' = inFlightEmissionId
      /\ \A other \in DOMAIN records \ {id} : records'[other] = records[other]
      /\ records'[id].envelope.flow = Chat
      /\ records'[id].envelope \in Envelope
  <2>1. records'[id].envelope.flow = records[id].envelope.flow
    <3>1. CASE Reschedules(id)
      <4>1. PICK t \in Time, score \in Score :
              records'[id].envelope = [records[id].envelope EXCEPT !.expiresAt = t,
                                                                   !.priorityScore = score]
        BY <3>1 DEF Reschedules
      <4>2. records[id].envelope \in Envelope
        BY <1>0, <1>5 DEF IInv, TypeOK, Record
      <4> QED
        BY <4>1, <4>2 DEF Envelope
    <3>2. CASE UNCHANGED records
      BY <3>2
    <3> QED
      BY <1>7, <3>1, <3>2
  <2>2. DOMAIN records' = DOMAIN records /\ inFlightEmissionId' = inFlightEmissionId
        /\ \A other \in DOMAIN records \ {id} : records'[other] = records[other]
    BY <1>7 DEF Reschedules
  <2>3. records'[id].envelope \in Envelope
    BY <1>5, <2>2 DEF IInv, TypeOK, Record
  <2> QED
    BY <1>5, <2>1, <2>2, <2>3
<1>9. /\ DOMAIN chatPendingBatches' = DOMAIN chatPendingBatches
      /\ \A other \in DOMAIN chatPendingBatches \ {user} :
           chatPendingBatches'[other] = chatPendingBatches[other]
      /\ chatPendingBatches'[user].emissionId = id
      /\ chatPendingBatches'[user].expiresAt = records'[id].envelope.expiresAt
      /\ chatPendingBatches'[user] \in Batch
  <2> DEFINE at == reply'.emission.expiresAt
  <2>1. CASE UNCHANGED chatPendingBatches /\ UNCHANGED records
    BY <1>4, <2>1
  <2>2. CASE /\ chatPendingBatches' = [chatPendingBatches EXCEPT ![user].expiresAt = at]
             /\ at = records'[id].envelope.expiresAt
    <3>1. /\ DOMAIN chatPendingBatches' = DOMAIN chatPendingBatches
          /\ \A other \in DOMAIN chatPendingBatches \ {user} :
               chatPendingBatches'[other] = chatPendingBatches[other]
      BY <2>2
    <3>2. chatPendingBatches'[user] = [batch EXCEPT !.expiresAt = at]
      BY <1>2, <2>2
    <3>3. batch = [emissionId |-> id, expiresAt |-> batch.expiresAt] /\ id \in Identity
      BY <1>4 DEF Batch
    <3> HIDE DEF at
    <3>4. [batch EXCEPT !.expiresAt = at] = [emissionId |-> id, expiresAt |-> at]
      BY <3>3
    <3>5. at \in Time
      BY <1>8, <2>2 DEF Envelope
    <3> QED
      BY <2>2, <3>1, <3>2, <3>3, <3>4, <3>5 DEF Batch
  <2> QED
    BY <1>7, <2>1, <2>2
<1>10. /\ DOMAIN payloads' = DOMAIN payloads
       /\ \A key \in DOMAIN payloads \ {PayloadKey(bindings[id])} : payloads'[key] = payloads[key]
       /\ payloads'[PayloadKey(bindings[id])] \in {payload, PayloadOf(id)}
       /\ payloads' \in [DOMAIN payloads' -> Payload]
  <2>1. PayloadKey(bindings[id]) \in DOMAIN payloads
    BY <1>1, <1>2 DEF BindingsMatch
  <2>2. payloads \in [DOMAIN payloads -> Payload]
    BY <1>1 DEF BindingsMatch
  <2> QED
    BY <1>2, <1>6, <2>1, <2>2 DEF PayloadOf
<1>11. DOMAIN bindings = DOMAIN records
  BY <1>1 DEF BindingsMatch
<1>12. /\ \A other \in DOMAIN bindings \ {id} :
            PayloadAt(other, bindings, payloads') = PayloadAt(other, bindings, payloads)
       /\ PayloadAt(id, bindings, payloads').user = user
       /\ FitsFlow(Chat, PayloadAt(id, bindings, payloads'))
  <2>1. \A other \in DOMAIN bindings \ {id} :
          PayloadKey(bindings[other]) \in DOMAIN payloads \ {PayloadKey(bindings[id])}
    BY <1>1, <1>2 DEF BindingsMatch
  <2>2. FitsFlow(Chat, PayloadOf(id))
    BY <1>1, <1>2, <1>4 DEF LimitsMatch, PayloadAt, PayloadOf
  <2>3. FitsFlow(Chat, payload)
    BY <1>2 DEF FitsFlow
  <2> QED
    BY <1>2, <1>6, <1>10, <2>1, <2>2, <2>3 DEF PayloadAt
<1> HIDE DEF waiting, batch, user, id
<1>13. BindingsMatch(records', bindings', payloads', nextHandle')
  <2>1. \A other \in DOMAIN bindings : records'[other].envelope.flow = records[other].envelope.flow
    BY <1>5, <1>8, <1>11
  <2> QED
    BY <1>1, <1>2, <1>8, <1>10, <2>1 DEF BindingsMatch
<1>14. ReadyMatch(records', inFlightEmissionId', bindings', pendingReadyEmission')
  BY <1>1, <1>2, <1>5, <1>8, <1>11 DEF ReadyMatch
<1>15. ChatWaiting(records', inFlightEmissionId') = waiting
  <2>1. \A other \in DOMAIN records :
          records'[other].envelope.flow = Chat <=> records[other].envelope.flow = Chat
    BY <1>5, <1>8
  <2> QED
    BY <1>8, <2>1 DEF ChatWaiting, waiting
<1>16. BatchesMatch(records', inFlightEmissionId', bindings', payloads',
                    chatPendingBatches', {})
  <2>1. /\ DOMAIN chatPendingBatches \subseteq Users
        /\ chatPendingBatches \in [DOMAIN chatPendingBatches -> Batch]
        /\ waiting \subseteq DOMAIN bindings
    BY <1>1, <1>11 DEF BatchesMatch, ChatWaiting, waiting
  <2>2. chatPendingBatches' \in [DOMAIN chatPendingBatches' -> Batch]
    <3>1. chatPendingBatches' = [u \in DOMAIN chatPendingBatches' |-> chatPendingBatches'[u]]
      BY <1>3, <2>1
    <3> QED
      BY <1>9, <2>1, <3>1
  <2>3. ASSUME NEW other \in waiting
        PROVE  /\ PayloadAt(other, bindings, payloads').user \in DOMAIN chatPendingBatches'
               /\ chatPendingBatches'[PayloadAt(other, bindings, payloads').user].emissionId = other
    <3>1. /\ PayloadAt(other, bindings, payloads).user \in DOMAIN chatPendingBatches
          /\ chatPendingBatches[PayloadAt(other, bindings, payloads).user].emissionId = other
      BY <1>1 DEF BatchesMatch, waiting
    <3>2. CASE other = id
      BY <1>2, <1>9, <1>12, <3>2
    <3>3. CASE other # id
      <4>1. PayloadAt(other, bindings, payloads') = PayloadAt(other, bindings, payloads)
        BY <1>12, <2>1, <3>3
      <4>2. PayloadAt(other, bindings, payloads).user # user
        BY <3>1, <3>3 DEF id, batch
      <4> QED
        BY <1>9, <3>1, <4>1, <4>2
    <3> QED
      BY <3>2, <3>3
  <2>4. ASSUME NEW u \in DOMAIN chatPendingBatches'
        PROVE  LET at == chatPendingBatches'[u]
               IN  /\ at.emissionId \in waiting
                   /\ PayloadAt(at.emissionId, bindings, payloads').user = u
                   /\ at.expiresAt = records'[at.emissionId].envelope.expiresAt
    <3>1. CASE u = user
      BY <1>4, <1>9, <1>12, <3>1
    <3>2. CASE u # user
      <4> DEFINE other == chatPendingBatches[u].emissionId
      <4>1. u \in DOMAIN chatPendingBatches /\ chatPendingBatches'[u] = chatPendingBatches[u]
        BY <1>9, <3>2
      <4>2. /\ other \in waiting
            /\ PayloadAt(other, bindings, payloads).user = u
            /\ chatPendingBatches[u].expiresAt = records[other].envelope.expiresAt
        BY <1>1, <4>1 DEF BatchesMatch, waiting
      <4>3. other # id
        BY <1>1, <1>2, <3>2, <4>2 DEF PayloadOf, PayloadAt
      <4>4. /\ records'[other] = records[other]
            /\ PayloadAt(other, bindings, payloads') = PayloadAt(other, bindings, payloads)
        BY <1>8, <1>11, <1>12, <2>1, <4>2, <4>3
      <4> QED
        BY <4>1, <4>2, <4>4
    <3> QED
      BY <3>1, <3>2
  <2>5. ChatWaiting(records', inFlightEmissionId') \ {} = waiting
    BY <1>15
  <2> HIDE DEF waiting
  <2> QED
    BY <1>2, <1>9, <2>1, <2>2, <2>3, <2>4, <2>5 DEF BatchesMatch
<1>17. LimitsMatch(bindings', payloads')
  BY <1>1, <1>2, <1>4, <1>12 DEF LimitsMatch
<1>18. outcome' \in Outcome
  <2>1. id \in Identity
    BY <1>4 DEF Batch, id
  <2> QED
    BY <1>2, <2>1, ToldType DEF OutcomeStatus
<1>19. PipelineInv'
  <2>1. /\ nextHandle' \in [Routes -> Handle \cup {0}]
        /\ pendingReadyEmission' \in Envelope \cup {None}
    BY <1>2 DEF PipelineInv, PipelineTypeOK
  <2> QED
    BY <1>13, <1>14, <1>16, <1>17, <1>18, <2>1, InvariantWhole
<1>20. Growth
  BY <1>5, <1>10 DEF Growth
<1> QED
  BY <1>19, <1>20
------------------------------------------------------------------------------
\* A chat message, however it is answered.
LEMMA SubmitChatKeeps ==
  ASSUME PipelineInv, IInv', NEW input \in ChatInputs,
         SubmitChat(input) \/ SubmitChatThrows(input)
  PROVE  PipelineInv' /\ Growth
<1>1. ASSUME UNCHANGED <<vars, externalVars>>, outcome' \in Outcome
      PROVE  PipelineInv' /\ Growth
  BY <1>1, RefusalKeeps DEF vars, queueVars, externalVars
<1>2. CASE DeclineChat(input)
  <2>1. ChatDecision(input) \in OutcomeStatus
    BY <1>2 DEF DeclineChat, ChatDecision, OutcomeStatus
  <2>2. Told(ChatDecision(input), 0) \in Outcome
    BY <2>1, ToldType
  <2> QED
    BY <1>1, <1>2, <2>2 DEF DeclineChat
<1>3. CASE RejectAppend(input)
  <2>1. Told("RejectedSemanticLimit", 0) \in Outcome
    BY ToldType DEF OutcomeStatus
  <2> QED
    BY <1>1, <1>3, <2>1 DEF RejectAppend
<1>4. CASE RejectPayload(Chat)
  <2>1. Told("RejectedPayloadIdentityExhausted", 0) \in Outcome
    BY ToldType DEF OutcomeStatus
  <2> QED
    BY <1>1, <1>4, <2>1 DEF RejectPayload
<1>5. CASE Accumulate(input)
  BY <1>5, AccumulateKeeps
<1>6. CASE OpenBatch(input)
  BY <1>6, OpenBatchKeeps
<1>7. Told("LogicError", 0) \in Outcome
  BY ToldType DEF OutcomeStatus
<1>8. CASE SubmitChatThrows(input)
  <2>1. CASE outcome' = Told("LogicError", 0) /\ UNCHANGED <<vars, externalVars>>
    BY <1>1, <1>7, <2>1
  <2>2. CASE ThrowAfterInsert(Chat)
    BY <1>7, <2>2, RefusalKeeps, PipelineAssumption
       DEF ThrowAfterInsert, vars, queueVars
  <2> QED
    BY <1>8, <2>1, <2>2 DEF SubmitChatThrows
<1> QED
  BY <1>2, <1>3, <1>4, <1>5, <1>6, <1>8 DEF SubmitChat

\* Handing out takes the notification of the emission in flight, and its binding
\* turns Processing: nothing else tells the two apart from before.
LEMMA BeginKeeps ==
  ASSUME PipelineInv, IInv', NEW flow \in Routes, BeginProcessing(flow)
  PROVE  PipelineInv' /\ Growth
<1> DEFINE id == pendingReadyEmission.emissionId
<1>1. CASE outcome' = Told("NoEmissionReady", 0) /\ UNCHANGED <<vars, externalVars>>
  <2>1. Told("NoEmissionReady", 0) \in Outcome
    BY ToldType DEF OutcomeStatus
  <2> QED
    BY <1>1, <2>1, RefusalKeeps DEF vars, queueVars, externalVars
<1>2. CASE /\ pendingReadyEmission # None
           /\ IsReadyBindingValid
           /\ bindings' = [bindings EXCEPT ![id].state = "Processing"]
           /\ outcome' = [Told("Dispatched", id) EXCEPT !.payload = PayloadOf(id)]
           /\ pendingReadyEmission' = None
           /\ UNCHANGED <<vars, payloads, nextHandle, chatPendingBatches>>
  <2>1. /\ Keyed(records)
        /\ BindingsMatch(records, bindings, payloads, nextHandle)
        /\ ReadyMatch(records, inFlightEmissionId, bindings, pendingReadyEmission)
        /\ BatchesMatch(records, inFlightEmissionId, bindings, payloads, chatPendingBatches, {})
        /\ LimitsMatch(bindings, payloads)
    BY InvariantParts DEF ExternalInv
  <2>2. id \in DOMAIN bindings /\ PayloadKey(bindings[id]) \in DOMAIN payloads
    BY <1>2 DEF IsReadyBindingValid
  <2>3. id = inFlightEmissionId
    <3>1. inFlightEmissionId \in DOMAIN records
      BY <1>2, <2>1 DEF ReadyMatch, Keyed
    <3>2. pendingReadyEmission = records[inFlightEmissionId].envelope
      BY <1>2, <2>1, <3>1 DEF ReadyMatch, BindingsMatch
    <3> QED
      BY <2>1, <3>1, <3>2 DEF Keyed
  <2>4. UNCHANGED <<records, inFlightEmissionId, payloads, nextHandle, chatPendingBatches>>
    BY <1>2 DEF vars, queueVars
  <2> HIDE DEF id
  <2>5. bindings[id] \in Binding
    BY <2>1, <2>2 DEF BindingsMatch
  <2>6. /\ DOMAIN bindings' = DOMAIN bindings
        /\ \A other \in DOMAIN bindings \ {id} : bindings'[other] = bindings[other]
        /\ bindings'[id] = [bindings[id] EXCEPT !.state = "Processing"]
    BY <1>2, <2>2
  <2>7. /\ bindings'[id].state = "Processing" /\ bindings'[id] \in Binding
        /\ bindings'[id].expectedFlow = bindings[id].expectedFlow
        /\ bindings'[id].handle = bindings[id].handle
    BY <2>5, <2>6 DEF Binding
  <2>8. \A other \in DOMAIN bindings :
          /\ bindings'[other].expectedFlow = bindings[other].expectedFlow
          /\ bindings'[other].handle = bindings[other].handle
          /\ PayloadKey(bindings'[other]) = PayloadKey(bindings[other])
          /\ PayloadAt(other, bindings', payloads') = PayloadAt(other, bindings, payloads)
    BY <2>4, <2>6, <2>7 DEF PayloadKey, PayloadAt
  <2>9. bindings' \in [DOMAIN bindings' -> Binding]
    BY <1>2, <2>1, <2>6, <2>7 DEF BindingsMatch
  <2>10. BindingsMatch(records', bindings', payloads', nextHandle')
    <3>1. {PayloadKey(bindings'[other]) : other \in DOMAIN bindings} =
            {PayloadKey(bindings[other]) : other \in DOMAIN bindings}
      BY <2>8
    <3> QED
      BY <2>1, <2>4, <2>6, <2>8, <2>9, <3>1 DEF BindingsMatch
  <2>11. ReadyMatch(records', inFlightEmissionId', bindings', pendingReadyEmission')
    BY <1>2, <2>1, <2>3, <2>4, <2>6, <2>7 DEF ReadyMatch
  <2>12. BatchesMatch(records', inFlightEmissionId', bindings', payloads',
                      chatPendingBatches', {})
    <3>1. ChatWaiting(records, inFlightEmissionId) \subseteq DOMAIN bindings
      BY <2>1 DEF BindingsMatch, ChatWaiting
    <3>2. \A other \in ChatWaiting(records, inFlightEmissionId) :
            PayloadAt(other, bindings', payloads') = PayloadAt(other, bindings, payloads)
      BY <2>8, <3>1
    <3> QED
      BY <2>1, <2>4, <3>2 DEF BatchesMatch
  <2>13. LimitsMatch(bindings', payloads')
    BY <2>1, <2>6, <2>8 DEF LimitsMatch
  <2>14. outcome' \in Outcome
    <3>1. PayloadOf(id) \in Payload
      BY <2>1, <2>2 DEF BindingsMatch, PayloadOf
    <3>2. id \in Identity
      BY <2>1, <2>2 DEF BindingsMatch, Keyed
    <3>3. Told("Dispatched", id) \in Outcome
      BY <3>2, ToldType DEF OutcomeStatus
    <3>4. outcome' = [Told("Dispatched", id) EXCEPT !.payload = PayloadOf(id)]
      BY <1>2 DEF id
    <3> QED
      BY <3>1, <3>3, <3>4 DEF Outcome
  <2>15. nextHandle' \in [Routes -> Handle \cup {0}]
    BY <2>4 DEF PipelineInv, PipelineTypeOK
  <2>16. PipelineInv'
    BY <1>2, <2>10, <2>11, <2>12, <2>13, <2>14, <2>15, InvariantWhole
  <2> QED
    BY <2>4, <2>16 DEF Growth
<1> QED
  BY <1>1, <1>2 DEF BeginProcessing

\* A completion, refused or committed.
LEMMA CompleteKeeps ==
  ASSUME PipelineInv, IInv', NEW id \in Identity \cup {0}, NEW succeeded \in BOOLEAN,
         NEW flow \in Routes, CompleteProcessing(id, succeeded, flow)
  PROVE  PipelineInv' /\ Growth
<1>1. ASSUME UNCHANGED <<vars, externalVars>>, outcome' \in Outcome
      PROVE  PipelineInv' /\ Growth
  BY <1>1, RefusalKeeps DEF vars, queueVars, externalVars
<1>2. \A status \in OutcomeStatus : Told(status, id) \in Outcome /\ Told(status, 0) \in Outcome
  BY ToldType
<1>3. /\ Told("LogicError", 0) \in Outcome
      /\ Told("RejectedCompletion", id) \in Outcome
      /\ Told("Completed", id) \in Outcome
  BY <1>2 DEF OutcomeStatus
<1>4. CASE /\ CompleteInCore(id, succeeded)
           /\ CommitExternal(reply', bindings, payloads)
           /\ chatPendingBatches' = OpenBatches(reply')
           /\ outcome' = Told("Completed", id)
           /\ UNCHANGED nextHandle
  <2>1. \/ Completes("Confirm", "Confirmed") \/ CompletesAndPumps
        \/ Completes("CancelInFlight", "Cancelled")
    <3>1. ASSUME NEW op, RejectCompletion(op, id)
          PROVE  reply'.status \notin {"Confirmed", "Cancelled"}
      BY <3>1 DEF RejectCompletion, InFlightTargetStatus, Answer
    <3>2. ASSUME Confirm(id), reply'.status = "Confirmed"
          PROVE  Completes("Confirm", "Confirmed") \/ CompletesAndPumps
      BY <3>1, <3>2 DEF Confirm, Completes, CompletesAndPumps, InFlightTargetStatus
    <3>3. ASSUME CancelInFlight(id), reply'.status = "Cancelled"
          PROVE  Completes("CancelInFlight", "Cancelled")
      BY <3>1, <3>3 DEF CancelInFlight, Completes, InFlightTargetStatus
    <3> QED
      BY <1>4, <3>2, <3>3 DEF CompleteInCore
  <2>2. Commits(records)
    BY <2>1, CompletionCommits DEF PipelineInv
  <2>3. PipelineInv' /\ \A key \in DOMAIN payloads' : payloads'[key] = payloads[key]
    BY <1>3, <1>4, <2>2, PlainCommit
  <2> QED
    BY <2>3 DEF Growth
<1> QED
  BY <1>1, <1>3, <1>4 DEF CompleteProcessing

\* Looking after the queue.
LEMMA MaintenanceKeeps ==
  ASSUME PipelineInv, IInv', PumpPipeline \/ ProcessPipelineExpirations \/ PassToCore
  PROVE  PipelineInv' /\ Growth
<1>1. Told("Done", 0) \in Outcome
  BY ToldType DEF OutcomeStatus
<1>2. CASE PumpPipeline \/ ProcessPipelineExpirations
  <2>1. Commits(records)
    BY <1>2, PumpCommits, ExpirationCommits
       DEF PipelineInv, PumpPipeline, ProcessPipelineExpirations
  <2>2. /\ CommitExternal(reply', bindings, payloads)
        /\ chatPendingBatches' = OpenBatches(reply')
        /\ outcome' = Told("Done", 0)
        /\ UNCHANGED nextHandle
    BY <1>2 DEF PumpPipeline, ProcessPipelineExpirations
  <2>3. PipelineInv' /\ \A key \in DOMAIN payloads' : payloads'[key] = payloads[key]
    BY <1>1, <2>1, <2>2, PlainCommit
  <2> QED
    BY <2>3 DEF Growth
<1>3. CASE PassToCore
  <2>1. UNCHANGED <<records, inFlightEmissionId>>
    BY <1>3 DEF PassToCore, UpdateFlowSettings, GetNextWakeTime, Tick, queueVars
  <2> QED
    BY <1>1, <1>3, <2>1, RefusalKeeps DEF PassToCore, externalVars
<1> QED
  BY <1>2, <1>3

\* The invariant of the pipeline is inductive, and no step makes a payload grow that
\* must not.
LEMMA PipelineNextPreserves ==
  ASSUME PipelineInv, PipelineNext
  PROVE  PipelineInv' /\ Growth
<1>1. IInv'
  BY CoreInvKept
<1>2. ASSUME NEW flow \in Routes, ThrowAfterInsert(flow)
      PROVE  PipelineInv' /\ Growth
  <2>1. Told("LogicError", 0) \in Outcome
    BY ToldType DEF OutcomeStatus
  <2> QED
    BY <1>1, <1>2, <2>1, RefusalKeeps DEF ThrowAfterInsert, vars, queueVars
<1> QED
  BY <1>1, <1>2, SubmitDecisionKeeps, SubmitChatKeeps, BeginKeeps, CompleteKeeps,
     MaintenanceKeeps
  DEF PipelineNext

\* Nothing is stored, bound or ready at first.
LEMMA PipelineInitEstablishes ==
  ASSUME PipelineInit
  PROVE  PipelineInv
<1>1. IInv
  BY InitEstablishes DEF PipelineInit
<1>2. PipelineTypeOK
  <2>1. nextHandle \in [Routes -> Handle \cup {0}]
    BY PipelineAssumption DEF PipelineInit, Handle
  <2>2. outcome \in Outcome
    BY ToldType DEF PipelineInit, OutcomeStatus
  <2> QED
    BY <2>1, <2>2 DEF PipelineInit, PipelineTypeOK
<1>3. BindingsMatchCore /\ ReadyMatchesCore /\ BatchesMatchCore
  BY DEF PipelineInit, Init, BindingsMatchCore, ReadyMatchesCore, BatchesMatchCore, Pending
<1> QED
  BY <1>1, <1>2, <1>3 DEF PipelineInv

\* A step of something else keeps the invariant.
LEMMA PipelineStutters ==
  ASSUME PipelineInv, UNCHANGED pipelineVars
  PROVE  PipelineInv'
<1>1. IInv'
  BY NextPreserves DEF PipelineInv, pipelineVars
<1>2. outcome' \in Outcome
  BY DEF PipelineInv, PipelineTypeOK, pipelineVars
<1> QED
  BY <1>1, <1>2, RefusalKeeps DEF pipelineVars, vars, queueVars, externalVars

\* What the coordinator keeps outside the queue agrees with the queue after every
\* operation: bindings and payloads with the emissions alive, the notification with
\* the emission in flight, and the index with the batches that can still grow.
THEOREM PipelineConsistent == PipelineSpec => []PipelineInv
<1>1. PipelineInit => PipelineInv
  BY PipelineInitEstablishes
<1>2. PipelineInv /\ [PipelineNext]_pipelineVars => PipelineInv'
  BY PipelineNextPreserves, PipelineStutters
<1> QED
  BY <1>1, <1>2, PTL DEF PipelineSpec

\* The coordinator uses the core as the core expects to be used: whatever the core
\* promises to its callers holds of the pipeline.
THEOREM PipelineUsesCore == PipelineSpec => Spec
<1>1. PipelineInit => Init
  BY DEF PipelineInit
<1>2. PipelineInv /\ [PipelineNext]_pipelineVars => [Next]_vars
  BY StepsOfCore DEF pipelineVars
<1> QED
  BY <1>1, <1>2, PipelineConsistent, PTL DEF PipelineSpec, Spec

\* A payload changes only while the core keeps its emission waiting and not yet due,
\* and only if it is a chat batch: an append that does not ask the core is no way
\* around the core's deadline.
THEOREM GrowthStopsAtDue == PipelineSpec => GrowthBeforeDue
<1>1. PipelineInv /\ [PipelineNext]_pipelineVars => [Growth]_pipelineVars
  BY PipelineNextPreserves
<1> QED
  BY <1>1, PipelineConsistent, PTL DEF PipelineSpec, GrowthBeforeDue, Growth

\* So the queue inside the pipeline is the scheduler of EventScheduler, and keeps what it
\* promises of its own: it freezes what it admitted, hands out the best, lets nothing that
\* is due come back and no key that went stale, and tells of each end once and in order.
THEOREM CorePromisesHold ==
  PipelineSpec => /\ ImplementsScheduler
                  /\ SnapshotsKept /\ SelectionIsBest /\ DueNeverRevived
                  /\ StaleKeysStayStale /\ TerminalExactlyOnce
BY PipelineUsesCore, Refinement, SnapshotsStayFrozen, SelectionsAreBest, DueStaysDue,
   KeysStayStale, TerminalsExact, PTL
------------------------------------------------------------------------------
(* What the coordinator validates *)

\* What ends has its binding, in the state its reason calls for, its payload and, if it
\* still waits, its entry in the index: PrepareLifecycleBatch finds all of it, however
\* many end in one answer, and finds nothing twice.
LEMMA EntriesValid ==
  ASSUME PipelineInv, IInv', Next,
         Ended(reply') = DOMAIN records \ DOMAIN records',
         inFlightEmissionId \notin Ended(reply') \/ pendingReadyEmission = None
  PROVE  /\ \A i, j \in DOMAIN reply'.events :
              reply'.events[i].envelope.emissionId = reply'.events[j].envelope.emissionId
                => i = j
         /\ \A i \in DOMAIN reply'.events :
              /\ IsLifecycleEntryValid(reply'.events[i])
              /\ reply'.events[i].envelope.emissionId # inFlightEmissionId =>
                   IsPendingTerminalReason(reply'.events[i].reason)
<1> DEFINE told == reply'.events
           gone == DOMAIN records \ DOMAIN records'
<1>0. IInv
  BY DEF PipelineInv
<1>1. told \in Seq(Terminal)
  BY DEF IInv, TypeOK, Reply
<1>2. EndedBy(told) = gone
  BY DEF Ended, EndedBy
<1>3. Settles(gone, told)
  BY <1>0, StepSettles
<1>4. \A id \in DOMAIN records : records[id].envelope.emissionId = id
  BY InvariantParts DEF Keyed
<1>5. /\ BindingsMatch(records, bindings, payloads, nextHandle)
      /\ ReadyMatch(records, inFlightEmissionId, bindings, pendingReadyEmission)
      /\ BatchesMatch(records, inFlightEmissionId, bindings, payloads, chatPendingBatches, {})
  BY InvariantParts DEF ExternalInv
<1>6. \A id \in DOMAIN records : records[id].envelope \in Envelope
  BY InvariantParts DEF Keyed
<1> HIDE DEF told, gone
<1>7. /\ \A i, j \in DOMAIN told :
           told[i].envelope.emissionId = told[j].envelope.emissionId => i = j
      /\ \A i \in DOMAIN told :
           LET id == told[i].envelope.emissionId
           IN  /\ id \in gone
               /\ told[i].envelope = records[id].envelope
               /\ IF id = inFlightEmissionId
                  THEN told[i].reason \in {"Confirmed", "Cancelled"}
                  ELSE told[i].reason =
                         ResolveExpirationTerminalReason(records[id].expirePolicy)
  <2>1. \A id \in gone : records[id].envelope.emissionId = id
    BY <1>4 DEF gone
  <2> QED
    BY <1>1, <1>2, <1>3, <2>1, EventsOnce DEF EndedBy
<1>8. ASSUME NEW i \in DOMAIN told
      PROVE  /\ IsLifecycleEntryValid(told[i])
             /\ told[i].envelope.emissionId # inFlightEmissionId =>
                  IsPendingTerminalReason(told[i].reason)
  <2> DEFINE id == told[i].envelope.emissionId
  <2>1. /\ id \in gone /\ told[i].envelope = records[id].envelope
        /\ IF id = inFlightEmissionId
           THEN told[i].reason \in {"Confirmed", "Cancelled"}
           ELSE told[i].reason = ResolveExpirationTerminalReason(records[id].expirePolicy)
    BY <1>7
  <2>2. id \in DOMAIN records /\ id \in Ended(reply')
    BY <2>1 DEF gone
  <2>3. /\ id \in DOMAIN bindings
        /\ bindings[id].expectedFlow = told[i].envelope.flow
        /\ PayloadKey(bindings[id]) \in DOMAIN payloads
    BY <1>5, <2>1, <2>2 DEF BindingsMatch
  <2>4. bindings[id].state = IF id = inFlightEmissionId THEN "Processing" ELSE "Bound"
    <3>1. bindings[id].state \in {"Bound", "Processing"}
      BY <1>5, <2>3 DEF BindingsMatch, Binding
    <3>2. CASE id = inFlightEmissionId
      <4>1. pendingReadyEmission = None
        BY <2>2, <3>2
      <4>2. records[id].envelope # None
        BY <1>6, <2>2, PipelineAssumption
      <4>3. bindings[id].state = "Bound" => pendingReadyEmission = records[id].envelope
        BY <1>5, <2>3, <3>2 DEF ReadyMatch
      <4> QED
        BY <3>1, <3>2, <4>1, <4>2, <4>3
    <3>3. CASE id # inFlightEmissionId
      BY <1>5, <2>3, <3>3 DEF ReadyMatch
    <3> QED
      BY <3>2, <3>3
  <2>5. /\ id # inFlightEmissionId =>
             told[i].reason \in {"ExpiredDiscard", "ExpiredConsolidate"}
        /\ bindings[id].state = GetExpectedExternalState(told[i].reason)
    BY <2>1, <2>4 DEF GetExpectedExternalState, ResolveExpirationTerminalReason
  <2>6. ASSUME told[i].envelope.flow = Chat
        PROVE  ContainsExact(PayloadOf(id).user, id) <=> bindings[id].state = "Bound"
    <3>1. PayloadAt(id, bindings, payloads) = PayloadOf(id)
      BY DEF PayloadAt, PayloadOf
    <3>2. CASE id = inFlightEmissionId
      <4>1. \A user \in DOMAIN chatPendingBatches :
              chatPendingBatches[user].emissionId # inFlightEmissionId
        BY <1>5 DEF BatchesMatch, ChatWaiting
      <4> QED
        BY <2>4, <3>2, <4>1 DEF ContainsExact
    <3>3. CASE id # inFlightEmissionId
      <4>1. id \in ChatWaiting(records, inFlightEmissionId) \ {}
        BY <2>1, <2>2, <2>6, <3>3 DEF ChatWaiting
      <4> QED
        BY <1>5, <2>4, <3>1, <3>3, <4>1 DEF ContainsExact, BatchesMatch
    <3> QED
      BY <3>2, <3>3
  <2> QED
    BY <2>3, <2>5, <2>6 DEF IsLifecycleEntryValid, IsPendingTerminalReason
<1> QED
  BY <1>7, <1>8 DEF told

\* Likewise what becomes ready, unless the operation itself admits it: nothing was ready
\* before, and it has a binding that is Bound, a payload and, as a batch, its entry.
LEMMA ReadyValid ==
  ASSUME PipelineInv, IInv', NEW recs, Commits(recs), NEW admitted,
         DOMAIN recs \subseteq DOMAIN records \cup {admitted},
         \A id \in DOMAIN records : recs[id] = records[id],
         inFlightEmissionId \notin Ended(reply') \/ pendingReadyEmission = None
  PROVE  PrepareCorePumpOutcome(reply', admitted)
<1> DEFINE id == reply'.ready.emissionId
<1>1. /\ BindingsMatch(records, bindings, payloads, nextHandle)
      /\ ReadyMatch(records, inFlightEmissionId, bindings, pendingReadyEmission)
      /\ BatchesMatch(records, inFlightEmissionId, bindings, payloads, chatPendingBatches, {})
  BY InvariantParts DEF ExternalInv
<1>2. ASSUME reply'.pump = "EmissionReady"
      PROVE  /\ pendingReadyEmission = None
             /\ id \in DOMAIN records' /\ id \in DOMAIN recs
             /\ reply'.ready = recs[id].envelope
             /\ id # inFlightEmissionId
  <2>1. /\ inFlightEmissionId' \in DOMAIN records'
        /\ reply'.ready = records'[inFlightEmissionId'].envelope
        /\ inFlightEmissionId = 0 \/ inFlightEmissionId \in Ended(reply')
    BY <1>2 DEF Commits
  <2>2. id = inFlightEmissionId'
    BY <2>1 DEF IInv, RecordsKeyed
  <2>3. /\ id \in DOMAIN recs /\ id \notin Ended(reply')
        /\ reply'.ready = recs[id].envelope
    BY <2>1, <2>2 DEF Commits
  <2>4. id # 0
    BY <2>1, <2>2, TypesAssumption DEF IInv, TypeOK, Identity
  <2>5. pendingReadyEmission = None
    BY <1>1, <2>1 DEF ReadyMatch
  <2> QED
    BY <2>1, <2>2, <2>3, <2>4, <2>5
<1>3. ASSUME reply'.pump = "EmissionReady", id # admitted
      PROVE  /\ id \in DOMAIN bindings
             /\ bindings[id].expectedFlow = reply'.ready.flow
             /\ bindings[id].state = "Bound"
             /\ PayloadKey(bindings[id]) \in DOMAIN payloads
             /\ reply'.ready.flow = Chat => ContainsExact(PayloadOf(id).user, id)
  <2>1. id \in DOMAIN records /\ reply'.ready = records[id].envelope /\ id # inFlightEmissionId
    BY <1>2, <1>3
  <2> HIDE DEF id
  <2>2. /\ id \in DOMAIN bindings
        /\ bindings[id].expectedFlow = reply'.ready.flow
        /\ PayloadKey(bindings[id]) \in DOMAIN payloads
    BY <1>1, <2>1 DEF BindingsMatch
  <2>3. bindings[id].state = "Bound"
    BY <1>1, <2>1, <2>2 DEF ReadyMatch
  <2>4. reply'.ready.flow = Chat => id \in ChatWaiting(records, inFlightEmissionId) \ {}
    BY <2>1 DEF ChatWaiting
  <2>5. reply'.ready.flow = Chat => ContainsExact(PayloadOf(id).user, id)
    BY <1>1, <2>4 DEF BatchesMatch, ContainsExact, PayloadAt, PayloadOf
  <2> QED
    BY <2>2, <2>3, <2>5
<1> QED
  BY <1>2, <1>3 DEF PrepareCorePumpOutcome

\* An answer in which only waiting emissions end is accepted whole.
LEMMA WaitingEndsValid ==
  ASSUME PipelineInv, IInv', Next,
         Ended(reply') = DOMAIN records \ DOMAIN records',
         inFlightEmissionId \notin Ended(reply')
  PROVE  PrepareLifecycleBatch(reply'.events, None, 0)
<1>1. /\ \A i, j \in DOMAIN reply'.events :
           reply'.events[i].envelope.emissionId = reply'.events[j].envelope.emissionId => i = j
      /\ \A i \in DOMAIN reply'.events :
           /\ IsLifecycleEntryValid(reply'.events[i])
           /\ reply'.events[i].envelope.emissionId # inFlightEmissionId =>
                IsPendingTerminalReason(reply'.events[i].reason)
  BY EntriesValid
<1>2. \A i \in DOMAIN reply'.events :
        reply'.events[i].envelope.emissionId # inFlightEmissionId
  BY DEF Ended
<1>3. None # "Cancelled"
  BY PipelineAssumption DEF TerminalReason
<1> QED
  BY <1>1, <1>2, <1>3 DEF PrepareLifecycleBatch

\* A completion that is valid is of the emission in flight, and nothing is ready then:
\* whatever else falls due in the same answer, its event leads and the rest only expired.
LEMMA CompletionAccepted ==
  ASSUME PipelineInv, NEW id \in Identity, NEW flow \in Routes, IsCompletionValid(id, flow)
  PROVE  /\ id = inFlightEmissionId /\ pendingReadyEmission = None
         /\ PayloadKey(bindings[id]) \in DOMAIN payloads
         /\ Confirm(id) => /\ reply'.status = "Confirmed"
                           /\ PrepareLifecycleBatch(reply'.events, "Confirmed", id)
                           /\ PrepareCorePumpOutcome(reply', 0)
         /\ CancelInFlight(id) => /\ reply'.status = "Cancelled"
                                  /\ PrepareLifecycleBatch(reply'.events, "Cancelled", id)
<1>0. IInv /\ id # 0
  BY TypesAssumption DEF PipelineInv, Identity
<1>1. /\ BindingsMatch(records, bindings, payloads, nextHandle)
      /\ ReadyMatch(records, inFlightEmissionId, bindings, pendingReadyEmission)
  BY InvariantParts DEF ExternalInv
<1>2. id \in DOMAIN bindings /\ bindings[id].state # "Bound"
  BY DEF IsCompletionValid
<1>3. id = inFlightEmissionId /\ pendingReadyEmission = None
  BY <1>1, <1>2 DEF ReadyMatch
<1>4. PayloadKey(bindings[id]) \in DOMAIN payloads
  BY <1>1, <1>2 DEF BindingsMatch
<1>5. InFlightTargetStatus(id) = "Valid"
  BY <1>0, <1>3 DEF InFlightTargetStatus
<1>6. /\ Confirm(id) => Completes("Confirm", "Confirmed") \/ CompletesAndPumps
      /\ CancelInFlight(id) => Completes("CancelInFlight", "Cancelled")
  BY <1>0, <1>3, <1>5 DEF Confirm, CancelInFlight, RejectCompletion, Completes, CompletesAndPumps
<1>7. ASSUME NEW op, NEW reason \in {"Confirmed", "Cancelled"}, Next,
             Completes(op, reason) \/ (CompletesAndPumps /\ reason = "Confirmed")
      PROVE  /\ reply'.status = reason
             /\ Commits(records)
             /\ PrepareLifecycleBatch(reply'.events, reason, id)
  <2>1. IInv'
    BY <1>0, <1>7, NextPreserves
  <2>2. Commits(records) /\ inFlightEmissionId \in Ended(reply')
    BY <1>0, <1>7, <2>1, CompletionCommits
  <2>3. Ended(reply') = DOMAIN records \ DOMAIN records'
    BY <2>2 DEF Commits
  <2>4. /\ \A i, j \in DOMAIN reply'.events :
             reply'.events[i].envelope.emissionId = reply'.events[j].envelope.emissionId
               => i = j
        /\ \A i \in DOMAIN reply'.events :
             /\ IsLifecycleEntryValid(reply'.events[i])
             /\ reply'.events[i].envelope.emissionId # inFlightEmissionId =>
                  IsPendingTerminalReason(reply'.events[i].reason)
    BY <1>3, <1>7, <2>1, <2>3, EntriesValid
  <2>5. /\ 1 \in DOMAIN reply'.events
        /\ reply'.events[1].envelope = records[inFlightEmissionId].envelope
        /\ reply'.events[1].reason = reason
    BY <1>0, <1>7, CompletionLeads
  <2>6. reply'.events[1].envelope.emissionId = id
    BY <1>3, <1>2, <1>1, <2>5, InvariantParts DEF Keyed, BindingsMatch
  <2>7. \A i \in DOMAIN reply'.events :
          IF i = 1 THEN /\ reply'.events[i].reason = reason
                        /\ reply'.events[i].envelope.emissionId = id
          ELSE IsPendingTerminalReason(reply'.events[i].reason)
    BY <1>3, <2>4, <2>5, <2>6
  <2>8. reply'.status = reason
    <3>1. CASE Completes(op, reason)
      BY <3>1 DEF Completes, CompletionAnswer, Answer
    <3>2. CASE CompletesAndPumps /\ reason = "Confirmed"
      <4>1. Pumps(Completed, 0, CompletionAnswer("Confirm", "Confirmed"))
        BY <1>0, <3>2, PumpKinds
      <4>2. CompletionAnswer("Confirm", "Confirmed").status = "Confirmed"
        BY DEF CompletionAnswer, Answer
      <4> QED
        BY <1>0, <3>2, <4>1, <4>2, PumpEnds
    <3> QED
      BY <1>7, <3>1, <3>2
  <2>9. reason = "Cancelled" => Len(reply'.events) = 1
    <3>1. CASE Completes(op, reason)
      <4>1. reply'.events = CompletionAnswer(op, reason).events
        BY <3>1 DEF Completes
      <4> QED
        BY <1>0, <1>3, <4>1, CompletionTells
    <3> QED
      BY <1>7, <3>1
  <2>10. reply'.events # <<>> /\ reason # None
    BY <2>5, PipelineAssumption DEF TerminalReason
  <2>11. PrepareLifecycleBatch(reply'.events, reason, id)
    BY <2>4, <2>7, <2>9, <2>10, Zenon DEF PrepareLifecycleBatch
  <2> QED
    BY <2>2, <2>8, <2>11
<1>8. ASSUME Confirm(id)
      PROVE  /\ reply'.status = "Confirmed"
             /\ PrepareLifecycleBatch(reply'.events, "Confirmed", id)
             /\ PrepareCorePumpOutcome(reply', 0)
  <2>1. Next
    BY <1>8 DEF Next
  <2>2. IInv'
    BY <1>0, <2>1, NextPreserves
  <2>3. /\ reply'.status = "Confirmed"
        /\ Commits(records)
        /\ PrepareLifecycleBatch(reply'.events, "Confirmed", id)
    BY <1>6, <1>7, <1>8, <2>1
  <2>4. PrepareCorePumpOutcome(reply', 0)
    BY <1>3, <2>2, <2>3, ReadyValid
  <2> QED
    BY <2>3, <2>4
<1>9. ASSUME CancelInFlight(id)
      PROVE  /\ reply'.status = "Cancelled"
             /\ PrepareLifecycleBatch(reply'.events, "Cancelled", id)
  <2>1. Next
    BY <1>9 DEF Next
  <2> QED
    BY <1>6, <1>7, <1>9, <2>1
<1> QED
  BY <1>3, <1>4, <1>8, <1>9

\* An emission that is admitted is new to the registry, and what its pump ends or makes
\* ready is accepted.
LEMMA AdmissionAccepted ==
  ASSUME PipelineInv, NEW flow \in Routes, NEW adjustment \in Adjustments,
         NEW override \in TTLOverrides, Enqueue(flow, adjustment, override),
         reply'.status = "Accepted"
  PROVE  /\ reply'.emission.emissionId \notin DOMAIN bindings
         /\ PrepareLifecycleBatch(reply'.events, None, 0)
         /\ PrepareCorePumpOutcome(reply', reply'.emission.emissionId)
<1>0. IInv /\ flow \in FlowInputs
  BY PipelineAssumption DEF PipelineInv
<1>1. Next
  BY <1>0 DEF Next
<1>2. IInv'
  BY <1>0, <1>1, NextPreserves
<1>3. PICK record : Files(record) \/ FilesAndPumps(record)
  BY <1>0, EnqueueShape
<1>4. /\ Commits(Filed(record)) /\ Admits(record)
      /\ reply'.emission = record.envelope
      /\ Ended(reply') = IF reply'.pump = "NotRequested" THEN {} ELSE DueIds(records)
  BY <1>0, <1>2, <1>3, FilingCommits
<1>5. /\ DOMAIN Filed(record) = DOMAIN records \cup {nextIdentity}
      /\ nextIdentity \notin DOMAIN records
      /\ \A id \in DOMAIN records : Filed(record)[id] = records[id]
  BY <1>0, <1>4, FiledRecords
<1>6. reply'.emission.emissionId = nextIdentity
  BY <1>4 DEF Admits
<1>7. nextIdentity \notin DOMAIN bindings
  BY <1>5, InvariantParts DEF ExternalInv, BindingsMatch
<1>8. Ended(reply') \subseteq DOMAIN records /\ inFlightEmissionId \notin Ended(reply')
  BY <1>0, <1>4, DueOfPrepared, DueAreLive
<1>9. Ended(reply') = DOMAIN records \ DOMAIN records'
  BY <1>4, <1>5, <1>8 DEF Commits
<1>10. PrepareLifecycleBatch(reply'.events, None, 0)
  BY <1>1, <1>2, <1>8, <1>9, WaitingEndsValid
<1>11. PrepareCorePumpOutcome(reply', nextIdentity)
  BY <1>2, <1>4, <1>5, <1>8, ReadyValid
<1> QED
  BY <1>6, <1>7, <1>10, <1>11

\* The batch that is open is the one emission of its user that waits, with the
\* expiration the core has for it: what Accumulate expects of it holds, and its renewal
\* is renewed, unchanged, too late or, with no revision left, the one answer that throws.
LEMMA OpenBatchGrows ==
  ASSUME PipelineInv, NEW input \in ChatInputs, IsBatchOpen(input.user)
  PROVE  LET batch == chatPendingBatches[input.user]
             id == batch.emissionId
         IN  /\ id \in DOMAIN bindings
             /\ bindings[id].expectedFlow = Chat
             /\ bindings[id].state = "Bound"
             /\ ~IsReady(id)
             /\ PayloadOf(id).user = input.user
             /\ UpdateStatus(id, now, TRUE, None, batch.expiresAt) \in
                  {"Updated", "Unchanged", "RejectedExpired", "RejectedRevisionExhausted"}
<1> DEFINE batch == chatPendingBatches[input.user]
           id == batch.emissionId
<1>1. input.user \in DOMAIN chatPendingBatches
  BY DEF IsBatchOpen, HasBatch
<1>2. /\ id \in Pending(records) /\ records[id].envelope.flow = Chat
      /\ PayloadOf(id).user = input.user
      /\ batch.expiresAt = records[id].envelope.expiresAt
  BY <1>1 DEF PipelineInv, BatchesMatchCore
<1> HIDE DEF batch, id
<1>3. IInv
  BY DEF PipelineInv
<1>4. id \in DOMAIN records /\ records[id].state = "Pending"
  BY <1>2 DEF Pending
<1>5. id # inFlightEmissionId /\ id # 0
  BY <1>3, <1>4, TypesAssumption DEF IInv, TypeOK, InFlightCoherent, Identity
<1>6. /\ id \in DOMAIN bindings /\ bindings[id].expectedFlow = Chat
      /\ bindings[id].state = "Bound"
  BY <1>2, <1>4, <1>5 DEF PipelineInv, BindingsMatchCore, ReadyMatchesCore
<1>7. ~IsReady(id)
  <2>1. ReadyMatch(records, inFlightEmissionId, bindings, pendingReadyEmission)
        /\ BindingsMatch(records, bindings, payloads, nextHandle)
    BY InvariantParts DEF ExternalInv
  <2>2. pendingReadyEmission # None =>
          pendingReadyEmission.emissionId = inFlightEmissionId
    BY <2>1, InvariantParts DEF Keyed, ReadyMatch, BindingsMatch
  <2> QED
    BY <1>5, <2>2 DEF IsReady
<1>8. UpdateStatus(id, now, TRUE, None, batch.expiresAt) \in
        {"Updated", "Unchanged", "RejectedExpired", "RejectedRevisionExhausted"}
  BY <1>2, <1>4, <1>5 DEF UpdateStatus, IsPendingEmission
<1> QED
  BY <1>2, <1>6, <1>7, <1>8 DEF batch, id

\* A batch whose time has come ends in the pump that admits the next message of its
\* user: it is in the way of that message just when the admission does not pump.
LEMMA PredecessorEnds ==
  ASSUME MaxNow < MaxTime, PipelineInv, NEW input \in ChatInputs, ~IsBatchOpen(input.user),
         Enqueue(Chat, input.adjustment, None), reply'.status = "Accepted"
  PROVE  IsPredecessorInTheWay(input) <=>
           /\ HasBatch(input.user)
           /\ reply'.emission.emissionId \notin MadeReady(reply')
           /\ chatPendingBatches[input.user].emissionId \notin Ended(reply')
<1> DEFINE id == chatPendingBatches[input.user].emissionId
           pumps == bPumpAfterEnqueueWhenIdle /\ inFlightEmissionId = 0
<1>0. IInv /\ Chat \in FlowInputs /\ input.adjustment \in Adjustments /\ None \in TTLOverrides
      /\ bPumpAfterEnqueueWhenIdle \in BOOLEAN
  BY PipelineAssumption, CoreAssumption DEF PipelineInv, ChatInput
<1>1. EnqueueStatus(Chat, None) = "Accepted"
  BY DEF Enqueue, Answer
<1>2. Next
  BY <1>0 DEF Next
<1>3. IInv'
  BY <1>0, <1>2, NextPreserves
<1>4. PICK record : IF pumps THEN FilesAndPumps(record) ELSE Files(record)
  BY <1>0, <1>1, AdmissionShape
<1>5. Ended(reply') = IF reply'.pump = "NotRequested" THEN {} ELSE DueIds(records)
  BY <1>0, <1>3, <1>4, FilingCommits
<1>6. CASE pumps
  <2>1. reply'.pump # "NotRequested"
    <3>1. Pumps(Filed(record), 0, FiledAnswer(record))
      BY <1>0, <1>4, <1>6, PumpKinds
    <3> QED
      BY <1>0, <3>1, PumpEnds
  <2>2. ASSUME HasBatch(input.user)
        PROVE  id \in DueIds(records)
    <3>1. /\ id \in Pending(records)
          /\ chatPendingBatches[input.user].expiresAt = records[id].envelope.expiresAt
      BY <2>2 DEF PipelineInv, BatchesMatchCore, HasBatch
    <3> HIDE DEF id
    <3>2. ~(now < records[id].envelope.expiresAt)
      BY <2>2, <3>1 DEF IsBatchOpen
    <3>3. now \in Int /\ now <= MaxNow /\ MaxNow \in Int /\ MaxTime \in Int
          /\ records[id].envelope.expiresAt \in Int
      BY <1>0, <3>1, CoreAssumption, TypesAssumption
         DEF IInv, TypeOK, Record, Envelope, Time, Pending
    <3> QED
      BY <3>1, <3>2, <3>3 DEF DueIds, Due, Finite
  <2> QED
    BY <1>5, <1>6, <2>1, <2>2 DEF IsPredecessorInTheWay
<1>7. CASE ~pumps
  <2>1. reply' = FiledAnswer(record)
    BY <1>4, <1>7 DEF Files
  <2>2. reply'.pump = "NotRequested"
    BY <2>1 DEF FiledAnswer, Answer
  <2>3. MadeReady(reply') = {} /\ Ended(reply') = {}
    BY <1>5, <2>2 DEF MadeReady
  <2> QED
    BY <1>0, <1>1, <1>7, <2>3 DEF IsPredecessorInTheWay
<1> QED
  BY <1>6, <1>7

\* In every state the pipeline can be in (PipelineConsistent), what the coordinator
\* validates before it commits holds, whatever the core answers: so pumping, looking
\* after the expirations, taking what is ready, completing what is in processing and
\* admitting a new emission never throw, and no emission is stuck.
THEOREM ValidationsHold ==
  ASSUME PipelineInv
  PROVE  /\ Pump => /\ PrepareLifecycleBatch(reply'.events, None, 0)
                    /\ PrepareCorePumpOutcome(reply', 0)
         /\ ProcessDueExpirations => PrepareLifecycleBatch(reply'.events, None, 0)
         /\ pendingReadyEmission # None => IsReadyBindingValid
         /\ \A id \in Identity, flow \in Routes :
              IsCompletionValid(id, flow) =>
                /\ pendingReadyEmission = None
                /\ PayloadKey(bindings[id]) \in DOMAIN payloads
                /\ Confirm(id) => /\ reply'.status = "Confirmed"
                                  /\ PrepareLifecycleBatch(reply'.events, "Confirmed", id)
                                  /\ PrepareCorePumpOutcome(reply', 0)
                /\ CancelInFlight(id) =>
                     /\ reply'.status = "Cancelled"
                     /\ PrepareLifecycleBatch(reply'.events, "Cancelled", id)
         /\ \A flow \in Routes, adjustment \in Adjustments, override \in TTLOverrides :
              (Enqueue(flow, adjustment, override) /\ reply'.status = "Accepted") =>
                /\ reply'.emission.emissionId \notin DOMAIN bindings
                /\ PrepareLifecycleBatch(reply'.events, None, 0)
                /\ PrepareCorePumpOutcome(reply', reply'.emission.emissionId)
<1>0. IInv
  BY DEF PipelineInv
<1>1. ASSUME Pump
      PROVE  /\ PrepareLifecycleBatch(reply'.events, None, 0)
             /\ PrepareCorePumpOutcome(reply', 0)
  <2>1. Next
    BY <1>1 DEF Next
  <2>2. IInv'
    BY <1>0, <2>1, NextPreserves
  <2>3. Commits(records) /\ inFlightEmissionId \notin Ended(reply')
    BY <1>0, <1>1, <2>2, PumpCommits, DueOfPrepared
  <2>4. Ended(reply') = DOMAIN records \ DOMAIN records'
    BY <2>3 DEF Commits
  <2> QED
    BY <2>1, <2>2, <2>3, <2>4, WaitingEndsValid, ReadyValid
<1>2. ASSUME ProcessDueExpirations
      PROVE  PrepareLifecycleBatch(reply'.events, None, 0)
  <2>1. Next
    BY <1>2 DEF Next
  <2>2. IInv'
    BY <1>0, <2>1, NextPreserves
  <2>3. Commits(records) /\ inFlightEmissionId \notin Ended(reply')
    BY <1>0, <1>2, <2>2, ExpirationCommits, DueOfPrepared
  <2>4. Ended(reply') = DOMAIN records \ DOMAIN records'
    BY <2>3 DEF Commits
  <2> QED
    BY <2>1, <2>2, <2>3, <2>4, WaitingEndsValid
<1>3. ASSUME pendingReadyEmission # None
      PROVE  IsReadyBindingValid
  <2> DEFINE id == inFlightEmissionId
  <2>1. /\ BindingsMatch(records, bindings, payloads, nextHandle)
        /\ ReadyMatch(records, id, bindings, pendingReadyEmission)
        /\ BatchesMatch(records, id, bindings, payloads, chatPendingBatches, {})
    BY InvariantParts DEF ExternalInv
  <2>2. id \in DOMAIN records
    BY <1>3, <2>1, InvariantParts DEF ReadyMatch, Keyed
  <2>3. /\ id \in DOMAIN bindings
        /\ bindings[id].expectedFlow = records[id].envelope.flow
        /\ PayloadKey(bindings[id]) \in DOMAIN payloads
    BY <2>1, <2>2 DEF BindingsMatch
  <2>4. bindings[id].state = "Bound" /\ pendingReadyEmission = records[id].envelope
    BY <1>3, <2>1, <2>3 DEF ReadyMatch
  <2>5. pendingReadyEmission.emissionId = id
    BY <2>2, <2>4, InvariantParts DEF Keyed
  <2>6. \A user \in DOMAIN chatPendingBatches : chatPendingBatches[user].emissionId # id
    BY <2>1 DEF BatchesMatch, ChatWaiting
  <2> QED
    BY <2>3, <2>4, <2>5, <2>6 DEF IsReadyBindingValid, ContainsExact
<1> QED
  BY <1>1, <1>2, <1>3, CompletionAccepted, AdmissionAccepted
\* A chat message is answered unless its user's batch is overdue and the admission does
\* not pump, or the record of the batch has no revision left: an open batch is as
\* Accumulate expects it and its renewal is answered unless it is exhausted, and the
\* admission of a new batch is accepted whole, its predecessor ended unless it is in the
\* way.
THEOREM ChatValidationsHold ==
  ASSUME MaxNow < MaxTime, PipelineInv, NEW input \in ChatInputs
  PROVE  LET batch == chatPendingBatches[input.user]
             id == batch.emissionId
             new == reply'.emission.emissionId
         IN  /\ IsBatchOpen(input.user) =>
                  /\ id \in DOMAIN bindings
                  /\ bindings[id].expectedFlow = Chat
                  /\ bindings[id].state = "Bound"
                  /\ ~IsReady(id)
                  /\ PayloadOf(id).user = input.user
                  /\ (/\ bRefreshTtlOnAppend
                      /\ IsWithinBatchLimits(ChatPayload(input, PayloadOf(id).messages))) =>
                       (IsRenewalExhausted(input) <=>
                          UpdateStatus(id, now, TRUE, None, batch.expiresAt) \notin
                            {"Updated", "Unchanged", "RejectedExpired"})
             /\ (/\ ~IsBatchOpen(input.user)
                 /\ Enqueue(Chat, input.adjustment, None)
                 /\ reply'.status = "Accepted") =>
                  /\ new \notin DOMAIN bindings
                  /\ PrepareLifecycleBatch(reply'.events, None, 0)
                  /\ PrepareCorePumpOutcome(reply', new)
                  /\ IsPredecessorInTheWay(input) <=>
                       /\ HasBatch(input.user)
                       /\ new \notin MadeReady(reply')
                       /\ id \notin Ended(reply')
<1> DEFINE batch == chatPendingBatches[input.user]
           id == batch.emissionId
           status == UpdateStatus(id, now, TRUE, None, batch.expiresAt)
<1>1. ASSUME IsBatchOpen(input.user)
      PROVE  /\ id \in DOMAIN bindings
             /\ bindings[id].expectedFlow = Chat
             /\ bindings[id].state = "Bound"
             /\ ~IsReady(id)
             /\ PayloadOf(id).user = input.user
             /\ status \in
                  {"Updated", "Unchanged", "RejectedExpired", "RejectedRevisionExhausted"}
  BY <1>1, OpenBatchGrows
<1>2. ASSUME IsBatchOpen(input.user), bRefreshTtlOnAppend,
             IsWithinBatchLimits(ChatPayload(input, PayloadOf(id).messages))
      PROVE  IsRenewalExhausted(input) <=>
               status \notin {"Updated", "Unchanged", "RejectedExpired"}
  <2>1. IsRenewalExhausted(input) <=> status = "RejectedRevisionExhausted"
    BY <1>2, Zenon DEF IsRenewalExhausted
  <2> QED
    BY <1>1, <1>2, <2>1
<1>3. ASSUME ~IsBatchOpen(input.user), Enqueue(Chat, input.adjustment, None),
             reply'.status = "Accepted"
      PROVE  /\ reply'.emission.emissionId \notin DOMAIN bindings
             /\ PrepareLifecycleBatch(reply'.events, None, 0)
             /\ PrepareCorePumpOutcome(reply', reply'.emission.emissionId)
             /\ IsPredecessorInTheWay(input) <=>
                  /\ HasBatch(input.user)
                  /\ reply'.emission.emissionId \notin MadeReady(reply')
                  /\ id \notin Ended(reply')
  <2>1. Chat \in Routes /\ input.adjustment \in Adjustments /\ None \in TTLOverrides
    BY PipelineAssumption, CoreAssumption DEF ChatInput
  <2> QED
    BY <1>3, <2>1, AdmissionAccepted, PredecessorEnds
<1> QED
  BY <1>1, <1>2, <1>3
------------------------------------------------------------------------------
(* The pipeline implements EventDelivery *)

\* The refinement mapping, as ImplementsDelivery substitutes it.
DeliveriesNow ==
  [id \in DOMAIN bindings |->
     [stage |-> IF bindings[id].state = "Processing" THEN "Processing"
                ELSE IF IsReady(id) THEN "Ready" ELSE "Waiting",
      payload |-> PayloadOf(id)]]
UsedNow == IF nextIdentity = 0 THEN MaxIdentity ELSE nextIdentity - 1

\* The same, from the emission in flight instead of the notification.
StageAt(id, active, bound) ==
  IF id # active THEN "Waiting"
  ELSE IF bound[id].state = "Bound" THEN "Ready" ELSE "Processing"
DeliveriesOf(active, bound, stored) ==
  [id \in DOMAIN bound |-> [stage |-> StageAt(id, active, bound),
                            payload |-> PayloadAt(id, bound, stored)]]

\* EventDelivery has its own copies of the operators of EventQueueTypes.
LEMMA SameMaps ==
  /\ \A f, S : Delivery!Without(f, S) = Without(f, S)
  /\ \A f, i, v : Delivery!With(f, i, v) = With(f, i, v)
BY DEF Delivery!Without, Without, Delivery!With, With

\* The notification tells what is in flight and not yet handed out.
LEMMA StagesAgree ==
  ASSUME NEW recs, NEW active, NEW bound, NEW ready,
         DOMAIN bound = DOMAIN recs, bound \in [DOMAIN bound -> Binding],
         ReadyMatch(recs, active, bound, ready),
         \A id \in DOMAIN recs : recs[id].envelope.emissionId = id,
         \A id \in DOMAIN recs : recs[id].envelope # None,
         active = 0 \/ active \in DOMAIN recs, 0 \notin DOMAIN recs,
         NEW id \in DOMAIN bound
  PROVE  StageAt(id, active, bound) =
           IF bound[id].state = "Processing" THEN "Processing"
           ELSE IF ready # None /\ ready.emissionId = id THEN "Ready" ELSE "Waiting"
<1>1. bound[id].state \in {"Bound", "Processing"}
  BY DEF Binding
<1>2. CASE id = active
  BY <1>1, <1>2 DEF ReadyMatch, StageAt
<1>3. CASE id # active
  <2>1. ready # None => ready.emissionId = active
    BY DEF ReadyMatch
  <2>2. bound[id].state = "Bound"
    BY <1>3 DEF ReadyMatch
  <2> QED
    BY <1>3, <2>1, <2>2 DEF StageAt
<1> QED
  BY <1>2, <1>3

\* The mapping in a state where the invariant holds.
LEMMA MappingNow ==
  ASSUME PipelineInv
  PROVE  DeliveriesNow = DeliveriesOf(inFlightEmissionId, bindings, payloads)
<1>1. /\ Keyed(records)
      /\ BindingsMatch(records, bindings, payloads, nextHandle)
      /\ ReadyMatch(records, inFlightEmissionId, bindings, pendingReadyEmission)
  BY InvariantParts DEF ExternalInv
<1>2. \A id \in DOMAIN bindings :
        StageAt(id, inFlightEmissionId, bindings) =
          IF bindings[id].state = "Processing" THEN "Processing"
          ELSE IF IsReady(id) THEN "Ready" ELSE "Waiting"
  <2>1. /\ \A id \in DOMAIN records : records[id].envelope.emissionId = id
        /\ \A id \in DOMAIN records : records[id].envelope # None
        /\ inFlightEmissionId = 0 \/ inFlightEmissionId \in DOMAIN records
        /\ 0 \notin DOMAIN records
    BY <1>1, PipelineAssumption DEF Keyed, Identity
  <2> QED
    BY <1>1, <2>1, StagesAgree DEF BindingsMatch, IsReady
<1> QED
  BY <1>2 DEF DeliveriesNow, DeliveriesOf, PayloadOf, PayloadAt

\* And in the state after a step.
LEMMA MappingAfter ==
  ASSUME PipelineInv'
  PROVE  DeliveriesNow' = DeliveriesOf(inFlightEmissionId', bindings', payloads')
<1>1. /\ DOMAIN bindings' = DOMAIN records'
      /\ bindings' \in [DOMAIN bindings' -> Binding]
  BY DEF PipelineInv, PipelineTypeOK, BindingsMatchCore
<1>2. ReadyMatch(records', inFlightEmissionId', bindings', pendingReadyEmission')
  BY DEF PipelineInv, ReadyMatchesCore, ReadyMatch
<1>3. /\ \A id \in DOMAIN records' : records'[id].envelope.emissionId = id
      /\ \A id \in DOMAIN records' : records'[id].envelope # None
      /\ inFlightEmissionId' = 0 \/ inFlightEmissionId' \in DOMAIN records'
      /\ 0 \notin DOMAIN records'
  <2>1. /\ DOMAIN records' \subseteq Identity
        /\ \A id \in DOMAIN records' : records'[id].envelope \in Envelope
    BY DEF PipelineInv, IInv, TypeOK, Record
  <2> QED
    BY <2>1, PipelineAssumption
       DEF PipelineInv, IInv, RecordsKeyed, InFlightCoherent, Identity
<1>4. \A id \in DOMAIN bindings' :
        StageAt(id, inFlightEmissionId', bindings') =
          IF bindings'[id].state = "Processing" THEN "Processing"
          ELSE IF IsReady(id)' THEN "Ready" ELSE "Waiting"
  BY <1>1, <1>2, <1>3, StagesAgree DEF IsReady
<1>5. \A id \in DOMAIN bindings' : PayloadOf(id)' = PayloadAt(id, bindings', payloads')
  BY DEF PayloadOf, PayloadAt, PayloadKey
<1> QED
  BY <1>4, <1>5 DEF DeliveriesNow, DeliveriesOf

\* What waits in the queue waits as a delivery, and the emission in flight does not.
LEMMA WaitingNow ==
  ASSUME PipelineInv
  PROVE  /\ \A id \in DueIds(records) : /\ id \in DOMAIN DeliveriesNow
                                        /\ DeliveriesNow[id].stage = "Waiting"
         /\ \A id \in DOMAIN DeliveriesNow :
              /\ DeliveriesNow[id].payload = PayloadOf(id)
              /\ DeliveriesNow[id].stage = "Waiting" <=> id \in Pending(records)
<1>1. DeliveriesNow = DeliveriesOf(inFlightEmissionId, bindings, payloads)
  BY MappingNow
<1>2. DOMAIN bindings = DOMAIN records
  BY DEF PipelineInv, BindingsMatchCore
<1>3. \A id \in DOMAIN records : id \in Pending(records) <=> id # inFlightEmissionId
  BY DEF PipelineInv, IInv, TypeOK, InFlightCoherent, Record, Pending
<1>4. \A id \in DOMAIN bindings :
        StageAt(id, inFlightEmissionId, bindings) = "Waiting" <=> id # inFlightEmissionId
  BY DEF StageAt
<1>5. DueIds(records) \subseteq Pending(records) /\ Pending(records) \subseteq DOMAIN records
  BY DEF DueIds, Pending
<1> QED
  BY <1>1, <1>2, <1>3, <1>4, <1>5 DEF DeliveriesOf, PayloadOf, PayloadAt
------------------------------------------------------------------------------
\* A commit is a step of Advance: what ended left, and at most one that waited is
\* ready, when nothing else is out.
LEMMA CommitAdvances ==
  ASSUME NEW recs, NEW bound, NEW stored,
         Commits(recs), Keyed(recs), DOMAIN bound = DOMAIN recs,
         DOMAIN bindings' = DOMAIN records',
         \A id \in DOMAIN records' :
           /\ bindings'[id] = bound[id]
           /\ PayloadAt(id, bindings', payloads') = PayloadAt(id, bound, stored),
         ReadyMatch(recs, inFlightEmissionId, bound, pendingReadyEmission)
  PROVE  LET after == DeliveriesOf(inFlightEmissionId', bindings', payloads')
             left == Without(DeliveriesOf(inFlightEmissionId, bound, stored), Ended(reply'))
         IN  \/ after = left
             \/ /\ \A id \in DOMAIN left : left[id].stage = "Waiting"
                /\ \E id \in DOMAIN left : after = [left EXCEPT ![id].stage = "Ready"]
<1> DEFINE after == DeliveriesOf(inFlightEmissionId', bindings', payloads')
           left == Without(DeliveriesOf(inFlightEmissionId, bound, stored), Ended(reply'))
<1>1. DOMAIN records' = DOMAIN recs \ Ended(reply')
  BY DEF Commits
<1>2. 0 \notin DOMAIN recs
  BY DEF Keyed, Identity
<1>3. left = [id \in DOMAIN records' |->
                [stage |-> StageAt(id, inFlightEmissionId, bound),
                 payload |-> PayloadAt(id, bound, stored)]]
  BY <1>1 DEF Without, DeliveriesOf
<1>4. after = [id \in DOMAIN records' |->
                 [stage |-> StageAt(id, inFlightEmissionId', bindings'),
                  payload |-> PayloadAt(id, bound, stored)]]
  BY DEF DeliveriesOf
<1> HIDE DEF after, left
<1>5. CASE reply'.pump = "EmissionReady"
  <2> DEFINE new == inFlightEmissionId'
  <2>1. /\ new \in DOMAIN records'
        /\ inFlightEmissionId = 0 \/ inFlightEmissionId \in Ended(reply')
    BY <1>5 DEF Commits
  <2>2. inFlightEmissionId \notin DOMAIN records'
    BY <1>1, <1>2, <2>1
  <2>3. \A id \in DOMAIN records' :
          /\ StageAt(id, inFlightEmissionId, bound) = "Waiting"
          /\ StageAt(id, new, bindings') = IF id = new THEN "Ready" ELSE "Waiting"
    BY <1>1, <2>1, <2>2 DEF StageAt, ReadyMatch
  <2>4. \A id \in DOMAIN left : left[id].stage = "Waiting"
    BY <1>3, <2>3
  <2>5. left = [id \in DOMAIN records' |-> [stage |-> "Waiting",
                                            payload |-> PayloadAt(id, bound, stored)]]
    BY <1>3, <2>3
  <2>6. after = [id \in DOMAIN records' |-> [stage |-> IF id = new THEN "Ready" ELSE "Waiting",
                                             payload |-> PayloadAt(id, bound, stored)]]
    BY <1>4, <2>3
  <2>7. after = [left EXCEPT ![new].stage = "Ready"]
    <3> HIDE DEF new
    <3> QED
      BY <2>5, <2>6
  <2> QED
    BY <1>3, <2>1, <2>4, <2>7 DEF after, left
<1>6. CASE reply'.pump # "EmissionReady"
  <2>1. inFlightEmissionId' = IF inFlightEmissionId \in Ended(reply') THEN 0 ELSE inFlightEmissionId
    BY <1>6 DEF Commits
  <2>2. \A id \in DOMAIN records' :
          StageAt(id, inFlightEmissionId', bindings') = StageAt(id, inFlightEmissionId, bound)
    BY <1>1, <1>2, <2>1 DEF StageAt
  <2>3. after = left
    BY <1>3, <1>4, <2>2
  <2> QED
    BY <2>3 DEF after, left
<1> QED
  BY <1>5, <1>6

\* The deliveries after a commit to a queue, bindings and payloads given.
LEMMA CommitMaps ==
  ASSUME PipelineInv', NEW recs, NEW bound, NEW stored, NEW next, NEW missing,
         Commits(recs), Keyed(recs), ExternalInv(recs, bound, stored, next, missing),
         CommitExternal(reply', bound, stored)
  PROVE  LET left == Without(DeliveriesOf(inFlightEmissionId, bound, stored), Ended(reply'))
         IN  \/ DeliveriesNow' = left
             \/ /\ \A id \in DOMAIN left : left[id].stage = "Waiting"
                /\ \E id \in DOMAIN left : DeliveriesNow' = [left EXCEPT ![id].stage = "Ready"]
<1>1. /\ BindingsMatch(recs, bound, stored, next)
      /\ ReadyMatch(recs, inFlightEmissionId, bound, pendingReadyEmission)
      /\ LimitsMatch(bound, stored)
  BY DEF ExternalInv
<1>2. /\ DOMAIN bound = DOMAIN recs
      /\ DOMAIN bindings' = DOMAIN records'
      /\ \A id \in DOMAIN records' :
           /\ bindings'[id] = bound[id]
           /\ PayloadAt(id, bindings', payloads') = PayloadAt(id, bound, stored)
  <2>1. /\ BindingsMatch(records', bindings', payloads', next)
        /\ \A id \in DOMAIN records' :
             /\ bindings'[id] = bound[id]
             /\ PayloadAt(id, bindings', payloads') = PayloadAt(id, bound, stored)
    BY <1>1, CommitBindings
  <2> QED
    BY <1>1, <2>1 DEF BindingsMatch
<1> QED
  BY <1>1, <1>2, CommitAdvances, MappingAfter

\* Looking after the queue.
LEMMA MaintainMaps ==
  ASSUME PipelineInv, PipelineInv', PumpPipeline \/ ProcessPipelineExpirations
  PROVE  Delivery!Maintain
<1> DEFINE ended == Ended(reply')
           left == Without(DeliveriesNow, ended)
<1>0. IInv /\ IInv'
  BY DEF PipelineInv
<1>1. /\ Commits(records) /\ ended = DueIds(records)
      /\ CommitExternal(reply', bindings, payloads)
      /\ outcome' = Told("Done", 0)
      /\ UNCHANGED nextIdentity
  BY <1>0, PumpCommits, ExpirationCommits
     DEF PumpPipeline, ProcessPipelineExpirations, Pump, ProcessDueExpirations
<1>2. \/ DeliveriesNow' = left
      \/ /\ \A id \in DOMAIN left : left[id].stage = "Waiting"
         /\ \E id \in DOMAIN left : DeliveriesNow' = [left EXCEPT ![id].stage = "Ready"]
  BY <1>1, InvariantParts, MappingNow, CommitMaps
<1>3. ended \in SUBSET {id \in DOMAIN DeliveriesNow : DeliveriesNow[id].stage = "Waiting"}
  BY <1>1, WaitingNow
<1>4. left = Delivery!Without(DeliveriesNow, ended)
  BY SameMaps
<1>5. outcome' = [status |-> "Done", emissionId |-> 0, payload |-> None]
  BY <1>1 DEF Told
<1> HIDE DEF ended, left
<1> QED
  BY <1>1, <1>2, <1>3, <1>4, <1>5
  DEF Delivery!Maintain, Delivery!Advance, Delivery!At, DeliveriesNow

\* A completion that commits: the emission in flight leaves, and what is due with it.
LEMMA FinishMaps ==
  ASSUME PipelineInv, PipelineInv', NEW id \in Identity \cup {0}, NEW succeeded \in BOOLEAN,
         NEW flow \in Routes, id # 0, IsCompletionValid(id, flow),
         CompleteInCore(id, succeeded), CommitExternal(reply', bindings, payloads),
         outcome' = Told("Completed", id)
  PROVE  Delivery!Finish
<1> DEFINE ended == Ended(reply')
           left == Without(DeliveriesNow, ended)
<1>0. IInv /\ IInv'
  BY DEF PipelineInv
<1>1. /\ id = inFlightEmissionId
      /\ \/ Completes("Confirm", "Confirmed") \/ CompletesAndPumps
         \/ Completes("CancelInFlight", "Cancelled")
      /\ UNCHANGED nextIdentity
  <2>1. ASSUME NEW op, RejectCompletion(op, id)
        PROVE  reply'.status \notin {"Confirmed", "Cancelled"}
    BY <2>1 DEF RejectCompletion, InFlightTargetStatus, Answer
  <2>2. ASSUME Confirm(id), reply'.status = "Confirmed"
        PROVE  /\ id = inFlightEmissionId
               /\ Completes("Confirm", "Confirmed") \/ CompletesAndPumps
               /\ UNCHANGED nextIdentity
    BY <2>1, <2>2 DEF Confirm, Completes, CompletesAndPumps, InFlightTargetStatus
  <2>3. ASSUME CancelInFlight(id), reply'.status = "Cancelled"
        PROVE  /\ id = inFlightEmissionId
               /\ Completes("CancelInFlight", "Cancelled")
               /\ UNCHANGED nextIdentity
    BY <2>1, <2>3 DEF CancelInFlight, Completes, InFlightTargetStatus
  <2> QED
    BY <2>2, <2>3 DEF CompleteInCore
<1>2. /\ Commits(records) /\ id \in ended
      /\ ended \ {id} \subseteq DueIds(records)
  BY <1>0, <1>1, CompletionCommits
<1>3. \/ DeliveriesNow' = left
      \/ /\ \A other \in DOMAIN left : left[other].stage = "Waiting"
         /\ \E other \in DOMAIN left : DeliveriesNow' = [left EXCEPT ![other].stage = "Ready"]
  BY <1>2, InvariantParts, MappingNow, CommitMaps
<1>4. ended \ {id} \in
        SUBSET {other \in DOMAIN DeliveriesNow : DeliveriesNow[other].stage = "Waiting"}
  BY <1>2, WaitingNow
<1>5. left = Delivery!Without(DeliveriesNow, (ended \ {id}) \cup {id})
  <2>1. (ended \ {id}) \cup {id} = ended
    BY <1>2
  <2> QED
    BY <2>1, SameMaps
<1>6. outcome' = [status |-> "Completed", emissionId |-> id, payload |-> None]
  BY DEF Told
<1>7. id \in {other \in DOMAIN DeliveriesNow : DeliveriesNow[other].stage = "Processing"}
  BY DEF IsCompletionValid, DeliveriesNow
<1> DEFINE others == ended \ {id}
<1> HIDE DEF ended, left, others
<1>8. others \in SUBSET {other \in DOMAIN DeliveriesNow : DeliveriesNow[other].stage = "Waiting"}
  BY <1>4 DEF others
<1>9. left = Delivery!Without(DeliveriesNow, others \cup {id})
  BY <1>5 DEF others
<1>10. \E some \in SUBSET {other \in DOMAIN DeliveriesNow :
                            DeliveriesNow[other].stage = "Waiting"} :
         LET rest == Delivery!Without(DeliveriesNow, some \cup {id})
         IN  \/ DeliveriesNow' = rest
             \/ /\ \A other \in DOMAIN rest : rest[other].stage = "Waiting"
                /\ \E other \in DOMAIN rest :
                     DeliveriesNow' = [rest EXCEPT ![other].stage = "Ready"]
  BY <1>3, <1>8, <1>9, Zenon
<1> QED
  BY <1>1, <1>6, <1>7, <1>10, Zenon
  DEF Delivery!Finish, Delivery!Advance, Delivery!At, DeliveriesNow

\* What is refused, declined, rolled back or thrown changes nothing a caller sees.
LEMMA RefuseMaps ==
  ASSUME UNCHANGED <<payloads, bindings, pendingReadyEmission, nextIdentity>>,
         outcome'.status \notin {"Accepted", "Accumulated", "Dispatched", "Completed"}
  PROVE  Delivery!Refuse
<1>1. DeliveriesNow' = DeliveriesNow
  BY DEF DeliveriesNow, PayloadOf, PayloadKey, IsReady
<1> QED
  BY <1>1 DEF Delivery!Refuse, DeliveriesNow
------------------------------------------------------------------------------
\* Handing out: the one that is ready is processed, with the payload it has.
LEMMA BeginMaps ==
  ASSUME PipelineInv, PipelineInv', NEW flow \in Routes, BeginProcessing(flow)
  PROVE  Delivery!Refuse \/ Delivery!Begin
<1> DEFINE id == pendingReadyEmission.emissionId
<1>1. CASE outcome' = Told("NoEmissionReady", 0) /\ UNCHANGED <<vars, externalVars>>
  BY <1>1, RefuseMaps DEF Told, vars, queueVars, externalVars
<1>2. CASE /\ pendingReadyEmission # None
           /\ IsReadyBindingValid
           /\ bindings' = [bindings EXCEPT ![id].state = "Processing"]
           /\ outcome' = [Told("Dispatched", id) EXCEPT !.payload = PayloadOf(id)]
           /\ pendingReadyEmission' = None
           /\ UNCHANGED <<vars, payloads, nextHandle, chatPendingBatches>>
  <2>1. /\ Keyed(records)
        /\ DOMAIN bindings = DOMAIN records
        /\ bindings \in [DOMAIN bindings -> Binding]
        /\ ReadyMatch(records, inFlightEmissionId, bindings, pendingReadyEmission)
    BY InvariantParts DEF ExternalInv, BindingsMatch
  <2>2. id \in DOMAIN bindings /\ bindings[id].state = "Bound"
    BY <1>2 DEF IsReadyBindingValid
  <2>3. id = inFlightEmissionId
    <3>1. inFlightEmissionId \in DOMAIN records
      BY <1>2, <2>1 DEF ReadyMatch, Keyed
    <3>2. pendingReadyEmission = records[inFlightEmissionId].envelope
      BY <1>2, <2>1, <3>1 DEF ReadyMatch
    <3> QED
      BY <2>1, <3>1, <3>2 DEF Keyed
  <2>4. UNCHANGED <<inFlightEmissionId, nextIdentity, payloads>>
    BY <1>2 DEF vars, queueVars
  <2> HIDE DEF id
  <2>5. /\ DOMAIN bindings' = DOMAIN bindings
        /\ \A other \in DOMAIN bindings \ {id} : bindings'[other] = bindings[other]
        /\ bindings'[id] = [bindings[id] EXCEPT !.state = "Processing"]
    BY <1>2, <2>2
  <2>6. bindings[id] \in Binding
    BY <2>1, <2>2
  <2>7. /\ bindings'[id].state = "Processing"
        /\ PayloadKey(bindings'[id]) = PayloadKey(bindings[id])
    BY <2>5, <2>6 DEF Binding, PayloadKey
  <2>8. \A other \in DOMAIN bindings :
          /\ PayloadAt(other, bindings', payloads') = PayloadAt(other, bindings, payloads)
          /\ StageAt(other, inFlightEmissionId', bindings') =
               IF other = id THEN "Processing" ELSE "Waiting"
          /\ StageAt(other, inFlightEmissionId, bindings) =
               IF other = id THEN "Ready" ELSE "Waiting"
    BY <2>2, <2>3, <2>4, <2>5, <2>7 DEF PayloadAt, StageAt
  <2>9. DeliveriesNow = [other \in DOMAIN bindings |->
                           [stage |-> IF other = id THEN "Ready" ELSE "Waiting",
                            payload |-> PayloadAt(other, bindings, payloads)]]
    BY <2>8, MappingNow DEF DeliveriesOf
  <2>10. DeliveriesNow' = [other \in DOMAIN bindings |->
                             [stage |-> IF other = id THEN "Processing" ELSE "Waiting",
                              payload |-> PayloadAt(other, bindings, payloads)]]
    BY <2>5, <2>8, MappingAfter DEF DeliveriesOf
  <2>11. DeliveriesNow' = [DeliveriesNow EXCEPT ![id].stage = "Processing"]
    BY <2>2, <2>9, <2>10
  <2>12. id \in {other \in DOMAIN DeliveriesNow : DeliveriesNow[other].stage = "Ready"}
    BY <2>2, <2>9
  <2>13. outcome' = [status |-> "Dispatched", emissionId |-> id,
                     payload |-> DeliveriesNow[id].payload]
    <3>1. DeliveriesNow[id].payload = PayloadOf(id)
      BY <2>2 DEF DeliveriesNow
    <3>2. outcome' = [Told("Dispatched", id) EXCEPT !.payload = PayloadOf(id)]
      BY <1>2 DEF id
    <3> QED
      BY <3>1, <3>2 DEF Told
  <2> QED
    BY <2>4, <2>11, <2>12, <2>13, Zenon DEF Delivery!Begin, Delivery!At, DeliveriesNow
<1> QED
  BY <1>1, <1>2 DEF BeginProcessing

\* The core may be asked to renew a batch that grows: it lets no emission in or out.
LEMMA RenewalKeepsIdentity ==
  ASSUME PipelineInv, NEW input \in ChatInputs, Accumulate(input)
  PROVE  UNCHANGED <<nextIdentity, inFlightEmissionId>>
<1> DEFINE batch == chatPendingBatches[input.user]
<1>1. CASE UNCHANGED vars
  BY <1>1 DEF vars, queueVars
<1>2. CASE Renew(input, batch)
  <2>1. input.user \in DOMAIN chatPendingBatches
    BY DEF Accumulate, IsBatchOpen, HasBatch
  <2>2. batch \in Batch /\ IInv
    BY <2>1 DEF PipelineInv, PipelineTypeOK
  <2>3. batch.emissionId \in Identity \cup {0} /\ batch.expiresAt \in ExpectedTimes
        /\ None \in NewScores
    BY <2>2, PipelineAssumption DEF Batch
  <2>4. UpdatePendingScheduling(batch.emissionId, now, TRUE, None, batch.expiresAt)
    BY <1>2 DEF Renew
  <2>5. \/ Quiet /\ UNCHANGED nextIdentity
        \/ Reschedules(batch.emissionId)
    BY <2>2, <2>3, <2>4, UpdateShape
  <2> QED
    BY <2>5 DEF Quiet, Reschedules
<1> QED
  BY <1>1, <1>2 DEF Accumulate

\* The message joins the batch at its end, or the core found the emission due.
LEMMA AppendMaps ==
  ASSUME PipelineInv, PipelineInv', NEW input \in ChatInputs, Accumulate(input)
  PROVE  \/ Delivery!Refuse /\ outcome'.status = "RejectedByCore"
         \/ /\ Delivery!AppendMessage
            /\ \E messages \in Seq(Nat) :
                 DeliveriesNow'[outcome'.emissionId].payload = ChatPayload(input, messages)
<1> DEFINE user == input.user
           id == chatPendingBatches[user].emissionId
           payload == ChatPayload(input, PayloadOf(id).messages)
           refused == bRefreshTtlOnAppend /\ reply'.status = "RejectedExpired"
<1>1. /\ user \in DOMAIN chatPendingBatches
      /\ id \in DOMAIN bindings
      /\ PayloadOf(id).user = user
      /\ payloads' = IF refused THEN payloads
                     ELSE [payloads EXCEPT ![PayloadKey(bindings[id])] = payload]
      /\ outcome' = IF refused THEN Told("RejectedByCore", 0) ELSE Told("Accumulated", id)
      /\ UNCHANGED <<bindings, pendingReadyEmission>>
  BY DEF Accumulate, IsBatchOpen, HasBatch
<1>2. UNCHANGED <<nextIdentity, inFlightEmissionId>>
  BY RenewalKeepsIdentity
<1>3. BindingsMatch(records, bindings, payloads, nextHandle)
  BY InvariantParts DEF ExternalInv
<1>4. id \in Pending(records)
  BY <1>1 DEF PipelineInv, BatchesMatchCore
<1>5. PayloadKey(bindings[id]) \in DOMAIN payloads /\ PayloadOf(id).messages \in Seq(Nat)
      /\ \A other \in DOMAIN bindings \ {id} :
           PayloadKey(bindings[other]) \in DOMAIN payloads \ {PayloadKey(bindings[id])}
  BY <1>1, <1>3 DEF BindingsMatch, PayloadOf, Payload
<1>6. input.bytes \in Nat
  BY PipelineAssumption DEF ChatInput
<1>7. /\ payload.user = user
      /\ payload = ChatPayload(input, PayloadOf(id).messages)
      /\ payload.messages = Append(PayloadOf(id).messages, input.bytes)
  BY DEF ChatPayload
<1> HIDE DEF id, payload, refused
<1>8. CASE refused
  BY <1>1, <1>2, <1>8, RefuseMaps DEF Told
<1>9. CASE ~refused
  <2>1. payloads' = [payloads EXCEPT ![PayloadKey(bindings[id])] = payload]
    BY <1>1, <1>9
  <2>2. \A other \in DOMAIN bindings :
          PayloadAt(other, bindings', payloads') =
            IF other = id THEN payload ELSE PayloadAt(other, bindings, payloads)
    BY <1>1, <1>5, <2>1 DEF PayloadAt
  <2>3. \A other \in DOMAIN bindings :
          StageAt(other, inFlightEmissionId', bindings') =
            StageAt(other, inFlightEmissionId, bindings)
    BY <1>1, <1>2 DEF StageAt
  <2>4. DeliveriesNow = [other \in DOMAIN bindings |->
                           [stage |-> StageAt(other, inFlightEmissionId, bindings),
                            payload |-> PayloadAt(other, bindings, payloads)]]
    BY MappingNow DEF DeliveriesOf
  <2>5. DeliveriesNow' = [other \in DOMAIN bindings |->
                            [stage |-> StageAt(other, inFlightEmissionId, bindings),
                             payload |-> IF other = id THEN payload
                                         ELSE PayloadAt(other, bindings, payloads)]]
    BY <1>1, <2>2, <2>3, MappingAfter DEF DeliveriesOf
  <2>6. /\ DeliveriesNow' = [DeliveriesNow EXCEPT ![id].payload = payload]
        /\ DeliveriesNow'[id].payload = payload
        /\ DOMAIN DeliveriesNow' = DOMAIN DeliveriesNow
    BY <1>1, <2>4, <2>5
  <2>7. /\ id \in {other \in DOMAIN DeliveriesNow : DeliveriesNow[other].stage = "Waiting"}
        /\ DeliveriesNow[id].payload = PayloadOf(id)
    BY <1>1, <1>4, <2>4, WaitingNow
  <2>8. /\ payload.user = PayloadOf(id).user
        /\ Len(payload.messages) = Len(PayloadOf(id).messages) + 1
        /\ SubSeq(payload.messages, 1, Len(PayloadOf(id).messages)) = PayloadOf(id).messages
    BY <1>1, <1>5, <1>6, <1>7
  <2>9. outcome' = [status |-> "Accumulated", emissionId |-> id, payload |-> None]
    BY <1>1, <1>9 DEF Told
  <2>10. Delivery!Extends(DeliveriesNow'[id].payload, DeliveriesNow[id].payload)
    BY <2>6, <2>7, <2>8 DEF Delivery!Extends
  <2>11. DeliveriesNow' = [DeliveriesNow EXCEPT ![id].payload = DeliveriesNow'[id].payload]
    BY <2>6
  <2>12. Delivery!AppendMessage
    BY <1>2, <2>6, <2>7, <2>9, <2>10, <2>11, Zenon
    DEF Delivery!AppendMessage, Delivery!At, DeliveriesNow
  <2>13. DeliveriesNow'[outcome'.emissionId].payload = ChatPayload(input, PayloadOf(id).messages)
    BY <1>7, <2>6, <2>9
  <2> QED
    BY <1>5, <2>12, <2>13
<1> QED
  BY <1>8, <1>9
------------------------------------------------------------------------------
\* The counter of identities tells the last identity given: an admission gives the
\* one after it.
LEMMA UsedAdvances ==
  ASSUME IInv, NEW record, Admits(record)
  PROVE  UsedNow' = UsedNow + 1 /\ UsedNow' = nextIdentity
<1>1. nextIdentity \in Identity /\ nextIdentity \in Int
  BY TypesAssumption DEF IInv, TypeOK, Admits, Identity
<1>2. nextIdentity' = AdvanceCounterOrMarkExhausted(nextIdentity)
  BY DEF Admits
<1> QED
  BY <1>1, <1>2, TypesAssumption DEF UsedNow, AdvanceCounterOrMarkExhausted, Identity

\* An admission: the newcomer waits among the others, and the commit goes on from
\* there.
LEMMA AdmitMaps ==
  ASSUME PipelineInv, PipelineInv', NEW flow \in Routes, NEW payload \in Payload, NEW record,
         Files(record) \/ FilesAndPumps(record), record.envelope.flow = flow,
         InsertPayload(flow), Admission(flow, payload), FitsFlow(flow, payload),
         Len(payload.messages) = IF payload.user = None THEN 0 ELSE 1,
         \A id \in Pending(records) \ Ended(reply') :
           payload.user = None \/ PayloadOf(id).user # payload.user
  PROVE  Delivery!Admit /\ DeliveriesNow'[UsedNow'].payload = payload
<1> DEFINE new == nextIdentity
           newcomer == [stage |-> "Waiting", payload |-> payload]
           grown == With(DeliveriesNow, new, newcomer)
           ended == Ended(reply')
           left == Without(grown, ended)
           some == {id \in DOMAIN DeliveriesNow : DeliveriesNow[id].stage = "Waiting"}
<1>0. IInv /\ IInv'
  BY DEF PipelineInv
<1>1. /\ Commits(Filed(record)) /\ Admits(record)
      /\ reply'.emission = record.envelope
      /\ ended \subseteq DueIds(records)
      /\ new \notin ended
  BY <1>0, FilingCommits, FilingEnds
<1>2. reply'.emission.emissionId = new
  BY <1>1 DEF Admits
<1>3. /\ Keyed(Filed(record))
      /\ ExternalInv(Filed(record), Bound(flow), Stored(flow, payload), nextHandle', {new})
      /\ PayloadAt(new, Bound(flow), Stored(flow, payload)) = payload
  BY <1>1, AdmissionMatches
<1>4. CommitExternal(reply', Bound(flow), Stored(flow, payload))
  BY <1>2 DEF Admission, Bound, Stored, NewBinding
<1>5. /\ BindingsMatch(records, bindings, payloads, nextHandle)
      /\ Keyed(records)
  BY InvariantParts DEF ExternalInv
<1>6. new \notin DOMAIN bindings /\ new # inFlightEmissionId
  BY <1>0, <1>1, <1>5, FiledRecords, TypesAssumption
     DEF BindingsMatch, Keyed, Admits
<1>7. grown = DeliveriesOf(inFlightEmissionId, Bound(flow), Stored(flow, payload))
  <2> DEFINE bound == Bound(flow)
             stored == Stored(flow, payload)
  <2>1. /\ DOMAIN bound = DOMAIN bindings \cup {new}
        /\ \A id \in DOMAIN bindings : bound[id] = bindings[id]
    <3>1. bound = With(bindings, new, NewBinding(flow))
      BY DEF Bound
    <3> HIDE DEF bound, new
    <3> QED
      BY <1>6, <3>1 DEF With
  <2>2. \A key \in DOMAIN payloads : stored[key] = payloads[key]
    BY <1>1, AdmissionMatches
  <2>3. \A id \in DOMAIN bindings : PayloadKey(bindings[id]) \in DOMAIN payloads
    BY <1>5 DEF BindingsMatch
  <2>4. \A id \in DOMAIN bindings :
          /\ PayloadAt(id, bound, stored) = PayloadAt(id, bindings, payloads)
          /\ StageAt(id, inFlightEmissionId, bound) = StageAt(id, inFlightEmissionId, bindings)
    BY <2>1, <2>2, <2>3 DEF PayloadAt, StageAt
  <2>5. StageAt(new, inFlightEmissionId, bound) = "Waiting"
    BY <1>6 DEF StageAt
  <2>6. DeliveriesNow = [id \in DOMAIN bindings |->
                           [stage |-> StageAt(id, inFlightEmissionId, bindings),
                            payload |-> PayloadAt(id, bindings, payloads)]]
    BY MappingNow DEF DeliveriesOf
  <2> HIDE DEF bound, stored, new
  <2>7. DeliveriesOf(inFlightEmissionId, bound, stored) =
          [id \in DOMAIN bindings \cup {new} |->
             IF id = new THEN newcomer
             ELSE [stage |-> StageAt(id, inFlightEmissionId, bindings),
                   payload |-> PayloadAt(id, bindings, payloads)]]
    BY <1>3, <1>6, <2>1, <2>4, <2>5 DEF DeliveriesOf, stored, bound
  <2>8. grown = [id \in DOMAIN bindings \cup {new} |->
                   IF id = new THEN newcomer
                   ELSE [stage |-> StageAt(id, inFlightEmissionId, bindings),
                         payload |-> PayloadAt(id, bindings, payloads)]]
    BY <2>6 DEF With
  <2> QED
    BY <2>7, <2>8 DEF bound, stored
<1>8. \/ DeliveriesNow' = left
      \/ /\ \A id \in DOMAIN left : left[id].stage = "Waiting"
         /\ \E id \in DOMAIN left : DeliveriesNow' = [left EXCEPT ![id].stage = "Ready"]
  BY <1>1, <1>3, <1>4, <1>7, CommitMaps
<1>9. UsedNow' = UsedNow + 1 /\ UsedNow' = new
  BY <1>0, <1>1, UsedAdvances
<1>10. /\ DOMAIN left = (DOMAIN DeliveriesNow \cup {new}) \ ended
       /\ left[new] = newcomer
  <2> HIDE DEF newcomer, new, ended
  <2>1. /\ DOMAIN grown = DOMAIN DeliveriesNow \cup {new}
        /\ grown[new] = newcomer
    BY DEF With
  <2> HIDE DEF grown
  <2> QED
    BY <1>1, <2>1 DEF Without
<1>11. new \in DOMAIN DeliveriesNow' /\ DeliveriesNow'[new].payload = payload
  <2> HIDE DEF left, new
  <2>1. new \in DOMAIN left
    BY <1>1, <1>10
  <2>2. CASE DeliveriesNow' = left
    BY <1>10, <2>1, <2>2
  <2>3. ASSUME NEW id \in DOMAIN left, DeliveriesNow' = [left EXCEPT ![id].stage = "Ready"]
        PROVE  new \in DOMAIN DeliveriesNow' /\ DeliveriesNow'[new].payload = payload
    <3>1. CASE id = new
      BY <1>10, <2>1, <2>3, <3>1
    <3>2. CASE id # new
      BY <1>10, <2>1, <2>3, <3>2
    <3> QED
      BY <3>1, <3>2
  <2> QED
    BY <1>8, <2>2, <2>3
<1>12. ended \in SUBSET some
  BY <1>1, WaitingNow
<1>13. \A id \in some \ ended :
         payload.user = None \/ DeliveriesNow[id].payload.user # payload.user
  BY WaitingNow
<1>14. left = Delivery!Without(Delivery!With(DeliveriesNow, new, newcomer), ended)
  BY SameMaps
<1>15. outcome' = [status |-> "Accepted", emissionId |-> new, payload |-> None]
  BY <1>2 DEF Admission, Told
<1> HIDE DEF new, newcomer, grown, ended, left, some
<1>16. /\ newcomer = [stage |-> "Waiting", payload |-> DeliveriesNow'[UsedNow'].payload]
       /\ DeliveriesNow'[UsedNow'].payload = payload
       /\ UsedNow' \in DOMAIN DeliveriesNow'
  BY <1>9, <1>11 DEF newcomer
<1>17. \E gone \in SUBSET some :
         /\ \A id \in some \ gone :
              \/ DeliveriesNow'[UsedNow'].payload.user = None
              \/ DeliveriesNow[id].payload.user # DeliveriesNow'[UsedNow'].payload.user
         /\ LET rest == Delivery!Without(Delivery!With(DeliveriesNow, UsedNow',
                          [stage |-> "Waiting", payload |-> DeliveriesNow'[UsedNow'].payload]),
                          gone)
            IN  \/ DeliveriesNow' = rest
                \/ /\ \A id \in DOMAIN rest : rest[id].stage = "Waiting"
                   /\ \E id \in DOMAIN rest : DeliveriesNow' = [rest EXCEPT ![id].stage = "Ready"]
  <2>1. left = Delivery!Without(Delivery!With(DeliveriesNow, UsedNow',
                 [stage |-> "Waiting", payload |-> DeliveriesNow'[UsedNow'].payload]), ended)
    BY <1>9, <1>14, <1>16
  <2>2. \A id \in some \ ended :
          \/ DeliveriesNow'[UsedNow'].payload.user = None
          \/ DeliveriesNow[id].payload.user # DeliveriesNow'[UsedNow'].payload.user
    BY <1>13, <1>16
  <2> QED
    BY <1>8, <1>12, <2>1, <2>2, Zenon
<1>18. outcome' = [status |-> "Accepted", emissionId |-> UsedNow', payload |-> None]
  BY <1>9, <1>15
<1>19. Len(DeliveriesNow'[UsedNow'].payload.messages) =
         IF DeliveriesNow'[UsedNow'].payload.user = None THEN 0 ELSE 1
  BY <1>16
<1>20. UsedNow' = UsedNow + 1
  BY <1>9
<1>21. Delivery!Admit
  BY <1>16, <1>17, <1>18, <1>19, <1>20, Zenon
  DEF Delivery!Admit, Delivery!Advance, Delivery!At, DeliveriesNow, UsedNow, some
<1> QED
  BY <1>16, <1>21

\* Every family but chat: each admission is its own delivery, without user or messages.
LEMMA SubmitDecisionMaps ==
  ASSUME PipelineInv, PipelineInv', NEW flow \in Routes \ {Chat}, SubmitDecision(flow)
  PROVE  \/ /\ Delivery!Refuse
            /\ outcome'.status \in {"RejectedPayloadIdentityExhausted", "RejectedByCore"}
         \/ Delivery!Admit
<1> DEFINE payload == [user |-> None, userBytes |-> 0, messages |-> <<>>]
<1>0. IInv
  BY DEF PipelineInv
<1>1. CASE RejectPayload(flow)
  BY <1>1, RefuseMaps DEF RejectPayload, vars, queueVars, externalVars, Told
<1>2. ASSUME InsertPayload(flow), Enqueue(flow, 0, None)
      PROVE  \/ reply'.status # "Accepted" /\ UNCHANGED nextIdentity
             \/ \E record : record.envelope.flow = flow
                            /\ (Files(record) \/ FilesAndPumps(record))
  BY <1>0, <1>2, EnqueueShape, PipelineAssumption
<1>3. ASSUME InsertPayload(flow), Enqueue(flow, 0, None), RollbackNow
      PROVE  Delivery!Refuse /\ outcome'.status = "RejectedByCore"
  <2>1. reply'.status # "Accepted"
    BY <1>3 DEF RollbackNow
  <2>2. UNCHANGED nextIdentity
    BY <1>0, <1>2, <1>3, <2>1, FilingCommits DEF PipelineInv
  <2> QED
    BY <1>3, <2>2, RefuseMaps DEF RollbackNow, Told
<1>4. ASSUME InsertPayload(flow), Enqueue(flow, 0, None), reply'.status = "Accepted",
             Admission(flow, payload)
      PROVE  Delivery!Admit
  <2>1. payload \in Payload /\ FitsFlow(flow, payload)
    BY DEF Payload, FitsFlow
  <2>2. payload.user = None /\ Len(payload.messages) = 0
    OBVIOUS
  <2> HIDE DEF payload
  <2>3. PICK record : record.envelope.flow = flow /\ (Files(record) \/ FilesAndPumps(record))
    BY <1>2, <1>4
  <2> QED
    BY <1>4, <2>1, <2>2, <2>3, AdmitMaps
<1> QED
  BY <1>1, <1>3, <1>4 DEF SubmitDecision

\* An emission that waits with the user of a chat payload is the batch of that user.
LEMMA WaitingOfUser ==
  ASSUME PipelineInv, NEW id \in Pending(records), NEW user \in Users,
         PayloadOf(id).user = user
  PROVE  /\ user \in DOMAIN chatPendingBatches
         /\ chatPendingBatches[user].emissionId = id
         /\ chatPendingBatches[user].expiresAt = records[id].envelope.expiresAt
<1>1. id \in DOMAIN bindings
      /\ bindings[id].expectedFlow = records[id].envelope.flow
  BY DEF PipelineInv, BindingsMatchCore, Pending
<1>2. records[id].envelope.flow = Chat
  BY <1>1, PipelineAssumption DEF PipelineInv, BatchesMatchCore, FitsFlow
<1> QED
  BY <1>2 DEF PipelineInv, BatchesMatchCore, ContainsExact

\* A message without an open batch starts one: the batch its user had, if it still
\* waits, is due and leaves with the admission.
LEMMA OpenBatchMaps ==
  ASSUME MaxNow < MaxTime, PipelineInv, PipelineInv', NEW input \in ChatInputs,
         OpenBatch(input)
  PROVE  \/ Delivery!Refuse /\ outcome'.status = "RejectedByCore"
         \/ Delivery!Admit /\ DeliveriesNow'[UsedNow'].payload = ChatPayload(input, <<>>)
<1> DEFINE user == input.user
           payload == ChatPayload(input, <<>>)
<1>0. IInv /\ IInv' /\ Chat \in Routes /\ Chat \in FlowInputs /\ input.adjustment \in Adjustments
      /\ None \in TTLOverrides /\ input \in ChatInput
  BY PipelineAssumption DEF PipelineInv
<1>1. InsertPayload(Chat) /\ Enqueue(Chat, input.adjustment, None)
      /\ ChatDecision(input) = "Candidate" /\ ~IsBatchOpen(user)
  BY DEF OpenBatch
<1>2. \/ reply'.status # "Accepted" /\ UNCHANGED nextIdentity
      \/ \E record : record.envelope.flow = Chat
                     /\ (Files(record) \/ FilesAndPumps(record))
  BY <1>0, <1>1, EnqueueShape
<1>3. CASE RollbackNow
  <2>1. UNCHANGED nextIdentity
    BY <1>0, <1>2, <1>3, FilingCommits DEF RollbackNow
  <2> QED
    BY <1>3, <2>1, RefuseMaps DEF RollbackNow, Told
<1>4. CASE ~RollbackNow
  <2> DEFINE new == reply'.emission.emissionId
  <2>1. /\ reply'.status = "Accepted"
        /\ Admission(Chat, payload)
        /\ \/ new \in MadeReady(reply')
           \/ HasBatch(user) => chatPendingBatches[user].emissionId \in Ended(reply')
    BY <1>4 DEF OpenBatch
  <2>2. PICK record : record.envelope.flow = Chat /\ (Files(record) \/ FilesAndPumps(record))
    BY <1>2, <2>1
  <2>3. user \in Users /\ FitsFlow(Chat, payload) /\ user # None
    BY <1>0, <1>1, PipelineAssumption DEF ChatDecision, ChatInput, FitsFlow
  <2>4. payload \in Payload /\ payload.user = user /\ Len(payload.messages) = 1
    <3>1. Append(<<>>, input.bytes) \in Seq(Nat) /\ Len(Append(<<>>, input.bytes)) = 1
      BY <1>0 DEF ChatInput
    <3> QED
      BY <1>0, <3>1 DEF ChatPayload, Payload, ChatInput
  <2>5. ASSUME NEW id \in Pending(records), PayloadOf(id).user = user
        PROVE  id \in Ended(reply')
    <3>1. /\ HasBatch(user)
          /\ chatPendingBatches[user].emissionId = id
          /\ chatPendingBatches[user].expiresAt = records[id].envelope.expiresAt
      BY <2>3, <2>5, WaitingOfUser DEF HasBatch
    <3>2. ~(now < records[id].envelope.expiresAt)
      BY <1>1, <3>1 DEF IsBatchOpen
    <3>3. now \in Int /\ now <= MaxNow /\ MaxNow \in Int /\ MaxTime \in Int
          /\ records[id].envelope.expiresAt \in Int
      BY <1>0, CoreAssumption, TypesAssumption
         DEF IInv, TypeOK, Record, Envelope, Time, Pending
    <3>4. id \in DueIds(records)
      BY <3>2, <3>3 DEF DueIds, Due, Finite
    <3>5. CASE new \in MadeReady(reply')
      <4>1. reply'.pump # "NotRequested"
        BY <3>5 DEF MadeReady
      <4> QED
        BY <1>0, <2>2, <3>4, <4>1, FilingCommits
    <3>6. CASE HasBatch(user) => chatPendingBatches[user].emissionId \in Ended(reply')
      BY <3>1, <3>6
    <3> QED
      BY <2>1, <3>5, <3>6
  <2>6. payload = ChatPayload(input, <<>>)
    OBVIOUS
  <2> HIDE DEF payload, user
  <2>7. Delivery!Admit /\ DeliveriesNow'[UsedNow'].payload = payload
    BY <1>0, <1>1, <2>1, <2>2, <2>3, <2>4, <2>5, AdmitMaps
  <2> QED
    BY <2>6, <2>7
<1> QED
  BY <1>3, <1>4

\* A chat message, however it is answered.
LEMMA SubmitChatMaps ==
  ASSUME MaxNow < MaxTime, PipelineInv, PipelineInv', NEW input \in ChatInputs,
         SubmitChat(input) \/ SubmitChatThrows(input)
  PROVE  \/ /\ Delivery!Refuse
            /\ \/ SubmitChatThrows(input) /\ outcome'.status = "LogicError"
               \/ outcome'.status \in {"NoEmission", "RejectedInvalidInput",
                                       "RejectedSemanticLimit", "RejectedByCore",
                                       "RejectedPayloadIdentityExhausted"}
         \/ Delivery!Admit /\ DeliveriesNow'[UsedNow'].payload = ChatPayload(input, <<>>)
         \/ /\ Delivery!AppendMessage
            /\ \E messages \in Seq(Nat) :
                 DeliveriesNow'[outcome'.emissionId].payload = ChatPayload(input, messages)
<1> DEFINE Answered(status) == Delivery!Refuse /\ outcome'.status = status
<1>1. ASSUME UNCHANGED <<vars, externalVars>>,
             outcome'.status \notin {"Accepted", "Accumulated", "Dispatched", "Completed"}
      PROVE  Delivery!Refuse
  BY <1>1, RefuseMaps DEF vars, queueVars, externalVars
<1>2. ASSUME DeclineChat(input)
      PROVE  Answered("NoEmission") \/ Answered("RejectedSemanticLimit")
               \/ Answered("RejectedInvalidInput")
  <2>1. ChatDecision(input) \in {"NoEmission", "RejectedSemanticLimit", "RejectedInvalidInput"}
    BY <1>2 DEF DeclineChat, ChatDecision
  <2>2. outcome'.status = ChatDecision(input) /\ UNCHANGED <<vars, externalVars>>
    BY <1>2 DEF DeclineChat, Told
  <2> QED
    BY <1>1, <2>1, <2>2
<1>3. ASSUME RejectAppend(input) \/ RejectPayload(Chat)
      PROVE  Answered("RejectedSemanticLimit") \/ Answered("RejectedPayloadIdentityExhausted")
  BY <1>1, <1>3 DEF RejectAppend, RejectPayload, Told
<1>4. ASSUME SubmitChatThrows(input)
      PROVE  Answered("LogicError")
  <2>1. CASE outcome' = Told("LogicError", 0) /\ UNCHANGED <<vars, externalVars>>
    BY <1>1, <2>1 DEF Told
  <2>2. CASE ThrowAfterInsert(Chat)
    <3>1. outcome'.status = "LogicError"
      BY <2>2 DEF ThrowAfterInsert, Told
    <3>2. Delivery!Refuse
      BY <2>2, <3>1, RefuseMaps DEF ThrowAfterInsert, vars, queueVars
    <3> QED
      BY <3>1, <3>2
  <2> QED
    BY <1>4, <2>1, <2>2 DEF SubmitChatThrows
<1>5. ASSUME OpenBatch(input)
      PROVE  \/ Answered("RejectedByCore")
             \/ /\ Delivery!Admit
                /\ DeliveriesNow'[UsedNow'].payload = ChatPayload(input, <<>>)
  BY <1>5, OpenBatchMaps
<1>6. ASSUME Accumulate(input)
      PROVE  \/ Answered("RejectedByCore")
             \/ /\ Delivery!AppendMessage
                /\ \E messages \in Seq(Nat) :
                     DeliveriesNow'[outcome'.emissionId].payload = ChatPayload(input, messages)
  BY <1>6, AppendMaps
<1> QED
  BY <1>2, <1>3, <1>4, <1>5, <1>6 DEF SubmitChat

\* A completion ends the emission it names, or is rejected, or the coordinator throws.
LEMMA CompleteMaps ==
  ASSUME PipelineInv, PipelineInv', NEW id \in Identity \cup {0}, NEW succeeded \in BOOLEAN,
         NEW flow \in Routes, CompleteProcessing(id, succeeded, flow)
  PROVE  \/ Delivery!Refuse /\ outcome'.status = "LogicError"
         \/ Delivery!Refuse /\ outcome' = Told("RejectedCompletion", id)
         \/ Delivery!Finish /\ outcome' = Told("Completed", id)
<1>1. CASE /\ outcome' \in {Told("LogicError", 0), Told("RejectedCompletion", id)}
           /\ UNCHANGED <<vars, externalVars>>
  <2>1. outcome'.status \in {"LogicError", "RejectedCompletion"}
    BY <1>1 DEF Told
  <2>2. Delivery!Refuse
    BY <1>1, <2>1, RefuseMaps DEF vars, queueVars, externalVars
  <2> QED
    BY <1>1, <2>2 DEF Told
<1>2. CASE /\ id # 0
           /\ IsCompletionValid(id, flow)
           /\ CompleteInCore(id, succeeded)
           /\ CommitExternal(reply', bindings, payloads)
           /\ outcome' = Told("Completed", id)
  BY <1>2, FinishMaps
<1> QED
  BY <1>1, <1>2 DEF CompleteProcessing

\* Every step of the pipeline is a step of the deliveries.
LEMMA PipelineNextMaps ==
  ASSUME MaxNow < MaxTime, PipelineInv, PipelineInv', PipelineNext
  PROVE  Delivery!Next
<1>1. ASSUME NEW flow \in Routes, ThrowAfterInsert(flow)
      PROVE  Delivery!Refuse
  BY <1>1, RefuseMaps DEF ThrowAfterInsert, vars, queueVars, Told
<1>2. ASSUME NEW id \in Identity \cup {0}, NEW succeeded \in BOOLEAN, NEW flow \in Routes,
             CompleteProcessing(id, succeeded, flow)
      PROVE  Delivery!Refuse \/ Delivery!Finish
  BY <1>2, CompleteMaps
<1>3. ASSUME PassToCore
      PROVE  Delivery!Refuse
  <2>1. UNCHANGED nextIdentity
    BY <1>3 DEF PassToCore, UpdateFlowSettings, GetNextWakeTime, Tick
  <2> QED
    BY <1>3, <2>1, RefuseMaps DEF PassToCore, externalVars, Told
<1>4. \/ Delivery!Admit \/ Delivery!AppendMessage \/ Delivery!Begin
      \/ Delivery!Finish \/ Delivery!Maintain \/ Delivery!Refuse
  BY <1>1, <1>2, <1>3, SubmitDecisionMaps, SubmitChatMaps, BeginMaps, MaintainMaps
     DEF PipelineNext
<1> QED
  BY <1>4 DEF Delivery!Next

\* The coordinator, its queue, its bindings and its index implement the deliveries as
\* producers and handlers see them: each is admitted with its payload, grows at its end
\* while it waits, is handed out once with the payload it then has, and leaves once;
\* and a user never has two batches that grow.  The clock must not reach the instant
\* that stands for never: a batch that never expires would be neither open nor due then.
THEOREM PipelineImplementsDelivery ==
  ASSUME MaxNow < MaxTime
  PROVE  PipelineSpec => ImplementsDelivery
<1>1. PipelineInit => Delivery!Init
  <2>1. ASSUME PipelineInit
        PROVE  DeliveriesNow = [id \in {} |-> None] /\ UsedNow = 0
    BY <2>1, TypesAssumption DEF PipelineInit, Init, DeliveriesNow, UsedNow
  <2>2. ASSUME PipelineInit
        PROVE  outcome = [status |-> "Done", emissionId |-> 0, payload |-> None]
    BY <2>2 DEF PipelineInit, Told
  <2> QED
    BY <2>1, <2>2 DEF Delivery!Init, DeliveriesNow, UsedNow
<1>2. PipelineInv /\ PipelineInv' /\ [PipelineNext]_pipelineVars
        => [Delivery!Next]_(Delivery!vars)
  <2>1. ASSUME PipelineInv, PipelineInv', PipelineNext
        PROVE  Delivery!Next
    BY <2>1, PipelineNextMaps
  <2>2. ASSUME UNCHANGED pipelineVars
        PROVE  UNCHANGED Delivery!vars
    <3>1. DeliveriesNow' = DeliveriesNow /\ UsedNow' = UsedNow /\ outcome' = outcome
      BY <2>2 DEF pipelineVars, vars, queueVars, externalVars, DeliveriesNow, UsedNow,
                  PayloadOf, PayloadKey, IsReady
    <3> QED
      BY <3>1 DEF Delivery!vars, DeliveriesNow, UsedNow
  <2> QED
    BY <2>1, <2>2
<1> QED
  BY <1>1, <1>2, PipelineConsistent, PTL
     DEF PipelineSpec, ImplementsDelivery, Delivery!Spec
==============================================================================
