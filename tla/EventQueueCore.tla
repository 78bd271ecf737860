---------------------------- MODULE EventQueueCore ----------------------------
(***************************************************************************)
(* TikStudioEventQueueSystem: the shared queue that admits emissions,      *)
(* expires them, and hands out at most one at a time.                      *)
(*                                                                         *)
(* records is the only authority.  The two indexes are lazily cleaned      *)
(* heaps of keys: a key that no longer describes a Pending record stays in *)
(* its heap until it reaches the front.  A heap is a set here (its keys    *)
(* are pairwise different); what the program learns from it, its front,    *)
(* is the key that is ahead of all the others.  Two keys of one emission   *)
(* may tie, and then their order in the heap is unspecified.               *)
(*                                                                         *)
(* Every operation works on a copy of the state that a noexcept swap       *)
(* publishes (CommitPreparedMutation), so each is one step, and an         *)
(* operation whose caller throws before the swap is no step at all.        *)
(***************************************************************************)
EXTENDS EventQueueTypes, Sequences

CONSTANTS InitialSettings,            \* flow settings given to the constructor
          FlowInputs,                 \* flows of the requests, None if out of the enum
          SettingsInputs,             \* settings UpdateFlowSettings is called with
          Adjustments,                \* PriorityAdjustment of the requests
          TTLOverrides,               \* TTLOverride of the requests, None if absent
          NewScores,                  \* NewPriorityScore of the updates, None if absent
          ExpectedTimes,              \* ExpectedExpiresAt of the updates, None if absent
          bPumpAfterEnqueueWhenIdle,  \* Settings.Pump, fixed at construction
          bPumpAfterConfirm,
          MaxNow                      \* bound on the clock

ASSUME CoreAssumption ==
  /\ InitialSettings \in [Flow -> ValidFlowSettings]
  /\ FlowInputs \subseteq Flow \cup {None}
  /\ SettingsInputs \subseteq FlowSettings
  /\ Adjustments \subseteq Score
  /\ TTLOverrides \subseteq Int \cup {None}
  /\ NewScores \subseteq Score \cup {None}
  /\ ExpectedTimes \subseteq Time \cup {None}
  /\ bPumpAfterEnqueueWhenIdle \in BOOLEAN
  /\ bPumpAfterConfirm \in BOOLEAN
  /\ MaxNow \in Time

VARIABLES settings,            \* flow settings, read by admissions only
          now,                 \* what the NowProvider answers
          nextIdentity,        \* next emission identity, 0 when exhausted
          records,             \* the live emissions, by identity
          priorityIndex,       \* keys of the selection heap
          expirationIndex,     \* keys of the expiration heap
          inFlightEmissionId,  \* the emission handed out, 0 when idle
          reply                \* the result the last operation returned

queueVars == <<records, priorityIndex, expirationIndex, inFlightEmissionId>>
vars == <<settings, now, nextIdentity, queueVars, reply>>

Record == [envelope : Envelope, state : {"Pending", "InFlight"},
           expirePolicy : ExpirePolicy, effectiveTTL : Nat, revision : Revision]
PriorityKey == [priorityScore : Score, emissionId : Identity, revision : Revision]
ExpirationKey == [expiresAt : Time, emissionId : Identity, revision : Revision]
Operation == {"Construct", "Enqueue", "UpdateFlowSettings", "UpdatePendingScheduling",
              "Pump", "Confirm", "CancelInFlight", "ProcessDueExpirations",
              "GetNextWakeTime", "Tick"}
Status ==
  {"Done", "Accepted", "Updated", "Unchanged", "RejectedInvalidFlow", "RejectedDisabled",
   "RejectedInvalidTTL", "RejectedAtCapacity", "RejectedIdentityExhausted",
   "RejectedInvalidExpirePolicy", "RejectedInvalidRequest", "RejectedNotFound",
   "RejectedNotPending", "RejectedExpired", "RejectedExpectationMismatch",
   "RejectedRevisionExhausted", "NoInFlightEmission", "EmissionIdMismatch",
   "Confirmed", "Cancelled", "NoWakeScheduled", "WakeScheduled"}
Reply == [op : Operation, status : Status, emission : Envelope \cup {None},
          pump : PumpStatus, ready : Envelope \cup {None},
          events : Seq(Terminal), wake : Time \cup {None}]

\* The answer of an operation that reports nothing but its status.
Answer(op, status) ==
  [op |-> op, status |-> status, emission |-> None, pump |-> "NotRequested",
   ready |-> None, events |-> <<>>, wake |-> None]

TypeOK ==
  /\ settings \in [Flow -> ValidFlowSettings]
  /\ now \in 0..MaxNow
  /\ nextIdentity \in Identity \cup {0}
  /\ DOMAIN records \subseteq Identity
  /\ records \in [DOMAIN records -> Record]
  /\ priorityIndex \subseteq PriorityKey
  /\ expirationIndex \subseteq ExpirationKey
  /\ IsFiniteSet(expirationIndex)
  /\ inFlightEmissionId \in Identity \cup {0}
  /\ reply \in Reply
------------------------------------------------------------------------------
Pending(recs) == {id \in DOMAIN recs : recs[id].state = "Pending"}

PriorityKeyOf(record) ==
  [priorityScore |-> record.envelope.priorityScore,
   emissionId |-> record.envelope.emissionId, revision |-> record.revision]
ExpirationKeyOf(record) ==
  [expiresAt |-> record.envelope.expiresAt,
   emissionId |-> record.envelope.emissionId, revision |-> record.revision]

\* The keys an admission or an update pushes: no expiration key without expiry.
ExpirationKeysOf(record) ==
  IF Finite(record.envelope.expiresAt) THEN {ExpirationKeyOf(record)} ELSE {}

\* Mutations: a key is current for any revision of its record, or for the first
\* revision only.
PriorityEntryOfAnyRevision(key, recs) == key.emissionId \in Pending(recs)
ExpirationEntryOfAnyRevision(key, recs) == key.emissionId \in Pending(recs)
ExpirationEntryOfFirstRevision(key, recs) ==
  /\ key.emissionId \in Pending(recs)
  /\ key = ExpirationKeyOf(recs[key.emissionId])
  /\ key.revision = 1

IsPriorityEntryCurrent(key, recs) ==
  key.emissionId \in Pending(recs) /\ key = PriorityKeyOf(recs[key.emissionId])

IsExpirationEntryCurrent(key, recs) ==
  /\ key.emissionId \in Pending(recs)
  /\ key = ExpirationKeyOf(recs[key.emissionId])
  /\ Finite(key.expiresAt)

\* What a heap may hold after popping its front until a key of stops is there:
\* the keys behind the first stop, and any that tie with it, besides the stops.
AfterPops(index, stops, Ahead(_, _)) ==
  {kept \in SUBSET index :
     /\ stops \subseteq kept
     /\ \A key \in kept : \E stop \in stops : ~Ahead(key, stop)
     /\ \A key \in index \ kept : \A stop \in stops : ~Ahead(stop, key)}

DiscardStaleExpirationEntries(index, stops) == AfterPops(index, stops, ExpirationAhead)
DiscardStalePriorityEntries(index, stops) == AfterPops(index, stops, PriorityAhead)

\* ProcessDueExpirationsAt: the keys whose emissions expire, the heap that is
\* left once the first current key is not due, and the events in order.
DueKeys(recs, index) ==
  {key \in index : IsExpirationEntryCurrent(key, recs) /\ key.expiresAt <= now}

DueEmissions(recs, index) == {key.emissionId : key \in DueKeys(recs, index)}

AfterExpirations(recs, index) ==
  DiscardStaleExpirationEntries(
    index, {key \in index : IsExpirationEntryCurrent(key, recs) /\ key.expiresAt > now})

Expired(order, recs) ==
  [i \in DOMAIN order |->
     LET record == recs[order[i].emissionId]
     IN  [envelope |-> record.envelope,
          reason |-> ResolveExpirationTerminalReason(record.expirePolicy)]]

\* Mutation: the due emissions are told and stay.
WithDue(recs, index) == recs

WithoutDue(recs, index) == Without(recs, DueEmissions(recs, index))

\* PumpAt on the (possibly prepared) state given, on top of the answer so far.
PumpAt(recs, pIndex, eIndex, active, answer) ==
  LET left == WithoutDue(recs, eIndex)
      current == {key \in pIndex : IsPriorityEntryCurrent(key, left)}
  IN  \E order \in InExpirationOrder(DueKeys(recs, eIndex)) :
        LET told == [answer EXCEPT !.events = @ \o Expired(order, recs)]
        IN  /\ expirationIndex' \in AfterExpirations(recs, eIndex)
            /\ \/ /\ active # 0
                  /\ records' = left
                  /\ priorityIndex' = pIndex
                  /\ inFlightEmissionId' = active
                  /\ reply' = [told EXCEPT !.pump = "Busy"]
               \/ /\ active = 0
                  /\ current = {}
                  /\ records' = left
                  /\ priorityIndex' = {}
                  /\ inFlightEmissionId' = 0
                  /\ reply' = [told EXCEPT !.pump = "QueueEmpty"]
               \/ /\ active = 0
                  /\ \E front \in current :
                       LET id == front.emissionId
                       IN  /\ \A key \in current \ {front} : PriorityAhead(front, key)
                           /\ records' = [left EXCEPT ![id].state = "InFlight"]
                           /\ \E kept \in DiscardStalePriorityEntries(pIndex, current) :
                                priorityIndex' = kept \ {front}
                           /\ inFlightEmissionId' = id
                           /\ reply' = [told EXCEPT !.pump = "EmissionReady",
                                                    !.ready = left[id].envelope]
------------------------------------------------------------------------------
EffectiveTTL(flow, override) == IF override = None THEN settings[flow].ttl ELSE override

\* Records decide what is alive, InFlight included, expired or not: an emission
\* that is due still holds its slot until some operation terminates it.
IsFlowAtCapacity(flow, maxSlots) ==
  maxSlots <= Cardinality({id \in DOMAIN records : records[id].envelope.flow = flow})

\* Mutation: the counter starts again after the last identity.
AdvanceCounterOrWrap(counter) == IF counter = MaxIdentity THEN 1 ELSE counter + 1

\* The last identity is used and then the counter marks exhaustion for good.
AdvanceCounterOrMarkExhausted(counter) == IF counter = MaxIdentity THEN 0 ELSE counter + 1

EnqueueStatus(flow, override) ==
  IF flow \notin Flow THEN "RejectedInvalidFlow"
  ELSE IF ~settings[flow].bEnabled THEN "RejectedDisabled"
  ELSE IF EffectiveTTL(flow, override) < 0 THEN "RejectedInvalidTTL"
  ELSE IF IsFlowAtCapacity(flow, settings[flow].maxSlots) THEN "RejectedAtCapacity"
  ELSE IF nextIdentity = 0 THEN "RejectedIdentityExhausted"
  ELSE "Accepted"

\* The record an accepted request becomes, with its settings frozen.
Admitted(flow, adjustment, override) ==
  LET ttl == EffectiveTTL(flow, override)
  IN  [envelope |->
         [emissionId |-> nextIdentity, flow |-> flow,
          expiresAt |-> CalculateExpiresAt(now, ttl),
          priorityScore |-> CalculatePriorityScore(settings[flow].baseWeight, adjustment)],
       state |-> "Pending", expirePolicy |-> settings[flow].expirePolicy,
       effectiveTTL |-> ttl, revision |-> 1]

Enqueue(flow, adjustment, override) ==
  LET status == EnqueueStatus(flow, override)
  IN  \/ /\ status # "Accepted"
         /\ reply' = Answer("Enqueue", status)
         /\ UNCHANGED <<settings, now, nextIdentity, queueVars>>
      \/ /\ status = "Accepted"
         /\ nextIdentity' = AdvanceCounterOrMarkExhausted(nextIdentity)
         /\ LET record == Admitted(flow, adjustment, override)
                recs == With(records, nextIdentity, record)
                pIndex == priorityIndex \cup {PriorityKeyOf(record)}
                eIndex == expirationIndex \cup ExpirationKeysOf(record)
                answer == [Answer("Enqueue", status) EXCEPT !.emission = record.envelope]
            IN  IF bPumpAfterEnqueueWhenIdle /\ inFlightEmissionId = 0
                THEN PumpAt(recs, pIndex, eIndex, 0, answer)
                ELSE /\ records' = recs
                     /\ priorityIndex' = pIndex
                     /\ expirationIndex' = eIndex
                     /\ reply' = answer
                     /\ UNCHANGED inFlightEmissionId
         /\ UNCHANGED <<settings, now>>

\* Live emissions are not visited: only later admissions read the settings.
UpdateFlowSettings(flow, new) ==
  LET status == IF flow \notin Flow THEN "RejectedInvalidFlow"
                ELSE IF new.ttl < 0 THEN "RejectedInvalidTTL"
                ELSE IF new.expirePolicy \notin ExpirePolicy
                THEN "RejectedInvalidExpirePolicy"
                ELSE "Updated"
  IN  /\ reply' = Answer("UpdateFlowSettings", status)
      /\ settings' = IF status = "Updated" THEN [settings EXCEPT ![flow] = new] ELSE settings
      /\ UNCHANGED <<now, nextIdentity, queueVars>>
------------------------------------------------------------------------------
\* A refresh starts the frozen TTL again and never brings expiration forward.
Rescheduled(record, observedAt, refresh, newScore) ==
  LET candidate == CalculateExpiresAt(observedAt, record.effectiveTTL)
      old == record.envelope
  IN  [old EXCEPT
         !.expiresAt = IF refresh /\ candidate > @ THEN candidate ELSE @,
         !.priorityScore = IF newScore = None THEN @ ELSE newScore]

\* Mutation: being alive is enough.
IsLiveEmission(id) == id \in DOMAIN records

IsPendingEmission(id) == id \in DOMAIN records /\ records[id].state = "Pending"

UpdateStatus(id, observedAt, refresh, newScore, expected) ==
  IF id = 0 \/ (~refresh /\ newScore = None) \/ (newScore # None /\ newScore < 0)
  THEN "RejectedInvalidRequest"
  ELSE IF id \notin DOMAIN records THEN "RejectedNotFound"
  ELSE IF ~IsPendingEmission(id) THEN "RejectedNotPending"
  ELSE IF Due(records[id].envelope, observedAt) THEN "RejectedExpired"
  ELSE IF expected # None /\ expected # records[id].envelope.expiresAt
  THEN "RejectedExpectationMismatch"
  ELSE IF Rescheduled(records[id], observedAt, refresh, newScore) = records[id].envelope
  THEN "Unchanged"
  ELSE IF records[id].revision = MaxRevision THEN "RejectedRevisionExhausted"
  ELSE "Updated"

\* Both old keys become stale, whichever of the two fields changed.
UpdatePendingScheduling(id, observedAt, refresh, newScore, expected) ==
  LET status == UpdateStatus(id, observedAt, refresh, newScore, expected)
  IN  \/ /\ status = "Updated"
         /\ LET envelope == Rescheduled(records[id], observedAt, refresh, newScore)
                record == [records[id] EXCEPT !.envelope = envelope, !.revision = @ + 1]
            IN  /\ records' = [records EXCEPT ![id] = record]
                /\ priorityIndex' = priorityIndex \cup {PriorityKeyOf(record)}
                /\ expirationIndex' = expirationIndex \cup ExpirationKeysOf(record)
                /\ reply' = [Answer("UpdatePendingScheduling", status)
                               EXCEPT !.emission = envelope]
         /\ UNCHANGED <<settings, now, nextIdentity, inFlightEmissionId>>
      \/ /\ status # "Updated"
         /\ reply' = [Answer("UpdatePendingScheduling", status) EXCEPT
                        !.emission = IF status = "Unchanged"
                                     THEN records[id].envelope ELSE None]
         /\ UNCHANGED <<settings, now, nextIdentity, queueVars>>

Pump ==
  /\ PumpAt(records, priorityIndex, expirationIndex, inFlightEmissionId,
            Answer("Pump", "Done"))
  /\ UNCHANGED <<settings, now, nextIdentity>>
------------------------------------------------------------------------------
InFlightTargetStatus(id) ==
  IF inFlightEmissionId = 0 THEN "NoInFlightEmission"
  ELSE IF id # inFlightEmissionId THEN "EmissionIdMismatch"
  ELSE "Valid"

\* CompleteInFlight: the event is told, the record leaves, the queue is idle.
Completed == Without(records, {inFlightEmissionId})
CompletionAnswer(op, reason) ==
  [Answer(op, reason) EXCEPT
     !.events = <<[envelope |-> records[inFlightEmissionId].envelope, reason |-> reason]>>]

RejectCompletion(op, id) ==
  /\ InFlightTargetStatus(id) # "Valid"
  /\ reply' = Answer(op, InFlightTargetStatus(id))
  /\ UNCHANGED <<settings, now, nextIdentity, queueVars>>

\* Confirmed precedes the expirations its automatic pump tells of.
Confirm(id) ==
  \/ RejectCompletion("Confirm", id)
  \/ /\ InFlightTargetStatus(id) = "Valid"
     /\ LET answer == CompletionAnswer("Confirm", "Confirmed")
        IN  IF bPumpAfterConfirm
            THEN PumpAt(Completed, priorityIndex, expirationIndex, 0, answer)
            ELSE /\ records' = Completed
                 /\ inFlightEmissionId' = 0
                 /\ reply' = answer
                 /\ UNCHANGED <<priorityIndex, expirationIndex>>
     /\ UNCHANGED <<settings, now, nextIdentity>>

CancelInFlight(id) ==
  \/ RejectCompletion("CancelInFlight", id)
  \/ /\ InFlightTargetStatus(id) = "Valid"
     /\ records' = Completed
     /\ inFlightEmissionId' = 0
     /\ reply' = CompletionAnswer("CancelInFlight", "Cancelled")
     /\ UNCHANGED <<settings, now, nextIdentity, priorityIndex, expirationIndex>>

ProcessDueExpirations ==
  /\ \E order \in InExpirationOrder(DueKeys(records, expirationIndex)) :
       reply' = [Answer("ProcessDueExpirations", "Done") EXCEPT
                   !.events = Expired(order, records)]
  /\ records' = WithoutDue(records, expirationIndex)
  /\ expirationIndex' \in AfterExpirations(records, expirationIndex)
  /\ UNCHANGED <<settings, now, nextIdentity, priorityIndex, inFlightEmissionId>>

\* The one query that writes: it pops the stale front of the expiration heap.
GetNextWakeTime ==
  LET current == {key \in expirationIndex : IsExpirationEntryCurrent(key, records)}
  IN  /\ expirationIndex' \in DiscardStaleExpirationEntries(expirationIndex, current)
      /\ \/ /\ current = {}
            /\ reply' = Answer("GetNextWakeTime", "NoWakeScheduled")
         \/ \E front \in current :
              /\ \A key \in current \ {front} : ExpirationAhead(front, key)
              /\ reply' = [Answer("GetNextWakeTime", "WakeScheduled") EXCEPT
                             !.wake = front.expiresAt]
      /\ UNCHANGED <<settings, now, nextIdentity, records, priorityIndex,
                     inFlightEmissionId>>

\* The clock is monotonic (steady_clock) and moves between operations.
Tick ==
  /\ now < MaxNow
  /\ now' = now + 1
  /\ reply' = Answer("Tick", "Done")
  /\ UNCHANGED <<settings, nextIdentity, queueVars>>
------------------------------------------------------------------------------
Init ==
  /\ settings = InitialSettings
  /\ now = 0
  /\ nextIdentity = 1
  /\ records = [id \in {} |-> None]
  /\ priorityIndex = {}
  /\ expirationIndex = {}
  /\ inFlightEmissionId = 0
  /\ reply = Answer("Construct", "Done")

Next ==
  \/ \E flow \in FlowInputs, adjustment \in Adjustments, override \in TTLOverrides :
       Enqueue(flow, adjustment, override)
  \/ \E flow \in FlowInputs, new \in SettingsInputs : UpdateFlowSettings(flow, new)
  \/ \E id \in Identity \cup {0}, refresh \in BOOLEAN, newScore \in NewScores,
        expected \in ExpectedTimes :
       UpdatePendingScheduling(id, now, refresh, newScore, expected)
  \/ Pump
  \/ \E id \in Identity : Confirm(id)
  \/ \E id \in Identity : CancelInFlight(id)
  \/ ProcessDueExpirations
  \/ GetNextWakeTime
  \/ Tick

Spec == Init /\ [][Next]_vars

\* The host processes due expirations at the start of every cycle it runs.
FairSpec == Spec /\ WF_vars(ProcessDueExpirations)
------------------------------------------------------------------------------
(* Properties *)

\* The emission located by InFlightEmissionId is the one record InFlight, and
\* there is no other: HasInFlightEmission never throws its logic_error.
InFlightCoherent ==
  /\ inFlightEmissionId # 0 => inFlightEmissionId \in DOMAIN records
  /\ \A id \in DOMAIN records :
       (records[id].state = "InFlight") <=> (id = inFlightEmissionId)

\* Lazy cleaning never loses an emission: whatever updates, pops and swaps came
\* before, each Pending record has its current key in the selection heap and,
\* if it can expire, in the expiration heap.
IndexesComplete ==
  \A id \in Pending(records) :
    /\ PriorityKeyOf(records[id]) \in priorityIndex
    /\ ExpirationKeysOf(records[id]) \subseteq expirationIndex

\* Records are filed under their own identity, an identity already handed out; a
\* key speaks of an identity handed out too, and never of a later revision than
\* its record has reached.
RecordsKeyed ==
  \A id \in DOMAIN records :
    /\ records[id].envelope.emissionId = id
    /\ nextIdentity = 0 \/ id < nextIdentity

KeysFromPast ==
  \A key \in priorityIndex \cup expirationIndex :
    /\ nextIdentity = 0 \/ key.emissionId < nextIdentity
    /\ key.emissionId \in DOMAIN records => key.revision <= records[key.emissionId].revision

\* The inductive invariant: what any operation may rely on when it starts.
IInv == TypeOK /\ RecordsKeyed /\ InFlightCoherent /\ IndexesComplete /\ KeysFromPast

\* A key that went stale never describes a record again: no sequence of updates,
\* terminals and admissions reuses an identity and revision.
StaleKeysStayStale ==
  [][/\ \A key \in priorityIndex \cap priorityIndex' :
          IsPriorityEntryCurrent(key, records)' => IsPriorityEntryCurrent(key, records)
     /\ \A key \in expirationIndex \cap expirationIndex' :
          IsExpirationEntryCurrent(key, records)' => IsExpirationEntryCurrent(key, records)
    ]_vars

\* A due emission that waits is out of reach: no operation hands it out, renews
\* it or changes it.  It stays as it is until some operation tells its expiration
\* ("nunca revive una emision vencida", PROJECT_CONTEXT.md section 7).
DueNeverRevived ==
  [][\A id \in Pending(records) :
       Due(records[id].envelope, now) =>
         \/ id \in DOMAIN records' /\ records'[id] = records[id]
         \/ /\ id \notin DOMAIN records'
            /\ \E i \in DOMAIN reply'.events :
                 /\ reply'.events[i].envelope = records[id].envelope
                 /\ reply'.events[i].reason =
                      ResolveExpirationTerminalReason(records[id].expirePolicy)]_vars

\* The events an operation returns are exactly the emissions that left, one each, with the
\* envelope they had and the reason they left for: what was in flight by the operation that
\* completes it, what waited by its policy. The completion leads, and the expirations
\* follow in the order in which they fell due, first admitted first.
TerminalExactlyOnce ==
  [][LET gone == DOMAIN records \ DOMAIN records'
         told == reply'.events
         IsCompletion(terminal) == terminal.envelope.emissionId = inFlightEmissionId
     IN  /\ Len(told) = Cardinality(gone)
         /\ \A id \in gone :
              \E i \in DOMAIN told :
                /\ told[i].envelope = records[id].envelope
                /\ IF id = inFlightEmissionId
                   THEN <<reply'.op, told[i].reason>> \in
                          {<<"Confirm", "Confirmed">>, <<"CancelInFlight", "Cancelled">>}
                   ELSE told[i].reason =
                          ResolveExpirationTerminalReason(records[id].expirePolicy)
         /\ \A i, j \in DOMAIN told :
              i < j => /\ ~IsCompletion(told[j])
                       /\ \/ IsCompletion(told[i])
                          \/ ExpirationAhead(told[i].envelope, told[j].envelope)]_vars

\* What a pump hands out was waiting, is not due and is the best of all that wait;
\* it answers empty only if nothing waits and busy only if something is out.
SelectionIsBest ==
  [][/\ reply'.pump = "EmissionReady" =>
          LET id == inFlightEmissionId'
          IN  /\ reply'.ready = records'[id].envelope
              /\ ~Due(reply'.ready, now)
              /\ \A other \in Pending(records)' :
                   PriorityAhead(reply'.ready, records'[other].envelope)
     /\ reply'.pump = "QueueEmpty" => DOMAIN records' = {}
     /\ reply'.pump = "Busy" => /\ inFlightEmissionId # 0
                             /\ inFlightEmissionId' = inFlightEmissionId]_vars

\* Live emissions keep what was frozen at admission, expiration only moves later,
\* an emission handed out never changes and never goes back to waiting, and no
\* settings update reaches any of them.
SnapshotsKept ==
  [][\A id \in DOMAIN records \cap DOMAIN records' :
       LET old == records[id]
           new == records'[id]
       IN  /\ new.expirePolicy = old.expirePolicy
           /\ new.effectiveTTL = old.effectiveTTL
           /\ new.envelope.flow = old.envelope.flow
           /\ new.envelope.expiresAt >= old.envelope.expiresAt
           /\ old.state = "InFlight" => new = old
           /\ new # old => /\ settings' = settings
                           /\ id = inFlightEmissionId' \/ new.revision > old.revision]_vars

\* An emission that is due and waits is eventually told as expired, provided due
\* expirations are processed again and again.
DueEventuallyTold ==
  \A id \in Identity :
    (id \in Pending(records) /\ Due(records[id].envelope, now)) ~> (id \notin DOMAIN records)

\* The queue as its callers see it: the scheduler of EventScheduler, with the
\* indexes, the revisions and the settings hidden.
Scheduler == INSTANCE EventScheduler WITH
  live <- [id \in DOMAIN records |-> [envelope |-> records[id].envelope,
                                      expirePolicy |-> records[id].expirePolicy]],
  inFlight <- inFlightEmissionId,
  used <- IF nextIdentity = 0 THEN MaxIdentity ELSE nextIdentity - 1,
  answer <- [emission |-> reply.emission, pump |-> reply.pump, ready |-> reply.ready,
             events |-> reply.events, wake |-> reply.wake]

ImplementsScheduler == Scheduler!Spec
==============================================================================
