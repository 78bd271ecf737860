---------------------- MODULE EventQueueCoreStepProofs ----------------------
(***************************************************************************)
(* What a step of EventQueueCore may do, for every value of its constants: *)
(* the action properties that the runs check, from the inductive invariant *)
(* of EventQueueCoreProofs.  They rest on one description of PumpAt, the   *)
(* step in which an operation expires, selects and answers at once.        *)
(*                                                                         *)
(* Then, that every step is one of EventScheduler: the indexes, the        *)
(* revisions and the settings are invisible to the callers of the queue.   *)
(***************************************************************************)
EXTENDS EventQueueCoreProofs

\* The emissions of a state that wait and are due.
DueIds(recs) == {id \in Pending(recs) : Due(recs[id].envelope, now)}
------------------------------------------------------------------------------
\* The expiration heap finds exactly the waiting emissions that are due: their
\* keys are there, whatever stale keys lie among them.
LEMMA DueKeysExact ==
  ASSUME NEW recs, NEW pIndex, NEW eIndex, NEW active,
         PreparedInv(recs, pIndex, eIndex, active)
  PROVE  /\ DueKeys(recs, eIndex) = {ExpirationKeyOf(recs[id]) : id \in DueIds(recs)}
         /\ DueEmissions(recs, eIndex) = DueIds(recs)
<1>1. ASSUME NEW id \in DueIds(recs)
      PROVE  /\ ExpirationKeyOf(recs[id]) \in DueKeys(recs, eIndex)
             /\ ExpirationKeyOf(recs[id]).emissionId = id
  <2> DEFINE key == ExpirationKeyOf(recs[id])
  <2>1. id \in Pending(recs) /\ id \in DOMAIN recs
    BY DEF DueIds, Pending
  <2>2. Finite(recs[id].envelope.expiresAt) /\ recs[id].envelope.expiresAt <= now
    BY DEF DueIds, Due
  <2>3. ExpirationKeysOf(recs[id]) = {key}
    BY <2>2 DEF ExpirationKeysOf
  <2>4. key \in eIndex
    BY <2>1, <2>3 DEF PreparedInv
  <2>5. recs[id].envelope.emissionId = id
    BY <2>1 DEF PreparedInv
  <2>6. key.emissionId = id /\ key.expiresAt = recs[id].envelope.expiresAt
    BY <2>5 DEF ExpirationKeyOf
  <2>7. IsExpirationEntryCurrent(key, recs)
    BY <2>1, <2>2, <2>6 DEF IsExpirationEntryCurrent
  <2> QED
    BY <2>2, <2>4, <2>6, <2>7 DEF DueKeys
<1>2. ASSUME NEW key \in DueKeys(recs, eIndex)
      PROVE  key.emissionId \in DueIds(recs) /\ key = ExpirationKeyOf(recs[key.emissionId])
  <2>1. /\ key.emissionId \in Pending(recs)
        /\ key = ExpirationKeyOf(recs[key.emissionId])
        /\ Finite(key.expiresAt)
        /\ key.expiresAt <= now
    BY DEF DueKeys, IsExpirationEntryCurrent
  <2>2. key.expiresAt = recs[key.emissionId].envelope.expiresAt
    BY <2>1 DEF ExpirationKeyOf
  <2> QED
    BY <2>1, <2>2 DEF DueIds, Due
<1>3. DueKeys(recs, eIndex) = {ExpirationKeyOf(recs[id]) : id \in DueIds(recs)}
  BY <1>1, <1>2
<1>4. DueEmissions(recs, eIndex) = DueIds(recs)
  BY <1>1, <1>2 DEF DueEmissions
<1> QED
  BY <1>3, <1>4

\* There are as many keys that are due as emissions, and both are finitely many.
LEMMA DueCount ==
  ASSUME NEW recs, NEW pIndex, NEW eIndex, NEW active,
         PreparedInv(recs, pIndex, eIndex, active)
  PROVE  /\ IsFiniteSet(DueKeys(recs, eIndex)) /\ IsFiniteSet(DueIds(recs))
         /\ Cardinality(DueKeys(recs, eIndex)) \in Nat
         /\ Cardinality(DueIds(recs)) = Cardinality(DueKeys(recs, eIndex))
<1> DEFINE keys == DueKeys(recs, eIndex)
           ids == DueIds(recs)
           IdOf == [key \in keys |-> key.emissionId]
<1>1. IsFiniteSet(keys)
  BY FS_Subset DEF PreparedInv, PreparedTypeOK, DueKeys
<1>2. keys = {ExpirationKeyOf(recs[id]) : id \in ids}
  BY DueKeysExact
<1>3. \A id \in ids : ExpirationKeyOf(recs[id]).emissionId = id
  BY DEF PreparedInv, DueIds, Pending, ExpirationKeyOf
<1> HIDE DEF keys, ids
<1>4. IdOf \in [keys -> ids]
  BY <1>2, <1>3
<1>5. \A a, b \in keys : IdOf[a] = IdOf[b] => a = b
  BY <1>2, <1>3
<1>6. \A id \in ids : \E key \in keys : IdOf[key] = id
  BY <1>2, <1>3
<1> HIDE DEF IdOf
<1>7. IdOf \in Bijection(keys, ids)
  BY <1>4, <1>5, <1>6 DEF Bijection, Injection, Surjection, IsInjective
<1>8. ExistsBijection(keys, ids)
  BY <1>7 DEF ExistsBijection
<1>9. IsFiniteSet(ids) /\ Cardinality(ids) = Cardinality(keys)
  BY <1>1, <1>8, FS_Bijection
<1>10. Cardinality(keys) \in Nat
  BY <1>1, FS_CardinalityType
<1> QED
  BY <1>1, <1>9, <1>10 DEF keys, ids

\* The events of a sequence of due keys are one for each emission that is due,
\* with its envelope and the reason of its policy, and no others, each before the
\* ones that fell due after it.
LEMMA ExpiredTells ==
  ASSUME NEW recs, NEW pIndex, NEW eIndex, NEW active,
         PreparedInv(recs, pIndex, eIndex, active),
         NEW order \in InExpirationOrder(DueKeys(recs, eIndex))
  PROVE  /\ Expired(order, recs) \in Seq(Terminal)
         /\ Len(Expired(order, recs)) = Cardinality(DueIds(recs))
         /\ \A id \in DueIds(recs) : \E i \in 1..Len(Expired(order, recs)) :
              /\ Expired(order, recs)[i].envelope = recs[id].envelope
              /\ Expired(order, recs)[i].reason =
                   ResolveExpirationTerminalReason(recs[id].expirePolicy)
         /\ \A i \in 1..Len(Expired(order, recs)) : \E id \in DueIds(recs) :
              Expired(order, recs)[i].envelope = recs[id].envelope
         /\ \A i, j \in 1..Len(Expired(order, recs)) :
              i < j => ExpirationAhead(Expired(order, recs)[i].envelope,
                                       Expired(order, recs)[j].envelope)
<1> DEFINE keys == DueKeys(recs, eIndex)
           told == Expired(order, recs)
<1>1. told \in Seq(Terminal)
  BY ExpiredType DEF PreparedInv, DueKeys
<1>2. /\ order \in [1..Cardinality(keys) -> keys]
      /\ \A key \in keys : \E i \in DOMAIN order : order[i] = key
  BY DEF InExpirationOrder
<1>3. Cardinality(keys) \in Nat /\ Cardinality(DueIds(recs)) = Cardinality(keys)
  BY DueCount
<1>4. /\ DOMAIN told = 1..Cardinality(keys)
      /\ \A i \in DOMAIN order :
           told[i] = [envelope |-> recs[order[i].emissionId].envelope,
                      reason |-> ResolveExpirationTerminalReason(
                                   recs[order[i].emissionId].expirePolicy)]
  BY <1>2 DEF Expired
<1>5. Len(told) = Cardinality(keys)
  BY <1>1, <1>3, <1>4, LenProperties
<1>6. ASSUME NEW id \in DueIds(recs)
      PROVE  \E i \in 1..Len(told) :
               /\ told[i].envelope = recs[id].envelope
               /\ told[i].reason = ResolveExpirationTerminalReason(recs[id].expirePolicy)
  <2>1. ExpirationKeyOf(recs[id]) \in keys
    BY DueKeysExact
  <2>2. ExpirationKeyOf(recs[id]).emissionId = id
    BY DEF PreparedInv, DueIds, Pending, ExpirationKeyOf
  <2>3. PICK i \in DOMAIN order : order[i].emissionId = id
    BY <1>2, <2>1, <2>2
  <2> QED
    BY <1>2, <1>4, <1>5, <2>3
<1>7. ASSUME NEW i \in 1..Len(told)
      PROVE  \E id \in DueIds(recs) : told[i].envelope = recs[id].envelope
  <2>1. i \in DOMAIN order /\ order[i] \in keys
    BY <1>2, <1>5
  <2>2. order[i].emissionId \in DueIds(recs)
    BY <2>1, DueKeysExact DEF DueEmissions
  <2> DEFINE record == recs[order[i].emissionId]
  <2>3. told[i] = [envelope |-> record.envelope,
                   reason |-> ResolveExpirationTerminalReason(record.expirePolicy)]
    BY <2>1 DEF Expired
  <2>4. told[i].envelope = record.envelope
    BY <2>3
  <2> HIDE DEF told
  <2> QED
    BY <2>2, <2>4, Zenon
<1>8. ASSUME NEW i \in 1..Len(told)
      PROVE  /\ i \in DOMAIN order
             /\ told[i].envelope.expiresAt = order[i].expiresAt
             /\ told[i].envelope.emissionId = order[i].emissionId
  <2> DEFINE id == order[i].emissionId
  <2>1. i \in DOMAIN order /\ order[i] \in keys
    BY <1>2, <1>5
  <2>2. order[i] = ExpirationKeyOf(recs[id])
    BY <2>1 DEF DueKeys, IsExpirationEntryCurrent
  <2> DEFINE record == recs[id]
  <2>3. told[i] = [envelope |-> record.envelope,
                   reason |-> ResolveExpirationTerminalReason(record.expirePolicy)]
    BY <2>1 DEF Expired
  <2> HIDE DEF told, record
  <2>4. /\ ExpirationKeyOf(recs[id]).expiresAt = recs[id].envelope.expiresAt
        /\ ExpirationKeyOf(recs[id]).emissionId = recs[id].envelope.emissionId
    BY DEF ExpirationKeyOf
  <2>5. told[i].envelope = record.envelope
    BY <2>3
  <2> HIDE DEF id
  <2> QED
    BY <2>1, <2>2, <2>4, <2>5 DEF record
<1>9. \A i, j \in DOMAIN order : i < j => ExpirationAhead(order[i], order[j])
  BY DEF InExpirationOrder
<1> HIDE DEF told
<1>10. \A i, j \in 1..Len(told) :
         i < j => ExpirationAhead(told[i].envelope, told[j].envelope)
  BY <1>8, <1>9 DEF ExpirationAhead
<1> QED
  BY <1>1, <1>3, <1>5, <1>6, <1>7, <1>10 DEF told
------------------------------------------------------------------------------
\* What PumpAt does to a prepared state: it takes out the emissions that are due
\* and tells of each, changes nothing in those it leaves except that it hands one
\* out, and hands out the best that waits, if nothing is out and anything waits.
PumpEffect(recs, active, answer, told) ==
  /\ DOMAIN records' = DOMAIN recs \ DueIds(recs)
  /\ \A id \in DOMAIN records' : records'[id] \in
       {recs[id], [recs[id] EXCEPT !.state = "InFlight"]}
  /\ \A id \in DOMAIN records' \ {inFlightEmissionId'} : records'[id] = recs[id]
  /\ reply'.events = answer.events \o told
  /\ reply'.emission = answer.emission /\ reply'.wake = answer.wake
  /\ reply'.status = answer.status /\ reply'.op = answer.op
  /\ \/ /\ active # 0
        /\ inFlightEmissionId' = active
        /\ \A id \in DOMAIN records' : records'[id] = recs[id]
        /\ reply'.pump = "Busy" /\ reply'.ready = answer.ready
     \/ /\ active = 0
        /\ inFlightEmissionId' = 0
        /\ DOMAIN records' = {}
        /\ reply'.pump = "QueueEmpty" /\ reply'.ready = answer.ready
     \/ /\ active = 0
        /\ inFlightEmissionId' \in DOMAIN records'
        /\ inFlightEmissionId' \in Pending(recs)
        /\ reply'.pump = "EmissionReady"
        /\ reply'.ready = recs[inFlightEmissionId'].envelope
        /\ \A other \in DOMAIN records' \ {inFlightEmissionId'} :
             PriorityAhead(recs[inFlightEmissionId'].envelope, recs[other].envelope)

\* PumpAt does that to every prepared state, whatever stale keys its heaps hold.
LEMMA PumpOutcome ==
  ASSUME NEW recs, NEW pIndex, NEW eIndex, NEW active, NEW answer \in Reply,
         PreparedInv(recs, pIndex, eIndex, active), now \in Int,
         PumpAt(recs, pIndex, eIndex, active, answer)
  PROVE  \E order \in InExpirationOrder(DueKeys(recs, eIndex)) :
           PumpEffect(recs, active, answer, Expired(order, recs))
<1> DEFINE left == WithoutDue(recs, eIndex)
           current == {key \in pIndex : IsPriorityEntryCurrent(key, left)}
           Told(order) == [answer EXCEPT !.events = @ \o Expired(order, recs)]
<1>0. left = Without(recs, DueIds(recs))
  BY DueKeysExact DEF WithoutDue
<1>1. DOMAIN left = DOMAIN recs \ DueIds(recs)
  BY <1>0, WithoutProperties
<1>2. \A id \in DOMAIN left : left[id] = recs[id]
  <2>1. \A id \in DOMAIN recs \ DueIds(recs) : Without(recs, DueIds(recs))[id] = recs[id]
    BY WithoutProperties
  <2> HIDE DEF left
  <2> QED
    BY <1>0, <1>1, <2>1, Zenon
<1>3. PICK kept \in AfterExpirations(recs, eIndex) : TRUE
  BY DEF PumpAt
<1>4. PreparedInv(left, pIndex, kept, active)
  BY ExpirationsPreserve
<1>5. PICK order \in InExpirationOrder(DueKeys(recs, eIndex)) :
        \/ /\ active # 0
           /\ records' = left
           /\ inFlightEmissionId' = active
           /\ reply' = [Told(order) EXCEPT !.pump = "Busy"]
        \/ /\ active = 0
           /\ current = {}
           /\ records' = left
           /\ inFlightEmissionId' = 0
           /\ reply' = [Told(order) EXCEPT !.pump = "QueueEmpty"]
        \/ /\ active = 0
           /\ \E front \in current :
                /\ \A key \in current \ {front} : PriorityAhead(front, key)
                /\ records' = [left EXCEPT ![front.emissionId].state = "InFlight"]
                /\ inFlightEmissionId' = front.emissionId
                /\ reply' = [Told(order) EXCEPT !.pump = "EmissionReady",
                                                !.ready = left[front.emissionId].envelope]
  BY DEF PumpAt
<1> DEFINE events == answer.events \o Expired(order, recs)
           Common == /\ DOMAIN records' = DOMAIN recs \ DueIds(recs)
                     /\ \A id \in DOMAIN records' : records'[id] \in
                          {recs[id], [recs[id] EXCEPT !.state = "InFlight"]}
                     /\ \A id \in DOMAIN records' \ {inFlightEmissionId'} :
                          records'[id] = recs[id]
                     /\ reply'.events = events
                     /\ reply'.emission = answer.emission /\ reply'.wake = answer.wake
                     /\ reply'.status = answer.status /\ reply'.op = answer.op
           Busy == /\ active # 0
                   /\ inFlightEmissionId' = active
                   /\ \A id \in DOMAIN records' : records'[id] = recs[id]
                   /\ reply'.pump = "Busy" /\ reply'.ready = answer.ready
           Empty == /\ active = 0
                    /\ inFlightEmissionId' = 0
                    /\ DOMAIN records' = {}
                    /\ reply'.pump = "QueueEmpty" /\ reply'.ready = answer.ready
           Ready == /\ active = 0
                    /\ inFlightEmissionId' \in DOMAIN records'
                    /\ inFlightEmissionId' \in Pending(recs)
                    /\ reply'.pump = "EmissionReady"
                    /\ reply'.ready = recs[inFlightEmissionId'].envelope
                    /\ \A other \in DOMAIN records' \ {inFlightEmissionId'} :
                         PriorityAhead(recs[inFlightEmissionId'].envelope,
                                       recs[other].envelope)
<1>6. \A status, envelope :
        LET plain == [Told(order) EXCEPT !.pump = status]
            ready == [Told(order) EXCEPT !.pump = status, !.ready = envelope]
        IN  /\ plain.events = events /\ ready.events = events
            /\ plain.emission = answer.emission /\ ready.emission = answer.emission
            /\ plain.wake = answer.wake /\ ready.wake = answer.wake
            /\ plain.status = answer.status /\ ready.status = answer.status
            /\ plain.op = answer.op /\ ready.op = answer.op
            /\ plain.pump = status /\ ready.pump = status
            /\ plain.ready = answer.ready /\ ready.ready = envelope
  BY DEF Reply
<1> HIDE DEF Told, events, left
<1>7. ASSUME active # 0,
             records' = left,
             inFlightEmissionId' = active,
             reply' = [Told(order) EXCEPT !.pump = "Busy"]
      PROVE  Common /\ Busy
  BY <1>1, <1>2, <1>6, <1>7
<1>8. ASSUME active = 0,
             current = {},
             records' = left,
             inFlightEmissionId' = 0,
             reply' = [Told(order) EXCEPT !.pump = "QueueEmpty"]
      PROVE  Common /\ Empty
  <2>1. DOMAIN left = {}
    BY <1>4, <1>8, EmptyPreserves
  <2> QED
    BY <1>1, <1>2, <1>6, <1>8, <2>1
<1>9. ASSUME active = 0,
             NEW front \in current,
             \A key \in current \ {front} : PriorityAhead(front, key),
             records' = [left EXCEPT ![front.emissionId].state = "InFlight"],
             inFlightEmissionId' = front.emissionId,
             reply' = [Told(order) EXCEPT !.pump = "EmissionReady",
                                          !.ready = left[front.emissionId].envelope]
      PROVE  Common /\ Ready
  <2> DEFINE id == front.emissionId
  <2>1. id \in Pending(left) /\ id \in DOMAIN left /\ front = PriorityKeyOf(left[id])
    BY DEF IsPriorityEntryCurrent, Pending
  <2>2. id \in Pending(recs) /\ left[id] = recs[id]
    BY <1>1, <1>2, <2>1 DEF Pending
  <2>3. /\ DOMAIN records' = DOMAIN left
        /\ \A j \in DOMAIN left \ {id} : records'[j] = recs[j]
        /\ records'[id] = [recs[id] EXCEPT !.state = "InFlight"]
    BY <1>2, <1>9, <2>1, <2>2
  <2>4. Common
    BY <1>1, <1>6, <1>9, <2>3
  <2>5. ASSUME NEW other \in DOMAIN records' \ {id}
        PROVE  PriorityAhead(recs[id].envelope, recs[other].envelope)
    <3> DEFINE key == PriorityKeyOf(left[other])
    <3>1. other \in DOMAIN left
      BY <2>3
    <3>2. left[other].state \in {"Pending", "InFlight"}
      BY <1>4, <3>1 DEF PreparedInv, PreparedTypeOK, Record
    <3>3. other # 0
      BY <1>4, <3>1, TypesAssumption DEF PreparedInv, PreparedTypeOK, Identity
    <3>4. other \in Pending(left)
      BY <1>4, <1>9, <3>1, <3>2, <3>3 DEF PreparedInv, Pending
    <3>5. left[other].envelope.emissionId = other /\ left[id].envelope.emissionId = id
      BY <1>4, <2>1, <3>1 DEF PreparedInv
    <3>6. key \in pIndex /\ key.emissionId = other
      BY <1>4, <3>4, <3>5 DEF PreparedInv, PriorityKeyOf
    <3>7. key \in current \ {front}
      BY <2>5, <3>4, <3>6 DEF IsPriorityEntryCurrent
    <3>8. PriorityAhead(front, key)
      BY <1>9, <3>7
    <3>9. /\ front.priorityScore = recs[id].envelope.priorityScore
          /\ front.emissionId = recs[id].envelope.emissionId
          /\ key.priorityScore = recs[other].envelope.priorityScore
          /\ key.emissionId = recs[other].envelope.emissionId
      BY <1>2, <2>1, <2>2, <3>1 DEF PriorityKeyOf
    <3> HIDE DEF key
    <3> QED
      BY <3>8, <3>9 DEF PriorityAhead
  <2>6. reply'.pump = "EmissionReady" /\ reply'.ready = recs[id].envelope
    BY <1>6, <1>9, <2>2
  <2> QED
    BY <1>9, <2>1, <2>2, <2>3, <2>4, <2>5, <2>6
<1>10. Common /\ (Busy \/ Empty \/ Ready)
  BY <1>5, <1>7, <1>8, <1>9
<1> QED
  BY <1>10 DEF events, PumpEffect
------------------------------------------------------------------------------
\* The kinds of steps, with what each does to the emissions.

\* No emission is touched or told of.
Quiet == /\ UNCHANGED <<records, inFlightEmissionId>>
         /\ reply'.events = <<>>
         /\ reply'.pump = "NotRequested"

\* The state an admission files a record in, and its answer so far.
Filed(record) == With(records, nextIdentity, record)
FiledAnswer(record) == [Answer("Enqueue", "Accepted") EXCEPT !.emission = record.envelope]

Admits(record) ==
  /\ record \in Record
  /\ nextIdentity # 0
  /\ record.state = "Pending"
  /\ record.revision = 1
  /\ record.envelope.emissionId = nextIdentity
  /\ ~Due(record.envelope, now)
  /\ nextIdentity' = AdvanceCounterOrMarkExhausted(nextIdentity)
  /\ UNCHANGED <<settings, now>>

\* It is filed, and nothing else happens: the queue is busy or pumps on request only.
Files(record) ==
  /\ Admits(record)
  /\ records' = Filed(record)
  /\ UNCHANGED inFlightEmissionId
  /\ reply' = FiledAnswer(record)

\* It is filed and the idle queue pumps.
FilesAndPumps(record) ==
  /\ Admits(record)
  /\ inFlightEmissionId = 0
  /\ PumpAt(Filed(record), priorityIndex \cup {PriorityKeyOf(record)},
            expirationIndex \cup ExpirationKeysOf(record), 0, FiledAnswer(record))

\* An update that changes the record of an emission that waits.
Reschedules(id) ==
  /\ id \in Pending(records)
  /\ ~Due(records[id].envelope, now)
  /\ DOMAIN records' = DOMAIN records
  /\ \A other \in DOMAIN records \ {id} : records'[other] = records[other]
  /\ records'[id].state = "Pending"
  /\ records'[id].expirePolicy = records[id].expirePolicy
  /\ records'[id].effectiveTTL = records[id].effectiveTTL
  /\ records'[id].revision = records[id].revision + 1
  /\ \E expiresAt \in Time, score \in Score :
       /\ expiresAt >= records[id].envelope.expiresAt
       /\ records'[id].envelope = [records[id].envelope EXCEPT !.expiresAt = expiresAt,
                                                               !.priorityScore = score]
  /\ reply' = [Answer("UpdatePendingScheduling", "Updated") EXCEPT
                 !.emission = records'[id].envelope]
  /\ UNCHANGED <<settings, now, nextIdentity, inFlightEmissionId>>

\* What was in flight leaves, and nothing is handed out.
Completes(op, reason) ==
  /\ inFlightEmissionId # 0
  /\ records' = Completed
  /\ inFlightEmissionId' = 0
  /\ reply' = CompletionAnswer(op, reason)
  /\ UNCHANGED <<settings, now, nextIdentity>>

\* What was in flight is confirmed and the queue pumps.
CompletesAndPumps ==
  /\ inFlightEmissionId # 0
  /\ PumpAt(Completed, priorityIndex, expirationIndex, 0,
            CompletionAnswer("Confirm", "Confirmed"))
  /\ UNCHANGED <<settings, now, nextIdentity>>
------------------------------------------------------------------------------
\* An emission is never due when it is admitted: a TTL of zero never expires, and
\* any other ends after the instant of the admission, saturated or not.
LEMMA NotDueYet ==
  ASSUME NEW at \in Time, NEW ttl \in Nat
  PROVE  /\ CalculateExpiresAt(at, ttl) # MaxTime => CalculateExpiresAt(at, ttl) > at
         /\ \A envelope : envelope.expiresAt = CalculateExpiresAt(at, ttl) => ~Due(envelope, at)
<1>1. CalculateExpiresAt(at, ttl) # MaxTime => CalculateExpiresAt(at, ttl) > at
  BY TypesAssumption DEF CalculateExpiresAt, Time
<1>2. CalculateExpiresAt(at, ttl) \in Int /\ at \in Int
  BY ExpiresAtType, TypesAssumption DEF Time
<1> QED
  BY <1>1, <1>2 DEF Due, Finite

\* An accepted request files a record that is not due, and pumps just when the core is
\* configured to and idle.
LEMMA AdmissionShape ==
  ASSUME IInv, NEW flow \in FlowInputs, NEW adjustment \in Adjustments,
         NEW override \in TTLOverrides, Enqueue(flow, adjustment, override),
         EnqueueStatus(flow, override) = "Accepted"
  PROVE  \E record :
           /\ record.envelope.flow = flow /\ flow \in Flow
           /\ IF bPumpAfterEnqueueWhenIdle /\ inFlightEmissionId = 0
              THEN FilesAndPumps(record) ELSE Files(record)
<1> DEFINE record == Admitted(flow, adjustment, override)
<1>1. flow \in Flow /\ nextIdentity # 0
  BY DEF EnqueueStatus
<1>2. EffectiveTTL(flow, override) \in Nat
  <2>1. settings[flow] \in FlowSettings
    BY <1>1 DEF IInv, TypeOK, ValidFlowSettings
  <2>2. override \in Int \/ override = None
    BY CoreAssumption
  <2>3. EffectiveTTL(flow, override) \in Int
    BY <2>1, <2>2 DEF EffectiveTTL, FlowSettings
  <2>4. ~(EffectiveTTL(flow, override) < 0)
    BY DEF EnqueueStatus
  <2> QED
    BY <2>3, <2>4
<1>3. /\ record \in Record
      /\ record.state = "Pending"
      /\ record.revision = 1
      /\ record.envelope.emissionId = nextIdentity
  BY <1>1, <1>2, AdmittedType
<1>4. record.envelope.expiresAt = CalculateExpiresAt(now, EffectiveTTL(flow, override))
      /\ record.envelope.flow = flow
  BY DEF Admitted
<1>5. now \in Time
  BY CoreAssumption, TypesAssumption DEF IInv, TypeOK, Time
<1>6. ~Due(record.envelope, now)
  BY <1>2, <1>4, <1>5, NotDueYet
<1> HIDE DEF record
<1>7. /\ nextIdentity' = AdvanceCounterOrMarkExhausted(nextIdentity)
      /\ UNCHANGED <<settings, now>>
  BY DEF Enqueue
<1>8. Admits(record)
  BY <1>1, <1>3, <1>6, <1>7 DEF Admits
<1>9. IF bPumpAfterEnqueueWhenIdle /\ inFlightEmissionId = 0
      THEN PumpAt(Filed(record), priorityIndex \cup {PriorityKeyOf(record)},
                  expirationIndex \cup ExpirationKeysOf(record), 0, FiledAnswer(record))
      ELSE /\ records' = Filed(record)
           /\ UNCHANGED inFlightEmissionId
           /\ reply' = FiledAnswer(record)
  BY DEF Enqueue, record, Filed, FiledAnswer
<1> QED
  BY <1>1, <1>4, <1>8, <1>9 DEF Files, FilesAndPumps

\* Any other request changes nothing.
LEMMA EnqueueShape ==
  ASSUME IInv, NEW flow \in FlowInputs, NEW adjustment \in Adjustments,
         NEW override \in TTLOverrides, Enqueue(flow, adjustment, override)
  PROVE  \/ Quiet /\ reply'.emission = None /\ reply'.ready = None /\ reply'.wake = None
            /\ reply'.status # "Accepted"
            /\ UNCHANGED <<settings, now, nextIdentity>>
         \/ \E record : record.envelope.flow = flow /\ flow \in Flow
                        /\ (Files(record) \/ FilesAndPumps(record))
<1> DEFINE status == EnqueueStatus(flow, override)
<1>1. CASE status # "Accepted"
  <2>1. /\ reply' = Answer("Enqueue", status)
        /\ UNCHANGED <<settings, now, nextIdentity, queueVars>>
    BY <1>1 DEF Enqueue
  <2> QED
    BY <1>1, <2>1 DEF Answer, Quiet, queueVars
<1>2. CASE status = "Accepted"
  BY <1>2, AdmissionShape
<1> QED
  BY <1>1, <1>2

\* An update that changes anything moves an emission that waits and is not due,
\* and never to an earlier expiration.
LEMMA UpdateShape ==
  ASSUME IInv, NEW id \in Identity \cup {0}, NEW refresh \in BOOLEAN,
         NEW newScore \in NewScores, NEW expected \in ExpectedTimes,
         UpdatePendingScheduling(id, now, refresh, newScore, expected)
  PROVE  \/ /\ Quiet /\ reply'.ready = None /\ reply'.wake = None
            /\ \/ reply'.emission = None /\ reply'.status # "Unchanged"
               \/ id \in Pending(records) /\ reply'.emission = records[id].envelope
            /\ reply'.status # "Updated"
            /\ UNCHANGED <<settings, now, nextIdentity>>
         \/ Reschedules(id)
<1> DEFINE status == UpdateStatus(id, now, refresh, newScore, expected)
           old == records[id].envelope
           envelope == Rescheduled(records[id], now, refresh, newScore)
           record == [records[id] EXCEPT !.envelope = envelope, !.revision = @ + 1]
<1>1. CASE status # "Updated"
  <2>1. /\ reply' = [Answer("UpdatePendingScheduling", status) EXCEPT
                       !.emission = IF status = "Unchanged" THEN records[id].envelope ELSE None]
        /\ UNCHANGED <<settings, now, nextIdentity, queueVars>>
    BY <1>1 DEF UpdatePendingScheduling
  <2>2. status = "Unchanged" => id \in Pending(records)
    BY DEF UpdateStatus, IsPendingEmission, Pending
  <2> HIDE DEF status
  <2> QED
    BY <1>1, <2>1, <2>2 DEF Answer, Quiet, queueVars
<1>2. CASE status = "Updated"
  <2>1. /\ id \in Pending(records)
        /\ ~Due(records[id].envelope, now)
    BY <1>2 DEF UpdateStatus, IsPendingEmission, Pending
  <2>2. records[id] \in Record /\ id \in DOMAIN records /\ records[id].state = "Pending"
    BY <2>1 DEF Pending, IInv, TypeOK
  <2>3. old \in Envelope /\ records[id].effectiveTTL \in Nat
    BY <2>2 DEF Record
  <2>4. old.expiresAt \in Time /\ old.priorityScore \in Score
    BY <2>3 DEF Envelope
  <2>5. now \in Time
    BY CoreAssumption, TypesAssumption DEF IInv, TypeOK, Time
  <2> DEFINE candidate == CalculateExpiresAt(now, records[id].effectiveTTL)
             expiresAt == IF refresh /\ candidate > old.expiresAt THEN candidate
                          ELSE old.expiresAt
             score == IF newScore = None THEN old.priorityScore ELSE newScore
  <2>6. candidate \in Time
    BY <2>3, <2>5, ExpiresAtType
  <2>7. expiresAt \in Time /\ expiresAt >= old.expiresAt
    <3> HIDE DEF candidate
    <3> QED
      BY <2>4, <2>6, TypesAssumption DEF Time
  <2>8. score \in Score
    BY <2>4, CoreAssumption
  <2>9. envelope = [old EXCEPT !.expiresAt = expiresAt, !.priorityScore = score]
    BY <2>3 DEF Rescheduled, Envelope
  <2> HIDE DEF envelope, expiresAt, score
  <2>10. /\ record.state = "Pending"
         /\ record.expirePolicy = records[id].expirePolicy
         /\ record.effectiveTTL = records[id].effectiveTTL
         /\ record.revision = records[id].revision + 1
         /\ record.envelope = envelope
    BY <2>2 DEF Record
  <2>11. /\ records' = [records EXCEPT ![id] = record]
         /\ reply' = [Answer("UpdatePendingScheduling", "Updated") EXCEPT !.emission = envelope]
         /\ UNCHANGED <<settings, now, nextIdentity, inFlightEmissionId>>
    BY <1>2 DEF UpdatePendingScheduling, envelope
  <2> HIDE DEF record
  <2>12. /\ DOMAIN records' = DOMAIN records
         /\ \A other \in DOMAIN records \ {id} : records'[other] = records[other]
         /\ records'[id] = record
    BY <2>2, <2>11
  <2>13. \E t \in Time, s \in Score :
           /\ t >= records[id].envelope.expiresAt
           /\ records'[id].envelope = [records[id].envelope EXCEPT !.expiresAt = t,
                                                                   !.priorityScore = s]
    <3>1. expiresAt >= records[id].envelope.expiresAt
      BY <2>7
    <3>2. records'[id].envelope = [records[id].envelope EXCEPT !.expiresAt = expiresAt,
                                                               !.priorityScore = score]
      BY <2>9, <2>10, <2>12
    <3> QED
      BY <2>7, <2>8, <3>1, <3>2, Zenon
  <2>14. reply' = [Answer("UpdatePendingScheduling", "Updated") EXCEPT
                     !.emission = records'[id].envelope]
    BY <2>10, <2>11, <2>12
  <2>15. /\ records'[id].state = "Pending"
         /\ records'[id].expirePolicy = records[id].expirePolicy
         /\ records'[id].effectiveTTL = records[id].effectiveTTL
         /\ records'[id].revision = records[id].revision + 1
    BY <2>10, <2>12
  <2> QED
    BY <2>1, <2>11, <2>12, <2>13, <2>14, <2>15 DEF Reschedules
<1> QED
  BY <1>1, <1>2

\* Every step is of one of these kinds.
LEMMA StepShape ==
  ASSUME IInv, Next
  PROVE  \/ Quiet
         \/ \E record : Files(record) \/ FilesAndPumps(record)
         \/ \E id : Reschedules(id)
         \/ Pump
         \/ Completes("Confirm", "Confirmed") \/ Completes("CancelInFlight", "Cancelled")
         \/ CompletesAndPumps
         \/ ProcessDueExpirations
<1>1. ASSUME NEW flow, NEW new, UpdateFlowSettings(flow, new)
      PROVE  Quiet
  BY <1>1 DEF UpdateFlowSettings, Quiet, Answer, queueVars
<1>2. ASSUME NEW op, NEW id, RejectCompletion(op, id)
      PROVE  Quiet
  BY <1>2 DEF RejectCompletion, Quiet, Answer, queueVars
<1>3. ASSUME NEW id, Confirm(id)
      PROVE  Quiet \/ Completes("Confirm", "Confirmed") \/ CompletesAndPumps
  BY <1>2, <1>3 DEF Confirm, Completes, CompletesAndPumps, InFlightTargetStatus
<1>4. ASSUME NEW id, CancelInFlight(id)
      PROVE  Quiet \/ Completes("CancelInFlight", "Cancelled")
  BY <1>2, <1>4 DEF CancelInFlight, Completes, InFlightTargetStatus
<1>5. CASE GetNextWakeTime
  <2>1. UNCHANGED <<records, inFlightEmissionId>>
    BY <1>5 DEF GetNextWakeTime
  <2>2. \/ reply' = Answer("GetNextWakeTime", "NoWakeScheduled")
        \/ \E wake : reply' = [Answer("GetNextWakeTime", "WakeScheduled") EXCEPT !.wake = wake]
    BY <1>5 DEF GetNextWakeTime
  <2> QED
    BY <2>1, <2>2 DEF Quiet, Answer
<1>6. CASE Tick
  BY <1>6 DEF Tick, Quiet, Answer, queueVars
<1> QED
  BY <1>1, <1>3, <1>4, <1>5, <1>6, EnqueueShape, UpdateShape DEF Next
------------------------------------------------------------------------------
\* A pump, whichever operation runs it: on a prepared state that satisfies what
\* the invariant says of one, on top of a reply.
Pumps(recs, active, answer) ==
  /\ answer \in Reply
  /\ \E pIndex, eIndex : /\ PreparedInv(recs, pIndex, eIndex, active)
                         /\ PumpAt(recs, pIndex, eIndex, active, answer)

\* The events of the emissions of recs that are due, as they fell due.
TellsDue(told, recs) ==
  /\ told \in Seq(Terminal)
  /\ Len(told) = Cardinality(DueIds(recs))
  /\ \A id \in DueIds(recs) : \E i \in 1..Len(told) :
       /\ told[i].envelope = recs[id].envelope
       /\ told[i].reason = ResolveExpirationTerminalReason(recs[id].expirePolicy)
  /\ \A i \in 1..Len(told) : \E id \in DueIds(recs) : told[i].envelope = recs[id].envelope
  /\ \A i, j \in 1..Len(told) :
       i < j => ExpirationAhead(told[i].envelope, told[j].envelope)

\* Filing adds one record, under an identity no record has; it is not due.
LEMMA FiledRecords ==
  ASSUME IInv, NEW record, Admits(record)
  PROVE  /\ DOMAIN Filed(record) = DOMAIN records \cup {nextIdentity}
         /\ nextIdentity \notin DOMAIN records
         /\ \A id \in DOMAIN records : Filed(record)[id] = records[id]
         /\ Filed(record)[nextIdentity] = record
         /\ nextIdentity \notin DueIds(Filed(record))
<1>1. \A id \in DOMAIN records : id # nextIdentity
  BY TypesAssumption DEF IInv, TypeOK, RecordsKeyed, Identity, Admits
<1>2. /\ DOMAIN Filed(record) = DOMAIN records \cup {nextIdentity}
      /\ Filed(record)[nextIdentity] = record
  BY DEF Filed, With
<1>3. \A id \in DOMAIN records : Filed(record)[id] = records[id]
  BY <1>1 DEF Filed, With
<1> QED
  BY <1>1, <1>2, <1>3 DEF DueIds, Admits

\* A completion takes out the record in flight and no other.
LEMMA CompletedRecords ==
  ASSUME IInv, inFlightEmissionId # 0
  PROVE  /\ DOMAIN Completed = DOMAIN records \ {inFlightEmissionId}
         /\ inFlightEmissionId \in DOMAIN records
         /\ \A id \in DOMAIN Completed : Completed[id] = records[id]
<1>1. DOMAIN Completed = DOMAIN records \ {inFlightEmissionId}
  BY WithoutProperties DEF Completed
<1>2. \A id \in DOMAIN records \ {inFlightEmissionId} : Completed[id] = records[id]
  BY WithoutProperties DEF Completed
<1> QED
  BY <1>1, <1>2 DEF IInv, InFlightCoherent

\* The three operations that pump do it on a prepared state and a typed answer.
LEMMA PumpKinds ==
  ASSUME IInv
  PROVE  /\ \A record : FilesAndPumps(record) =>
                          Pumps(Filed(record), 0, FiledAnswer(record))
         /\ Pump => Pumps(records, inFlightEmissionId, Answer("Pump", "Done"))
         /\ CompletesAndPumps => Pumps(Completed, 0, CompletionAnswer("Confirm", "Confirmed"))
<1>1. ASSUME NEW record, FilesAndPumps(record)
      PROVE  Pumps(Filed(record), 0, FiledAnswer(record))
  <2>1. /\ record \in Record /\ nextIdentity # 0 /\ record.state = "Pending"
        /\ record.revision = 1 /\ record.envelope.emissionId = nextIdentity
        /\ inFlightEmissionId = 0
    BY <1>1 DEF FilesAndPumps, Admits
  <2>2. PreparedInv(Filed(record), priorityIndex \cup {PriorityKeyOf(record)},
                    expirationIndex \cup ExpirationKeysOf(record), 0)
    BY <2>1, AdmissionPrepares DEF Filed
  <2>3. FiledAnswer(record) \in Reply
    <3>1. Answer("Enqueue", "Accepted") \in Reply
      BY AnswerType DEF Operation, Status
    <3>2. record.envelope \in Envelope
      BY <2>1 DEF Record
    <3> QED
      BY <3>1, <3>2 DEF Reply, FiledAnswer
  <2>4. PumpAt(Filed(record), priorityIndex \cup {PriorityKeyOf(record)},
               expirationIndex \cup ExpirationKeysOf(record), 0, FiledAnswer(record))
    BY <1>1 DEF FilesAndPumps
  <2> QED
    BY <2>2, <2>3, <2>4 DEF Pumps
<1>2. ASSUME Pump
      PROVE  Pumps(records, inFlightEmissionId, Answer("Pump", "Done"))
  <2>1. Answer("Pump", "Done") \in Reply
    BY AnswerType DEF Operation, Status
  <2>2. PreparedInv(records, priorityIndex, expirationIndex, inFlightEmissionId)
    BY InvariantSplit
  <2> QED
    BY <1>2, <2>1, <2>2 DEF Pump, Pumps
<1>3. ASSUME CompletesAndPumps
      PROVE  Pumps(Completed, 0, CompletionAnswer("Confirm", "Confirmed"))
  <2>1. inFlightEmissionId # 0
    BY <1>3 DEF CompletesAndPumps
  <2>2. PreparedInv(Completed, priorityIndex, expirationIndex, 0)
    BY <2>1, CompletionPrepares
  <2>3. CompletionAnswer("Confirm", "Confirmed") \in Reply
    BY <2>1, CompletionAnswerType DEF Operation, Status, TerminalReason
  <2> QED
    BY <1>3, <2>2, <2>3 DEF CompletesAndPumps, Pumps
<1> QED
  BY <1>1, <1>2, <1>3

\* PumpOutcome without the indexes and the order of the events.
LEMMA PumpFacts ==
  ASSUME IInv, NEW recs, NEW active, NEW answer, Pumps(recs, active, answer)
  PROVE  /\ \A id \in DOMAIN recs : recs[id].envelope.emissionId = id
         /\ recs \in [DOMAIN recs -> Record]
         /\ IsFiniteSet(DueIds(recs))
         /\ \E told : TellsDue(told, recs) /\ PumpEffect(recs, active, answer, told)
<1> PICK pIndex, eIndex : /\ PreparedInv(recs, pIndex, eIndex, active)
                          /\ PumpAt(recs, pIndex, eIndex, active, answer)
  BY DEF Pumps
<1>1. now \in Int /\ answer \in Reply
  BY CoreAssumption, TypesAssumption DEF IInv, TypeOK, Time, Pumps
<1>2. PICK order \in InExpirationOrder(DueKeys(recs, eIndex)) :
        PumpEffect(recs, active, answer, Expired(order, recs))
  BY <1>1, PumpOutcome
<1>3. TellsDue(Expired(order, recs), recs)
  BY ExpiredTells DEF TellsDue
<1>4. IsFiniteSet(DueIds(recs))
  BY DueCount
<1>5. /\ \A id \in DOMAIN recs : recs[id].envelope.emissionId = id
      /\ recs \in [DOMAIN recs -> Record]
  BY DEF PreparedInv, PreparedTypeOK
<1> QED
  BY <1>2, <1>3, <1>4, <1>5
------------------------------------------------------------------------------
\* Whatever operation runs, live emissions keep what was frozen at admission.
THEOREM SnapshotsStayFrozen == Spec => SnapshotsKept
<1> DEFINE Kept(id) == LET old == records[id]
                           new == records'[id]
                       IN  /\ new.expirePolicy = old.expirePolicy
                           /\ new.effectiveTTL = old.effectiveTTL
                           /\ new.envelope.flow = old.envelope.flow
                           /\ new.envelope.expiresAt >= old.envelope.expiresAt
                           /\ old.state = "InFlight" => new = old
                           /\ new # old => /\ settings' = settings
                                           /\ id = inFlightEmissionId'
                                              \/ new.revision > old.revision
<1>1. ASSUME IInv, NEW id \in DOMAIN records, id \in DOMAIN records', records'[id] = records[id]
      PROVE  Kept(id)
  <2>1. records[id].envelope.expiresAt \in Int
    BY <1>1, TypesAssumption DEF IInv, TypeOK, Record, Envelope, Time
  <2> QED
    BY <1>1, <2>1
<1>2. ASSUME IInv, NEW recs, NEW active, NEW answer, Pumps(recs, active, answer),
             UNCHANGED settings,
             active # 0 \/ \A id \in DOMAIN recs : recs[id].state # "InFlight",
             NEW id \in DOMAIN records, id \in DOMAIN records', recs[id] = records[id]
      PROVE  Kept(id)
  <2>0. PICK told : PumpEffect(recs, active, answer, told)
    BY <1>2, PumpFacts
  <2>1. id \in DOMAIN recs /\ records[id] \in Record
    BY <1>2, <2>0 DEF PumpEffect, IInv, TypeOK
  <2>2. CASE records'[id] = records[id]
    BY <1>1, <1>2, <2>2
  <2>3. CASE records'[id] # records[id]
    <3>1. /\ records'[id] = [records[id] EXCEPT !.state = "InFlight"]
          /\ id = inFlightEmissionId'
          /\ active = 0
      BY <1>2, <2>0, <2>3 DEF PumpEffect
    <3>2. records[id].state # "InFlight"
      BY <1>2, <2>1, <3>1
    <3>3. records[id].envelope.expiresAt \in Int
      BY <2>1, TypesAssumption DEF Record, Envelope, Time
    <3> QED
      BY <1>2, <2>1, <3>1, <3>2, <3>3 DEF Record
  <2> QED
    BY <2>2, <2>3
<1>3. ASSUME IInv, Next, NEW id \in DOMAIN records, id \in DOMAIN records'
      PROVE  Kept(id)
  <2>1. CASE Quiet
    BY <1>1, <1>3, <2>1 DEF Quiet
  <2>2. ASSUME NEW record, Files(record)
        PROVE  Kept(id)
    BY <1>1, <1>3, <2>2, FiledRecords DEF Files
  <2>3. ASSUME NEW record, FilesAndPumps(record)
        PROVE  Kept(id)
    <3>1. Admits(record) /\ inFlightEmissionId = 0 /\ UNCHANGED settings
      BY <2>3 DEF FilesAndPumps, Admits
    <3>2. \A j \in DOMAIN Filed(record) : Filed(record)[j].state # "InFlight"
      <4>1. \A j \in DOMAIN records : j # 0
        BY <1>3, TypesAssumption DEF IInv, TypeOK, Identity
      <4>2. \A j \in DOMAIN records : records[j].state # "InFlight"
        BY <1>3, <3>1, <4>1 DEF IInv, InFlightCoherent
      <4>3. record.state # "InFlight"
        BY <3>1 DEF Admits
      <4> QED
        BY <1>3, <3>1, <4>2, <4>3, FiledRecords
    <3>3. Filed(record)[id] = records[id]
      BY <1>3, <3>1, FiledRecords
    <3> HIDE DEF Kept
    <3> QED
      BY <1>2, <1>3, <2>3, <3>1, <3>2, <3>3, PumpKinds
  <2>4. ASSUME NEW j, Reschedules(j)
        PROVE  Kept(id)
    <3>1. CASE id # j
      BY <1>1, <1>3, <2>4, <3>1 DEF Reschedules
    <3>2. CASE id = j
      <4>1. /\ records[id] \in Record /\ records[id].state = "Pending"
            /\ records[id].envelope \in Envelope
            /\ records[id].revision \in Int
        BY <1>3, <2>4, <3>2 DEF Reschedules, Pending, IInv, TypeOK, Record, Revision
      <4>2. PICK expiresAt \in Time, score \in Score :
              /\ expiresAt >= records[id].envelope.expiresAt
              /\ records'[id].envelope = [records[id].envelope EXCEPT
                                            !.expiresAt = expiresAt, !.priorityScore = score]
        BY <2>4, <3>2 DEF Reschedules
      <4>3. /\ records'[id].envelope.flow = records[id].envelope.flow
            /\ records'[id].envelope.expiresAt = expiresAt
        BY <4>1, <4>2 DEF Envelope
      <4>4. /\ records'[id].expirePolicy = records[id].expirePolicy
            /\ records'[id].effectiveTTL = records[id].effectiveTTL
            /\ records'[id].revision = records[id].revision + 1
            /\ UNCHANGED settings
        BY <2>4, <3>2 DEF Reschedules
      <4> QED
        BY <4>1, <4>2, <4>3, <4>4
    <3> QED
      BY <3>1, <3>2
  <2>5. CASE Pump
    <3>1. inFlightEmissionId # 0 \/ \A j \in DOMAIN records : records[j].state # "InFlight"
      BY <1>3, TypesAssumption DEF IInv, InFlightCoherent, TypeOK, Identity
    <3>2. Pumps(records, inFlightEmissionId, Answer("Pump", "Done")) /\ UNCHANGED settings
      BY <1>3, <2>5, PumpKinds DEF Pump
    <3> HIDE DEF Kept
    <3> QED
      BY <1>2, <1>3, <3>1, <3>2
  <2>6. CASE inFlightEmissionId # 0 /\ records' = Completed
    BY <1>1, <1>3, <2>6, CompletedRecords
  <2>7. CASE CompletesAndPumps
    <3>1. /\ inFlightEmissionId # 0 /\ UNCHANGED settings
          /\ Pumps(Completed, 0, CompletionAnswer("Confirm", "Confirmed"))
      BY <1>3, <2>7, PumpKinds DEF CompletesAndPumps
    <3>2. id \in DOMAIN Completed
      <4> PICK told : PumpEffect(Completed, 0, CompletionAnswer("Confirm", "Confirmed"), told)
        BY <1>3, <3>1, PumpFacts
      <4> QED
        BY <1>3 DEF PumpEffect
    <3>3. \A j \in DOMAIN Completed : Completed[j].state # "InFlight"
      BY <1>3, <3>1, CompletedRecords DEF IInv, InFlightCoherent
    <3>4. Completed[id] = records[id]
      BY <1>3, <3>1, <3>2, CompletedRecords
    <3> HIDE DEF Kept
    <3> QED
      BY <1>2, <1>3, <3>1, <3>3, <3>4
  <2>8. CASE ProcessDueExpirations
    <3>1. records'[id] = records[id]
      BY <1>3, <2>8 DEF ProcessDueExpirations, WithoutDue, Without
    <3> QED
      BY <1>1, <1>3, <3>1
  <2> HIDE DEF Kept
  <2> QED
    BY <1>3, <2>1, <2>2, <2>3, <2>4, <2>5, <2>6, <2>7, <2>8, StepShape DEF Completes
<1>4. IInv /\ [Next]_vars =>
        [\A id \in DOMAIN records \cap DOMAIN records' : Kept(id)]_vars
  BY <1>3
<1> QED
  BY <1>4, InductiveInvariant, PTL DEF Spec, SnapshotsKept
------------------------------------------------------------------------------
\* A pump hands out the best of what waits, and only if it is not due.
LEMMA PumpSelectsBest ==
  ASSUME IInv, IInv', NEW recs, NEW active, NEW answer, Pumps(recs, active, answer)
  PROVE  /\ reply'.pump = "EmissionReady" =>
              LET id == inFlightEmissionId'
              IN  /\ reply'.ready = records'[id].envelope
                  /\ ~Due(reply'.ready, now)
                  /\ \A other \in Pending(records') :
                       PriorityAhead(reply'.ready, records'[other].envelope)
         /\ reply'.pump = "QueueEmpty" => DOMAIN records' = {}
         /\ reply'.pump = "Busy" => active # 0 /\ inFlightEmissionId' = active
         /\ reply'.pump # "NotRequested"
<1>1. PICK told : PumpEffect(recs, active, answer, told)
  BY PumpFacts
<1>2. CASE reply'.pump = "EmissionReady"
  <2> DEFINE id == inFlightEmissionId'
  <2>1. /\ id \in DOMAIN records'
        /\ id \in Pending(recs)
        /\ reply'.ready = recs[id].envelope
        /\ \A other \in DOMAIN records' \ {id} :
             PriorityAhead(recs[id].envelope, recs[other].envelope)
    BY <1>1, <1>2 DEF PumpEffect
  <2>2. recs[id] \in Record
    BY <2>1, PumpFacts DEF Pending
  <2>3. records'[id].envelope = recs[id].envelope
    BY <1>1, <2>1, <2>2 DEF PumpEffect, Record
  <2>4. ~Due(recs[id].envelope, now)
    BY <1>1, <2>1 DEF PumpEffect, DueIds
  <2>5. \A other \in Pending(records') : other \in DOMAIN records' \ {id}
    BY <2>1 DEF Pending, IInv, InFlightCoherent
  <2>6. \A other \in DOMAIN records' \ {id} : records'[other] = recs[other]
    BY <1>1 DEF PumpEffect
  <2>7. \A other \in Pending(records') :
          PriorityAhead(recs[id].envelope, records'[other].envelope)
    BY <2>1, <2>5, <2>6
  <2> QED
    BY <1>2, <2>1, <2>3, <2>4, <2>7
<1>3. CASE reply'.pump # "EmissionReady"
  BY <1>1, <1>3 DEF PumpEffect
<1> QED
  BY <1>2, <1>3

\* What a pump hands out is the best of all that wait, however many stale keys lie
\* in the two heaps, and its other answers are true as well.
THEOREM SelectionsAreBest == Spec => SelectionIsBest
<1> DEFINE Best == reply'.pump = "EmissionReady" =>
                     LET id == inFlightEmissionId'
                     IN  /\ reply'.ready = records'[id].envelope
                         /\ ~Due(reply'.ready, now)
                         /\ \A other \in Pending(records)' :
                              PriorityAhead(reply'.ready, records'[other].envelope)
           Empty == reply'.pump = "QueueEmpty" => DOMAIN records' = {}
           Busy == reply'.pump = "Busy" => /\ inFlightEmissionId # 0
                                           /\ inFlightEmissionId' = inFlightEmissionId
<1>1. ASSUME reply'.pump = "NotRequested"
      PROVE  Best /\ Empty /\ Busy
  BY <1>1
<1>2. ASSUME IInv, Next
      PROVE  Best /\ Empty /\ Busy
  <2>0. IInv'
    BY <1>2, NextPreserves
  <2>1. CASE reply'.pump = "NotRequested"
    BY <1>1, <2>1
  <2>2. ASSUME NEW record, FilesAndPumps(record)
        PROVE  Best /\ Empty /\ Busy
    BY <1>2, <2>0, <2>2, PumpKinds, PumpSelectsBest
  <2>3. CASE Pump
    BY <1>2, <2>0, <2>3, PumpKinds, PumpSelectsBest
  <2>4. CASE CompletesAndPumps
    BY <1>2, <2>0, <2>4, PumpKinds, PumpSelectsBest
  <2>5. ASSUME NEW record, Files(record)
        PROVE  reply'.pump = "NotRequested"
    BY <2>5 DEF Files, FiledAnswer, Answer
  <2>6. ASSUME NEW id, Reschedules(id)
        PROVE  reply'.pump = "NotRequested"
    BY <2>6 DEF Reschedules, Answer
  <2>7. ASSUME NEW op, NEW reason, Completes(op, reason)
        PROVE  reply'.pump = "NotRequested"
    BY <2>7 DEF Completes, CompletionAnswer, Answer
  <2>8. CASE ProcessDueExpirations
    <3>1. PICK order : reply' = [Answer("ProcessDueExpirations", "Done") EXCEPT
                                   !.events = Expired(order, records)]
      BY <2>8 DEF ProcessDueExpirations
    <3>2. reply'.pump = "NotRequested"
      BY <3>1 DEF Answer
    <3> QED
      BY <2>1, <3>2
  <2>9. CASE Quiet
    BY <2>1, <2>9 DEF Quiet
  <2> HIDE DEF Best, Empty, Busy
  <2> QED
    BY <1>2, <2>1, <2>2, <2>3, <2>4, <2>5, <2>6, <2>7, <2>8, <2>9, StepShape
<1>3. IInv /\ [Next]_vars => [Best /\ Empty /\ Busy]_vars
  BY <1>2
<1>4. [Best /\ Empty /\ Busy]_vars <=>
        [/\ reply'.pump = "EmissionReady" =>
              LET id == inFlightEmissionId'
              IN  /\ reply'.ready = records'[id].envelope
                  /\ ~Due(reply'.ready, now)
                  /\ \A other \in Pending(records)' :
                       PriorityAhead(reply'.ready, records'[other].envelope)
         /\ reply'.pump = "QueueEmpty" => DOMAIN records' = {}
         /\ reply'.pump = "Busy" => /\ inFlightEmissionId # 0
                                    /\ inFlightEmissionId' = inFlightEmissionId]_vars
  OBVIOUS
<1> QED
  BY <1>3, <1>4, InductiveInvariant, PTL DEF Spec, SelectionIsBest
------------------------------------------------------------------------------
\* An event after those already in a sequence keeps its place behind them.
LEMMA Appended ==
  ASSUME NEW a \in Seq(Terminal), NEW b \in Seq(Terminal), NEW i \in 1..Len(b)
  PROVE  /\ Len(a) + i \in DOMAIN (a \o b)
         /\ (a \o b)[Len(a) + i] = b[i]
<1>1. Len(a) \in Nat /\ Len(b) \in Nat /\ a \o b \in Seq(Terminal)
  OBVIOUS
<1>2. Len(a \o b) = Len(a) + Len(b)
  OBVIOUS
<1> QED
  BY <1>1, <1>2

\* An emission that is due when a pump starts is told of and gone when it ends.
LEMMA PumpTellsDue ==
  ASSUME IInv, NEW recs, NEW active, NEW answer, Pumps(recs, active, answer),
         NEW id \in DueIds(recs)
  PROVE  /\ id \notin DOMAIN records'
         /\ \E i \in DOMAIN reply'.events :
              /\ reply'.events[i].envelope = recs[id].envelope
              /\ reply'.events[i].reason = ResolveExpirationTerminalReason(recs[id].expirePolicy)
<1>1. PICK told : TellsDue(told, recs) /\ PumpEffect(recs, active, answer, told)
  BY PumpFacts
<1>2. answer.events \in Seq(Terminal) /\ told \in Seq(Terminal)
  BY <1>1 DEF Pumps, Reply, TellsDue
<1>3. PICK i \in 1..Len(told) :
        /\ told[i].envelope = recs[id].envelope
        /\ told[i].reason = ResolveExpirationTerminalReason(recs[id].expirePolicy)
  BY <1>1 DEF TellsDue
<1>4. id \notin DOMAIN records' /\ reply'.events = answer.events \o told
  BY <1>1 DEF PumpEffect
<1>5. /\ Len(answer.events) + i \in DOMAIN reply'.events
      /\ reply'.events[Len(answer.events) + i] = told[i]
  BY <1>2, <1>4, Appended
<1> QED
  BY <1>3, <1>4, <1>5

\* ProcessDueExpirations takes out what is due and tells of each.
LEMMA ExpirationStep ==
  ASSUME IInv, ProcessDueExpirations
  PROVE  /\ DOMAIN records' = DOMAIN records \ DueIds(records)
         /\ \A id \in DOMAIN records' : records'[id] = records[id]
         /\ IsFiniteSet(DueIds(records))
         /\ TellsDue(reply'.events, records)
<1>1. PreparedInv(records, priorityIndex, expirationIndex, inFlightEmissionId)
  BY InvariantSplit
<1>2. PICK order \in InExpirationOrder(DueKeys(records, expirationIndex)) :
        reply' = [Answer("ProcessDueExpirations", "Done") EXCEPT
                    !.events = Expired(order, records)]
  BY DEF ProcessDueExpirations
<1>3. reply'.events = Expired(order, records)
  BY <1>2 DEF Answer
<1>4. TellsDue(Expired(order, records), records)
  BY <1>1, ExpiredTells DEF TellsDue
<1>5. records' = Without(records, DueIds(records))
  BY <1>1, DueKeysExact DEF ProcessDueExpirations, WithoutDue
<1>6. DOMAIN records' = DOMAIN records \ DueIds(records)
  BY <1>5, WithoutProperties
<1>7. \A id \in DOMAIN records' : records'[id] = records[id]
  BY <1>5, <1>6, WithoutProperties
<1>8. IsFiniteSet(DueIds(records))
  BY <1>1, DueCount
<1> QED
  BY <1>3, <1>4, <1>6, <1>7, <1>8

\* The waiting emissions that are due are those of the prepared state as well.
LEMMA DueOfPrepared ==
  ASSUME IInv
  PROVE  /\ \A record : Admits(record) => DueIds(Filed(record)) = DueIds(records)
         /\ inFlightEmissionId # 0 => DueIds(Completed) = DueIds(records)
         /\ inFlightEmissionId \notin DueIds(records)
<1>1. ASSUME NEW record, Admits(record)
      PROVE  DueIds(Filed(record)) = DueIds(records)
  BY <1>1, FiledRecords DEF DueIds, Pending
<1>2. inFlightEmissionId \notin DueIds(records)
  BY DEF DueIds, Pending, IInv, InFlightCoherent
<1>3. ASSUME inFlightEmissionId # 0
      PROVE  DueIds(Completed) = DueIds(records)
  BY <1>2, <1>3, CompletedRecords DEF DueIds, Pending
<1> QED
  BY <1>1, <1>2, <1>3

\* An emission that is due and waits is out of every operation's reach: it stays
\* as it is or leaves with its expiration told, under any schedule of calls.
THEOREM DueStaysDue == Spec => DueNeverRevived
<1> DEFINE Untouched(id) == id \in DOMAIN records' /\ records'[id] = records[id]
           ToldOf(id) == /\ id \notin DOMAIN records'
                         /\ \E i \in DOMAIN reply'.events :
                              /\ reply'.events[i].envelope = records[id].envelope
                              /\ reply'.events[i].reason =
                                   ResolveExpirationTerminalReason(records[id].expirePolicy)
<1>1. ASSUME IInv, Next, NEW id \in DueIds(records)
      PROVE  Untouched(id) \/ ToldOf(id)
  <2>0. id \in DOMAIN records /\ id # inFlightEmissionId
    BY <1>1, DueOfPrepared DEF DueIds, Pending
  <2>1. CASE Quiet
    BY <2>0, <2>1 DEF Quiet
  <2>2. ASSUME NEW record, Files(record)
        PROVE  Untouched(id)
    BY <1>1, <2>0, <2>2, FiledRecords DEF Files
  <2>3. ASSUME NEW record, FilesAndPumps(record)
        PROVE  ToldOf(id)
    <3>1. Admits(record)
      BY <2>3 DEF FilesAndPumps
    <3>2. id \in DueIds(Filed(record)) /\ Filed(record)[id] = records[id]
      BY <1>1, <2>0, <3>1, DueOfPrepared, FiledRecords
    <3>3. Pumps(Filed(record), 0, FiledAnswer(record))
      BY <1>1, <2>3, PumpKinds
    <3> QED
      BY <1>1, <3>2, <3>3, PumpTellsDue
  <2>4. ASSUME NEW j, Reschedules(j)
        PROVE  Untouched(id)
    BY <1>1, <2>0, <2>4 DEF Reschedules, DueIds
  <2>5. CASE Pump
    <3>1. Pumps(records, inFlightEmissionId, Answer("Pump", "Done"))
      BY <1>1, <2>5, PumpKinds
    <3> QED
      BY <1>1, <3>1, PumpTellsDue
  <2>6. CASE inFlightEmissionId # 0 /\ records' = Completed
    BY <1>1, <2>0, <2>6, CompletedRecords
  <2>7. CASE CompletesAndPumps
    <3>1. inFlightEmissionId # 0
      BY <2>7 DEF CompletesAndPumps
    <3>2. id \in DueIds(Completed) /\ Completed[id] = records[id]
      BY <1>1, <2>0, <3>1, DueOfPrepared, CompletedRecords
    <3>3. Pumps(Completed, 0, CompletionAnswer("Confirm", "Confirmed"))
      BY <1>1, <2>7, PumpKinds
    <3> QED
      BY <1>1, <3>2, <3>3, PumpTellsDue
  <2>8. CASE ProcessDueExpirations
    <3>1. /\ id \notin DOMAIN records'
          /\ TellsDue(reply'.events, records)
      BY <1>1, <2>8, ExpirationStep
    <3>2. DOMAIN reply'.events = 1..Len(reply'.events)
      BY <3>1 DEF TellsDue
    <3> QED
      BY <1>1, <3>1, <3>2 DEF TellsDue
  <2> HIDE DEF Untouched, ToldOf
  <2> QED
    BY <1>1, <2>1, <2>2, <2>3, <2>4, <2>5, <2>6, <2>7, <2>8, StepShape DEF Completes
<1>2. ASSUME IInv, Next, NEW id \in Pending(records), Due(records[id].envelope, now)
      PROVE  Untouched(id) \/ ToldOf(id)
  BY <1>1, <1>2 DEF DueIds
<1>3. IInv /\ [Next]_vars =>
        [\A id \in Pending(records) :
           Due(records[id].envelope, now) =>
             \/ Untouched(id)
             \/ ToldOf(id)]_vars
  BY <1>2
<1> QED
  BY <1>3, InductiveInvariant, PTL DEF Spec, DueNeverRevived
------------------------------------------------------------------------------
\* What a step that ends emissions and tells of them amounts to: the number of
\* events is the number of emissions gone, and each of those has its event.
Settles(gone, told) ==
  LET Why(id) == IF id = inFlightEmissionId THEN {"Confirmed", "Cancelled"}
                 ELSE {ResolveExpirationTerminalReason(records[id].expirePolicy)}
  IN  /\ Len(told) = Cardinality(gone)
      /\ \A id \in gone :
           \E i \in DOMAIN told : /\ told[i].envelope = records[id].envelope
                                  /\ told[i].reason \in Why(id)

\* Events that settle what is gone tell of nothing twice, each with the envelope of its
\* emission and a reason that fits: there are as many events as emissions.
LEMMA EventsOnce ==
  ASSUME NEW told \in Seq(Terminal), NEW gone, Settles(gone, told),
         \A i \in DOMAIN told : told[i].envelope.emissionId \in gone,
         \A id \in gone : records[id].envelope.emissionId = id
  PROVE  /\ \A i, j \in DOMAIN told :
              told[i].envelope.emissionId = told[j].envelope.emissionId => i = j
         /\ \A i \in DOMAIN told :
              LET id == told[i].envelope.emissionId
              IN  /\ id \in gone
                  /\ told[i].envelope = records[id].envelope
                  /\ IF id = inFlightEmissionId
                     THEN told[i].reason \in {"Confirmed", "Cancelled"}
                     ELSE told[i].reason =
                            ResolveExpirationTerminalReason(records[id].expirePolicy)
<1> DEFINE n == Len(told)
           f == [i \in 1..n |-> told[i].envelope.emissionId]
<1>1. n \in Nat /\ DOMAIN told = 1..n
  OBVIOUS
<1>2. n = Cardinality(gone)
  BY DEF Settles
<1>3. \A i \in 1..n : told[i].envelope.emissionId \in gone
  BY <1>1
<1>4. ASSUME NEW id \in gone
      PROVE  \E i \in 1..n : told[i].envelope.emissionId = id
  <2>1. PICK i \in DOMAIN told : told[i].envelope = records[id].envelope
    BY DEF Settles
  <2> QED
    BY <1>1, <2>1
<1>5. IsFiniteSet(1..n) /\ Cardinality(1..n) = n
  BY <1>1, FS_Interval
<1> HIDE DEF n
<1>6. f \in Surjection(1..n, gone)
  BY <1>3, <1>4 DEF Surjection
<1> HIDE DEF f
<1>7. f \in Injection(1..n, gone)
  <2>1. Cardinality(1..n) = Cardinality(gone)
    BY <1>2, <1>5
  <2> QED
    BY <1>5, <1>6, <2>1, FS_SurjSameCardinalityImpliesInj, Zenon
<1>8. \A i, j \in 1..n : f[i] = f[j] => i = j
  BY <1>7 DEF Injection, IsInjective
<1>9. \A i, j \in 1..n :
        told[i].envelope.emissionId = told[j].envelope.emissionId => i = j
  BY <1>8 DEF f
<1>10. ASSUME NEW i \in 1..n
       PROVE  LET id == told[i].envelope.emissionId
              IN  /\ id \in gone
                  /\ told[i].envelope = records[id].envelope
                  /\ IF id = inFlightEmissionId
                     THEN told[i].reason \in {"Confirmed", "Cancelled"}
                     ELSE told[i].reason =
                            ResolveExpirationTerminalReason(records[id].expirePolicy)
  <2> DEFINE id == told[i].envelope.emissionId
  <2>1. id \in gone
    BY <1>3
  <2>2. PICK k \in DOMAIN told :
          /\ told[k].envelope = records[id].envelope
          /\ told[k].reason \in IF id = inFlightEmissionId THEN {"Confirmed", "Cancelled"}
                                ELSE {ResolveExpirationTerminalReason(records[id].expirePolicy)}
    BY <2>1 DEF Settles
  <2>3. told[k].envelope.emissionId = id
    BY <2>1, <2>2
  <2>4. k = i
    BY <1>1, <1>9, <2>3
  <2> QED
    BY <2>1, <2>2, <2>4
<1> QED
  BY <1>1, <1>9, <1>10

\* Telling of what is due settles it.
LEMMA DueSettled ==
  ASSUME IInv, NEW told, TellsDue(told, records)
  PROVE  Settles(DueIds(records), told)
<1>1. inFlightEmissionId \notin DueIds(records)
  BY DueOfPrepared
<1>2. DOMAIN told = 1..Len(told) /\ Len(told) = Cardinality(DueIds(records))
  BY DEF TellsDue
<1>3. ASSUME NEW id \in DueIds(records)
      PROVE  \E i \in DOMAIN told :
               /\ told[i].envelope = records[id].envelope
               /\ told[i].reason = ResolveExpirationTerminalReason(records[id].expirePolicy)
  BY <1>2 DEF TellsDue
<1> QED
  BY <1>1, <1>2, <1>3 DEF Settles

\* The answer of a completion tells of the emission that was in flight, and only
\* of that one.
LEMMA CompletionTells ==
  ASSUME IInv, inFlightEmissionId # 0, NEW op, NEW reason \in {"Confirmed", "Cancelled"}
  PROVE  /\ CompletionAnswer(op, reason).events \in Seq(Terminal)
         /\ Len(CompletionAnswer(op, reason).events) = 1
         /\ CompletionAnswer(op, reason).events[1] =
              [envelope |-> records[inFlightEmissionId].envelope, reason |-> reason]
<1> DEFINE terminal == [envelope |-> records[inFlightEmissionId].envelope, reason |-> reason]
<1>1. CompletionAnswer(op, reason).events = <<terminal>>
  BY DEF CompletionAnswer, Answer
<1>2. records[inFlightEmissionId].envelope \in Envelope
  BY DEF IInv, TypeOK, InFlightCoherent, Record
<1>3. terminal \in Terminal
  BY <1>2 DEF Terminal, TerminalReason
<1> HIDE DEF terminal
<1>4. <<terminal>> \in Seq(Terminal) /\ Len(<<terminal>>) = 1 /\ <<terminal>>[1] = terminal
  BY <1>3
<1> QED
  BY <1>1, <1>4 DEF terminal

\* A completion followed by a pump settles the emission that was in flight first
\* and then everything that was due, and nothing twice.
LEMMA CompletionPumpSettles ==
  ASSUME IInv, CompletesAndPumps
  PROVE  Settles(DOMAIN records \ DOMAIN records', reply'.events)
<1> DEFINE answer == CompletionAnswer("Confirm", "Confirmed")
           gone == DOMAIN records \ DOMAIN records'
           due == DueIds(records)
<1>1. inFlightEmissionId # 0 /\ Pumps(Completed, 0, answer)
  BY PumpKinds DEF CompletesAndPumps
<1>2. PICK told : TellsDue(told, Completed) /\ PumpEffect(Completed, 0, answer, told)
  BY <1>1, PumpFacts
<1>3. DueIds(Completed) = due /\ inFlightEmissionId \notin due
  BY <1>1, DueOfPrepared
<1>4. DOMAIN Completed = DOMAIN records \ {inFlightEmissionId}
      /\ inFlightEmissionId \in DOMAIN records
  BY <1>1, CompletedRecords
<1>5. DOMAIN records' = DOMAIN Completed \ due
  BY <1>2, <1>3 DEF PumpEffect
<1>6. due \subseteq DOMAIN records
  BY DEF DueIds, Pending
<1>7. gone = due \cup {inFlightEmissionId}
  BY <1>4, <1>5, <1>6
<1>8. IsFiniteSet(due)
  BY <1>1, <1>3, PumpFacts
<1>9. Cardinality(gone) = Cardinality(due) + 1
  BY <1>3, <1>7, <1>8, FS_AddElement
<1>10. \A id \in due : Completed[id] = records[id]
  BY <1>1, <1>3, <1>4, <1>6, CompletedRecords
<1>11. /\ told \in Seq(Terminal)
       /\ Len(told) = Cardinality(due)
       /\ \A id \in due : \E i \in 1..Len(told) :
            /\ told[i].envelope = records[id].envelope
            /\ told[i].reason = ResolveExpirationTerminalReason(records[id].expirePolicy)
  BY <1>2, <1>3, <1>10 DEF TellsDue
<1>12. /\ answer.events \in Seq(Terminal)
       /\ Len(answer.events) = 1
       /\ answer.events[1] =
            [envelope |-> records[inFlightEmissionId].envelope, reason |-> "Confirmed"]
  BY <1>1, CompletionTells
<1>13. reply'.events = answer.events \o told
  BY <1>2 DEF PumpEffect
<1> HIDE DEF answer, due
<1>14. Len(reply'.events) = Cardinality(gone)
  <2>0. answer.events \in Seq(Terminal) /\ told \in Seq(Terminal)
    BY <1>11, <1>12
  <2>1. Len(answer.events \o told) = Len(answer.events) + Len(told)
    BY <2>0
  <2>2. Cardinality(due) \in Nat
    BY <1>8, FS_CardinalityType
  <2> QED
    BY <1>9, <1>11, <1>12, <1>13, <2>1, <2>2
<1>15. ASSUME NEW id \in due
       PROVE  \E i \in DOMAIN reply'.events :
                /\ reply'.events[i].envelope = records[id].envelope
                /\ reply'.events[i].reason =
                     ResolveExpirationTerminalReason(records[id].expirePolicy)
  <2>1. PICK i \in 1..Len(told) :
          /\ told[i].envelope = records[id].envelope
          /\ told[i].reason = ResolveExpirationTerminalReason(records[id].expirePolicy)
    BY <1>11
  <2>2. /\ Len(answer.events) + i \in DOMAIN (answer.events \o told)
        /\ (answer.events \o told)[Len(answer.events) + i] = told[i]
    BY <1>11, <1>12, Appended
  <2> QED
    BY <1>13, <2>1, <2>2
<1>16. /\ 1 \in DOMAIN reply'.events
       /\ reply'.events[1] = answer.events[1]
  <2>1. Len(told) \in Nat
    BY <1>11
  <2>0. answer.events \in Seq(Terminal) /\ told \in Seq(Terminal)
    BY <1>11, <1>12
  <2>2. Len(answer.events \o told) = 1 + Len(told)
    <3>1. Len(answer.events \o told) = Len(answer.events) + Len(told)
      BY <2>0
    <3> QED
      BY <1>12, <3>1
  <2>3. answer.events \o told \in Seq(Terminal)
    BY <2>0
  <2>4. 1 \in DOMAIN (answer.events \o told)
    BY <2>1, <2>2, <2>3
  <2>5. (answer.events \o told)[1] = answer.events[1]
    BY <1>11, <1>12
  <2> QED
    BY <1>13, <2>4, <2>5
<1>17. /\ reply'.events[1].envelope = records[inFlightEmissionId].envelope
       /\ reply'.events[1].reason = "Confirmed"
  BY <1>12, <1>16
<1> QED
  BY <1>3, <1>7, <1>14, <1>15, <1>16, <1>17 DEF Settles

\* The event of the completion leads, also where the pump tells of others after it.
LEMMA CompletionLeads ==
  ASSUME IInv, NEW op, NEW reason \in {"Confirmed", "Cancelled"},
         Completes(op, reason) \/ (CompletesAndPumps /\ reason = "Confirmed")
  PROVE  /\ 1 \in DOMAIN reply'.events
         /\ reply'.events[1].envelope = records[inFlightEmissionId].envelope
         /\ reply'.events[1].reason = reason
<1>1. inFlightEmissionId # 0
  BY DEF Completes, CompletesAndPumps
<1>2. CASE Completes(op, reason)
  <2> DEFINE told == CompletionAnswer(op, reason).events
  <2>1. reply'.events = told
    BY <1>2 DEF Completes
  <2>2. /\ told \in Seq(Terminal) /\ Len(told) = 1
        /\ told[1] = [envelope |-> records[inFlightEmissionId].envelope, reason |-> reason]
    BY <1>1, CompletionTells
  <2> HIDE DEF told
  <2>3. 1 \in DOMAIN told
    BY <2>2
  <2> QED
    BY <2>1, <2>2, <2>3
<1>3. CASE CompletesAndPumps /\ reason = "Confirmed"
  <2> DEFINE answer == CompletionAnswer("Confirm", "Confirmed")
  <2>1. Pumps(Completed, 0, answer)
    BY <1>3, PumpKinds
  <2>2. PICK told : TellsDue(told, Completed) /\ PumpEffect(Completed, 0, answer, told)
    BY <2>1, PumpFacts
  <2>3. reply'.events = answer.events \o told /\ told \in Seq(Terminal)
    BY <2>2 DEF PumpEffect, TellsDue
  <2>4. /\ answer.events \in Seq(Terminal) /\ Len(answer.events) = 1
        /\ answer.events[1] =
             [envelope |-> records[inFlightEmissionId].envelope, reason |-> "Confirmed"]
    BY <1>1, CompletionTells
  <2> DEFINE first == answer.events
  <2> HIDE DEF answer, first
  <2>5. /\ 1 \in DOMAIN (first \o told)
        /\ (first \o told)[1] = first[1]
    <3>1. first \in Seq(Terminal) /\ told \in Seq(Terminal)
      BY <2>3, <2>4 DEF first
    <3>2. Len(first) = 1
      BY <2>4 DEF first
    <3>3. Len(first \o told) = Len(first) + Len(told)
      BY <3>1
    <3>4. first \o told \in Seq(Terminal) /\ Len(told) \in Nat
      BY <3>1
    <3>5. 1 \in DOMAIN (first \o told)
      BY <3>2, <3>3, <3>4
    <3>6. (first \o told)[1] = first[1]
      <4>1. \A i \in 1..Len(first) : (first \o told)[i] = first[i]
        BY <3>1
      <4> QED
        BY <3>2, <4>1
    <3> QED
      BY <3>5, <3>6
  <2> QED
    BY <1>3, <2>3, <2>4, <2>5 DEF first
<1> QED
  BY <1>2, <1>3

\* Pumping with nothing told yet settles exactly what was due.
LEMMA PumpSettles ==
  ASSUME IInv, NEW recs, NEW active, NEW answer, Pumps(recs, active, answer),
         answer.events = <<>>, DueIds(recs) = DueIds(records),
         \A id \in DueIds(records) : recs[id] = records[id],
         DOMAIN records \subseteq DOMAIN recs
  PROVE  Settles(DOMAIN records \ DOMAIN records', reply'.events)
<1>1. PICK told : TellsDue(told, recs) /\ PumpEffect(recs, active, answer, told)
  BY PumpFacts
<1>2. TellsDue(told, records)
  <2>1. /\ told \in Seq(Terminal)
        /\ Len(told) = Cardinality(DueIds(records))
        /\ \A i, j \in 1..Len(told) :
             i < j => ExpirationAhead(told[i].envelope, told[j].envelope)
    BY <1>1 DEF TellsDue
  <2>2. \A id \in DueIds(records) : \E i \in 1..Len(told) :
          /\ told[i].envelope = records[id].envelope
          /\ told[i].reason = ResolveExpirationTerminalReason(records[id].expirePolicy)
    BY <1>1 DEF TellsDue
  <2>3. \A i \in 1..Len(told) : \E id \in DueIds(records) :
          told[i].envelope = records[id].envelope
    BY <1>1 DEF TellsDue
  <2> QED
    BY <2>1, <2>2, <2>3 DEF TellsDue
<1>3. reply'.events = <<>> \o told /\ told \in Seq(Terminal)
  BY <1>1 DEF PumpEffect, TellsDue
<1>4. reply'.events = told
  BY <1>3
<1>5. DueIds(records) \subseteq DOMAIN records
  BY DEF DueIds, Pending
<1>6. DOMAIN records \ DOMAIN records' = DueIds(records)
  BY <1>1, <1>5 DEF PumpEffect
<1> QED
  BY <1>2, <1>4, <1>6, DueSettled

\* Whatever the step, every emission that leaves is told of once and with its reason.
LEMMA StepSettles ==
  ASSUME IInv, Next
  PROVE  Settles(DOMAIN records \ DOMAIN records', reply'.events)
<1> DEFINE gone == DOMAIN records \ DOMAIN records'
<1>0. ASSUME DOMAIN records' = DOMAIN records \/ DOMAIN records \subseteq DOMAIN records',
             reply'.events = <<>>
      PROVE  Settles(gone, reply'.events)
  BY <1>0, FS_EmptySet DEF Settles
<1>1. CASE Quiet
  BY <1>0, <1>1 DEF Quiet
<1>2. ASSUME NEW record, Files(record)
      PROVE  Settles(gone, reply'.events)
  <2>1. reply'.events = <<>>
    BY <1>2 DEF Files, FiledAnswer, Answer
  <2>2. DOMAIN records \subseteq DOMAIN records'
    BY <1>2, FiledRecords DEF Files
  <2> QED
    BY <1>0, <2>1, <2>2
<1>3. ASSUME NEW record, FilesAndPumps(record)
      PROVE  Settles(gone, reply'.events)
  <2>1. Admits(record)
    BY <1>3 DEF FilesAndPumps
  <2>2. FiledAnswer(record).events = <<>>
    BY DEF FiledAnswer, Answer
  <2>3. Pumps(Filed(record), 0, FiledAnswer(record))
    BY <1>3, PumpKinds
  <2>4. DueIds(Filed(record)) = DueIds(records)
    BY <2>1, DueOfPrepared
  <2>5. \A id \in DueIds(records) : Filed(record)[id] = records[id]
    BY <2>1, FiledRecords DEF DueIds, Pending
  <2>6. DOMAIN records \subseteq DOMAIN Filed(record)
    BY <2>1, FiledRecords
  <2> QED
    BY <2>2, <2>3, <2>4, <2>5, <2>6, PumpSettles
<1>4. ASSUME NEW id, Reschedules(id)
      PROVE  Settles(gone, reply'.events)
  <2>1. reply'.events = <<>> /\ DOMAIN records' = DOMAIN records
    BY <1>4 DEF Reschedules, Answer
  <2> QED
    BY <1>0, <2>1
<1>5. CASE Pump
  <2>1. Answer("Pump", "Done").events = <<>>
    BY DEF Answer
  <2>2. Pumps(records, inFlightEmissionId, Answer("Pump", "Done"))
    BY <1>5, PumpKinds
  <2> QED
    BY <2>1, <2>2, PumpSettles
<1>6. ASSUME NEW op, NEW reason \in {"Confirmed", "Cancelled"}, Completes(op, reason)
      PROVE  Settles(gone, reply'.events)
  <2> DEFINE told == CompletionAnswer(op, reason).events
  <2>1. /\ inFlightEmissionId # 0
        /\ records' = Completed
        /\ reply'.events = told
    BY <1>6 DEF Completes
  <2>2. gone = {inFlightEmissionId}
    BY <2>1, CompletedRecords
  <2>3. /\ told \in Seq(Terminal) /\ Len(told) = 1
        /\ told[1] = [envelope |-> records[inFlightEmissionId].envelope, reason |-> reason]
    BY <2>1, CompletionTells
  <2>4. Cardinality(gone) = 1
    BY <2>2, FS_Singleton
  <2> HIDE DEF told, gone
  <2>5. 1 \in DOMAIN told
    BY <2>3
  <2>6. told[1].envelope = records[inFlightEmissionId].envelope /\ told[1].reason = reason
    BY <2>3
  <2> QED
    BY <2>1, <2>2, <2>3, <2>4, <2>5, <2>6 DEF Settles
<1>7. CASE CompletesAndPumps
  BY <1>7, CompletionPumpSettles
<1>8. CASE ProcessDueExpirations
  <2>1. /\ DOMAIN records' = DOMAIN records \ DueIds(records)
        /\ TellsDue(reply'.events, records)
    BY <1>8, ExpirationStep
  <2>2. gone = DueIds(records)
    BY <2>1 DEF DueIds, Pending
  <2> QED
    BY <2>1, <2>2, DueSettled
<1>9. ASSUME \/ Completes("Confirm", "Confirmed")
             \/ Completes("CancelInFlight", "Cancelled")
      PROVE  Settles(gone, reply'.events)
  BY <1>6, <1>9
<1>10. \/ Quiet
       \/ \E record : Files(record)
       \/ \E record : FilesAndPumps(record)
       \/ \E id : Reschedules(id)
       \/ Pump
       \/ Completes("Confirm", "Confirmed") \/ Completes("CancelInFlight", "Cancelled")
       \/ CompletesAndPumps
       \/ ProcessDueExpirations
  BY StepShape, Zenon
<1> QED
  BY <1>1, <1>2, <1>3, <1>4, <1>5, <1>7, <1>8, <1>9, <1>10, Zenon

\* The order of the events: a completion before everything else, and each expiration
\* before the ones that fell due after it.
ToldInOrder(told) ==
  LET IsCompletion(terminal) == terminal.envelope.emissionId = inFlightEmissionId
  IN  \A i, j \in DOMAIN told :
        i < j => /\ ~IsCompletion(told[j])
                 /\ \/ IsCompletion(told[i])
                    \/ ExpirationAhead(told[i].envelope, told[j].envelope)

\* What tells of the due emissions is in order, and of none that is in flight.
LEMMA DueInOrder ==
  ASSUME IInv, NEW recs, NEW told, TellsDue(told, recs), DueIds(recs) = DueIds(records),
         \A id \in DueIds(recs) : recs[id].envelope.emissionId = id
  PROVE  /\ DOMAIN told = 1..Len(told)
         /\ \A i \in DOMAIN told : told[i].envelope.emissionId # inFlightEmissionId
         /\ ToldInOrder(told)
<1>1. DOMAIN told = 1..Len(told)
  BY DEF TellsDue
<1>2. inFlightEmissionId \notin DueIds(recs)
  BY DueOfPrepared
<1>3. \A i \in DOMAIN told : told[i].envelope.emissionId # inFlightEmissionId
  BY <1>1, <1>2 DEF TellsDue
<1> QED
  BY <1>1, <1>3 DEF TellsDue, ToldInOrder

\* A pump over nothing told yet, or over the event of the completion alone, keeps order.
LEMMA PumpInOrder ==
  ASSUME IInv, NEW recs, NEW active, NEW answer, Pumps(recs, active, answer),
         DueIds(recs) = DueIds(records),
         \/ answer.events = <<>>
         \/ /\ Len(answer.events) = 1
            /\ answer.events[1].envelope.emissionId = inFlightEmissionId
  PROVE  ToldInOrder(reply'.events)
<1> DEFINE first == answer.events
<1>1. PICK told : TellsDue(told, recs) /\ PumpEffect(recs, active, answer, told)
  BY PumpFacts
<1>2. \A id \in DueIds(recs) : recs[id].envelope.emissionId = id
  BY PumpFacts DEF DueIds, Pending
<1>3. /\ DOMAIN told = 1..Len(told)
      /\ \A i \in DOMAIN told : told[i].envelope.emissionId # inFlightEmissionId
      /\ ToldInOrder(told)
  BY <1>1, <1>2, DueInOrder
<1>4. reply'.events = first \o told
  BY <1>1 DEF PumpEffect
<1>5. first \in Seq(Terminal) /\ told \in Seq(Terminal)
  BY <1>1 DEF Pumps, Reply, TellsDue
<1> HIDE DEF first
<1>6. CASE first = <<>>
  <2>1. first \o told = told
    BY <1>5, <1>6
  <2> QED
    BY <1>3, <1>4, <2>1
<1>7. CASE Len(first) = 1 /\ first[1].envelope.emissionId = inFlightEmissionId
  <2>1. /\ Len(told) \in Nat
        /\ DOMAIN (first \o told) = 1..(1 + Len(told))
    <3>1. Len(first \o told) = Len(first) + Len(told) /\ first \o told \in Seq(Terminal)
      BY <1>5
    <3>2. DOMAIN (first \o told) = 1..Len(first \o told) /\ Len(told) \in Nat
      BY <1>5, <3>1
    <3> QED
      BY <1>7, <3>1, <3>2
  <2>2. (first \o told)[1] = first[1]
    <3>1. \A i \in 1..Len(first) : (first \o told)[i] = first[i]
      BY <1>5
    <3> QED
      BY <1>7, <3>1
  <2>3. \A i \in DOMAIN (first \o told) :
          i # 1 => i - 1 \in DOMAIN told /\ (first \o told)[i] = told[i - 1]
    <3> SUFFICES ASSUME NEW i \in DOMAIN (first \o told), i # 1
                 PROVE  i - 1 \in DOMAIN told /\ (first \o told)[i] = told[i - 1]
      OBVIOUS
    <3>1. i - 1 \in 1..Len(told) /\ 1 + (i - 1) = i
      BY <2>1
    <3>2. (first \o told)[Len(first) + (i - 1)] = told[i - 1]
      BY <1>5, <3>1, Appended
    <3> QED
      BY <1>3, <1>7, <3>1, <3>2
  <2>4. ASSUME NEW i \in DOMAIN (first \o told), NEW j \in DOMAIN (first \o told), i < j
        PROVE  /\ (first \o told)[j].envelope.emissionId # inFlightEmissionId
               /\ \/ (first \o told)[i].envelope.emissionId = inFlightEmissionId
                  \/ ExpirationAhead((first \o told)[i].envelope, (first \o told)[j].envelope)
    <3>1. i \in Int /\ j \in Int /\ 1 <= i /\ j # 1
      BY <2>1, <2>4
    <3>2. j - 1 \in DOMAIN told /\ (first \o told)[j] = told[j - 1]
      BY <2>3, <3>1
    <3>3. CASE i = 1
      BY <1>3, <1>7, <2>2, <3>2, <3>3
    <3>4. CASE i # 1
      <4>1. i - 1 \in DOMAIN told /\ (first \o told)[i] = told[i - 1]
        BY <2>3, <3>4
      <4>2. i - 1 < j - 1
        BY <2>4, <3>1
      <4> QED
        BY <1>3, <3>2, <4>1, <4>2 DEF ToldInOrder
    <3> QED
      BY <3>3, <3>4
  <2> QED
    BY <1>4, <2>4 DEF ToldInOrder
<1> QED
  BY <1>6, <1>7 DEF first

\* Whatever the step, its events are in order.
LEMMA StepInOrder ==
  ASSUME IInv, Next
  PROVE  ToldInOrder(reply'.events)
<1>1. ASSUME reply'.events = <<>>
      PROVE  ToldInOrder(reply'.events)
  BY <1>1 DEF ToldInOrder
<1>2. CASE Quiet
  BY <1>1, <1>2 DEF Quiet
<1>3. ASSUME NEW record, Files(record)
      PROVE  ToldInOrder(reply'.events)
  BY <1>1, <1>3 DEF Files, FiledAnswer, Answer
<1>4. ASSUME NEW record, FilesAndPumps(record)
      PROVE  ToldInOrder(reply'.events)
  <2>1. Admits(record)
    BY <1>4 DEF FilesAndPumps
  <2>2. FiledAnswer(record).events = <<>>
    BY DEF FiledAnswer, Answer
  <2>3. Pumps(Filed(record), 0, FiledAnswer(record))
    BY <1>4, PumpKinds
  <2>4. DueIds(Filed(record)) = DueIds(records)
    BY <2>1, DueOfPrepared
  <2> QED
    BY <2>2, <2>3, <2>4, PumpInOrder
<1>5. ASSUME NEW id, Reschedules(id)
      PROVE  ToldInOrder(reply'.events)
  BY <1>1, <1>5 DEF Reschedules, Answer
<1>6. CASE Pump
  <2>1. Answer("Pump", "Done").events = <<>>
    BY DEF Answer
  <2>2. Pumps(records, inFlightEmissionId, Answer("Pump", "Done"))
    BY <1>6, PumpKinds
  <2> QED
    BY <2>1, <2>2, PumpInOrder
<1>7. ASSUME NEW op, NEW reason \in {"Confirmed", "Cancelled"}, Completes(op, reason)
      PROVE  ToldInOrder(reply'.events)
  <2> DEFINE told == CompletionAnswer(op, reason).events
  <2>1. inFlightEmissionId # 0 /\ reply'.events = told
    BY <1>7 DEF Completes
  <2>2. told \in Seq(Terminal) /\ Len(told) = 1
    BY <2>1, CompletionTells
  <2> HIDE DEF told
  <2>3. DOMAIN told = {1}
    BY <2>2
  <2> QED
    BY <2>1, <2>3 DEF ToldInOrder
<1>8. CASE CompletesAndPumps
  <2> DEFINE answer == CompletionAnswer("Confirm", "Confirmed")
  <2>1. inFlightEmissionId # 0 /\ Pumps(Completed, 0, answer)
    BY <1>8, PumpKinds DEF CompletesAndPumps
  <2>2. DueIds(Completed) = DueIds(records)
    BY <2>1, DueOfPrepared
  <2>3. /\ Len(answer.events) = 1
        /\ answer.events[1].envelope = records[inFlightEmissionId].envelope
    BY <2>1, CompletionTells
  <2>4. records[inFlightEmissionId].envelope.emissionId = inFlightEmissionId
    BY <2>1 DEF IInv, InFlightCoherent, RecordsKeyed
  <2> HIDE DEF answer
  <2> QED
    BY <2>1, <2>2, <2>3, <2>4, PumpInOrder
<1>9. CASE ProcessDueExpirations
  <2>1. TellsDue(reply'.events, records)
    BY <1>9, ExpirationStep
  <2>2. \A id \in DueIds(records) : records[id].envelope.emissionId = id
    BY DEF DueIds, Pending, IInv, RecordsKeyed
  <2> QED
    BY <2>1, <2>2, DueInOrder
<1>10. ASSUME \/ Completes("Confirm", "Confirmed")
              \/ Completes("CancelInFlight", "Cancelled")
       PROVE  ToldInOrder(reply'.events)
  BY <1>7, <1>10
<1>11. \/ Quiet
       \/ \E record : Files(record)
       \/ \E record : FilesAndPumps(record)
       \/ \E id : Reschedules(id)
       \/ Pump
       \/ Completes("Confirm", "Confirmed") \/ Completes("CancelInFlight", "Cancelled")
       \/ CompletesAndPumps
       \/ ProcessDueExpirations
  BY StepShape, Zenon
<1> QED
  BY <1>2, <1>3, <1>4, <1>5, <1>6, <1>8, <1>9, <1>10, <1>11, Zenon

\* What is in flight leaves by its completion only, which names itself in the answer.
LEMMA InFlightLeaves ==
  ASSUME IInv, Next, inFlightEmissionId \in DOMAIN records \ DOMAIN records'
  PROVE  \E i \in DOMAIN reply'.events :
           /\ reply'.events[i].envelope = records[inFlightEmissionId].envelope
           /\ <<reply'.op, reply'.events[i].reason>> \in
                {<<"Confirm", "Confirmed">>, <<"CancelInFlight", "Cancelled">>}
<1> DEFINE Wanted == \E i \in DOMAIN reply'.events :
              /\ reply'.events[i].envelope = records[inFlightEmissionId].envelope
              /\ <<reply'.op, reply'.events[i].reason>> \in
                   {<<"Confirm", "Confirmed">>, <<"CancelInFlight", "Cancelled">>}
<1>1. inFlightEmissionId \notin DueIds(records)
  BY DueOfPrepared
<1>2. ~Quiet /\ \A id : ~Reschedules(id)
  BY DEF Quiet, Reschedules
<1>3. ASSUME NEW record, Files(record)
      PROVE  FALSE
  BY <1>3, FiledRecords DEF Files
<1>4. ASSUME NEW recs, NEW active, NEW answer, Pumps(recs, active, answer),
             DueIds(recs) = DueIds(records), DOMAIN records \subseteq DOMAIN recs
      PROVE  FALSE
  BY <1>1, <1>4, PumpFacts DEF PumpEffect
<1>5. ASSUME NEW record, FilesAndPumps(record)
      PROVE  FALSE
  <2>1. Admits(record)
    BY <1>5 DEF FilesAndPumps
  <2>2. Pumps(Filed(record), 0, FiledAnswer(record))
    BY <1>5, PumpKinds
  <2>3. DueIds(Filed(record)) = DueIds(records) /\ DOMAIN records \subseteq DOMAIN Filed(record)
    BY <2>1, DueOfPrepared, FiledRecords
  <2> QED
    BY <1>4, <2>2, <2>3
<1>6. ~Pump
  BY <1>4, PumpKinds
<1>7. ~ProcessDueExpirations
  BY <1>1, ExpirationStep
<1>8. ASSUME Completes("Confirm", "Confirmed")
      PROVE  Wanted
  <2>1. reply'.op = "Confirm"
    BY <1>8 DEF Completes, CompletionAnswer, Answer
  <2> QED
    BY <1>8, <2>1, CompletionLeads
<1>9. ASSUME Completes("CancelInFlight", "Cancelled")
      PROVE  Wanted
  <2>1. reply'.op = "CancelInFlight"
    BY <1>9 DEF Completes, CompletionAnswer, Answer
  <2> QED
    BY <1>9, <2>1, CompletionLeads
<1>10. ASSUME CompletesAndPumps
       PROVE  Wanted
  <2> DEFINE answer == CompletionAnswer("Confirm", "Confirmed")
  <2>1. Pumps(Completed, 0, answer)
    BY <1>10, PumpKinds
  <2>2. PICK told : PumpEffect(Completed, 0, answer, told)
    BY <2>1, PumpFacts
  <2>3. answer.op = "Confirm"
    BY DEF CompletionAnswer, Answer
  <2>4. reply'.op = "Confirm"
    BY <2>2, <2>3 DEF PumpEffect
  <2> QED
    BY <1>10, <2>4, CompletionLeads
<1> HIDE DEF Wanted
<1>11. Wanted
  BY <1>2, <1>3, <1>5, <1>6, <1>7, <1>8, <1>9, <1>10, StepShape, Zenon
<1> QED
  BY <1>11 DEF Wanted

\* Every emission that leaves is told of exactly once, with the envelope it had and the
\* reason of the operation or policy that ended it, by the operation that ended it: the
\* completion first, then the expirations in the order in which they fell due.
THEOREM TerminalsExact == Spec => TerminalExactlyOnce
<1> DEFINE Told(gone, told) ==
             /\ Len(told) = Cardinality(gone)
             /\ \A id \in gone :
                  \E i \in DOMAIN told :
                    /\ told[i].envelope = records[id].envelope
                    /\ IF id = inFlightEmissionId
                       THEN <<reply'.op, told[i].reason>> \in
                              {<<"Confirm", "Confirmed">>, <<"CancelInFlight", "Cancelled">>}
                       ELSE told[i].reason =
                              ResolveExpirationTerminalReason(records[id].expirePolicy)
<1>1. ASSUME IInv, Next
      PROVE  /\ Told(DOMAIN records \ DOMAIN records', reply'.events)
             /\ ToldInOrder(reply'.events)
  <2> DEFINE gone == DOMAIN records \ DOMAIN records'
             told == reply'.events
  <2>1. Settles(gone, told)
    BY <1>1, StepSettles
  <2>2. inFlightEmissionId \in gone =>
          \E i \in DOMAIN told :
            /\ told[i].envelope = records[inFlightEmissionId].envelope
            /\ <<reply'.op, told[i].reason>> \in
                 {<<"Confirm", "Confirmed">>, <<"CancelInFlight", "Cancelled">>}
    BY <1>1, InFlightLeaves
  <2> HIDE DEF gone, told
  <2>3. Told(gone, told)
    BY <2>1, <2>2 DEF Settles
  <2> QED
    BY <1>1, <2>3, StepInOrder DEF gone, told
<1>2. IInv /\ [Next]_vars => [/\ Told(DOMAIN records \ DOMAIN records', reply'.events)
                              /\ ToldInOrder(reply'.events)]_vars
  BY <1>1
<1> QED
  BY <1>2, InductiveInvariant, PTL DEF Spec, TerminalExactlyOnce, ToldInOrder
------------------------------------------------------------------------------
(* EventQueueCore implements EventScheduler *)

\* The refinement mapping of EventQueueCore, on any records, counter and reply.
LiveOf(recs) == [id \in DOMAIN recs |-> [envelope |-> recs[id].envelope,
                                         expirePolicy |-> recs[id].expirePolicy]]
UsedOf(next) == IF next = 0 THEN MaxIdentity ELSE next - 1
AnswerOf(rep) == [emission |-> rep.emission, pump |-> rep.pump, ready |-> rep.ready,
                  events |-> rep.events, wake |-> rep.wake]
------------------------------------------------------------------------------
\* The two modules read the same definitions of EventQueueTypes.
LEMMA SameOperators ==
  /\ \A f, S : Scheduler!Without(f, S) = Without(f, S)
  /\ \A f, i, v : Scheduler!With(f, i, v) = With(f, i, v)
  /\ \A e, at : Scheduler!Due(e, at) <=> Due(e, at)
  /\ \A a, b : Scheduler!PriorityAhead(a, b) <=> PriorityAhead(a, b)
  /\ \A S : Scheduler!InExpirationOrder(S) = InExpirationOrder(S)
  /\ \A p : Scheduler!ResolveExpirationTerminalReason(p) = ResolveExpirationTerminalReason(p)
  /\ Scheduler!Time = Time /\ Scheduler!Score = Score
  /\ Scheduler!ExpirePolicy = ExpirePolicy
<1>1. \A f, S : Scheduler!Without(f, S) = Without(f, S)
  BY DEF Scheduler!Without, Without
<1>2. \A f, i, v : Scheduler!With(f, i, v) = With(f, i, v)
  BY DEF Scheduler!With, With
<1>3. \A e, at : Scheduler!Due(e, at) <=> Due(e, at)
  BY DEF Scheduler!Due, Due, Scheduler!Finite, Finite
<1>4. \A a, b : Scheduler!PriorityAhead(a, b) <=> PriorityAhead(a, b)
  BY DEF Scheduler!PriorityAhead, PriorityAhead
<1>5. \A S : Scheduler!InExpirationOrder(S) = InExpirationOrder(S)
  <2>1. \A a, b : Scheduler!ExpirationAhead(a, b) <=> ExpirationAhead(a, b)
    BY DEF Scheduler!ExpirationAhead, ExpirationAhead
  <2>2. \A S : Scheduler!Cardinality(S) = Cardinality(S)
    BY DEF Scheduler!Cardinality, Cardinality
  <2>3. ASSUME NEW S
        PROVE  Scheduler!InExpirationOrder(S) = InExpirationOrder(S)
    <3> DEFINE candidates == [1..Cardinality(S) -> S]
    <3>1. ASSUME NEW q \in candidates
          PROVE  q \in Scheduler!InExpirationOrder(S) <=> q \in InExpirationOrder(S)
      BY <2>1, <2>2 DEF Scheduler!InExpirationOrder, InExpirationOrder
    <3>2. /\ Scheduler!InExpirationOrder(S) \subseteq candidates
          /\ InExpirationOrder(S) \subseteq candidates
      BY <2>2 DEF Scheduler!InExpirationOrder, InExpirationOrder
    <3> HIDE DEF candidates
    <3> QED
      BY <3>1, <3>2
  <2> QED
    BY <2>3
<1>6. \A p : Scheduler!ResolveExpirationTerminalReason(p) = ResolveExpirationTerminalReason(p)
  BY DEF Scheduler!ResolveExpirationTerminalReason, ResolveExpirationTerminalReason
<1>7. Scheduler!Time = Time /\ Scheduler!Score = Score
      /\ Scheduler!ExpirePolicy = ExpirePolicy
  BY DEF Scheduler!Time, Time, Scheduler!Score, Score, Scheduler!ExpirePolicy, ExpirePolicy
<1> QED
  BY <1>1, <1>2, <1>3, <1>4, <1>5, <1>6, <1>7

\* The queue starts as the scheduler does.
LEMMA InitMaps ==
  ASSUME Init
  PROVE  Scheduler!Init
<1>1. /\ now = 0 /\ nextIdentity = 1 /\ records = [id \in {} |-> None]
      /\ inFlightEmissionId = 0 /\ reply = Answer("Construct", "Done")
  BY DEF Init
<1>2. now \in Scheduler!Time
  BY <1>1, SameOperators, TypesAssumption DEF Time
<1>3. LiveOf(records) = [id \in {} |-> None]
  BY <1>1 DEF LiveOf
<1>4. AnswerOf(reply) = Scheduler!Silence
  BY <1>1 DEF AnswerOf, Answer, Scheduler!Silence
<1> QED
  BY <1>1, <1>2, <1>3, <1>4 DEF Scheduler!Init, LiveOf, AnswerOf
------------------------------------------------------------------------------
\* The mapped emissions are the records without their state and revision.
LEMMA LiveProperties ==
  ASSUME NEW recs
  PROVE  /\ DOMAIN LiveOf(recs) = DOMAIN recs
         /\ \A id \in DOMAIN recs : /\ LiveOf(recs)[id].envelope = recs[id].envelope
                                    /\ LiveOf(recs)[id].expirePolicy = recs[id].expirePolicy
BY DEF LiveOf

\* What waits for the scheduler is Pending for the queue, and the same is overdue.
LEMMA OverdueMaps ==
  ASSUME NEW recs, NEW pIndex, NEW eIndex, NEW active,
         PreparedInv(recs, pIndex, eIndex, active)
  PROVE  /\ Scheduler!Waiting(LiveOf(recs), active) = Pending(recs)
         /\ Scheduler!Overdue(LiveOf(recs), active) = DueIds(recs)
<1>1. \A id \in DOMAIN recs : recs[id].state \in {"Pending", "InFlight"}
  BY DEF PreparedInv, PreparedTypeOK, Record
<1>2. Pending(recs) = DOMAIN recs \ {active}
  BY <1>1 DEF Pending, PreparedInv
<1>3. Scheduler!Waiting(LiveOf(recs), active) = Pending(recs)
  BY <1>2, LiveProperties DEF Scheduler!Waiting
<1>4. \A id \in Pending(recs) : LiveOf(recs)[id].envelope = recs[id].envelope
  BY LiveProperties DEF Pending
<1>5. Scheduler!Overdue(LiveOf(recs), active) = DueIds(recs)
  BY <1>3, <1>4, SameOperators DEF Scheduler!Overdue, DueIds
<1> QED
  BY <1>3, <1>5

\* Taking emissions out commutes with the mapping.
LEMMA WithoutMaps ==
  ASSUME NEW recs, NEW S, NEW next, DOMAIN next = DOMAIN recs \ S,
         \A id \in DOMAIN next : /\ next[id].envelope = recs[id].envelope
                                 /\ next[id].expirePolicy = recs[id].expirePolicy
  PROVE  Scheduler!Without(LiveOf(recs), S) = LiveOf(next)
<1>1. Scheduler!Without(LiveOf(recs), S) = [id \in DOMAIN recs \ S |-> LiveOf(recs)[id]]
  BY LiveProperties, SameOperators DEF Without
<1>2. LiveOf(next) = [id \in DOMAIN recs \ S |-> [envelope |-> next[id].envelope,
                                                  expirePolicy |-> next[id].expirePolicy]]
  BY DEF LiveOf
<1>3. \A id \in DOMAIN recs \ S :
        LiveOf(recs)[id] = [envelope |-> next[id].envelope,
                            expirePolicy |-> next[id].expirePolicy]
  BY DEF LiveOf
<1> QED
  BY <1>1, <1>2, <1>3

\* The events in the order of the heap are events in the order of the scheduler:
\* the two orders compare the same fields of keys and of envelopes.
LEMMA ExpirationsMap ==
  ASSUME NEW recs, NEW pIndex, NEW eIndex, NEW active,
         PreparedInv(recs, pIndex, eIndex, active),
         NEW order \in InExpirationOrder(DueKeys(recs, eIndex))
  PROVE  Expired(order, recs) \in Scheduler!Expirations(LiveOf(recs), active)
<1> DEFINE keys == DueKeys(recs, eIndex)
           ids == DueIds(recs)
           alive == LiveOf(recs)
           envelopes == {alive[id].envelope : id \in ids}
           q == [i \in DOMAIN order |-> recs[order[i].emissionId].envelope]
           EnvelopeOf == [id \in ids |-> alive[id].envelope]
<1>1. /\ order \in [1..Cardinality(keys) -> keys]
      /\ \A key \in keys : \E i \in DOMAIN order : order[i] = key
      /\ \A i, j \in DOMAIN order : i < j => ExpirationAhead(order[i], order[j])
  BY DEF InExpirationOrder
<1>2. IsFiniteSet(ids) /\ Cardinality(ids) = Cardinality(keys)
  BY DueCount
<1>3. \A id \in ids : /\ id \in DOMAIN recs
                      /\ alive[id].envelope = recs[id].envelope
                      /\ alive[id].expirePolicy = recs[id].expirePolicy
                      /\ recs[id].envelope.emissionId = id
  BY LiveProperties DEF DueIds, Pending, PreparedInv
<1>4. keys = {ExpirationKeyOf(recs[id]) : id \in ids}
  BY DueKeysExact
<1>5. \A key \in keys : /\ key.emissionId \in ids
                        /\ key.expiresAt = recs[key.emissionId].envelope.expiresAt
  BY <1>3, <1>4 DEF ExpirationKeyOf
<1> HIDE DEF keys, ids, alive
<1>6. Cardinality(envelopes) = Cardinality(keys)
  <2>1. EnvelopeOf \in [ids -> envelopes]
    OBVIOUS
  <2>2. \A a, b \in ids : EnvelopeOf[a] = EnvelopeOf[b] => a = b
    BY <1>3
  <2>3. \A e \in envelopes : \E id \in ids : EnvelopeOf[id] = e
    OBVIOUS
  <2> HIDE DEF EnvelopeOf, envelopes
  <2>4. EnvelopeOf \in Bijection(ids, envelopes)
    BY <2>1, <2>2, <2>3 DEF Bijection, Injection, Surjection, IsInjective
  <2>5. ExistsBijection(ids, envelopes)
    BY <2>4 DEF ExistsBijection
  <2> QED
    BY <1>2, <2>5, FS_Bijection
<1>7. DOMAIN order = 1..Cardinality(keys) /\ DOMAIN q = DOMAIN order
  BY <1>1
<1>8. \A i \in DOMAIN order : /\ order[i].emissionId \in ids
                              /\ q[i] = recs[order[i].emissionId].envelope
                              /\ q[i] \in envelopes
                              /\ q[i].emissionId = order[i].emissionId
                              /\ q[i].expiresAt = order[i].expiresAt
  BY <1>1, <1>3, <1>5
<1>9. q \in [1..Cardinality(envelopes) -> envelopes]
  BY <1>6, <1>7, <1>8
<1>10. \A e \in envelopes : \E i \in DOMAIN q : q[i] = e
  <2>1. ASSUME NEW id \in ids
        PROVE  \E i \in DOMAIN q : q[i] = alive[id].envelope
    <3>1. PICK i \in DOMAIN order : order[i] = ExpirationKeyOf(recs[id])
      BY <1>1, <1>4
    <3>2. order[i].emissionId = id
      BY <1>3, <3>1 DEF ExpirationKeyOf
    <3> QED
      BY <1>3, <1>7, <1>8, <3>2
  <2> QED
    BY <2>1
<1>11. \A i, j \in DOMAIN q : i < j => ExpirationAhead(q[i], q[j])
  <2>1. ASSUME NEW i \in DOMAIN order, NEW j \in DOMAIN order, i < j
        PROVE  ExpirationAhead(q[i], q[j])
    <3>1. ExpirationAhead(order[i], order[j])
      BY <1>1, <2>1
    <3>2. /\ q[i].emissionId = order[i].emissionId /\ q[i].expiresAt = order[i].expiresAt
          /\ q[j].emissionId = order[j].emissionId /\ q[j].expiresAt = order[j].expiresAt
      BY <1>8
    <3> HIDE DEF q
    <3> QED
      BY <3>1, <3>2 DEF ExpirationAhead
  <2> HIDE DEF q
  <2> QED
    BY <1>7, <2>1
<1>12. q \in Scheduler!InExpirationOrder(envelopes)
  <2> HIDE DEF q, envelopes
  <2>1. q \in InExpirationOrder(envelopes)
    BY <1>9, <1>10, <1>11 DEF InExpirationOrder
  <2> QED
    BY <2>1, SameOperators
<1>13. Expired(order, recs) =
         [i \in DOMAIN q |-> Scheduler!Expiration(alive[q[i].emissionId])]
  <2>1. ASSUME NEW i \in DOMAIN order
        PROVE  [envelope |-> recs[order[i].emissionId].envelope,
                reason |-> ResolveExpirationTerminalReason(
                             recs[order[i].emissionId].expirePolicy)] =
               Scheduler!Expiration(alive[q[i].emissionId])
    <3>1. q[i].emissionId = order[i].emissionId /\ order[i].emissionId \in ids
      BY <1>8
    <3> HIDE DEF q
    <3> QED
      BY <1>3, <3>1, SameOperators DEF Scheduler!Expiration, Scheduler!End
  <2>2. Expired(order, recs) =
          [i \in DOMAIN order |->
             [envelope |-> recs[order[i].emissionId].envelope,
              reason |-> ResolveExpirationTerminalReason(
                           recs[order[i].emissionId].expirePolicy)]]
    BY DEF Expired
  <2> HIDE DEF q
  <2> QED
    BY <1>7, <2>1, <2>2
<1>14. Scheduler!Overdue(alive, active) = ids
  BY OverdueMaps DEF alive, ids
<1> HIDE DEF q, envelopes
<1>15. Scheduler!Expirations(alive, active) =
         {[i \in DOMAIN p |-> Scheduler!Expiration(alive[p[i].emissionId])] :
            p \in Scheduler!InExpirationOrder(envelopes)}
  BY <1>14 DEF Scheduler!Expirations, envelopes
<1> QED
  BY <1>12, <1>13, <1>15 DEF alive

\* What an answer says when events, a pump status and an envelope are added to it.
LEMMA ToldFields ==
  ASSUME NEW answer, NEW ended, NEW status, NEW envelope
  PROVE  LET told == [AnswerOf(answer) EXCEPT !.events = @ \o ended]
         IN  /\ [told EXCEPT !.pump = status] =
                  [emission |-> answer.emission, pump |-> status, ready |-> answer.ready,
                   events |-> answer.events \o ended, wake |-> answer.wake]
             /\ [told EXCEPT !.pump = status, !.ready = envelope] =
                  [emission |-> answer.emission, pump |-> status, ready |-> envelope,
                   events |-> answer.events \o ended, wake |-> answer.wake]
<1> DEFINE events == answer.events \o ended
<1>1. AnswerOf(answer).events \o ended = events
  BY DEF AnswerOf
<1> HIDE DEF events
<1>2. [AnswerOf(answer) EXCEPT !.events = events] =
        [emission |-> answer.emission, pump |-> answer.pump, ready |-> answer.ready,
         events |-> events, wake |-> answer.wake]
  BY DEF AnswerOf
<1>3. [AnswerOf(answer) EXCEPT !.events = @ \o ended] =
        [AnswerOf(answer) EXCEPT !.events = events]
  BY <1>1, Zenon
<1> DEFINE told == [AnswerOf(answer) EXCEPT !.events = @ \o ended]
<1>4. told = [emission |-> answer.emission, pump |-> answer.pump, ready |-> answer.ready,
              events |-> events, wake |-> answer.wake]
  BY <1>2, <1>3
<1> HIDE DEF told
<1>5. [told EXCEPT !.pump = status] =
        [emission |-> answer.emission, pump |-> status, ready |-> answer.ready,
         events |-> events, wake |-> answer.wake]
  BY <1>4
<1>6. [told EXCEPT !.pump = status, !.ready = envelope] =
        [[told EXCEPT !.pump = status] EXCEPT !.ready = envelope]
  BY <1>4
<1> DEFINE plain == [told EXCEPT !.pump = status]
<1>7. plain = [emission |-> answer.emission, pump |-> status, ready |-> answer.ready,
               events |-> events, wake |-> answer.wake]
  BY <1>5
<1> HIDE DEF plain
<1>8. [plain EXCEPT !.ready = envelope] =
        [emission |-> answer.emission, pump |-> status, ready |-> envelope,
         events |-> events, wake |-> answer.wake]
  BY <1>7
<1> QED
  BY <1>5, <1>6, <1>8 DEF told, events, plain
------------------------------------------------------------------------------
\* A pump of the queue is a dispatch of the scheduler: what is overdue ends, and
\* the front of the selection heap is the best that waits.
LEMMA DispatchMaps ==
  ASSUME IInv, NEW recs, NEW active, NEW answer, Pumps(recs, active, answer)
  PROVE  Scheduler!Dispatch(LiveOf(recs), active, AnswerOf(answer))
<1> PICK pIndex, eIndex : /\ PreparedInv(recs, pIndex, eIndex, active)
                          /\ PumpAt(recs, pIndex, eIndex, active, answer)
  BY DEF Pumps
<1>1. now \in Int /\ answer \in Reply
  BY CoreAssumption, TypesAssumption DEF IInv, TypeOK, Time, Pumps
<1>2. PICK order \in InExpirationOrder(DueKeys(recs, eIndex)) :
        PumpEffect(recs, active, answer, Expired(order, recs))
  BY <1>1, PumpOutcome
<1> DEFINE alive == LiveOf(recs)
           left == Scheduler!Without(alive, Scheduler!Overdue(alive, active))
           ended == Expired(order, recs)
           said == AnswerOf(answer)
           told == [said EXCEPT !.events = @ \o ended]
           waiting == Scheduler!Waiting(left, active)
<1>3. ended \in Scheduler!Expirations(alive, active)
  BY ExpirationsMap
<1>4. DOMAIN records' = DOMAIN recs \ DueIds(recs)
  BY <1>2 DEF PumpEffect
<1>5. \A id \in DOMAIN records' : /\ records'[id].envelope = recs[id].envelope
                                  /\ records'[id].expirePolicy = recs[id].expirePolicy
  <2>1. \A id \in DOMAIN recs : recs[id] \in Record
    BY DEF PreparedInv, PreparedTypeOK
  <2> QED
    BY <1>2, <1>4, <2>1 DEF PumpEffect, Record
<1>6. left = LiveOf(records')
  <2>1. Scheduler!Overdue(alive, active) = DueIds(recs)
    BY OverdueMaps
  <2> HIDE DEF alive
  <2>2. \A next : DOMAIN next = DOMAIN recs \ DueIds(recs)
                 /\ (\A id \in DOMAIN next : /\ next[id].envelope = recs[id].envelope
                                            /\ next[id].expirePolicy = recs[id].expirePolicy)
                 => Scheduler!Without(alive, DueIds(recs)) = LiveOf(next)
    BY WithoutMaps DEF alive
  <2> QED
    BY <1>4, <1>5, <2>1, <2>2
<1>7. waiting = DOMAIN records' \ {active}
  BY <1>6, LiveProperties DEF Scheduler!Waiting
<1>8. \A id \in DOMAIN records' : left[id].envelope = recs[id].envelope
  BY <1>5, <1>6, LiveProperties
<1>9. /\ reply'.events = answer.events \o ended
      /\ reply'.emission = answer.emission /\ reply'.wake = answer.wake
  BY <1>2 DEF PumpEffect
<1>10. \A status, envelope :
         /\ [told EXCEPT !.pump = status] =
              [emission |-> answer.emission, pump |-> status, ready |-> answer.ready,
               events |-> answer.events \o ended, wake |-> answer.wake]
         /\ [told EXCEPT !.pump = status, !.ready = envelope] =
              [emission |-> answer.emission, pump |-> status, ready |-> envelope,
               events |-> answer.events \o ended, wake |-> answer.wake]
  <2> HIDE DEF ended
  <2> QED
    BY ToldFields
<1> HIDE DEF told, left, ended
<1>11. AnswerOf(reply') =
         [emission |-> answer.emission, pump |-> reply'.pump, ready |-> reply'.ready,
          events |-> answer.events \o ended, wake |-> answer.wake]
  BY <1>9 DEF AnswerOf
<1>12. \/ /\ active # 0
          /\ inFlightEmissionId' = active
          /\ AnswerOf(reply') = [told EXCEPT !.pump = "Busy"]
       \/ /\ active = 0 /\ waiting = {}
          /\ inFlightEmissionId' = 0
          /\ AnswerOf(reply') = [told EXCEPT !.pump = "QueueEmpty"]
       \/ /\ active = 0
          /\ \E best \in waiting :
               /\ \A other \in waiting \ {best} :
                    Scheduler!PriorityAhead(left[best].envelope, left[other].envelope)
               /\ inFlightEmissionId' = best
               /\ AnswerOf(reply') = [told EXCEPT !.pump = "EmissionReady",
                                                  !.ready = left[best].envelope]
  <2>1. CASE active # 0
    <3>1. inFlightEmissionId' = active /\ reply'.pump = "Busy" /\ reply'.ready = answer.ready
      BY <1>2, <2>1 DEF PumpEffect
    <3> QED
      BY <1>10, <1>11, <2>1, <3>1
  <2>2. CASE /\ active = 0
             /\ inFlightEmissionId' = 0
             /\ DOMAIN records' = {}
             /\ reply'.pump = "QueueEmpty" /\ reply'.ready = answer.ready
    BY <1>7, <1>10, <1>11, <2>2
  <2>3. CASE /\ active = 0
             /\ inFlightEmissionId' \in DOMAIN records'
             /\ inFlightEmissionId' \in Pending(recs)
             /\ reply'.pump = "EmissionReady"
             /\ reply'.ready = recs[inFlightEmissionId'].envelope
             /\ \A other \in DOMAIN records' \ {inFlightEmissionId'} :
                  PriorityAhead(recs[inFlightEmissionId'].envelope, recs[other].envelope)
    <3> DEFINE best == inFlightEmissionId'
    <3>1. best # 0
      BY <2>3, TypesAssumption DEF PreparedInv, PreparedTypeOK, Identity, Pending
    <3>2. best \in waiting /\ waiting \subseteq DOMAIN records'
      BY <1>7, <2>3, <3>1
    <3>3. \A other \in waiting \ {best} :
            Scheduler!PriorityAhead(left[best].envelope, left[other].envelope)
      BY <1>8, <2>3, <3>2, SameOperators
    <3>4. AnswerOf(reply') = [told EXCEPT !.pump = "EmissionReady",
                                          !.ready = left[best].envelope]
      <4>1. reply'.ready = left[best].envelope /\ reply'.pump = "EmissionReady"
        BY <1>8, <2>3
      <4> DEFINE envelope == left[best].envelope
      <4> HIDE DEF best, envelope
      <4>2. [told EXCEPT !.pump = "EmissionReady", !.ready = envelope] =
              [emission |-> answer.emission, pump |-> "EmissionReady", ready |-> envelope,
               events |-> answer.events \o ended, wake |-> answer.wake]
        BY <1>10
      <4>3. reply'.ready = envelope /\ reply'.pump = "EmissionReady"
        BY <4>1 DEF envelope
      <4>4. AnswerOf(reply') = [told EXCEPT !.pump = "EmissionReady", !.ready = envelope]
        BY <1>11, <4>2, <4>3
      <4> QED
        BY <4>4 DEF envelope
    <3> QED
      BY <2>3, <3>2, <3>3, <3>4
  <2> QED
    BY <1>2, <2>1, <2>2, <2>3 DEF PumpEffect
<1> HIDE DEF waiting, alive, said
<1>13. LiveOf(records') = left
  BY <1>6
<1> QED
  BY <1>3, <1>12, <1>13
  DEF Scheduler!Dispatch, LiveOf, AnswerOf, told, left, waiting, alive, said
------------------------------------------------------------------------------
\* A step that touches and tells of nothing, beyond the emission an update found
\* as it should be, is a refusal.
LEMMA RefusalMaps ==
  ASSUME IInv, Quiet, reply'.ready = None, reply'.wake = None,
         UNCHANGED <<now, nextIdentity>>,
         \/ reply'.emission = None
         \/ \E id \in Pending(records) : reply'.emission = records[id].envelope
  PROVE  Scheduler!Refuse
<1> DEFINE e == reply'.emission
           live == LiveOf(records)
<1>1. /\ records' = records /\ inFlightEmissionId' = inFlightEmissionId
      /\ reply'.events = <<>> /\ reply'.pump = "NotRequested"
  BY DEF Quiet
<1>2. AnswerOf(reply') = [emission |-> e, pump |-> "NotRequested", ready |-> None,
                          events |-> <<>>, wake |-> None]
  BY <1>1 DEF AnswerOf
<1>3. e = None => AnswerOf(reply') = Scheduler!Silence
  BY <1>2 DEF Scheduler!Silence
<1>4. AnswerOf(reply') = [Scheduler!Silence EXCEPT !.emission = e]
  BY <1>2 DEF Scheduler!Silence
<1>5. Scheduler!Waiting(live, inFlightEmissionId) = Pending(records)
  BY OverdueMaps, InvariantSplit
<1>6. \A id \in Pending(records) : live[id].envelope = records[id].envelope
  BY LiveProperties DEF Pending
<1> HIDE DEF live
<1>7. \/ AnswerOf(reply') = Scheduler!Silence
      \/ \E id \in Scheduler!Waiting(live, inFlightEmissionId) :
           AnswerOf(reply') = [Scheduler!Silence EXCEPT !.emission = live[id].envelope]
  BY <1>3, <1>4, <1>5, <1>6
<1> QED
  BY <1>1, <1>7 DEF Scheduler!Refuse, LiveOf, AnswerOf, live

\* The identity of an admission is the next one, and the counter of the scheduler
\* advances with the counter of the queue, to the last identity and no further.
LEMMA IdentityMaps ==
  ASSUME IInv, NEW record, Admits(record)
  PROVE  /\ UsedOf(nextIdentity) < MaxIdentity
         /\ UsedOf(nextIdentity) + 1 = nextIdentity
         /\ UsedOf(nextIdentity') = UsedOf(nextIdentity) + 1
<1>1. nextIdentity \in Identity /\ nextIdentity \in Int
  BY TypesAssumption DEF IInv, TypeOK, Admits, Identity
<1>2. nextIdentity' = AdvanceCounterOrMarkExhausted(nextIdentity)
  BY DEF Admits
<1> QED
  BY <1>1, <1>2, TypesAssumption DEF UsedOf, AdvanceCounterOrMarkExhausted, Identity

\* An accepted request is an admission, whether or not the queue pumps after it.
LEMMA AdmissionMaps ==
  ASSUME IInv, NEW record, Files(record) \/ FilesAndPumps(record)
  PROVE  Scheduler!Admit
<1> DEFINE used == UsedOf(nextIdentity)
           live == LiveOf(records)
           envelope == record.envelope
           policy == record.expirePolicy
           silence == [emission |-> None, pump |-> "NotRequested", ready |-> None,
                       events |-> <<>>, wake |-> None]
           Entry(flow, expiresAt, score) ==
             [emissionId |-> used + 1, flow |-> flow, expiresAt |-> expiresAt,
              priorityScore |-> score]
           Grown(e, p) == Scheduler!With(live, used + 1, [envelope |-> e, expirePolicy |-> p])
           Told(e) == [silence EXCEPT !.emission = e]
           Allows(flow, expiresAt, score, p) ==
             LET e == Entry(flow, expiresAt, score)
             IN  /\ AnswerOf(reply').emission = e
                 /\ ~Scheduler!Due(e, now)
                 /\ \/ LiveOf(records') = Grown(e, p) /\ AnswerOf(reply') = Told(e)
                       /\ UNCHANGED inFlightEmissionId
                    \/ inFlightEmissionId = 0 /\ Scheduler!Dispatch(Grown(e, p), 0, Told(e))
<1>1. Admits(record)
  BY DEF Files, FilesAndPumps
<1>2. /\ used < MaxIdentity
      /\ used + 1 = nextIdentity
      /\ UsedOf(nextIdentity') = used + 1
  BY <1>1, IdentityMaps
<1>3. /\ record \in Record /\ envelope \in Envelope /\ policy \in ExpirePolicy
      /\ envelope.emissionId = nextIdentity
      /\ ~Due(envelope, now)
      /\ now' = now
  BY <1>1 DEF Admits, Record
<1>4. /\ envelope.flow \in Flow /\ envelope.expiresAt \in Scheduler!Time
      /\ envelope.priorityScore \in Scheduler!Score /\ policy \in Scheduler!ExpirePolicy
  BY <1>3, SameOperators DEF Envelope
<1>5. Entry(envelope.flow, envelope.expiresAt, envelope.priorityScore) = envelope
  BY <1>2, <1>3 DEF Envelope
<1>6. Grown(envelope, policy) = LiveOf(Filed(record))
  <2> DEFINE grown == Grown(envelope, policy)
  <2>1. grown = [j \in DOMAIN records \cup {nextIdentity} |->
                   IF j = nextIdentity
                   THEN [envelope |-> envelope, expirePolicy |-> policy]
                   ELSE live[j]]
    BY <1>2, SameOperators, LiveProperties DEF With
  <2>2. LiveOf(Filed(record)) =
          [j \in DOMAIN records \cup {nextIdentity} |->
             [envelope |-> Filed(record)[j].envelope,
              expirePolicy |-> Filed(record)[j].expirePolicy]]
    BY <1>1, FiledRecords DEF LiveOf
  <2>3. \A j \in DOMAIN records :
          /\ j # nextIdentity
          /\ live[j] = [envelope |-> Filed(record)[j].envelope,
                        expirePolicy |-> Filed(record)[j].expirePolicy]
    BY <1>1, FiledRecords DEF LiveOf
  <2>4. Filed(record)[nextIdentity] = record
    BY <1>1, FiledRecords
  <2> HIDE DEF live, grown, envelope, policy
  <2> QED
    BY <2>1, <2>2, <2>3, <2>4 DEF envelope, policy, grown
<1>7. AnswerOf(FiledAnswer(record)) = Told(envelope)
  BY DEF AnswerOf, FiledAnswer, Answer
<1>8. ASSUME NEW flow, NEW expiresAt, NEW score, NEW p,
             Entry(flow, expiresAt, score) = envelope, p = policy
      PROVE  Allows(flow, expiresAt, score, p)
  <2> DEFINE entry == Entry(flow, expiresAt, score)
             grown == Grown(entry, p)
             told == Told(entry)
             said == AnswerOf(FiledAnswer(record))
  <2>1. grown = LiveOf(Filed(record))
    BY <1>6, <1>8
  <2>2. said = told
    BY <1>7, <1>8
  <2>3. ~Scheduler!Due(entry, now)
    BY <1>3, <1>8, SameOperators
  <2>4. ASSUME Files(record)
        PROVE  /\ AnswerOf(reply').emission = entry
               /\ LiveOf(records') = grown /\ AnswerOf(reply') = told
               /\ UNCHANGED inFlightEmissionId
    <3>1. records' = Filed(record) /\ reply' = FiledAnswer(record)
          /\ UNCHANGED inFlightEmissionId
      BY <2>4 DEF Files
    <3>2. AnswerOf(reply').emission = entry
      BY <1>8, <3>1 DEF AnswerOf, FiledAnswer, Answer
    <3> HIDE DEF grown, told
    <3> QED
      BY <2>1, <2>2, <3>1, <3>2
  <2>5. ASSUME FilesAndPumps(record)
        PROVE  /\ AnswerOf(reply').emission = entry
               /\ inFlightEmissionId = 0
               /\ Scheduler!Dispatch(grown, 0, told)
    <3>1. Pumps(Filed(record), 0, FiledAnswer(record)) /\ inFlightEmissionId = 0
      BY <2>5, PumpKinds DEF FilesAndPumps
    <3>2. Scheduler!Dispatch(LiveOf(Filed(record)), 0, said)
      BY <3>1, DispatchMaps
    <3>3. Scheduler!Dispatch(grown, 0, told)
      <4> HIDE DEF grown, told, said
      <4>1. Scheduler!Dispatch(grown, 0, said)
        BY <2>1, <3>2, Zenon
      <4> QED
        BY <2>2, <4>1, ZenonT(60) DEF Scheduler!Dispatch
    <3>4. PICK ended : PumpEffect(Filed(record), 0, FiledAnswer(record), ended)
      BY <3>1, PumpFacts
    <3>5. AnswerOf(reply').emission = entry
      BY <1>8, <3>4 DEF PumpEffect, AnswerOf, FiledAnswer, Answer
    <3> QED
      BY <3>1, <3>3, <3>5
  <2> QED
    BY <2>3, <2>4, <2>5
<1> HIDE DEF Allows
<1>9. Allows(envelope.flow, envelope.expiresAt, envelope.priorityScore, policy)
  BY <1>5, <1>8
<1> HIDE DEF envelope, policy
<1>10. \E flow \in Flow, expiresAt \in Scheduler!Time, score \in Scheduler!Score,
          p \in Scheduler!ExpirePolicy : Allows(flow, expiresAt, score, p)
  BY <1>4, <1>9, Zenon
<1>11. /\ used < MaxIdentity /\ UsedOf(nextIdentity') = used + 1 /\ now' = now
  BY <1>2, <1>3
<1> QED
  BY <1>10, <1>11
  DEF Scheduler!Admit, Scheduler!Silence, LiveOf, AnswerOf, UsedOf, Allows, Scheduler!Dispatch

\* An explicit pump is one of the scheduler's.
LEMMA PumpMaps ==
  ASSUME IInv, Pump
  PROVE  Scheduler!Pump
<1> DEFINE said == AnswerOf(Answer("Pump", "Done"))
           silence == [emission |-> None, pump |-> "NotRequested", ready |-> None,
                       events |-> <<>>, wake |-> None]
<1>1. Pumps(records, inFlightEmissionId, Answer("Pump", "Done"))
  BY PumpKinds
<1>2. Scheduler!Dispatch(LiveOf(records), inFlightEmissionId, said)
  BY <1>1, DispatchMaps
<1>3. said = silence
  BY DEF AnswerOf, Answer
<1>4. Scheduler!Dispatch(LiveOf(records), inFlightEmissionId, silence)
  <2> HIDE DEF said, silence
  <2> QED
    BY <1>2, <1>3, ZenonT(60) DEF Scheduler!Dispatch
<1>5. UNCHANGED <<now, nextIdentity>>
  BY DEF Pump
<1> QED
  BY <1>4, <1>5 DEF Scheduler!Pump, Scheduler!Silence, LiveOf

\* An event of the queue is an end of the scheduler's.
LEMMA CompletionMaps ==
  ASSUME IInv, inFlightEmissionId # 0, NEW op, NEW reason
  PROVE  /\ Scheduler!Without(LiveOf(records), {inFlightEmissionId}) = LiveOf(Completed)
         /\ AnswerOf(CompletionAnswer(op, reason)) =
              [emission |-> None, pump |-> "NotRequested", ready |-> None,
               events |-> <<Scheduler!End(LiveOf(records)[inFlightEmissionId], reason)>>,
               wake |-> None]
<1>1. Scheduler!Without(LiveOf(records), {inFlightEmissionId}) = LiveOf(Completed)
  <2> DEFINE next == Completed
  <2>1. /\ DOMAIN next = DOMAIN records \ {inFlightEmissionId}
        /\ \A id \in DOMAIN next : next[id] = records[id]
    BY CompletedRecords
  <2> HIDE DEF next
  <2>2. Scheduler!Without(LiveOf(records), {inFlightEmissionId}) = LiveOf(next)
    BY <2>1, WithoutMaps
  <2> QED
    BY <2>2 DEF next
<1>2. LiveOf(records)[inFlightEmissionId].envelope = records[inFlightEmissionId].envelope
  BY CompletedRecords, LiveProperties
<1>3. Scheduler!End(LiveOf(records)[inFlightEmissionId], reason) =
        [envelope |-> records[inFlightEmissionId].envelope, reason |-> reason]
  BY <1>2 DEF Scheduler!End
<1> DEFINE told == <<[envelope |-> records[inFlightEmissionId].envelope, reason |-> reason]>>
           full == [Answer(op, reason) EXCEPT !.events = told]
<1>4. AnswerOf(full) = [emission |-> None, pump |-> "NotRequested", ready |-> None,
                        events |-> told, wake |-> None]
  <2> HIDE DEF told
  <2> QED
    BY DEF AnswerOf, Answer
<1>5. full = CompletionAnswer(op, reason)
  BY DEF CompletionAnswer
<1> QED
  BY <1>1, <1>3, <1>4, <1>5

\* What Confirm tells of the emission with this envelope, before it pumps.
Confirmation(envelope) ==
  [Answer("Confirm", "Confirmed") EXCEPT
     !.events = <<[envelope |-> envelope, reason |-> "Confirmed"]>>]

\* A completion is a finish of the scheduler, with the pump that may follow it.
LEMMA AnswerMaps ==
  ASSUME IInv, NEW op, NEW reason,
         Completes(op, reason) \/ (reason = "Confirmed" /\ CompletesAndPumps)
  PROVE  Scheduler!Finish(reason)
<1> DEFINE end == Scheduler!End(LiveOf(records)[inFlightEmissionId], reason)
           silence == [emission |-> None, pump |-> "NotRequested", ready |-> None,
                       events |-> <<>>, wake |-> None]
           told == [silence EXCEPT !.events = <<end>>]
           left == Scheduler!Without(LiveOf(records), {inFlightEmissionId})
<1>1. inFlightEmissionId # 0 /\ UNCHANGED <<now, nextIdentity>>
  BY DEF Completes, CompletesAndPumps
<1>2. told = [emission |-> None, pump |-> "NotRequested", ready |-> None,
              events |-> <<end>>, wake |-> None]
  <2> HIDE DEF end
  <2> QED
    OBVIOUS
<1>3. left = LiveOf(Completed) /\ \A o : AnswerOf(CompletionAnswer(o, reason)) = told
  <2> HIDE DEF told
  <2> QED
    BY <1>1, <1>2, CompletionMaps
<1>4. ASSUME Completes(op, reason)
      PROVE  LiveOf(records') = left /\ inFlightEmissionId' = 0 /\ AnswerOf(reply') = told
  <2>1. records' = Completed /\ inFlightEmissionId' = 0 /\ reply' = CompletionAnswer(op, reason)
    BY <1>4 DEF Completes
  <2> HIDE DEF told, left
  <2> QED
    BY <1>3, <2>1
<1>5. ASSUME reason = "Confirmed", CompletesAndPumps
      PROVE  Scheduler!Dispatch(left, 0, told)
  <2> PICK envelope : envelope = records[inFlightEmissionId].envelope
    OBVIOUS
  <2> DEFINE said == AnswerOf(Confirmation(envelope))
  <2>1. Confirmation(envelope) = CompletionAnswer("Confirm", "Confirmed")
    BY DEF Confirmation, CompletionAnswer
  <2>2. Confirmation(envelope) \in Reply
    BY <1>1, <2>1, CompletionAnswerType DEF Operation, Status, TerminalReason
  <2>3. PumpAt(Completed, priorityIndex, expirationIndex, 0, Confirmation(envelope))
    BY <1>5 DEF CompletesAndPumps, Confirmation, CompletionAnswer
  <2>4. Pumps(Completed, 0, Confirmation(envelope))
    BY <1>1, <2>2, <2>3, CompletionPrepares DEF Pumps
  <2>5. Scheduler!Dispatch(LiveOf(Completed), 0, said)
    BY <2>4, DispatchMaps
  <2>6. said = told
    BY <1>3, <1>5, <2>1
  <2>7. left = LiveOf(Completed)
    BY <1>3
  <2> HIDE DEF said, told, left
  <2>8. Scheduler!Dispatch(left, 0, said)
    BY <2>5, <2>7, Zenon
  <2> QED
    BY <2>6, <2>8, ZenonT(60) DEF Scheduler!Dispatch
<1>6. \/ LiveOf(records') = left /\ inFlightEmissionId' = 0 /\ AnswerOf(reply') = told
      \/ reason = "Confirmed" /\ Scheduler!Dispatch(left, 0, told)
  BY <1>4, <1>5
<1> QED
  BY <1>1, <1>6 DEF Scheduler!Finish, Scheduler!Silence, LiveOf, AnswerOf

\* An update that is accepted reschedules: it replaces the envelope alone.
LEMMA RescheduleMaps ==
  ASSUME IInv, NEW id, Reschedules(id)
  PROVE  id \in DOMAIN LiveOf(records) /\ Scheduler!Reschedule(id)
<1> DEFINE live == LiveOf(records)
           old == records[id].envelope
           new == records'[id].envelope
<1>1. /\ id \in Pending(records) /\ id \in DOMAIN records
      /\ ~Due(old, now)
  BY DEF Reschedules, Pending
<1>2. PreparedInv(records, priorityIndex, expirationIndex, inFlightEmissionId)
  BY InvariantSplit
<1>3. id \in Scheduler!Waiting(live, inFlightEmissionId)
                \ Scheduler!Overdue(live, inFlightEmissionId)
  BY <1>1, <1>2, OverdueMaps DEF DueIds
<1>4. PICK expiresAt \in Time, score \in Score :
        /\ expiresAt >= old.expiresAt
        /\ new = [old EXCEPT !.expiresAt = expiresAt, !.priorityScore = score]
  BY DEF Reschedules
<1>5. live[id].envelope = old /\ live[id].expirePolicy = records[id].expirePolicy
  BY <1>1, LiveProperties
<1>6. live[id] = [envelope |-> old, expirePolicy |-> records[id].expirePolicy]
  BY <1>1 DEF LiveOf
<1>7. reply' = [Answer("UpdatePendingScheduling", "Updated") EXCEPT !.emission = new]
  BY DEF Reschedules
<1>8. /\ DOMAIN records' = DOMAIN records
      /\ \A other \in DOMAIN records \ {id} : records'[other] = records[other]
      /\ records'[id].expirePolicy = records[id].expirePolicy
  BY DEF Reschedules
<1> HIDE DEF live
<1> DEFINE next == LiveOf(records')
<1>9. next = [live EXCEPT ![id].envelope = new]
  <2> DEFINE changed == [live[id] EXCEPT !.envelope = new]
  <2>1. changed = [envelope |-> new, expirePolicy |-> records[id].expirePolicy]
    BY <1>6
  <2>2. DOMAIN next = DOMAIN records /\ DOMAIN live = DOMAIN records
    BY <1>8, LiveProperties DEF live
  <2>3. \A other \in DOMAIN records \ {id} : next[other] = live[other]
    BY <1>8 DEF LiveOf, live
  <2>4. next[id] = [envelope |-> new, expirePolicy |-> records[id].expirePolicy]
    BY <1>1, <1>8 DEF LiveOf
  <2>5. next = [k \in DOMAIN records |-> next[k]]
    BY <1>8 DEF LiveOf
  <2> HIDE DEF changed, next, new
  <2>6. [live EXCEPT ![id] = changed] = [k \in DOMAIN records |->
                                          IF k = id THEN changed ELSE live[k]]
    BY <2>2
  <2>7. next = [live EXCEPT ![id] = changed]
    BY <2>1, <2>2, <2>3, <2>4, <2>5, <2>6
  <2> QED
    BY <2>7 DEF changed
<1>10. AnswerOf(reply') = [Scheduler!Silence EXCEPT !.emission = new]
  <2> HIDE DEF new
  <2> QED
    BY <1>7 DEF AnswerOf, Answer, Scheduler!Silence
<1>11. expiresAt \in Scheduler!Time /\ score \in Scheduler!Score
  BY SameOperators
<1>12. UNCHANGED <<now, inFlightEmissionId, nextIdentity>>
  BY DEF Reschedules
<1> DEFINE Moves(t, c) ==
             LET envelope == [live[id].envelope EXCEPT !.expiresAt = t, !.priorityScore = c]
             IN  /\ AnswerOf(reply') = [Scheduler!Silence EXCEPT !.emission = envelope]
                 /\ t >= live[id].envelope.expiresAt
                 /\ next = [live EXCEPT ![id].envelope = envelope]
<1>13. Moves(expiresAt, score)
  <2> DEFINE moved == [live[id].envelope EXCEPT !.expiresAt = expiresAt,
                                               !.priorityScore = score]
  <2>1. moved = new
    BY <1>4, <1>5
  <2>2. expiresAt >= live[id].envelope.expiresAt
    BY <1>4, <1>5
  <2> HIDE DEF moved, next, new
  <2>3. /\ AnswerOf(reply') = [Scheduler!Silence EXCEPT !.emission = moved]
        /\ next = [live EXCEPT ![id].envelope = moved]
    BY <1>9, <1>10, <2>1
  <2> QED
    BY <2>2, <2>3 DEF moved
<1> HIDE DEF Moves, next, old, new
<1>14. \E t \in Scheduler!Time, c \in Scheduler!Score : Moves(t, c)
  BY <1>11, <1>13, Zenon
<1>15. id \in DOMAIN live
  BY <1>1, LiveProperties DEF live
<1> QED
  BY <1>3, <1>12, <1>14, <1>15
  DEF Scheduler!Reschedule, LiveOf, AnswerOf, Moves, live, next

\* A sweep of the due emissions is the scheduler's.
LEMMA ExpireMaps ==
  ASSUME IInv, ProcessDueExpirations
  PROVE  Scheduler!Expire
<1>1. PreparedInv(records, priorityIndex, expirationIndex, inFlightEmissionId)
  BY InvariantSplit
<1> DEFINE live == LiveOf(records)
           silence == [emission |-> None, pump |-> "NotRequested", ready |-> None,
                       events |-> <<>>, wake |-> None]
<1>2. PICK order \in InExpirationOrder(DueKeys(records, expirationIndex)) :
        reply' = [Answer("ProcessDueExpirations", "Done") EXCEPT
                    !.events = Expired(order, records)]
  BY DEF ProcessDueExpirations
<1> DEFINE ended == Expired(order, records)
<1>3. ended \in Scheduler!Expirations(live, inFlightEmissionId)
  BY <1>1, ExpirationsMap
<1>4. AnswerOf(reply') = [silence EXCEPT !.events = ended]
  <2> HIDE DEF ended
  <2>1. reply' = [Answer("ProcessDueExpirations", "Done") EXCEPT !.events = ended]
    BY <1>2 DEF ended
  <2> QED
    BY <2>1 DEF AnswerOf, Answer
<1>5. LiveOf(records') = Scheduler!Without(live, Scheduler!Overdue(live, inFlightEmissionId))
  <2>1. Scheduler!Overdue(live, inFlightEmissionId) = DueIds(records)
    BY <1>1, OverdueMaps
  <2>2. /\ DOMAIN records' = DOMAIN records \ DueIds(records)
        /\ \A id \in DOMAIN records' : records'[id] = records[id]
    BY ExpirationStep
  <2>3. Scheduler!Without(live, DueIds(records)) = LiveOf(records')
    BY <2>2, WithoutMaps
  <2> QED
    BY <2>1, <2>3
<1>6. UNCHANGED <<now, inFlightEmissionId, nextIdentity>>
  BY DEF ProcessDueExpirations
<1> HIDE DEF ended
<1> QED
  BY <1>3, <1>4, <1>5, <1>6 DEF Scheduler!Expire, Scheduler!Silence, LiveOf, AnswerOf

\* The keys GetNextWakeTime looks at speak of the instants at which what waits
\* becomes due: the front of the heap is the earliest of them.
LEMMA NextWakeMaps ==
  ASSUME IInv, GetNextWakeTime
  PROVE  Scheduler!NextWake
<1> DEFINE live == LiveOf(records)
           current == {key \in expirationIndex : IsExpirationEntryCurrent(key, records)}
           times == {live[id].envelope.expiresAt :
                       id \in Scheduler!Waiting(live, inFlightEmissionId)} \ {MaxTime}
           silence == [emission |-> None, pump |-> "NotRequested", ready |-> None,
                       events |-> <<>>, wake |-> None]
<1>1. PreparedInv(records, priorityIndex, expirationIndex, inFlightEmissionId)
  BY InvariantSplit
<1>2. Scheduler!Waiting(live, inFlightEmissionId) = Pending(records)
  BY <1>1, OverdueMaps
<1>3. \A id \in Pending(records) : live[id].envelope = records[id].envelope
  BY LiveProperties DEF Pending
<1>4. times = {records[id].envelope.expiresAt : id \in Pending(records)} \ {MaxTime}
  BY <1>2, <1>3
<1>5. \A key \in current : key.expiresAt \in times
  BY <1>4 DEF IsExpirationEntryCurrent, ExpirationKeyOf, Finite
<1>6. \A t \in times : \E key \in current : key.expiresAt = t
  <2>1. ASSUME NEW id \in Pending(records), Finite(records[id].envelope.expiresAt)
        PROVE  ExpirationKeyOf(records[id]) \in current
    <3>1. ExpirationKeyOf(records[id]) \in expirationIndex
      BY <2>1 DEF IInv, IndexesComplete, ExpirationKeysOf
    <3>2. records[id].envelope.emissionId = id
      BY DEF IInv, RecordsKeyed, Pending
    <3> QED
      BY <2>1, <3>1, <3>2 DEF IsExpirationEntryCurrent, ExpirationKeyOf
  <2>2. \A id \in Pending(records) :
          ExpirationKeyOf(records[id]).expiresAt = records[id].envelope.expiresAt
    BY DEF ExpirationKeyOf
  <2> QED
    BY <1>4, <2>1, <2>2 DEF Finite
<1>7. times \subseteq Int
  <2>1. \A id \in Pending(records) : records[id].envelope.expiresAt \in Time
    BY DEF IInv, TypeOK, Record, Envelope, Pending
  <2> QED
    BY <1>4, <2>1, TypesAssumption DEF Time
<1>8. UNCHANGED <<now, nextIdentity, records, inFlightEmissionId>>
  BY DEF GetNextWakeTime
<1>9. \/ current = {} /\ reply' = Answer("GetNextWakeTime", "NoWakeScheduled")
      \/ \E front \in current :
           /\ \A key \in current \ {front} : ExpirationAhead(front, key)
           /\ reply' = [Answer("GetNextWakeTime", "WakeScheduled") EXCEPT
                          !.wake = front.expiresAt]
  BY DEF GetNextWakeTime
<1> HIDE DEF live, current, times
<1>10. CASE current = {} /\ reply' = Answer("GetNextWakeTime", "NoWakeScheduled")
  <2>1. times = {}
    BY <1>6, <1>10
  <2>2. AnswerOf(reply') = silence
    BY <1>10 DEF AnswerOf, Answer
  <2> QED
    BY <1>8, <2>1, <2>2
    DEF Scheduler!NextWake, Scheduler!Silence, LiveOf, AnswerOf, live, times
<1>11. ASSUME NEW front \in current,
              \A key \in current \ {front} : ExpirationAhead(front, key),
              reply' = [Answer("GetNextWakeTime", "WakeScheduled") EXCEPT
                          !.wake = front.expiresAt]
       PROVE  Scheduler!NextWake
  <2> DEFINE first == front.expiresAt
  <2>1. first \in times
    BY <1>5
  <2>2. \A t \in times : first <= t
    <3>1. \A key \in current : front.expiresAt <= key.expiresAt
      BY <1>5, <1>7, <1>11 DEF ExpirationAhead
    <3> QED
      BY <1>6, <3>1
  <2>3. AnswerOf(reply') = [silence EXCEPT !.wake = first]
    <3> HIDE DEF first
    <3>1. reply' = [Answer("GetNextWakeTime", "WakeScheduled") EXCEPT !.wake = first]
      BY <1>11 DEF first
    <3> QED
      BY <3>1 DEF AnswerOf, Answer
  <2> HIDE DEF first
  <2> QED
    BY <1>8, <2>1, <2>2, <2>3
    DEF Scheduler!NextWake, Scheduler!Silence, LiveOf, AnswerOf, live, times
<1> QED
  BY <1>9, <1>10, <1>11

\* The clock of the two is the same.
LEMMA TickMaps ==
  ASSUME IInv, Tick
  PROVE  Scheduler!Tick
<1>1. now' > now
  BY CoreAssumption DEF Tick, IInv, TypeOK
<1>2. /\ UNCHANGED <<records, inFlightEmissionId, nextIdentity>>
      /\ reply' = Answer("Tick", "Done")
  BY DEF Tick, queueVars
<1>3. AnswerOf(reply') = [emission |-> None, pump |-> "NotRequested", ready |-> None,
                          events |-> <<>>, wake |-> None]
  BY <1>2 DEF AnswerOf, Answer
<1> QED
  BY <1>1, <1>2, <1>3 DEF Scheduler!Tick, Scheduler!Silence, AnswerOf
------------------------------------------------------------------------------
\* Every step of the queue is a step of the scheduler: what the caller cannot see
\* (settings, refused operations) are its refusals, the rest are its actions.
LEMMA NextMaps ==
  ASSUME IInv, Next
  PROVE  Scheduler!Next
<1>1. ASSUME NEW op, NEW status, reply' = Answer(op, status),
             UNCHANGED <<now, nextIdentity, queueVars>>
      PROVE  Scheduler!Refuse
  <2>1. Quiet /\ reply'.ready = None /\ reply'.wake = None /\ reply'.emission = None
    BY <1>1 DEF Answer, Quiet, queueVars
  <2> QED
    BY <1>1, <2>1, RefusalMaps
<1>2. ASSUME NEW flow \in FlowInputs, NEW adjustment \in Adjustments,
             NEW override \in TTLOverrides, Enqueue(flow, adjustment, override)
      PROVE  Scheduler!Refuse \/ Scheduler!Admit
  BY <1>2, EnqueueShape, RefusalMaps, AdmissionMaps
<1>3. ASSUME NEW flow, NEW new, UpdateFlowSettings(flow, new)
      PROVE  Scheduler!Refuse
  BY <1>1, <1>3 DEF UpdateFlowSettings
<1>4. ASSUME NEW id \in Identity \cup {0}, NEW refresh \in BOOLEAN,
             NEW newScore \in NewScores, NEW expected \in ExpectedTimes,
             UpdatePendingScheduling(id, now, refresh, newScore, expected)
      PROVE  Scheduler!Refuse \/ \E k \in DOMAIN LiveOf(records) : Scheduler!Reschedule(k)
  <2>1. CASE Reschedules(id)
    BY <2>1, RescheduleMaps
  <2>2. CASE /\ Quiet /\ reply'.ready = None /\ reply'.wake = None
             /\ \/ reply'.emission = None
                \/ id \in Pending(records) /\ reply'.emission = records[id].envelope
             /\ UNCHANGED <<settings, now, nextIdentity>>
    BY <2>2, RefusalMaps
  <2> QED
    BY <1>4, <2>1, <2>2, UpdateShape
<1>5. ASSUME NEW op, NEW id, RejectCompletion(op, id)
      PROVE  Scheduler!Refuse
  BY <1>1, <1>5 DEF RejectCompletion
<1>6. ASSUME NEW id, Confirm(id)
      PROVE  Scheduler!Refuse \/ Scheduler!Finish("Confirmed")
  <2>1. RejectCompletion("Confirm", id) \/ Completes("Confirm", "Confirmed") \/ CompletesAndPumps
    BY <1>6 DEF Confirm, Completes, CompletesAndPumps, InFlightTargetStatus
  <2> QED
    BY <1>5, <2>1, AnswerMaps
<1>7. ASSUME NEW id, CancelInFlight(id)
      PROVE  Scheduler!Refuse \/ Scheduler!Finish("Cancelled")
  <2>1. RejectCompletion("CancelInFlight", id) \/ Completes("CancelInFlight", "Cancelled")
    BY <1>7 DEF CancelInFlight, Completes, InFlightTargetStatus
  <2> QED
    BY <1>5, <2>1, AnswerMaps
<1>8. \/ Scheduler!Refuse \/ Scheduler!Tick \/ Scheduler!Admit
      \/ \E id \in DOMAIN LiveOf(records) : Scheduler!Reschedule(id)
      \/ Scheduler!Pump
      \/ \E reason \in {"Confirmed", "Cancelled"} : Scheduler!Finish(reason)
      \/ Scheduler!Expire \/ Scheduler!NextWake
  BY <1>2, <1>3, <1>4, <1>6, <1>7, PumpMaps, ExpireMaps, NextWakeMaps, TickMaps DEF Next
<1> QED
  BY <1>8 DEF Scheduler!Next, LiveOf

\* What the indexes, the revisions and the settings do is hidden from the callers
\* of the queue: it implements the scheduler, whatever its constants.
THEOREM Refinement == Spec => ImplementsScheduler
<1>1. Init => Scheduler!Init
  BY InitMaps
<1>2. IInv /\ [Next]_vars => [Scheduler!Next]_(Scheduler!vars)
  <2>1. ASSUME IInv, Next
        PROVE  Scheduler!Next
    BY <2>1, NextMaps
  <2>2. UNCHANGED vars => UNCHANGED Scheduler!vars
    BY DEF vars, queueVars, Scheduler!vars
  <2> QED
    BY <2>1, <2>2
<1> QED
  BY <1>1, <1>2, InductiveInvariant, PTL DEF Spec, ImplementsScheduler, Scheduler!Spec
==============================================================================
