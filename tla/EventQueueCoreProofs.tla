------------------------ MODULE EventQueueCoreProofs ------------------------
(***************************************************************************)
(* Theorems about EventQueueCore, for every value of its constants.        *)
(***************************************************************************)
EXTENDS EventQueueCore, FiniteSetTheorems, SequenceTheorems, TLAPS

\* The types of the state an operation prepares before it pumps.
PreparedTypeOK(recs, pIndex, eIndex, active) ==
  /\ DOMAIN recs \subseteq Identity
  /\ recs \in [DOMAIN recs -> Record]
  /\ pIndex \subseteq PriorityKey
  /\ eIndex \subseteq ExpirationKey
  /\ IsFiniteSet(eIndex)
  /\ active \in Identity \cup {0}
------------------------------------------------------------------------------
\* Saturation keeps scores and expirations within their ranges.
LEMMA ScoreType ==
  ASSUME NEW a \in Score, NEW b \in Score
  PROVE  CalculatePriorityScore(a, b) \in Score
BY TypesAssumption DEF CalculatePriorityScore, Score

\* A TTL that reaches past the last instant is cut off there.
LEMMA ExpiresAtType ==
  ASSUME NEW at \in Time, NEW ttl \in Nat
  PROVE  CalculateExpiresAt(at, ttl) \in Time
BY TypesAssumption DEF CalculateExpiresAt, Time

\* The keys of a record have the types of the indexes.
LEMMA KeyTypes ==
  ASSUME NEW record \in Record
  PROVE  /\ PriorityKeyOf(record) \in PriorityKey
         /\ ExpirationKeysOf(record) \subseteq ExpirationKey
         /\ IsFiniteSet(ExpirationKeysOf(record))
<1>1. record.envelope \in Envelope /\ record.revision \in Revision
  BY DEF Record
<1>2. /\ record.envelope.priorityScore \in Score
      /\ record.envelope.emissionId \in Identity
      /\ record.envelope.expiresAt \in Time
  BY <1>1 DEF Envelope
<1>3. PriorityKeyOf(record) \in PriorityKey
  BY <1>1, <1>2 DEF PriorityKeyOf, PriorityKey
<1>4. ExpirationKeyOf(record) \in ExpirationKey
  BY <1>1, <1>2 DEF ExpirationKeyOf, ExpirationKey
<1>5. IsFiniteSet(ExpirationKeysOf(record))
  BY FS_EmptySet, FS_Singleton DEF ExpirationKeysOf
<1> QED
  BY <1>3, <1>4, <1>5 DEF ExpirationKeysOf

\* The sequence of events of a set of due keys is a sequence of terminals.
LEMMA ExpiredType ==
  ASSUME NEW recs, NEW eIndex, NEW pIndex, NEW active,
         PreparedTypeOK(recs, pIndex, eIndex, active),
         NEW order \in InExpirationOrder({key \in eIndex :
                IsExpirationEntryCurrent(key, recs) /\ key.expiresAt <= now})
  PROVE  Expired(order, recs) \in Seq(Terminal)
<1> DEFINE S == {key \in eIndex : IsExpirationEntryCurrent(key, recs) /\ key.expiresAt <= now}
<1>1. Cardinality(S) \in Nat
  BY FS_Subset, FS_CardinalityType DEF PreparedTypeOK
<1>2. order \in [1..Cardinality(S) -> S]
  BY DEF InExpirationOrder
<1>3. ASSUME NEW i \in DOMAIN order
      PROVE  Expired(order, recs)[i] \in Terminal
  <2>1. order[i].emissionId \in Pending(recs)
    BY <1>2, <1>3 DEF IsExpirationEntryCurrent
  <2>2. recs[order[i].emissionId] \in Record
    BY <2>1 DEF Pending, PreparedTypeOK
  <2>3. Expired(order, recs)[i] =
          [envelope |-> recs[order[i].emissionId].envelope,
           reason |-> ResolveExpirationTerminalReason(
                        recs[order[i].emissionId].expirePolicy)]
    BY <1>3 DEF Expired
  <2>4. \A policy : ResolveExpirationTerminalReason(policy) \in TerminalReason
    BY DEF ResolveExpirationTerminalReason, TerminalReason
  <2>5. recs[order[i].emissionId].envelope \in Envelope
    BY <2>2 DEF Record
  <2> QED
    BY <2>3, <2>4, <2>5 DEF Terminal
<1>4. DOMAIN Expired(order, recs) = 1..Cardinality(S)
  BY <1>2 DEF Expired
<1>5. Expired(order, recs) \in [1..Cardinality(S) -> Terminal]
  BY <1>2, <1>3, <1>4 DEF Expired
<1>6. Expired(order, recs) \in UNION {[1..n -> Terminal] : n \in Nat}
  BY <1>1, <1>5, Zenon
<1> QED
  BY <1>6, SeqDef, Zenon
------------------------------------------------------------------------------
\* The inductive invariant of a state that an operation prepares, identities
\* aside: what IInv says of the records, the indexes and the active emission.
PreparedInv(recs, pIndex, eIndex, active) ==
  /\ PreparedTypeOK(recs, pIndex, eIndex, active)
  /\ \A id \in DOMAIN recs : recs[id].envelope.emissionId = id
  /\ active # 0 => active \in DOMAIN recs
  /\ \A id \in DOMAIN recs : (recs[id].state = "InFlight") <=> (id = active)
  /\ \A id \in Pending(recs) : /\ PriorityKeyOf(recs[id]) \in pIndex
                               /\ ExpirationKeysOf(recs[id]) \subseteq eIndex
  /\ \A key \in pIndex \cup eIndex :
       key.emissionId \in DOMAIN recs => key.revision <= recs[key.emissionId].revision

\* Popping a heap never drops a key that stops the popping.
LEMMA PopsKeepStops ==
  ASSUME NEW index, NEW stops, NEW kept,
         kept \in DiscardStaleExpirationEntries(index, stops) \/
         kept \in DiscardStalePriorityEntries(index, stops)
  PROVE  stops \subseteq kept /\ kept \subseteq index
BY DEF DiscardStaleExpirationEntries, DiscardStalePriorityEntries, AfterPops

\* Records taken out leave the others as they were.
LEMMA WithoutProperties ==
  ASSUME NEW f, NEW S
  PROVE  /\ DOMAIN Without(f, S) = DOMAIN f \ S
         /\ \A j \in DOMAIN f \ S : Without(f, S)[j] = f[j]
BY DEF Without

\* What is left has the types it had.
LEMMA WithoutType ==
  ASSUME NEW f, NEW S, NEW T, f \in [DOMAIN f -> T]
  PROVE  Without(f, S) \in [DOMAIN f \ S -> T]
BY DEF Without

\* The emissions that expire were waiting, so the active one is not among them.
LEMMA DueArePending ==
  ASSUME NEW recs, NEW eIndex
  PROVE  DueEmissions(recs, eIndex) \subseteq Pending(recs)
BY DEF DueEmissions, DueKeys, IsExpirationEntryCurrent

\* Expiring what is due preserves the invariant of the prepared state.
LEMMA ExpirationsPreserve ==
  ASSUME NEW recs, NEW pIndex, NEW eIndex, NEW active,
         PreparedInv(recs, pIndex, eIndex, active), now \in Int,
         NEW kept \in AfterExpirations(recs, eIndex)
  PROVE  PreparedInv(WithoutDue(recs, eIndex), pIndex, kept, active)
<1> DEFINE gone == DueEmissions(recs, eIndex)
           left == WithoutDue(recs, eIndex)
           stops == {key \in eIndex :
                       IsExpirationEntryCurrent(key, recs) /\ key.expiresAt > now}
<1>1. stops \subseteq kept /\ kept \subseteq eIndex
  BY PopsKeepStops DEF AfterExpirations
<1>2. gone \subseteq Pending(recs)
  BY DueArePending
<1>domain. DOMAIN left = DOMAIN recs \ gone
  BY WithoutProperties DEF WithoutDue
<1>values. \A id \in DOMAIN recs \ gone : left[id] = recs[id]
  BY WithoutProperties DEF WithoutDue
<1>3. /\ DOMAIN left = DOMAIN recs \ gone
      /\ \A id \in DOMAIN left : left[id] = recs[id]
  BY <1>domain, <1>values
<1>4. PreparedTypeOK(left, pIndex, kept, active)
  <2>1. left \in [DOMAIN left -> Record]
    <3>1. recs \in [DOMAIN recs -> Record]
      BY DEF PreparedInv, PreparedTypeOK
    <3>2. left \in [DOMAIN recs \ gone -> Record]
      BY <3>1, WithoutType DEF WithoutDue
    <3> QED
      BY <3>2, <1>3
  <2>2. IsFiniteSet(kept)
    BY <1>1, FS_Subset DEF PreparedInv, PreparedTypeOK
  <2> QED
    BY <1>1, <1>3, <2>1, <2>2 DEF PreparedInv, PreparedTypeOK
<1>5. active # 0 => active \in DOMAIN left
  BY <1>2, <1>3 DEF PreparedInv, Pending
<1>6. Pending(left) = Pending(recs) \ gone
  BY <1>3 DEF Pending
<1>7. ASSUME NEW id \in Pending(left)
      PROVE  ExpirationKeysOf(left[id]) \subseteq kept
  <2>1. CASE ~Finite(recs[id].envelope.expiresAt)
    BY <2>1, <1>3, <1>6 DEF ExpirationKeysOf, Pending
  <2>2. CASE Finite(recs[id].envelope.expiresAt)
    <3> DEFINE key == ExpirationKeyOf(recs[id])
    <3>1. key \in eIndex /\ key.emissionId = id /\ Finite(key.expiresAt)
      BY <1>6, <2>2 DEF PreparedInv, ExpirationKeysOf, ExpirationKeyOf, Pending
    <3>2. IsExpirationEntryCurrent(key, recs)
      BY <3>1, <1>6 DEF IsExpirationEntryCurrent
    <3>3. ~(key.expiresAt <= now)
      BY <3>1, <3>2, <1>6 DEF DueEmissions, DueKeys
    <3>4. key.expiresAt \in Int
      BY <3>1, TypesAssumption DEF PreparedInv, PreparedTypeOK, ExpirationKey, Time
    <3>5. key \in stops
      BY <3>1, <3>2, <3>3, <3>4
    <3> QED
      BY <3>5, <1>1, <1>3, <1>6 DEF ExpirationKeysOf, Pending
  <2> QED
    BY <2>1, <2>2
<1> QED
  BY <1>1, <1>3, <1>4, <1>5, <1>6, <1>7 DEF PreparedInv, Pending

\* Handing out a waiting emission whose key is the front preserves it as well.
LEMMA SelectionPreserves ==
  ASSUME NEW recs, NEW pIndex, NEW eIndex, PreparedInv(recs, pIndex, eIndex, 0),
         NEW front \in pIndex, IsPriorityEntryCurrent(front, recs),
         NEW kept \in DiscardStalePriorityEntries(
                        pIndex, {key \in pIndex : IsPriorityEntryCurrent(key, recs)})
  PROVE  PreparedInv([recs EXCEPT ![front.emissionId].state = "InFlight"],
                     kept \ {front}, eIndex, front.emissionId)
<1> DEFINE id == front.emissionId
           next == [recs EXCEPT ![id].state = "InFlight"]
           current == {key \in pIndex : IsPriorityEntryCurrent(key, recs)}
<1>1. id \in DOMAIN recs /\ id \in Identity
  BY DEF IsPriorityEntryCurrent, Pending, PreparedInv, PreparedTypeOK
<1>2. current \subseteq kept /\ kept \subseteq pIndex
  BY PopsKeepStops
<1>3. /\ DOMAIN next = DOMAIN recs
      /\ \A j \in DOMAIN recs \ {id} : next[j] = recs[j]
      /\ next[id] = [recs[id] EXCEPT !.state = "InFlight"]
  BY <1>1
<1>4. recs \in [DOMAIN recs -> Record]
  BY DEF PreparedInv, PreparedTypeOK
<1>5. /\ next[id] \in Record
      /\ next[id].state = "InFlight"
      /\ next[id].envelope = recs[id].envelope
      /\ next[id].revision = recs[id].revision
  BY <1>1, <1>3, <1>4 DEF Record
<1>6. PreparedTypeOK(next, kept \ {front}, eIndex, id)
  <2>1. next \in [DOMAIN next -> Record]
    BY <1>1, <1>3, <1>4, <1>5
  <2> QED
    BY <1>1, <1>2, <1>3, <2>1 DEF PreparedInv, PreparedTypeOK
<1>7. Pending(next) = Pending(recs) \ {id}
  BY <1>1, <1>3, <1>5 DEF Pending
<1>8. \A j \in DOMAIN next : (next[j].state = "InFlight") <=> (j = id)
  <2>1. \A j \in DOMAIN recs : j # 0
    BY TypesAssumption DEF PreparedInv, PreparedTypeOK, Identity
  <2> QED
    BY <1>1, <1>3, <1>5, <2>1 DEF PreparedInv
<1>9. ASSUME NEW j \in Pending(next)
      PROVE  PriorityKeyOf(next[j]) \in kept \ {front}
  <2>1. j \in Pending(recs) /\ j # id /\ next[j] = recs[j]
    BY <1>3, <1>7 DEF Pending
  <2>2. /\ PriorityKeyOf(recs[j]) \in pIndex
        /\ PriorityKeyOf(recs[j]).emissionId = j
    BY <2>1 DEF PreparedInv, PriorityKeyOf, Pending
  <2>3. PriorityKeyOf(recs[j]) \in current
    BY <2>1, <2>2 DEF IsPriorityEntryCurrent
  <2> QED
    BY <1>2, <2>1, <2>2, <2>3
<1>10. \A j \in Pending(next) : ExpirationKeysOf(next[j]) \subseteq eIndex
  BY <1>3, <1>7 DEF PreparedInv, Pending
<1>11. \A j \in DOMAIN next : /\ next[j].envelope = recs[j].envelope
                              /\ next[j].revision = recs[j].revision
  BY <1>3, <1>5
<1> QED
  BY <1>1, <1>2, <1>3, <1>6, <1>8, <1>9, <1>10, <1>11 DEF PreparedInv

\* An empty selection heap is complete when no key was current.
LEMMA EmptyPreserves ==
  ASSUME NEW recs, NEW pIndex, NEW eIndex, PreparedInv(recs, pIndex, eIndex, 0),
         {key \in pIndex : IsPriorityEntryCurrent(key, recs)} = {}
  PROVE  PreparedInv(recs, {}, eIndex, 0) /\ DOMAIN recs = {}
<1>1. Pending(recs) = {}
  <2>1. ASSUME NEW id \in Pending(recs)
        PROVE  FALSE
    <3>1. PriorityKeyOf(recs[id]) \in pIndex /\ PriorityKeyOf(recs[id]).emissionId = id
      BY <2>1 DEF PreparedInv, PriorityKeyOf, Pending
    <3> QED
      BY <2>1, <3>1 DEF IsPriorityEntryCurrent
  <2> QED
    BY <2>1
<1>2. DOMAIN recs = {}
  <2>1. \A id \in DOMAIN recs : id # 0 /\ recs[id].state \in {"Pending", "InFlight"}
    BY TypesAssumption DEF PreparedInv, PreparedTypeOK, Identity, Record
  <2> QED
    BY <1>1, <2>1 DEF PreparedInv, Pending
<1> QED
  BY <1>1, <1>2 DEF PreparedInv, PreparedTypeOK

\* PumpAt preserves the invariant of the prepared state.
LEMMA PumpPreserves ==
  ASSUME NEW recs, NEW pIndex, NEW eIndex, NEW active, NEW answer,
         PreparedInv(recs, pIndex, eIndex, active), now \in Int,
         PumpAt(recs, pIndex, eIndex, active, answer)
  PROVE  PreparedInv(records, priorityIndex, expirationIndex, inFlightEmissionId)'
<1> DEFINE left == WithoutDue(recs, eIndex)
           current == {key \in pIndex : IsPriorityEntryCurrent(key, left)}
<1>1. expirationIndex' \in AfterExpirations(recs, eIndex)
  BY DEF PumpAt
<1>2. PreparedInv(left, pIndex, expirationIndex', active)
  BY <1>1, ExpirationsPreserve
<1>3. CASE /\ active # 0
           /\ records' = left
           /\ priorityIndex' = pIndex
           /\ inFlightEmissionId' = active
  BY <1>2, <1>3
<1>4. CASE /\ active = 0
           /\ current = {}
           /\ records' = left
           /\ priorityIndex' = {}
           /\ inFlightEmissionId' = 0
  BY <1>2, <1>4, EmptyPreserves
<1>5. ASSUME active = 0,
             NEW front \in current,
             records' = [left EXCEPT ![front.emissionId].state = "InFlight"],
             NEW kept \in DiscardStalePriorityEntries(pIndex, current),
             priorityIndex' = kept \ {front},
             inFlightEmissionId' = front.emissionId
      PROVE  PreparedInv(records, priorityIndex, expirationIndex, inFlightEmissionId)'
  BY <1>2, <1>5, SelectionPreserves
<1> QED
  BY <1>3, <1>4, <1>5 DEF PumpAt
------------------------------------------------------------------------------
\* What is left of an index or of the records speaks of identities handed out.
HandedOut(recs, pIndex, eIndex, next) ==
  next # 0 => /\ \A id \in DOMAIN recs : id < next
              /\ \A key \in pIndex \cup eIndex : key.emissionId < next

\* The inductive invariant, as the lemmas on prepared states need it.
LEMMA InvariantSplit ==
  IInv <=> /\ settings \in [Flow -> ValidFlowSettings]
           /\ now \in 0..MaxNow
           /\ nextIdentity \in Identity \cup {0}
           /\ reply \in Reply
           /\ PreparedInv(records, priorityIndex, expirationIndex, inFlightEmissionId)
           /\ HandedOut(records, priorityIndex, expirationIndex, nextIdentity)
BY DEF IInv, TypeOK, RecordsKeyed, InFlightCoherent, IndexesComplete, KeysFromPast,
       PreparedInv, PreparedTypeOK, HandedOut

\* PumpAt adds no record and no key.
LEMMA PumpHandsOutOld ==
  ASSUME NEW recs, NEW pIndex, NEW eIndex, NEW active, NEW answer, NEW next,
         HandedOut(recs, pIndex, eIndex, next),
         PumpAt(recs, pIndex, eIndex, active, answer)
  PROVE  HandedOut(records', priorityIndex', expirationIndex', next)
<1> DEFINE left == WithoutDue(recs, eIndex)
           current == {key \in pIndex : IsPriorityEntryCurrent(key, left)}
<1>1. expirationIndex' \subseteq eIndex
  BY PopsKeepStops DEF PumpAt, AfterExpirations
<1>2. DOMAIN left = DOMAIN recs \ DueEmissions(recs, eIndex)
  BY WithoutProperties DEF WithoutDue
<1>3. DOMAIN records' = DOMAIN left /\ priorityIndex' \subseteq pIndex
  <2>1. CASE records' = left /\ priorityIndex' = pIndex
    BY <2>1
  <2>2. CASE records' = left /\ priorityIndex' = {}
    BY <2>2
  <2>3. ASSUME NEW front \in current,
               records' = [left EXCEPT ![front.emissionId].state = "InFlight"],
               NEW kept \in DiscardStalePriorityEntries(pIndex, current),
               priorityIndex' = kept \ {front}
        PROVE  DOMAIN records' = DOMAIN left /\ priorityIndex' \subseteq pIndex
    BY <2>3, PopsKeepStops
  <2> QED
    BY <2>1, <2>2, <2>3 DEF PumpAt
<1> QED
  BY <1>1, <1>2, <1>3 DEF HandedOut

\* The answer of a pump is a reply, whatever was already in it.
LEMMA PumpReplies ==
  ASSUME NEW recs, NEW pIndex, NEW eIndex, NEW active, NEW answer \in Reply,
         PreparedInv(recs, pIndex, eIndex, active), now \in Int,
         PumpAt(recs, pIndex, eIndex, active, answer)
  PROVE  reply' \in Reply
<1> DEFINE left == WithoutDue(recs, eIndex)
           current == {key \in pIndex : IsPriorityEntryCurrent(key, left)}
           Told(order) == [answer EXCEPT !.events = @ \o Expired(order, recs)]
<1>1. ASSUME NEW order \in InExpirationOrder(DueKeys(recs, eIndex))
      PROVE  Told(order) \in Reply
  <2>1. Expired(order, recs) \in Seq(Terminal)
    BY ExpiredType DEF PreparedInv, DueKeys
  <2>2. answer.events \in Seq(Terminal)
    BY DEF Reply
  <2>3. answer.events \o Expired(order, recs) \in Seq(Terminal)
    BY <2>1, <2>2
  <2> QED
    BY <2>3 DEF Reply
<1>2. \A told \in Reply : \A status \in PumpStatus : [told EXCEPT !.pump = status] \in Reply
  BY DEF Reply
<1>3. \A told \in Reply : \A status \in PumpStatus : \A envelope \in Envelope :
        [told EXCEPT !.pump = status, !.ready = envelope] \in Reply
  BY DEF Reply
<1>4. PICK order \in InExpirationOrder(DueKeys(recs, eIndex)) :
        \/ reply' = [Told(order) EXCEPT !.pump = "Busy"]
        \/ reply' = [Told(order) EXCEPT !.pump = "QueueEmpty"]
        \/ \E front \in current :
             reply' = [Told(order) EXCEPT !.pump = "EmissionReady",
                                          !.ready = left[front.emissionId].envelope]
  BY DEF PumpAt
<1>5. {"Busy", "QueueEmpty", "EmissionReady"} \subseteq PumpStatus
  BY DEF PumpStatus
<1>6. \A front \in current : left[front.emissionId].envelope \in Envelope
  <2> PICK kept \in AfterExpirations(recs, eIndex) : TRUE
    BY DEF PumpAt
  <2> PreparedInv(left, pIndex, kept, active)
    BY ExpirationsPreserve
  <2>1. left \in [DOMAIN left -> Record]
    BY DEF PreparedInv, PreparedTypeOK
  <2>2. \A front \in current : front.emissionId \in DOMAIN left
    BY DEF IsPriorityEntryCurrent, Pending
  <2> QED
    BY <2>1, <2>2 DEF Record
<1>7. Told(order) \in Reply
  BY <1>1, <1>4
<1> HIDE DEF Told, current, left
<1>8. CASE reply' = [Told(order) EXCEPT !.pump = "Busy"]
  BY <1>2, <1>5, <1>7, <1>8, Zenon
<1>9. CASE reply' = [Told(order) EXCEPT !.pump = "QueueEmpty"]
  BY <1>2, <1>5, <1>7, <1>9, Zenon
<1>10. ASSUME NEW front \in current,
              reply' = [Told(order) EXCEPT !.pump = "EmissionReady",
                                           !.ready = left[front.emissionId].envelope]
       PROVE  reply' \in Reply
  BY <1>3, <1>5, <1>6, <1>7, <1>10
<1> QED
  BY <1>4, <1>8, <1>9, <1>10

\* A pump on a prepared state that satisfies the invariant ends in one that does.
LEMMA PumpInvariant ==
  ASSUME IInv, NEW recs, NEW pIndex, NEW eIndex, NEW active, NEW answer \in Reply,
         PreparedInv(recs, pIndex, eIndex, active),
         nextIdentity' \in Identity \cup {0},
         HandedOut(recs, pIndex, eIndex, nextIdentity'),
         PumpAt(recs, pIndex, eIndex, active, answer),
         UNCHANGED <<settings, now>>
  PROVE  IInv'
<1>1. now \in Int
  BY CoreAssumption, TypesAssumption DEF IInv, TypeOK, Time
<1>2. PreparedInv(records, priorityIndex, expirationIndex, inFlightEmissionId)'
  BY <1>1, PumpPreserves
<1>3. HandedOut(records, priorityIndex, expirationIndex, nextIdentity)'
  BY PumpHandsOutOld DEF HandedOut
<1>4. reply' \in Reply
  BY <1>1, PumpReplies
<1>5. settings' \in [Flow -> ValidFlowSettings] /\ now' \in 0..MaxNow
  BY DEF IInv, TypeOK
<1> QED
  BY <1>2, <1>3, <1>4, <1>5
  DEF IInv, TypeOK, RecordsKeyed, InFlightCoherent, IndexesComplete, KeysFromPast,
      PreparedInv, PreparedTypeOK, HandedOut
------------------------------------------------------------------------------
\* The answers an operation starts from are replies.
LEMMA AnswerType ==
  ASSUME NEW op \in Operation, NEW status \in Status
  PROVE  Answer(op, status) \in Reply
<1>1. <<>> \in Seq(Terminal)
  OBVIOUS
<1>2. "NotRequested" \in PumpStatus
  BY DEF PumpStatus
<1> QED
  BY <1>1, <1>2 DEF Answer, Reply

\* An operation that touches no emission preserves the invariant.
LEMMA AnsweringPreserves ==
  ASSUME IInv, reply' \in Reply, settings' \in [Flow -> ValidFlowSettings],
         now' \in 0..MaxNow, UNCHANGED <<nextIdentity, queueVars>>
  PROVE  IInv'
BY DEF queueVars, IInv, TypeOK, RecordsKeyed, InFlightCoherent, IndexesComplete, KeysFromPast

\* An admitted record is a record, waiting under the identity it was given.
LEMMA AdmittedType ==
  ASSUME IInv, NEW flow \in Flow, NEW adjustment \in Adjustments,
         NEW override \in TTLOverrides, EffectiveTTL(flow, override) >= 0,
         nextIdentity # 0
  PROVE  /\ Admitted(flow, adjustment, override) \in Record
         /\ Admitted(flow, adjustment, override).state = "Pending"
         /\ Admitted(flow, adjustment, override).revision = 1
         /\ Admitted(flow, adjustment, override).envelope.emissionId = nextIdentity
<1> DEFINE ttl == EffectiveTTL(flow, override)
<1>1. settings[flow] \in ValidFlowSettings
  BY DEF IInv, TypeOK
<1>2. settings[flow] \in FlowSettings /\ settings[flow].expirePolicy \in ExpirePolicy
  BY <1>1 DEF ValidFlowSettings
<1>3. /\ settings[flow].ttl \in Int
      /\ settings[flow].baseWeight \in Score
      /\ settings[flow].expirePolicy \in ExpirePolicy
  BY <1>2 DEF FlowSettings
<1>4. ttl \in Nat
  <2>1. override \in Int \/ override = None
    BY CoreAssumption
  <2> QED
    BY <1>3, <2>1 DEF EffectiveTTL
<1>5. now \in Time
  BY CoreAssumption, TypesAssumption DEF IInv, TypeOK, Time
<1>6. CalculateExpiresAt(now, ttl) \in Time
  BY <1>4, <1>5, ExpiresAtType
<1>7. CalculatePriorityScore(settings[flow].baseWeight, adjustment) \in Score
  BY <1>3, ScoreType, CoreAssumption
<1>8. nextIdentity \in Identity /\ 1 \in Revision
  BY TypesAssumption DEF IInv, TypeOK, Revision
<1> HIDE DEF ttl
<1> QED
  BY <1>3, <1>4, <1>6, <1>7, <1>8 DEF Admitted, Record, Envelope, ttl

\* Filing the admitted record and its keys prepares a state that may be pumped.
LEMMA AdmissionPrepares ==
  ASSUME IInv, NEW record \in Record, nextIdentity # 0,
         record.state = "Pending", record.revision = 1,
         record.envelope.emissionId = nextIdentity
  PROVE  /\ PreparedInv(With(records, nextIdentity, record),
                        priorityIndex \cup {PriorityKeyOf(record)},
                        expirationIndex \cup ExpirationKeysOf(record), inFlightEmissionId)
         /\ HandedOut(With(records, nextIdentity, record),
                      priorityIndex \cup {PriorityKeyOf(record)},
                      expirationIndex \cup ExpirationKeysOf(record),
                      AdvanceCounterOrMarkExhausted(nextIdentity))
<1> DEFINE recs == With(records, nextIdentity, record)
           pIndex == priorityIndex \cup {PriorityKeyOf(record)}
           eIndex == expirationIndex \cup ExpirationKeysOf(record)
<1>1. /\ DOMAIN recs = DOMAIN records \cup {nextIdentity}
      /\ recs[nextIdentity] = record
  BY DEF With
<1>2. \A id \in DOMAIN records : id # nextIdentity /\ id < nextIdentity
  BY TypesAssumption DEF IInv, TypeOK, RecordsKeyed, Identity
<1>3. \A id \in DOMAIN records : recs[id] = records[id]
  BY <1>2 DEF With
<1>4. nextIdentity \in Identity /\ nextIdentity \notin DOMAIN records
  BY <1>2 DEF IInv, TypeOK
<1>5. PreparedTypeOK(recs, pIndex, eIndex, inFlightEmissionId)
  <2>1. records \in [DOMAIN records -> Record]
    BY DEF IInv, TypeOK
  <2>2. recs \in [DOMAIN recs -> Record]
    BY <1>1, <1>3, <2>1 DEF With
  <2>3. /\ PriorityKeyOf(record) \in PriorityKey
        /\ ExpirationKeysOf(record) \subseteq ExpirationKey
        /\ IsFiniteSet(ExpirationKeysOf(record))
    BY KeyTypes
  <2>4. IsFiniteSet(eIndex)
    BY <2>3, FS_Union DEF IInv, TypeOK
  <2> QED
    BY <1>1, <1>4, <2>2, <2>3, <2>4 DEF PreparedTypeOK, IInv, TypeOK
<1>6. Pending(recs) = Pending(records) \cup {nextIdentity}
  BY <1>1, <1>3 DEF Pending
<1>7. \A key \in {PriorityKeyOf(record)} \cup ExpirationKeysOf(record) :
        key.emissionId = nextIdentity /\ key.revision = 1
  BY DEF PriorityKeyOf, ExpirationKeyOf, ExpirationKeysOf
<1>8. \A key \in priorityIndex \cup expirationIndex :
        key.emissionId # nextIdentity /\ key.emissionId < nextIdentity
  <2>1. \A key \in priorityIndex \cup expirationIndex : key.emissionId \in Int
    BY DEF IInv, TypeOK, PriorityKey, ExpirationKey, Identity
  <2>2. nextIdentity \in Int
    BY DEF IInv, TypeOK, Identity
  <2> QED
    BY <2>1, <2>2 DEF IInv, KeysFromPast
<1>9. \A key \in pIndex \cup eIndex :
        key.emissionId \in DOMAIN recs => key.revision <= recs[key.emissionId].revision
  BY <1>1, <1>3, <1>7, <1>8 DEF IInv, KeysFromPast
<1>10. inFlightEmissionId # 0 => inFlightEmissionId \in DOMAIN recs
  BY <1>1 DEF IInv, InFlightCoherent
<1>11. \A id \in DOMAIN recs : (recs[id].state = "InFlight") <=> (id = inFlightEmissionId)
  BY <1>1, <1>3, <1>4 DEF IInv, InFlightCoherent
<1>12. \A id \in Pending(recs) : /\ PriorityKeyOf(recs[id]) \in pIndex
                                 /\ ExpirationKeysOf(recs[id]) \subseteq eIndex
  BY <1>1, <1>3, <1>6 DEF IInv, IndexesComplete, Pending
<1>13. \A id \in DOMAIN recs : recs[id].envelope.emissionId = id
  BY <1>1, <1>3 DEF IInv, RecordsKeyed
<1>14. HandedOut(recs, pIndex, eIndex, AdvanceCounterOrMarkExhausted(nextIdentity))
  <2>1. /\ nextIdentity \in Int
        /\ \A id \in DOMAIN records : id \in Int
        /\ \A key \in priorityIndex \cup expirationIndex : key.emissionId \in Int
    BY DEF IInv, TypeOK, PriorityKey, ExpirationKey, Identity
  <2>2. \A id \in DOMAIN recs : id < nextIdentity + 1
    BY <1>1, <1>2, <2>1
  <2>3. \A key \in pIndex \cup eIndex : key.emissionId < nextIdentity + 1
    BY <1>7, <1>8, <2>1
  <2> QED
    BY <2>2, <2>3 DEF HandedOut, AdvanceCounterOrMarkExhausted
<1> QED
  BY <1>5, <1>9, <1>10, <1>11, <1>12, <1>13, <1>14 DEF PreparedInv

\* Enqueue preserves the invariant.
LEMMA EnqueuePreserves ==
  ASSUME IInv, NEW flow \in FlowInputs, NEW adjustment \in Adjustments,
         NEW override \in TTLOverrides, Enqueue(flow, adjustment, override)
  PROVE  IInv'
<1> DEFINE status == EnqueueStatus(flow, override)
           record == Admitted(flow, adjustment, override)
           recs == With(records, nextIdentity, record)
           pIndex == priorityIndex \cup {PriorityKeyOf(record)}
           eIndex == expirationIndex \cup ExpirationKeysOf(record)
           answer == [Answer("Enqueue", status) EXCEPT !.emission = record.envelope]
<1>1. CASE status # "Accepted"
  <2>1. status \in Status /\ "Enqueue" \in Operation
    BY DEF EnqueueStatus, Status, Operation
  <2>2. reply' = Answer("Enqueue", status)
    BY <1>1 DEF Enqueue
  <2>3. reply' \in Reply
    BY <2>1, <2>2, AnswerType
  <2> QED
    BY <1>1, <2>3, AnsweringPreserves DEF Enqueue, IInv, TypeOK
<1>2. CASE status = "Accepted"
  <2>1. flow \in Flow /\ ~(EffectiveTTL(flow, override) < 0) /\ nextIdentity # 0
    BY <1>2 DEF EnqueueStatus
  <2>2. EffectiveTTL(flow, override) >= 0
    <3>1. settings[flow] \in FlowSettings
      BY <2>1 DEF IInv, TypeOK, ValidFlowSettings
    <3>2. override \in Int \/ override = None
      BY CoreAssumption
    <3> QED
      BY <2>1, <3>1, <3>2 DEF EffectiveTTL, FlowSettings
  <2>3. /\ record \in Record
        /\ record.state = "Pending"
        /\ record.revision = 1
        /\ record.envelope.emissionId = nextIdentity
    BY <2>1, <2>2, AdmittedType
  <2>4. /\ PreparedInv(recs, pIndex, eIndex, inFlightEmissionId)
        /\ HandedOut(recs, pIndex, eIndex, AdvanceCounterOrMarkExhausted(nextIdentity))
    BY <2>1, <2>3, AdmissionPrepares
  <2>5. answer \in Reply
    <3>1. Answer("Enqueue", status) \in Reply
      BY <1>2, AnswerType DEF Operation, Status
    <3>2. record.envelope \in Envelope
      BY <2>3 DEF Record
    <3> HIDE DEF record
    <3> QED
      BY <3>1, <3>2 DEF Reply
  <2>6. /\ nextIdentity' = AdvanceCounterOrMarkExhausted(nextIdentity)
        /\ UNCHANGED <<settings, now>>
    BY <1>2 DEF Enqueue
  <2>7. nextIdentity' \in Identity \cup {0}
    BY <2>1, <2>6, TypesAssumption
    DEF AdvanceCounterOrMarkExhausted, IInv, TypeOK, Identity
  <2>8. CASE bPumpAfterEnqueueWhenIdle /\ inFlightEmissionId = 0
    <3>1. PumpAt(recs, pIndex, eIndex, inFlightEmissionId, answer)
      BY <1>2, <2>8 DEF Enqueue
    <3> HIDE DEF recs, pIndex, eIndex, answer
    <3> QED
      BY <2>4, <2>5, <2>6, <2>7, <3>1, PumpInvariant
  <2>9. CASE ~(bPumpAfterEnqueueWhenIdle /\ inFlightEmissionId = 0)
    <3>1. /\ records' = recs
          /\ priorityIndex' = pIndex
          /\ expirationIndex' = eIndex
          /\ reply' = answer
          /\ inFlightEmissionId' = inFlightEmissionId
      BY <1>2, <2>9 DEF Enqueue
    <3> HIDE DEF recs, pIndex, eIndex, answer
    <3> QED
      BY <2>4, <2>5, <2>6, <2>7, <3>1
      DEF IInv, TypeOK, RecordsKeyed, InFlightCoherent, IndexesComplete, KeysFromPast,
          PreparedInv, PreparedTypeOK, HandedOut
  <2> QED
    BY <2>8, <2>9
<1> QED
  BY <1>1, <1>2

\* UpdateFlowSettings preserves the invariant.
LEMMA UpdateFlowSettingsPreserves ==
  ASSUME IInv, NEW flow \in FlowInputs, NEW new \in SettingsInputs,
         UpdateFlowSettings(flow, new)
  PROVE  IInv'
<1> DEFINE status == IF flow \notin Flow THEN "RejectedInvalidFlow"
                     ELSE IF new.ttl < 0 THEN "RejectedInvalidTTL"
                     ELSE IF new.expirePolicy \notin ExpirePolicy
                     THEN "RejectedInvalidExpirePolicy"
                     ELSE "Updated"
<1>1. /\ reply' = Answer("UpdateFlowSettings", status)
      /\ settings' = IF status = "Updated" THEN [settings EXCEPT ![flow] = new] ELSE settings
      /\ UNCHANGED <<now, nextIdentity, queueVars>>
  BY DEF UpdateFlowSettings
<1>2. status \in Status /\ "UpdateFlowSettings" \in Operation
  BY DEF Status, Operation
<1>3. reply' \in Reply
  BY <1>1, <1>2, AnswerType
<1>4. settings' \in [Flow -> ValidFlowSettings]
  <2>1. settings \in [Flow -> ValidFlowSettings]
    BY DEF IInv, TypeOK
  <2>2. new \in FlowSettings
    BY CoreAssumption
  <2>3. CASE status = "Updated"
    <3>1. new.expirePolicy \in ExpirePolicy
      BY <2>3
    <3>2. new \in ValidFlowSettings
      BY <2>2, <3>1 DEF ValidFlowSettings
    <3> QED
      BY <1>1, <2>1, <2>3, <3>2
  <2>4. CASE status # "Updated"
    BY <1>1, <2>1, <2>4
  <2> QED
    BY <2>3, <2>4
<1> QED
  BY <1>1, <1>3, <1>4, AnsweringPreserves DEF IInv, TypeOK
------------------------------------------------------------------------------
\* The envelope an update computes is an envelope of the same emission and flow.
LEMMA RescheduledType ==
  ASSUME NEW record \in Record, NEW observedAt \in Time, NEW refresh \in BOOLEAN,
         NEW newScore \in NewScores
  PROVE  /\ Rescheduled(record, observedAt, refresh, newScore) \in Envelope
         /\ Rescheduled(record, observedAt, refresh, newScore).emissionId =
              record.envelope.emissionId
<1>1. record.envelope \in Envelope /\ record.effectiveTTL \in Nat
  BY DEF Record
<1>2. CalculateExpiresAt(observedAt, record.effectiveTTL) \in Time
  BY <1>1, ExpiresAtType
<1>3. newScore = None \/ newScore \in Score
  BY CoreAssumption
<1> QED
  BY <1>1, <1>2, <1>3 DEF Rescheduled, Envelope

\* UpdatePendingScheduling preserves the invariant: the record gets a revision no
\* key has, and the keys of that revision.
LEMMA UpdatePendingSchedulingPreserves ==
  ASSUME IInv, NEW id \in Identity \cup {0}, NEW refresh \in BOOLEAN,
         NEW newScore \in NewScores, NEW expected \in ExpectedTimes,
         UpdatePendingScheduling(id, now, refresh, newScore, expected)
  PROVE  IInv'
<1> DEFINE status == UpdateStatus(id, now, refresh, newScore, expected)
           envelope == Rescheduled(records[id], now, refresh, newScore)
           record == [records[id] EXCEPT !.envelope = envelope, !.revision = @ + 1]
<1>1. status \in Status /\ "UpdatePendingScheduling" \in Operation
  BY DEF UpdateStatus, Status, Operation
<1>2. Answer("UpdatePendingScheduling", status) \in Reply
  BY <1>1, AnswerType
<1>3. records \in [DOMAIN records -> Record]
  BY DEF IInv, TypeOK
<1>4. \A told \in Reply : \A e \in Envelope \cup {None} : [told EXCEPT !.emission = e] \in Reply
  BY DEF Reply
<1>5. CASE status # "Updated"
  <2>1. status = "Unchanged" => id \in DOMAIN records
    BY DEF UpdateStatus
  <2>2. (IF status = "Unchanged" THEN records[id].envelope ELSE None) \in Envelope \cup {None}
    BY <1>3, <2>1 DEF Record
  <2>3. reply' = [Answer("UpdatePendingScheduling", status) EXCEPT
                    !.emission = IF status = "Unchanged" THEN records[id].envelope ELSE None]
    BY <1>5 DEF UpdatePendingScheduling
  <2>4. reply' \in Reply
    BY <1>2, <1>4, <2>2, <2>3
  <2> QED
    BY <1>5, <2>4, AnsweringPreserves DEF UpdatePendingScheduling, IInv, TypeOK
<1>6. CASE status = "Updated"
  <2>1. /\ id \in Pending(records)
        /\ records[id].revision # MaxRevision
    BY <1>6 DEF UpdateStatus, IsPendingEmission, Pending
  <2>2. records[id] \in Record /\ id \in DOMAIN records /\ records[id].state = "Pending"
    BY <1>3, <2>1 DEF Pending
  <2>3. now \in Time
    BY CoreAssumption, TypesAssumption DEF IInv, TypeOK, Time
  <2>4. envelope \in Envelope /\ envelope.emissionId = id
    BY <2>2, <2>3, RescheduledType DEF IInv, RecordsKeyed
  <2>5. records[id].revision \in Revision
    BY <2>2 DEF Record
  <2>6. records[id].revision + 1 \in Revision
    BY <2>1, <2>5, TypesAssumption DEF Revision
  <2> HIDE DEF envelope
  <2>7. /\ record \in Record
        /\ record.state = "Pending"
        /\ record.revision = records[id].revision + 1
        /\ record.envelope = envelope
    BY <2>2, <2>4, <2>6 DEF Record
  <2>8. /\ records' = [records EXCEPT ![id] = record]
        /\ priorityIndex' = priorityIndex \cup {PriorityKeyOf(record)}
        /\ expirationIndex' = expirationIndex \cup ExpirationKeysOf(record)
        /\ reply' = [Answer("UpdatePendingScheduling", status) EXCEPT !.emission = envelope]
        /\ UNCHANGED <<settings, now, nextIdentity, inFlightEmissionId>>
    BY <1>6 DEF UpdatePendingScheduling, envelope
  <2> HIDE DEF record
  <2>9. /\ DOMAIN records' = DOMAIN records
        /\ \A j \in DOMAIN records \ {id} : records'[j] = records[j]
        /\ records'[id] = record
    BY <2>2, <2>8
  <2>10. TypeOK'
    <3>1. records' \in [DOMAIN records' -> Record]
      BY <1>3, <2>7, <2>8, <2>9
    <3>2. /\ PriorityKeyOf(record) \in PriorityKey
          /\ ExpirationKeysOf(record) \subseteq ExpirationKey
          /\ IsFiniteSet(ExpirationKeysOf(record))
      BY <2>7, KeyTypes
    <3>3. IsFiniteSet(expirationIndex')
      BY <2>8, <3>2, FS_Union DEF IInv, TypeOK
    <3>4. reply' \in Reply
      BY <1>2, <1>4, <2>4, <2>8
    <3> QED
      BY <2>8, <2>9, <3>1, <3>2, <3>3, <3>4 DEF IInv, TypeOK
  <2>11. RecordsKeyed'
    BY <2>4, <2>7, <2>8, <2>9 DEF IInv, RecordsKeyed
  <2>12. InFlightCoherent'
    BY <2>2, <2>7, <2>8, <2>9 DEF IInv, InFlightCoherent
  <2>13. IndexesComplete'
    <3>1. Pending(records') = Pending(records)
      BY <2>2, <2>7, <2>9 DEF Pending
    <3> QED
      BY <2>8, <2>9, <3>1 DEF IInv, IndexesComplete, Pending
  <2>14. KeysFromPast'
    <3>1. \A key \in {PriorityKeyOf(record)} \cup ExpirationKeysOf(record) :
            key.emissionId = id /\ key.revision = record.revision
      BY <2>4, <2>7 DEF PriorityKeyOf, ExpirationKeyOf, ExpirationKeysOf
    <3>2. \A key \in priorityIndex' \cup expirationIndex' :
            nextIdentity' = 0 \/ key.emissionId < nextIdentity'
      BY <2>2, <2>8, <3>1 DEF IInv, KeysFromPast, RecordsKeyed
    <3>3. \A key \in priorityIndex \cup expirationIndex : key.revision \in Int
      BY DEF IInv, TypeOK, PriorityKey, ExpirationKey, Revision
    <3>4. records[id].revision \in Int
      BY <2>5 DEF Revision
    <3>5. ASSUME NEW key \in priorityIndex' \cup expirationIndex',
                 key.emissionId \in DOMAIN records'
          PROVE  key.revision <= records'[key.emissionId].revision
      <4>1. CASE key \in {PriorityKeyOf(record)} \cup ExpirationKeysOf(record)
        BY <2>7, <2>9, <3>1, <3>4, <4>1
      <4>2. CASE key \in priorityIndex \cup expirationIndex
        <5>1. key.revision <= records[key.emissionId].revision
          BY <2>9, <3>5, <4>2 DEF IInv, KeysFromPast
        <5> QED
          BY <2>7, <2>9, <3>3, <3>4, <3>5, <4>2, <5>1
      <4> QED
        BY <2>8, <3>5, <4>1, <4>2
    <3> QED
      BY <3>2, <3>5 DEF KeysFromPast
  <2> QED
    BY <2>10, <2>11, <2>12, <2>13, <2>14 DEF IInv
<1> QED
  BY <1>5, <1>6

\* Pump preserves the invariant.
LEMMA PumpActionPreserves ==
  ASSUME IInv, Pump
  PROVE  IInv'
<1>1. Answer("Pump", "Done") \in Reply
  BY AnswerType DEF Operation, Status
<1>2. /\ PumpAt(records, priorityIndex, expirationIndex, inFlightEmissionId,
                Answer("Pump", "Done"))
      /\ UNCHANGED <<settings, now, nextIdentity>>
  BY DEF Pump
<1>3. /\ PreparedInv(records, priorityIndex, expirationIndex, inFlightEmissionId)
      /\ HandedOut(records, priorityIndex, expirationIndex, nextIdentity)
      /\ nextIdentity' \in Identity \cup {0}
  BY <1>2, InvariantSplit
<1> QED
  BY <1>1, <1>2, <1>3, PumpInvariant
------------------------------------------------------------------------------
\* Completing the emission in flight prepares an idle state, and one terminal.
LEMMA CompletionPrepares ==
  ASSUME IInv, inFlightEmissionId # 0
  PROVE  /\ PreparedInv(Completed, priorityIndex, expirationIndex, 0)
         /\ HandedOut(Completed, priorityIndex, expirationIndex, nextIdentity)
<1>1. PreparedInv(records, priorityIndex, expirationIndex, inFlightEmissionId)
  BY InvariantSplit
<1>domain. DOMAIN Completed = DOMAIN records \ {inFlightEmissionId}
  BY WithoutProperties DEF Completed
<1>values. \A id \in DOMAIN records \ {inFlightEmissionId} : Completed[id] = records[id]
  BY WithoutProperties DEF Completed
<1>2. records \in [DOMAIN records -> Record]
  BY DEF IInv, TypeOK
<1>3. Completed \in [DOMAIN records \ {inFlightEmissionId} -> Record]
  BY <1>2, WithoutType DEF Completed
<1>4. PreparedTypeOK(Completed, priorityIndex, expirationIndex, 0)
  BY <1>3, <1>domain DEF PreparedTypeOK, IInv, TypeOK
<1>5. \A id \in DOMAIN Completed : (Completed[id].state = "InFlight") <=> (id = 0)
  <2>1. \A id \in DOMAIN Completed : id # 0
    BY <1>domain, TypesAssumption DEF IInv, TypeOK, Identity
  <2> QED
    BY <1>domain, <1>values, <2>1 DEF IInv, InFlightCoherent
<1>6. \A id \in Pending(Completed) :
        id \in Pending(records) /\ Completed[id] = records[id]
  BY <1>domain, <1>values DEF Pending
<1>7. \A id \in Pending(Completed) :
        /\ PriorityKeyOf(Completed[id]) \in priorityIndex
        /\ ExpirationKeysOf(Completed[id]) \subseteq expirationIndex
  BY <1>6 DEF IInv, IndexesComplete
<1>8. \A id \in DOMAIN Completed : Completed[id].envelope.emissionId = id
  BY <1>domain, <1>values DEF IInv, RecordsKeyed
<1>9. \A key \in priorityIndex \cup expirationIndex :
        key.emissionId \in DOMAIN Completed =>
          key.revision <= Completed[key.emissionId].revision
  BY <1>domain, <1>values DEF IInv, KeysFromPast
<1>10. HandedOut(Completed, priorityIndex, expirationIndex, nextIdentity)
  BY <1>domain DEF HandedOut, IInv, RecordsKeyed, KeysFromPast
<1> QED
  BY <1>4, <1>5, <1>7, <1>8, <1>9, <1>10 DEF PreparedInv

\* The answer of a completion, with the envelope of what was in flight, is a reply.
LEMMA CompletionAnswerType ==
  ASSUME IInv, inFlightEmissionId # 0, NEW op \in Operation,
         NEW reason \in Status \cap TerminalReason
  PROVE  CompletionAnswer(op, reason) \in Reply
<1>1. Answer(op, reason) \in Reply
  BY AnswerType
<1>2. records[inFlightEmissionId].envelope \in Envelope
  BY DEF IInv, TypeOK, InFlightCoherent, Record
<1> DEFINE terminal == [envelope |-> records[inFlightEmissionId].envelope, reason |-> reason]
<1>3. terminal \in Terminal
  BY <1>2 DEF Terminal
<1> HIDE DEF terminal
<1>4. <<terminal>> \in Seq(Terminal)
  BY <1>3
<1>5. \A told \in Reply : \A events \in Seq(Terminal) :
        [told EXCEPT !.events = events] \in Reply
  BY DEF Reply
<1>6. CompletionAnswer(op, reason) = [Answer(op, reason) EXCEPT !.events = <<terminal>>]
  BY DEF CompletionAnswer, terminal
<1> QED
  BY <1>1, <1>4, <1>5, <1>6

\* A rejected completion answers and changes nothing.
LEMMA RejectCompletionPreserves ==
  ASSUME IInv, NEW id, NEW op \in Operation, RejectCompletion(op, id)
  PROVE  IInv'
<1>1. InFlightTargetStatus(id) \in Status
  BY DEF RejectCompletion, InFlightTargetStatus, Status
<1>2. reply' \in Reply
  BY <1>1, AnswerType DEF RejectCompletion
<1> QED
  BY <1>2, AnsweringPreserves DEF RejectCompletion, IInv, TypeOK

\* Confirm preserves the invariant, with and without its pump.
LEMMA ConfirmPreserves ==
  ASSUME IInv, NEW id \in Identity, Confirm(id)
  PROVE  IInv'
<1>1. CASE RejectCompletion("Confirm", id)
  BY <1>1, RejectCompletionPreserves DEF Operation
<1>2. CASE InFlightTargetStatus(id) = "Valid" /\ ~RejectCompletion("Confirm", id)
  <2> DEFINE answer == CompletionAnswer("Confirm", "Confirmed")
  <2>1. inFlightEmissionId # 0
    BY <1>2 DEF InFlightTargetStatus
  <2>2. answer \in Reply
    BY <2>1, CompletionAnswerType DEF Operation, Status, TerminalReason
  <2> HIDE DEF answer
  <2>3. UNCHANGED <<settings, now, nextIdentity>>
    BY <1>2 DEF Confirm
  <2>4. /\ PreparedInv(Completed, priorityIndex, expirationIndex, 0)
        /\ HandedOut(Completed, priorityIndex, expirationIndex, nextIdentity)
    BY <2>1, CompletionPrepares
  <2>5. CASE bPumpAfterConfirm
    <3>1. PumpAt(Completed, priorityIndex, expirationIndex, 0, answer)
      BY <1>2, <2>5 DEF Confirm, answer
    <3>2. /\ nextIdentity' \in Identity \cup {0}
          /\ HandedOut(Completed, priorityIndex, expirationIndex, nextIdentity')
      BY <2>3, <2>4 DEF IInv, TypeOK
    <3> QED
      BY <2>2, <2>3, <2>4, <3>1, <3>2, PumpInvariant
  <2>6. CASE ~bPumpAfterConfirm
    <3>1. /\ records' = Completed
          /\ inFlightEmissionId' = 0
          /\ reply' = answer
          /\ UNCHANGED <<priorityIndex, expirationIndex>>
      BY <1>2, <2>6 DEF Confirm, answer
    <3> QED
      BY <2>2, <2>3, <2>4, <3>1
      DEF IInv, TypeOK, RecordsKeyed, InFlightCoherent, IndexesComplete, KeysFromPast,
          PreparedInv, PreparedTypeOK, HandedOut
  <2> QED
    BY <2>5, <2>6
<1> QED
  BY <1>1, <1>2 DEF Confirm

\* CancelInFlight preserves the invariant and never pumps.
LEMMA CancelInFlightPreserves ==
  ASSUME IInv, NEW id \in Identity, CancelInFlight(id)
  PROVE  IInv'
<1>1. CASE RejectCompletion("CancelInFlight", id)
  BY <1>1, RejectCompletionPreserves DEF Operation
<1>2. CASE InFlightTargetStatus(id) = "Valid" /\ ~RejectCompletion("CancelInFlight", id)
  <2>1. inFlightEmissionId # 0
    BY <1>2 DEF InFlightTargetStatus
  <2>2. CompletionAnswer("CancelInFlight", "Cancelled") \in Reply
    BY <2>1, CompletionAnswerType DEF Operation, Status, TerminalReason
  <2>3. PreparedInv(Completed, priorityIndex, expirationIndex, 0)
        /\ HandedOut(Completed, priorityIndex, expirationIndex, nextIdentity)
    BY <2>1, CompletionPrepares
  <2>4. /\ records' = Completed
        /\ inFlightEmissionId' = 0
        /\ reply' = CompletionAnswer("CancelInFlight", "Cancelled")
        /\ UNCHANGED <<settings, now, nextIdentity, priorityIndex, expirationIndex>>
    BY <1>2 DEF CancelInFlight
  <2> QED
    BY <2>2, <2>3, <2>4
    DEF IInv, TypeOK, RecordsKeyed, InFlightCoherent, IndexesComplete, KeysFromPast,
        PreparedInv, PreparedTypeOK, HandedOut
<1> QED
  BY <1>1, <1>2 DEF CancelInFlight

\* ProcessDueExpirations preserves the invariant.
LEMMA ProcessDueExpirationsPreserves ==
  ASSUME IInv, ProcessDueExpirations
  PROVE  IInv'
<1>1. PreparedInv(records, priorityIndex, expirationIndex, inFlightEmissionId) /\ now \in Int
  BY InvariantSplit, CoreAssumption, TypesAssumption DEF Time
<1>2. PICK order \in InExpirationOrder(DueKeys(records, expirationIndex)) :
        reply' = [Answer("ProcessDueExpirations", "Done") EXCEPT
                    !.events = Expired(order, records)]
  BY DEF ProcessDueExpirations
<1>3. reply' \in Reply
  <2>1. Answer("ProcessDueExpirations", "Done") \in Reply
    BY AnswerType DEF Operation, Status
  <2>2. Expired(order, records) \in Seq(Terminal)
    BY <1>1, ExpiredType DEF PreparedInv, DueKeys
  <2> QED
    BY <1>2, <2>1, <2>2 DEF Reply
<1>4. /\ records' = WithoutDue(records, expirationIndex)
      /\ expirationIndex' \in AfterExpirations(records, expirationIndex)
      /\ UNCHANGED <<settings, now, nextIdentity, priorityIndex, inFlightEmissionId>>
  BY DEF ProcessDueExpirations
<1>5. PreparedInv(records', priorityIndex, expirationIndex', inFlightEmissionId)
  BY <1>1, <1>4, ExpirationsPreserve
<1>6. DOMAIN records' = DOMAIN records \ DueEmissions(records, expirationIndex)
  BY <1>4, WithoutProperties DEF WithoutDue
<1>7. expirationIndex' \subseteq expirationIndex
  BY <1>4, PopsKeepStops DEF AfterExpirations
<1>8. HandedOut(records', priorityIndex, expirationIndex', nextIdentity)
  BY <1>6, <1>7 DEF HandedOut, IInv, RecordsKeyed, KeysFromPast
<1> QED
  BY <1>3, <1>4, <1>5, <1>8
  DEF IInv, TypeOK, RecordsKeyed, InFlightCoherent, IndexesComplete, KeysFromPast,
      PreparedInv, PreparedTypeOK, HandedOut

\* GetNextWakeTime drops stale keys only.
LEMMA GetNextWakeTimePreserves ==
  ASSUME IInv, GetNextWakeTime
  PROVE  IInv'
<1> DEFINE current == {key \in expirationIndex : IsExpirationEntryCurrent(key, records)}
<1>1. /\ expirationIndex' \in DiscardStaleExpirationEntries(expirationIndex, current)
      /\ UNCHANGED <<settings, now, nextIdentity, records, priorityIndex, inFlightEmissionId>>
  BY DEF GetNextWakeTime
<1>2. current \subseteq expirationIndex' /\ expirationIndex' \subseteq expirationIndex
  BY <1>1, PopsKeepStops
<1>3. {"WakeScheduled", "NoWakeScheduled"} \subseteq Status /\ "GetNextWakeTime" \in Operation
  BY DEF Status, Operation
<1>4. reply' \in Reply
  <2>1. CASE reply' = Answer("GetNextWakeTime", "NoWakeScheduled")
    BY <1>3, <2>1, AnswerType
  <2>2. ASSUME NEW front \in current,
               reply' = [Answer("GetNextWakeTime", "WakeScheduled") EXCEPT
                           !.wake = front.expiresAt]
        PROVE  reply' \in Reply
    <3>1. front.expiresAt \in Time
      BY DEF IInv, TypeOK, ExpirationKey
    <3>2. Answer("GetNextWakeTime", "WakeScheduled") \in Reply
      BY <1>3, AnswerType
    <3> QED
      BY <2>2, <3>1, <3>2 DEF Reply
  <2> QED
    BY <2>1, <2>2 DEF GetNextWakeTime
<1>5. ASSUME NEW id \in Pending(records)
      PROVE  ExpirationKeysOf(records[id]) \subseteq expirationIndex'
  <2>1. ExpirationKeysOf(records[id]) \subseteq expirationIndex
    BY DEF IInv, IndexesComplete
  <2>2. \A key \in ExpirationKeysOf(records[id]) : IsExpirationEntryCurrent(key, records)
    BY DEF ExpirationKeysOf, ExpirationKeyOf, IsExpirationEntryCurrent, IInv, RecordsKeyed,
           Pending
  <2> QED
    BY <1>2, <2>1, <2>2
<1>6. IndexesComplete'
  BY <1>1, <1>5 DEF IInv, IndexesComplete
<1>7. IsFiniteSet(expirationIndex')
  BY <1>2, FS_Subset DEF IInv, TypeOK
<1>8. TypeOK'
  BY <1>1, <1>2, <1>4, <1>7 DEF IInv, TypeOK
<1>9. RecordsKeyed' /\ InFlightCoherent' /\ KeysFromPast'
  BY <1>1, <1>2 DEF IInv, RecordsKeyed, InFlightCoherent, KeysFromPast
<1> QED
  BY <1>6, <1>8, <1>9 DEF IInv

\* Time passes within its bound and touches no emission.
LEMMA TickPreserves ==
  ASSUME IInv, Tick
  PROVE  IInv'
<1>1. reply' \in Reply
  BY AnswerType DEF Tick, Operation, Status
<1>2. now' \in 0..MaxNow
  BY CoreAssumption, TypesAssumption DEF Tick, IInv, TypeOK, Time
<1> QED
  BY <1>1, <1>2, AnsweringPreserves DEF Tick, IInv, TypeOK
------------------------------------------------------------------------------
\* The empty queue satisfies the invariant.
LEMMA InitEstablishes ==
  ASSUME Init
  PROVE  IInv
<1>1. /\ Pending(records) = {}
      /\ DOMAIN records = {}
  BY DEF Init, Pending
<1>2. records \in [DOMAIN records -> Record]
  BY DEF Init
<1>3. reply \in Reply
  BY AnswerType DEF Init, Operation, Status
<1>4. IsFiniteSet(expirationIndex)
  BY FS_EmptySet DEF Init
<1>5. /\ settings \in [Flow -> ValidFlowSettings]
      /\ now \in 0..MaxNow
      /\ nextIdentity \in Identity
  BY CoreAssumption, TypesAssumption DEF Init, Time, Identity
<1>6. TypeOK
  BY <1>1, <1>2, <1>3, <1>4, <1>5 DEF Init, TypeOK
<1> QED
  BY <1>1, <1>6
  DEF Init, IInv, RecordsKeyed, InFlightCoherent, IndexesComplete, KeysFromPast

\* So does every state a step of the core leads to.
LEMMA NextPreserves ==
  ASSUME IInv, [Next]_vars
  PROVE  IInv'
<1>1. CASE UNCHANGED vars
  BY <1>1 DEF vars, queueVars, IInv, TypeOK, RecordsKeyed, InFlightCoherent, IndexesComplete,
              KeysFromPast
<1>2. CASE Next
  BY <1>2, EnqueuePreserves, UpdateFlowSettingsPreserves, UpdatePendingSchedulingPreserves,
     PumpActionPreserves, ConfirmPreserves, CancelInFlightPreserves,
     ProcessDueExpirationsPreserves, GetNextWakeTimePreserves, TickPreserves
  DEF Next
<1> QED
  BY <1>1, <1>2

\* The inductive invariant holds throughout, whatever requests arrive and however
\* many flows, identities, revisions and instants there are.
THEOREM InductiveInvariant == Spec => []IInv
<1>1. Init => IInv
  BY InitEstablishes
<1>2. IInv /\ [Next]_vars => IInv'
  BY NextPreserves
<1> QED
  BY <1>1, <1>2, PTL DEF Spec

\* The state and every reply keep their types: no saturated sum, no revision and
\* no identity leaves its range.
THEOREM TypeCorrect == Spec => []TypeOK
<1>1. IInv => TypeOK
  BY DEF IInv
<1> QED
  BY <1>1, InductiveInvariant, PTL

\* HasInFlightEmission never finds the locator and the records in disagreement.
THEOREM OneInFlight == Spec => []InFlightCoherent
<1>1. IInv => InFlightCoherent
  BY DEF IInv
<1> QED
  BY <1>1, InductiveInvariant, PTL

\* Lazy cleaning never loses the current key of a waiting emission.
THEOREM NoEmissionLost == Spec => []IndexesComplete
<1>1. IInv => IndexesComplete
  BY DEF IInv
<1> QED
  BY <1>1, InductiveInvariant, PTL
------------------------------------------------------------------------------
\* PumpAt changes no waiting record it leaves waiting.
LEMMA PumpKeepsWaiting ==
  ASSUME NEW recs, NEW pIndex, NEW eIndex, NEW active, NEW answer,
         recs \in [DOMAIN recs -> Record],
         PumpAt(recs, pIndex, eIndex, active, answer)
  PROVE  /\ DOMAIN records' \subseteq DOMAIN recs
         /\ \A id \in Pending(records') : id \in Pending(recs) /\ records'[id] = recs[id]
<1> DEFINE left == WithoutDue(recs, eIndex)
           current == {key \in pIndex : IsPriorityEntryCurrent(key, left)}
<1>1. /\ DOMAIN left = DOMAIN recs \ DueEmissions(recs, eIndex)
      /\ \A id \in DOMAIN recs \ DueEmissions(recs, eIndex) : left[id] = recs[id]
  <2>1. DOMAIN left = DOMAIN recs \ DueEmissions(recs, eIndex)
    BY WithoutProperties DEF WithoutDue
  <2>2. \A id \in DOMAIN recs \ DueEmissions(recs, eIndex) : left[id] = recs[id]
    BY WithoutProperties DEF WithoutDue
  <2> QED
    BY <2>1, <2>2
<1> HIDE DEF left
<1>2. CASE records' = left
  BY <1>1, <1>2 DEF Pending
<1>3. ASSUME NEW front \in current,
             records' = [left EXCEPT ![front.emissionId].state = "InFlight"]
      PROVE  /\ DOMAIN records' \subseteq DOMAIN recs
             /\ \A id \in Pending(records') : id \in Pending(recs) /\ records'[id] = recs[id]
  <2>1. front.emissionId \in DOMAIN left
    BY DEF IsPriorityEntryCurrent, Pending
  <2>2. /\ DOMAIN records' = DOMAIN left
        /\ \A id \in DOMAIN left \ {front.emissionId} : records'[id] = left[id]
    BY <1>3
  <2>3. records'[front.emissionId] = [left[front.emissionId] EXCEPT !.state = "InFlight"]
    BY <1>3, <2>1
  <2>4. left[front.emissionId] \in Record
    BY <1>1, <2>1
  <2>5. records'[front.emissionId].state = "InFlight"
    BY <2>3, <2>4 DEF Record
  <2> QED
    BY <1>1, <2>1, <2>2, <2>5 DEF Pending
<1>4. PICK order \in InExpirationOrder(DueKeys(recs, eIndex)) :
        \/ records' = left
        \/ \E front \in current : records' = [left EXCEPT ![front.emissionId].state = "InFlight"]
  BY DEF PumpAt, left
<1> QED
  BY <1>2, <1>3, <1>4

\* What waits after some have left was waiting before, as the same record.
LEMMA WithoutWaiting ==
  ASSUME NEW recs, NEW S
  PROVE  \A j \in Pending(Without(recs, S)) : j \in Pending(recs) /\ Without(recs, S)[j] = recs[j]
<1>1. DOMAIN Without(recs, S) = DOMAIN recs \ S
  BY WithoutProperties
<1>2. \A j \in DOMAIN recs \ S : Without(recs, S)[j] = recs[j]
  BY WithoutProperties
<1> QED
  BY <1>1, <1>2 DEF Pending

\* In particular after a completion.
LEMMA CompletedWaiting ==
  \A j \in Pending(Completed) : j \in Pending(records) /\ Completed[j] = records[j]
BY WithoutWaiting DEF Completed

\* The state an accepted request is filed in has records only.
LEMMA AdmissionTyped ==
  ASSUME IInv, NEW flow \in FlowInputs, NEW adjustment \in Adjustments,
         NEW override \in TTLOverrides, EnqueueStatus(flow, override) = "Accepted"
  PROVE  /\ Admitted(flow, adjustment, override) \in Record
         /\ With(records, nextIdentity, Admitted(flow, adjustment, override)) \in
              [DOMAIN With(records, nextIdentity, Admitted(flow, adjustment, override)) -> Record]
<1> DEFINE record == Admitted(flow, adjustment, override)
<1>1. flow \in Flow /\ ~(EffectiveTTL(flow, override) < 0) /\ nextIdentity # 0
  BY DEF EnqueueStatus
<1>2. EffectiveTTL(flow, override) >= 0
  <2>1. settings[flow] \in FlowSettings
    BY <1>1 DEF IInv, TypeOK, ValidFlowSettings
  <2>2. override \in Int \/ override = None
    BY CoreAssumption
  <2> QED
    BY <1>1, <2>1, <2>2 DEF EffectiveTTL, FlowSettings
<1>3. record \in Record
  BY <1>1, <1>2, AdmittedType
<1> HIDE DEF record
<1>4. With(records, nextIdentity, record) \in
        [DOMAIN With(records, nextIdentity, record) -> Record]
  BY <1>3 DEF With, IInv, TypeOK
<1> QED
  BY <1>3, <1>4 DEF record

\* What a step may do to the emissions that wait after it: leave them alone, admit
\* the next identity, or advance the revision of one.
LEMMA WaitingAfterStep ==
  ASSUME IInv, [Next]_vars
  PROVE  \A id \in Pending(records') :
           \/ id \in Pending(records) /\ records'[id] = records[id]
           \/ id = nextIdentity
           \/ /\ id \in DOMAIN records
              /\ records'[id].revision = records[id].revision + 1
<1>0. records \in [DOMAIN records -> Record]
  BY DEF IInv, TypeOK
<1>1. CASE UNCHANGED records
  BY <1>1 DEF Pending
<1>2. ASSUME NEW flow \in FlowInputs, NEW adjustment \in Adjustments,
             NEW override \in TTLOverrides, Enqueue(flow, adjustment, override),
             EnqueueStatus(flow, override) = "Accepted"
      PROVE  \A id \in Pending(records') :
               (id \in Pending(records) /\ records'[id] = records[id]) \/ id = nextIdentity
  <2> DEFINE record == Admitted(flow, adjustment, override)
             recs == With(records, nextIdentity, record)
  <2>1. /\ DOMAIN recs = DOMAIN records \cup {nextIdentity}
        /\ \A id \in DOMAIN records \ {nextIdentity} : recs[id] = records[id]
    BY DEF With
  <2>2. \A id \in Pending(recs) \ {nextIdentity} :
          id \in Pending(records) /\ recs[id] = records[id]
    BY <2>1 DEF Pending
  <2>3. CASE records' = recs
    BY <2>2, <2>3
  <2>4. CASE PumpAt(recs, priorityIndex \cup {PriorityKeyOf(record)},
                    expirationIndex \cup ExpirationKeysOf(record), 0,
                    [Answer("Enqueue", "Accepted") EXCEPT !.emission = record.envelope])
    <3>1. recs \in [DOMAIN recs -> Record]
      BY <1>2, AdmissionTyped
    <3>2. \A id \in Pending(records') : id \in Pending(recs) /\ records'[id] = recs[id]
      BY <2>4, <3>1, PumpKeepsWaiting
    <3> QED
      BY <2>2, <3>2
  <2> QED
    BY <1>2, <2>3, <2>4 DEF Enqueue
<1>3. ASSUME NEW id \in Identity \cup {0}, NEW refresh \in BOOLEAN,
             NEW newScore \in NewScores, NEW expected \in ExpectedTimes,
             UpdatePendingScheduling(id, now, refresh, newScore, expected),
             UpdateStatus(id, now, refresh, newScore, expected) = "Updated"
      PROVE  \A j \in Pending(records') :
               \/ j \in Pending(records) /\ records'[j] = records[j]
               \/ j \in DOMAIN records /\ records'[j].revision = records[j].revision + 1
  <2> DEFINE record == [records[id] EXCEPT
                          !.envelope = Rescheduled(records[id], now, refresh, newScore),
                          !.revision = @ + 1]
  <2>1. records' = [records EXCEPT ![id] = record]
    BY <1>3 DEF UpdatePendingScheduling
  <2>2. id \in DOMAIN records
    BY <1>3 DEF UpdateStatus
  <2>3. record.revision = records[id].revision + 1
    BY <1>0, <2>2 DEF Record
  <2> HIDE DEF record
  <2> QED
    BY <2>1, <2>2, <2>3 DEF Pending
<1>4. CASE Pump
  BY <1>0, <1>4, PumpKeepsWaiting DEF Pump
<1>5. ASSUME NEW id \in Identity, Confirm(id), InFlightTargetStatus(id) = "Valid",
             ~RejectCompletion("Confirm", id)
      PROVE  \A j \in Pending(records') : j \in Pending(records) /\ records'[j] = records[j]
  <2>1. Completed \in [DOMAIN Completed -> Record]
    BY <1>0, WithoutType, WithoutProperties DEF Completed
  <2>2. \A j \in Pending(Completed) : j \in Pending(records) /\ Completed[j] = records[j]
    BY CompletedWaiting
  <2>3. CASE records' = Completed
    BY <2>2, <2>3
  <2>4. CASE PumpAt(Completed, priorityIndex, expirationIndex, 0,
                    CompletionAnswer("Confirm", "Confirmed"))
    <3>1. \A j \in Pending(records') : j \in Pending(Completed) /\ records'[j] = Completed[j]
      BY <2>1, <2>4, PumpKeepsWaiting
    <3> QED
      BY <2>2, <3>1
  <2> QED
    BY <1>5, <2>3, <2>4 DEF Confirm
<1>6. CASE records' = Completed
  BY <1>6, CompletedWaiting
<1>7. CASE ProcessDueExpirations
  <2>1. records' = Without(records, DueEmissions(records, expirationIndex))
    BY <1>7 DEF ProcessDueExpirations, WithoutDue
  <2> QED
    BY <2>1, WithoutWaiting
<1>8. CASE Next
  <2>1. ASSUME NEW flow \in FlowInputs, NEW adjustment \in Adjustments,
               NEW override \in TTLOverrides, Enqueue(flow, adjustment, override)
        PROVE  UNCHANGED records \/ EnqueueStatus(flow, override) = "Accepted"
    BY <2>1 DEF Enqueue, queueVars
  <2>2. ASSUME NEW id \in Identity \cup {0}, NEW refresh \in BOOLEAN,
               NEW newScore \in NewScores, NEW expected \in ExpectedTimes,
               UpdatePendingScheduling(id, now, refresh, newScore, expected)
        PROVE  \/ UNCHANGED records
               \/ UpdateStatus(id, now, refresh, newScore, expected) = "Updated"
    BY <2>2 DEF UpdatePendingScheduling, queueVars
  <2>3. ASSUME NEW id \in Identity, Confirm(id)
        PROVE  \/ UNCHANGED records
               \/ InFlightTargetStatus(id) = "Valid" /\ ~RejectCompletion("Confirm", id)
    BY <2>3 DEF Confirm, RejectCompletion, queueVars
  <2>4. ASSUME NEW id \in Identity, CancelInFlight(id)
        PROVE  UNCHANGED records \/ records' = Completed
    BY <2>4 DEF CancelInFlight, RejectCompletion, queueVars
  <2>5. ASSUME NEW flow \in FlowInputs, NEW new \in SettingsInputs,
               UpdateFlowSettings(flow, new)
        PROVE  UNCHANGED records
    BY <2>5 DEF UpdateFlowSettings, queueVars
  <2>6. ASSUME GetNextWakeTime \/ Tick
        PROVE  UNCHANGED records
    BY <2>6 DEF GetNextWakeTime, Tick, queueVars
  <2> QED
    BY <1>1, <1>2, <1>3, <1>4, <1>5, <1>6, <1>7, <1>8, <2>1, <2>2, <2>3, <2>4, <2>5, <2>6
    DEF Next
<1> QED
  BY <1>1, <1>8 DEF vars, queueVars

\* A stale key never describes a record again, for any number of revisions and
\* identities: there is no way round to an identity and revision already used.
THEOREM KeysStayStale == Spec => StaleKeysStayStale
<1>1. ASSUME IInv, [Next]_vars,
             NEW key \in priorityIndex \cup expirationIndex,
             key.emissionId \in Pending(records'),
             key.revision = records'[key.emissionId].revision
      PROVE  key.emissionId \in Pending(records)
             /\ records'[key.emissionId] = records[key.emissionId]
  <2> DEFINE id == key.emissionId
  <2>1. id # nextIdentity
    <3>1. id \in Int /\ id # 0
      BY <1>1, TypesAssumption DEF IInv, TypeOK, PriorityKey, ExpirationKey, Identity
    <3>2. nextIdentity \in Int
      BY <1>1, TypesAssumption DEF IInv, TypeOK, Identity
    <3> QED
      BY <1>1, <3>1, <3>2 DEF IInv, KeysFromPast
  <2>2. ~(id \in DOMAIN records /\ records'[id].revision = records[id].revision + 1)
    <3>1. key.revision \in Int
      BY <1>1 DEF IInv, TypeOK, PriorityKey, ExpirationKey, Revision
    <3>2. id \in DOMAIN records => records[id].revision \in Int
      BY <1>1 DEF IInv, TypeOK, Record, Revision
    <3>3. id \in DOMAIN records => key.revision <= records[id].revision
      BY <1>1 DEF IInv, KeysFromPast
    <3> QED
      BY <1>1, <3>1, <3>2, <3>3
  <2> QED
    BY <1>1, <2>1, <2>2, WaitingAfterStep
<1>2. ASSUME IInv, [Next]_vars
      PROVE  /\ \A key \in priorityIndex \cap priorityIndex' :
                  IsPriorityEntryCurrent(key, records') => IsPriorityEntryCurrent(key, records)
             /\ \A key \in expirationIndex \cap expirationIndex' :
                  IsExpirationEntryCurrent(key, records') =>
                    IsExpirationEntryCurrent(key, records)
  <2>1. ASSUME NEW key \in priorityIndex, IsPriorityEntryCurrent(key, records')
        PROVE  IsPriorityEntryCurrent(key, records)
    <3>1. /\ key.emissionId \in Pending(records')
          /\ key = PriorityKeyOf(records'[key.emissionId])
          /\ key.revision = records'[key.emissionId].revision
      BY <2>1 DEF IsPriorityEntryCurrent, PriorityKeyOf
    <3> QED
      BY <1>1, <1>2, <3>1 DEF IsPriorityEntryCurrent
  <2>2. ASSUME NEW key \in expirationIndex, IsExpirationEntryCurrent(key, records')
        PROVE  IsExpirationEntryCurrent(key, records)
    <3>1. /\ key.emissionId \in Pending(records')
          /\ key = ExpirationKeyOf(records'[key.emissionId])
          /\ key.revision = records'[key.emissionId].revision
          /\ Finite(key.expiresAt)
      BY <2>2 DEF IsExpirationEntryCurrent, ExpirationKeyOf
    <3> QED
      BY <1>1, <1>2, <3>1 DEF IsExpirationEntryCurrent
  <2> QED
    BY <2>1, <2>2
<1>3. IInv /\ [Next]_vars =>
        [/\ \A key \in priorityIndex \cap priorityIndex' :
              IsPriorityEntryCurrent(key, records)' => IsPriorityEntryCurrent(key, records)
         /\ \A key \in expirationIndex \cap expirationIndex' :
              IsExpirationEntryCurrent(key, records)' => IsExpirationEntryCurrent(key, records)
        ]_vars
  BY <1>2
<1> QED
  BY <1>3, InductiveInvariant, PTL DEF Spec, StaleKeysStayStale
==============================================================================
