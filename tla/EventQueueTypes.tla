--------------------------- MODULE EventQueueTypes ---------------------------
(***************************************************************************)
(* Values of the event queue (Core/Public/EventQueueSystem): emissions,    *)
(* flow settings, the saturated arithmetic that produces priority scores   *)
(* and expiration times, and the two orders of the queue.                  *)
(*                                                                         *)
(* EmissionId and Sequence are allocated together and advance together     *)
(* (TryAllocateEmissionIdentity), so one number, the identity, stands for  *)
(* both.  CreatedAt and bProtectedFromEviction are written and never read  *)
(* by the queue; they are left out.                                        *)
(***************************************************************************)
EXTENDS Integers, FiniteSets

CONSTANTS Flow,         \* the event flows the program knows (ETSEventFlow)
          None,         \* an absent optional, and a value outside an enum
          MaxTime,      \* time_point::max(), which means "never expires"
          MaxIdentity,  \* the last identity, 2^64 - 1 in the program
          MaxRevision,  \* the last record revision, 2^64 - 1 in the program
          MinScore,     \* int64 minimum
          MaxScore      \* int64 maximum

ExpirePolicy == {"Discard", "Consolidate"}

ASSUME TypesAssumption ==
  /\ MaxTime \in Nat \ {0}
  /\ MaxIdentity \in Nat \ {0}
  /\ MaxRevision \in Nat \ {0}
  /\ MinScore \in Int
  /\ MaxScore \in Int
  /\ MinScore <= 0 /\ 0 <= MaxScore
  /\ None \notin Flow
  /\ None \notin Int
  /\ None \notin ExpirePolicy

Time == 0..MaxTime
Score == MinScore..MaxScore
Identity == 1..MaxIdentity
Revision == 1..MaxRevision

Envelope == [emissionId : Identity, flow : Flow,
             expiresAt : Time, priorityScore : Score]

\* What UpdateFlowSettings may be given.  A policy outside the enum is None.
FlowSettings == [bEnabled : BOOLEAN, baseWeight : Score, ttl : Int,
                 expirePolicy : ExpirePolicy \cup {None}, maxSlots : Nat]

\* What the queue may hold.  UpdateFlowSettings rejects a negative TTL and a policy
\* outside the enum; the constructor rejects nothing, and admissions reject the TTL.
\* That the constructor is given members of the enum is assumed.
ValidFlowSettings == {s \in FlowSettings : s.expirePolicy \in ExpirePolicy}

TerminalReason == {"Confirmed", "Cancelled",
                   "ExpiredDiscard", "ExpiredConsolidate"}
Terminal == [envelope : Envelope, reason : TerminalReason]
PumpStatus == {"NotRequested", "EmissionReady", "QueueEmpty", "Busy"}
------------------------------------------------------------------------------
\* A map extended or overwritten at i, and a map without the keys in S.
With(f, i, v) == [j \in DOMAIN f \cup {i} |-> IF j = i THEN v ELSE f[j]]
Without(f, S) == [j \in DOMAIN f \ S |-> f[j]]

\* Mutation: the sum is not saturated.
UnsaturatedPriorityScore(baseWeight, adjustment) == baseWeight + adjustment

\* A signed 64-bit sum that saturates instead of overflowing.
CalculatePriorityScore(baseWeight, adjustment) ==
  LET sum == baseWeight + adjustment
  IN  IF sum > MaxScore THEN MaxScore ELSE IF sum < MinScore THEN MinScore ELSE sum

\* Mutation: only a zero TTL never expires.
UnsaturatedExpiresAt(at, ttl) == IF ttl = 0 THEN MaxTime ELSE at + ttl

\* A zero TTL never expires, and neither does a sum the clock cannot hold.
\* A sum that is exactly the last instant is the sentinel as well.
CalculateExpiresAt(at, ttl) ==
  IF ttl = 0 \/ ttl > MaxTime - at THEN MaxTime ELSE at + ttl

Finite(t) == t # MaxTime
Due(envelope, at) == Finite(envelope.expiresAt) /\ envelope.expiresAt <= at

ResolveExpirationTerminalReason(policy) ==
  IF policy = "Discard" THEN "ExpiredDiscard" ELSE "ExpiredConsolidate"

\* Max-heap by score, ties first in first out (FPriorityIndexCompare).
PriorityAhead(a, b) ==
  \/ a.priorityScore > b.priorityScore
  \/ a.priorityScore = b.priorityScore /\ a.emissionId < b.emissionId

\* Min-heap by expiration, ties first in first out (FExpirationIndexCompare).
ExpirationAhead(a, b) ==
  \/ a.expiresAt < b.expiresAt
  \/ a.expiresAt = b.expiresAt /\ a.emissionId < b.emissionId

\* The sequences that list every member of S once, each before those behind it.
InExpirationOrder(S) ==
  {q \in [1..Cardinality(S) -> S] :
     /\ \A x \in S : \E i \in DOMAIN q : q[i] = x
     /\ \A i, j \in DOMAIN q : i < j => ExpirationAhead(q[i], q[j])}
==============================================================================
