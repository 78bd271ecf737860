-------------------------- MODULE UserPriorityProofs --------------------------
(***************************************************************************)
(* The total of UserPriority is the exact sum, cut off once, for every     *)
(* width of the arithmetic, every profile and all settings, and it never   *)
(* falls when the user gains.                                              *)
(***************************************************************************)
EXTENDS UserPriority, TLAPS

(* Products *)

\* A larger factor gives a product at least as large.
LEMMA ProductGrows ==
  ASSUME NEW a \in Nat, NEW b \in Nat, NEW p \in Nat, a <= b
  PROVE  a * p <= b * p /\ a * p \in Nat /\ b * p \in Nat
<1>1. PICK d \in Nat : b = a + d
  BY b - a \in Nat, b = a + (b - a)
<1>2. b * p = a * p + d * p
  BY <1>1
<1>3. a * p \in Nat /\ d * p \in Nat
  BY <1>1
<1> QED BY <1>2, <1>3

\* The test of SaturatingMultiplyNonNegative is exact.
LEMMA QuotientTest ==
  ASSUME NEW m \in Nat, NEW left \in Nat, NEW right \in Nat, right # 0
  PROVE  left > m \div right <=> left * right > m
<1> DEFINE q == m \div right
<1>1. q \in Nat /\ q * right <= m /\ m < (q + 1) * right
  BY Z3
<1>2. CASE left > q
  <2>1. (q + 1) * right <= left * right
    BY <1>1, <1>2, ProductGrows
  <2> QED BY <1>1, <1>2, <2>1
<1>3. CASE left <= q
  <2>1. left * right <= q * right
    BY <1>1, <1>3, ProductGrows
  <2> QED BY <1>1, <1>3, <2>1
<1> QED BY <1>1, <1>2, <1>3

\* A product is cut off once.
LEMMA MultiplyClamps ==
  ASSUME NEW left \in Nat, NEW right \in Nat
  PROVE  /\ left * right \in Nat
         /\ SaturatingMultiplyNonNegative(left, right) =
              Least(MaxPriorityAdjustment, left * right)
<1>1. left * right \in Nat /\ MaxPriorityAdjustment \in Nat
  BY ProductGrows, PriorityAssumption
<1>2. CASE left = 0 \/ right = 0
  <2>1. left * right = 0
    BY <1>2
  <2> QED BY <1>1, <1>2, <2>1 DEF SaturatingMultiplyNonNegative, Least
<1>3. CASE left # 0 /\ right # 0
  <2>1. left > MaxPriorityAdjustment \div right <=> left * right > MaxPriorityAdjustment
    BY <1>1, <1>3, QuotientTest
  <2> QED BY <1>1, <1>3, <2>1 DEF SaturatingMultiplyNonNegative, Least
<1> QED BY <1>2, <1>3

\* A sum of what was cut off before is the sum, cut off once.
LEMMA AddClamps ==
  ASSUME NEW a \in Nat, NEW b \in Nat
  PROVE  SaturatingAddNonNegative(Least(MaxPriorityAdjustment, a),
                                  Least(MaxPriorityAdjustment, b))
           = Least(MaxPriorityAdjustment, a + b)
BY PriorityAssumption DEF SaturatingAddNonNegative, Least

\* The same for a term that was not cut off, as the bonuses are.
LEMMA AddWholeClamps ==
  ASSUME NEW a \in Nat, NEW b \in Nat
  PROVE  SaturatingAddNonNegative(Least(MaxPriorityAdjustment, a), b)
           = Least(MaxPriorityAdjustment, a + b)
BY PriorityAssumption DEF SaturatingAddNonNegative, Least
------------------------------------------------------------------------------
(* Contributions *)

\* A level is worth the exact product, cut off once.
LEMMA LevelWorth ==
  ASSUME NEW who \in UserSnapshot, NEW chosen \in PrioritySettings, NEW level \in Level,
         AreSettingsValid(chosen)
  PROVE  /\ Worth(who, chosen, level) \in Nat
         /\ LevelContribution(who, chosen, level) =
              Least(MaxPriorityAdjustment, Worth(who, chosen, level))
<1> DEFINE has == who.level[level]
           limit == chosen.maxLevel[level]
           counted == IF has < 0 THEN 0 ELSE Least(has, limit)
           points == chosen.pointsPerLevel[level]
<1>1. has \in Int /\ limit \in Nat /\ points \in Nat
  BY DEF UserSnapshot, PrioritySettings, AreSettingsValid
<1>2. counted \in Nat /\ ClampToNonNegativeRange(has, limit) = counted
  BY <1>1 DEF ClampToNonNegativeRange, Least
<1>3. SaturatingMultiplyNonNegative(counted, points) =
        Least(MaxPriorityAdjustment, counted * points) /\ counted * points \in Nat
  BY <1>1, <1>2, MultiplyClamps
<1> QED BY <1>2, <1>3 DEF LevelContribution, Worth

\* The positions between a rank and the last one rewarded.
RankWorth(who, chosen) ==
  (IF who.topGifterRank < 1 \/ who.topGifterRank > chosen.maxRewardedRank THEN 0
   ELSE chosen.maxRewardedRank + 1 - who.topGifterRank) * chosen.pointsPerPosition

\* A rank is worth the exact product, cut off once.
LEMMA RankIsWorth ==
  ASSUME NEW who \in UserSnapshot, NEW chosen \in PrioritySettings, AreSettingsValid(chosen)
  PROVE  /\ RankWorth(who, chosen) \in Nat
         /\ RankContribution(who, chosen) =
              Least(MaxPriorityAdjustment, RankWorth(who, chosen))
<1> DEFINE rank == who.topGifterRank
           last == chosen.maxRewardedRank
           positions == IF rank < 1 \/ rank > last THEN 0 ELSE last + 1 - rank
           points == chosen.pointsPerPosition
<1>1. rank \in Int /\ last \in Nat /\ points \in Nat
  BY DEF UserSnapshot, PrioritySettings, AreSettingsValid
<1>2. positions \in Nat /\ RewardedPositions(rank, last) = positions
  BY <1>1 DEF RewardedPositions
<1>3. SaturatingMultiplyNonNegative(positions, points) =
        Least(MaxPriorityAdjustment, positions * points) /\ positions * points \in Nat
  BY <1>1, <1>2, MultiplyClamps
<1> QED BY <1>2, <1>3 DEF RankContribution, RankWorth

\* A mark is worth its bonus.
LEMMA MarkWorth ==
  ASSUME NEW who \in UserSnapshot, NEW chosen \in PrioritySettings, NEW mark \in Mark,
         AreSettingsValid(chosen)
  PROVE  MarkContribution(who, chosen, mark) \in Nat
BY DEF PrioritySettings, AreSettingsValid, MarkContribution

\* Seven terms added up in the order of the code.
AddUp(role, moderator, subscriber, newGifter, rank, gifter, team) ==
  LET b == SaturatingAddNonNegative(role, moderator)
      c == SaturatingAddNonNegative(b, subscriber)
      d == SaturatingAddNonNegative(c, newGifter)
      e == SaturatingAddNonNegative(d, rank)
      f == SaturatingAddNonNegative(e, gifter)
  IN  SaturatingAddNonNegative(f, team)

\* The total of FTSCommonUserPriorityPolicy::Evaluate is the exact sum, cut off once.
THEOREM TotalClamps ==
  ASSUME NEW who \in UserSnapshot, NEW chosen \in PrioritySettings, AreSettingsValid(chosen)
  PROVE  /\ ExactSum(who, chosen) \in Nat
         /\ TotalAdjustment(who, chosen) =
              Least(MaxPriorityAdjustment, ExactSum(who, chosen))
<1>1. \A level \in Level :
        /\ Worth(who, chosen, level) \in Nat
        /\ LevelContribution(who, chosen, level) =
             Least(MaxPriorityAdjustment, Worth(who, chosen, level))
  BY LevelWorth
<1>2. \A mark \in Mark : MarkContribution(who, chosen, mark) \in Nat
  BY MarkWorth
<1>3. /\ RankWorth(who, chosen) \in Nat
      /\ RankContribution(who, chosen) =
           Least(MaxPriorityAdjustment, RankWorth(who, chosen))
  BY RankIsWorth
<1>4. {"FollowRole", "GifterLevel", "TeamMemberLevel"} \subseteq Level
      /\ {"Moderator", "Subscriber", "NewGifter"} \subseteq Mark
  BY DEF Level, Mark
<1>5. ExactSum(who, chosen) =
        Worth(who, chosen, "FollowRole") + Worth(who, chosen, "GifterLevel")
          + Worth(who, chosen, "TeamMemberLevel")
          + MarkContribution(who, chosen, "Moderator")
          + MarkContribution(who, chosen, "Subscriber")
          + MarkContribution(who, chosen, "NewGifter") + RankWorth(who, chosen)
  BY DEF ExactSum, RankWorth
<1>6. ExactSum(who, chosen) \in Nat
  BY <1>1, <1>2, <1>3, <1>4, <1>5
<1>7. TotalAdjustment(who, chosen) = Least(MaxPriorityAdjustment, ExactSum(who, chosen))
  <2> DEFINE Cut(n) == Least(MaxPriorityAdjustment, n)
  <2>1. TotalAdjustment(who, chosen) =
          AddUp(LevelContribution(who, chosen, "FollowRole"),
                MarkContribution(who, chosen, "Moderator"),
                MarkContribution(who, chosen, "Subscriber"),
                MarkContribution(who, chosen, "NewGifter"),
                RankContribution(who, chosen),
                LevelContribution(who, chosen, "GifterLevel"),
                LevelContribution(who, chosen, "TeamMemberLevel"))
    BY DEF TotalAdjustment, AddUp
  <2>2. TotalAdjustment(who, chosen) =
          AddUp(Cut(Worth(who, chosen, "FollowRole")),
                MarkContribution(who, chosen, "Moderator"),
                MarkContribution(who, chosen, "Subscriber"),
                MarkContribution(who, chosen, "NewGifter"),
                Cut(RankWorth(who, chosen)),
                Cut(Worth(who, chosen, "GifterLevel")),
                Cut(Worth(who, chosen, "TeamMemberLevel")))
    BY <2>1, <1>1, <1>3, <1>4
  <2>3. PICK role, moderator, subscriber, newGifter, rank, gifter, team \in Nat :
          /\ role = Worth(who, chosen, "FollowRole")
          /\ moderator = MarkContribution(who, chosen, "Moderator")
          /\ subscriber = MarkContribution(who, chosen, "Subscriber")
          /\ newGifter = MarkContribution(who, chosen, "NewGifter")
          /\ rank = RankWorth(who, chosen)
          /\ gifter = Worth(who, chosen, "GifterLevel")
          /\ team = Worth(who, chosen, "TeamMemberLevel")
    BY <1>1, <1>2, <1>3, <1>4, Zenon
  <2>4. TotalAdjustment(who, chosen) =
          AddUp(Cut(role), moderator, subscriber, newGifter, Cut(rank), Cut(gifter), Cut(team))
    BY <2>2, <2>3, Zenon
  <2>5. TotalAdjustment(who, chosen) =
          Cut(role + gifter + team + moderator + subscriber + newGifter + rank)
    <3>1. SaturatingAddNonNegative(Cut(role), moderator) = Cut(role + moderator)
      BY AddWholeClamps
    <3>2. SaturatingAddNonNegative(Cut(role + moderator), subscriber) =
            Cut((role + moderator) + subscriber)
      BY AddWholeClamps, role + moderator \in Nat
    <3>3. SaturatingAddNonNegative(Cut((role + moderator) + subscriber), newGifter) =
            Cut((role + moderator + subscriber) + newGifter)
      BY AddWholeClamps, (role + moderator) + subscriber \in Nat
    <3>4. SaturatingAddNonNegative(Cut((role + moderator + subscriber) + newGifter), Cut(rank)) =
            Cut((role + moderator + subscriber + newGifter) + rank)
      BY AddClamps, (role + moderator + subscriber) + newGifter \in Nat
    <3>5. SaturatingAddNonNegative(Cut((role + moderator + subscriber + newGifter) + rank),
                                   Cut(gifter)) =
            Cut((role + moderator + subscriber + newGifter + rank) + gifter)
      BY AddClamps, (role + moderator + subscriber + newGifter) + rank \in Nat
    <3>6. SaturatingAddNonNegative(Cut((role + moderator + subscriber + newGifter + rank) + gifter),
                                   Cut(team)) =
            Cut((role + moderator + subscriber + newGifter + rank + gifter) + team)
      BY AddClamps, (role + moderator + subscriber + newGifter + rank) + gifter \in Nat
    <3>7. (role + moderator + subscriber + newGifter + rank + gifter) + team =
            role + gifter + team + moderator + subscriber + newGifter + rank
      OBVIOUS
    <3> HIDE DEF Cut
    <3> QED BY <2>4, <3>1, <3>2, <3>3, <3>4, <3>5, <3>6, <3>7 DEF AddUp
  <2> QED BY <2>3, <2>5, <1>5, Zenon
<1> QED BY <1>6, <1>7
------------------------------------------------------------------------------
(* The specification *)

\* What is kept is always the evaluation of what is kept.
THEOREM KeepsEvaluation == PrioritySpec => []IsEvaluation
<1>1. PriorityInit => IsEvaluation
  BY DEF PriorityInit, IsEvaluation
<1>2. IsEvaluation /\ [PriorityNext]_priorityVars => IsEvaluation'
  BY DEF PriorityNext, Evaluate, IsEvaluation, priorityVars
<1> QED BY <1>1, <1>2, PTL DEF PrioritySpec

\* No evaluation of the policy differs from the exact sum, cut off once, for every width
\* of the arithmetic: no product and no sum on the way overflows.
THEOREM TotalIsAlwaysClampedSum == PrioritySpec => []TotalIsClampedSum
<1>1. IsEvaluation => TotalIsClampedSum
  <2> SUFFICES ASSUME IsEvaluation, totalAdjustment # -1
               PROVE  totalAdjustment = Least(MaxPriorityAdjustment, ExactSum(user, settings))
    BY DEF TotalIsClampedSum
  <2>1. AreSettingsValid(settings) /\ totalAdjustment = TotalAdjustment(user, settings)
    BY DEF IsEvaluation, Evaluation
  <2>2. user \in UserSnapshot /\ settings \in PrioritySettings
    BY PriorityAssumption DEF IsEvaluation
  <2> QED BY <2>1, <2>2, TotalClamps
<1> QED BY <1>1, KeepsEvaluation, PTL

\* A level that is not lower is not worth less.
LEMMA LevelGrows ==
  ASSUME NEW one \in UserSnapshot, NEW other \in UserSnapshot,
         NEW chosen \in PrioritySettings, NEW level \in Level,
         AreSettingsValid(chosen), one.level[level] >= other.level[level]
  PROVE  Worth(one, chosen, level) >= Worth(other, chosen, level)
<1> DEFINE limit == chosen.maxLevel[level]
           Counted(has) == IF has < 0 THEN 0 ELSE Least(has, limit)
           points == chosen.pointsPerLevel[level]
<1>1. /\ one.level[level] \in Int /\ other.level[level] \in Int
      /\ limit \in Nat /\ points \in Nat
  BY DEF UserSnapshot, PrioritySettings, AreSettingsValid
<1>2. /\ Counted(other.level[level]) \in Nat /\ Counted(one.level[level]) \in Nat
      /\ Counted(other.level[level]) <= Counted(one.level[level])
  BY <1>1 DEF Least
<1>3. Counted(other.level[level]) * points <= Counted(one.level[level]) * points
  BY <1>1, <1>2, ProductGrows
<1>4. /\ Counted(other.level[level]) * points \in Nat
      /\ Counted(one.level[level]) * points \in Nat
  BY <1>1, <1>2, ProductGrows
<1> QED BY <1>3, <1>4 DEF Worth

\* A better rank is not worth less.
LEMMA RankGrows ==
  ASSUME NEW one \in UserSnapshot, NEW other \in UserSnapshot,
         NEW chosen \in PrioritySettings, AreSettingsValid(chosen),
         other.topGifterRank >= 1 => one.topGifterRank \in 1..other.topGifterRank
  PROVE  RankWorth(one, chosen) >= RankWorth(other, chosen)
<1> DEFINE last == chosen.maxRewardedRank
           Positions(rank) == IF rank < 1 \/ rank > last THEN 0 ELSE last + 1 - rank
           points == chosen.pointsPerPosition
<1>1. /\ one.topGifterRank \in Int /\ other.topGifterRank \in Int
      /\ last \in Nat /\ points \in Nat
  BY DEF UserSnapshot, PrioritySettings, AreSettingsValid
<1>2. /\ Positions(one.topGifterRank) \in Nat /\ Positions(other.topGifterRank) \in Nat
      /\ Positions(other.topGifterRank) <= Positions(one.topGifterRank)
  BY <1>1
<1>3. /\ Positions(other.topGifterRank) * points <= Positions(one.topGifterRank) * points
      /\ Positions(other.topGifterRank) * points \in Nat
      /\ Positions(one.topGifterRank) * points \in Nat
  BY <1>1, <1>2, ProductGrows
<1> QED BY <1>3 DEF RankWorth

\* The exact sum does not fall when the user gains.
LEMMA SumGrows ==
  ASSUME NEW one \in UserSnapshot, NEW other \in UserSnapshot,
         NEW chosen \in PrioritySettings, AreSettingsValid(chosen), IsAtLeast(one, other)
  PROVE  ExactSum(one, chosen) >= ExactSum(other, chosen)
<1>1. \A level \in Level : Worth(one, chosen, level) >= Worth(other, chosen, level)
                             /\ Worth(one, chosen, level) \in Nat
                             /\ Worth(other, chosen, level) \in Nat
  BY LevelGrows, LevelWorth DEF IsAtLeast
<1>2. \A mark \in Mark : MarkContribution(one, chosen, mark) \in Nat
                           /\ MarkContribution(other, chosen, mark) \in Nat
  BY MarkWorth
<1>3. \A mark \in Mark :
        MarkContribution(one, chosen, mark) >= MarkContribution(other, chosen, mark)
  BY <1>2 DEF IsAtLeast, MarkContribution
<1>4. RankWorth(one, chosen) >= RankWorth(other, chosen)
        /\ RankWorth(one, chosen) \in Nat /\ RankWorth(other, chosen) \in Nat
  BY RankGrows, RankIsWorth DEF IsAtLeast
<1>5. {"FollowRole", "GifterLevel", "TeamMemberLevel"} \subseteq Level
      /\ {"Moderator", "Subscriber", "NewGifter"} \subseteq Mark
  BY DEF Level, Mark
<1>6. \A who \in UserSnapshot : ExactSum(who, chosen) =
        Worth(who, chosen, "FollowRole") + Worth(who, chosen, "GifterLevel")
          + Worth(who, chosen, "TeamMemberLevel")
          + MarkContribution(who, chosen, "Moderator")
          + MarkContribution(who, chosen, "Subscriber")
          + MarkContribution(who, chosen, "NewGifter") + RankWorth(who, chosen)
  BY DEF ExactSum, RankWorth
<1> QED BY <1>1, <1>2, <1>3, <1>4, <1>5, <1>6

\* A user who gains never loses priority, for every width of the arithmetic.
THEOREM GainNeverLoses == PrioritySpec => GainNeverCosts
<1>1. /\ IsEvaluation /\ IsEvaluation' /\ settings' = settings
      /\ totalAdjustment # -1 /\ IsAtLeast(user', user)
      => totalAdjustment' >= totalAdjustment
  <2> SUFFICES ASSUME IsEvaluation, IsEvaluation', settings' = settings,
                      totalAdjustment # -1, IsAtLeast(user', user)
               PROVE  totalAdjustment' >= totalAdjustment
    OBVIOUS
  <2>1. /\ AreSettingsValid(settings)
        /\ totalAdjustment = TotalAdjustment(user, settings)
        /\ totalAdjustment' = TotalAdjustment(user', settings)
    BY DEF IsEvaluation, Evaluation
  <2>2. user \in UserSnapshot /\ user' \in UserSnapshot /\ settings \in PrioritySettings
    BY PriorityAssumption DEF IsEvaluation
  <2>3. /\ ExactSum(user, settings) \in Nat /\ ExactSum(user', settings) \in Nat
        /\ totalAdjustment = Least(MaxPriorityAdjustment, ExactSum(user, settings))
        /\ totalAdjustment' = Least(MaxPriorityAdjustment, ExactSum(user', settings))
    BY <2>1, <2>2, TotalClamps
  <2>4. ExactSum(user', settings) >= ExactSum(user, settings)
    BY <2>1, <2>2, SumGrows
  <2> QED BY <2>3, <2>4, PriorityAssumption DEF Least
<1>2. IsEvaluation /\ IsEvaluation' =>
        [(settings' = settings /\ totalAdjustment # -1 /\ IsAtLeast(user', user)) =>
           totalAdjustment' >= totalAdjustment]_priorityVars
  BY <1>1
<1> QED BY <1>2, KeepsEvaluation, PTL DEF GainNeverCosts
==============================================================================
