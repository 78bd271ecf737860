----------------------------- MODULE UserPriority -----------------------------
(***************************************************************************)
(* FTSCommonUserPriorityPolicy: what the attributes of a user are worth.   *)
(* The chat family evaluates it for every message, and the core adds the   *)
(* total to the weight of the flow, so an overflow here would turn the     *)
(* order of the queue upside down.                                         *)
(***************************************************************************)
EXTENDS Integers

CONSTANTS MaxPriorityAdjustment,  \* 2^63 - 1 in the program
          Profiles,               \* the users that are evaluated
          SettingsInUse           \* the settings they are evaluated with

\* Attributes that have a level, and attributes a user has or has not.
Level == {"FollowRole", "GifterLevel", "TeamMemberLevel"}
Mark == {"Moderator", "Subscriber", "NewGifter"}

UserSnapshot == [level : [Level -> Int], marks : SUBSET Mark, topGifterRank : Int]
PrioritySettings ==
  [pointsPerLevel : [Level -> Int], maxLevel : [Level -> Int], bonus : [Mark -> Int],
   pointsPerPosition : Int, maxRewardedRank : Int]

ASSUME PriorityAssumption ==
  /\ MaxPriorityAdjustment \in Nat
  /\ Profiles \subseteq UserSnapshot
  /\ SettingsInUse \subseteq PrioritySettings

VARIABLES user, settings, totalAdjustment  \* the last evaluation; the total is -1 if it threw

priorityVars == <<user, settings, totalAdjustment>>
------------------------------------------------------------------------------
ClampToNonNegativeRange(value, maximum) ==
  IF value <= 0 \/ maximum = 0 THEN 0 ELSE IF value < maximum THEN value ELSE maximum

\* Mutation: the product is not looked at before it is made.
WrappingMultiply(left, right) == (left * right) % (MaxPriorityAdjustment + 1)

SaturatingMultiplyNonNegative(left, right) ==
  IF left = 0 \/ right = 0 THEN 0
  ELSE IF left > MaxPriorityAdjustment \div right THEN MaxPriorityAdjustment
  ELSE left * right

SaturatingAddNonNegative(left, right) ==
  IF left > MaxPriorityAdjustment - right THEN MaxPriorityAdjustment ELSE left + right

AreSettingsValid(chosen) ==
  /\ \A level \in Level : chosen.pointsPerLevel[level] >= 0 /\ chosen.maxLevel[level] >= 0
  /\ \A mark \in Mark : chosen.bonus[mark] >= 0
  /\ chosen.pointsPerPosition >= 0 /\ chosen.maxRewardedRank >= 0

\* Mutation: the rank itself is rewarded.
RankAsPositions(rank, maximum) == IF rank >= 1 /\ rank <= maximum THEN rank ELSE 0

\* The best rank is 1; the last rewarded rank counts for one position.
RewardedPositions(rank, maximum) ==
  IF rank >= 1 /\ rank <= maximum THEN maximum - rank + 1 ELSE 0

LevelContribution(who, chosen, level) ==
  SaturatingMultiplyNonNegative(
    ClampToNonNegativeRange(who.level[level], chosen.maxLevel[level]),
    chosen.pointsPerLevel[level])

MarkContribution(who, chosen, mark) == IF mark \in who.marks THEN chosen.bonus[mark] ELSE 0

RankContribution(who, chosen) ==
  SaturatingMultiplyNonNegative(
    RewardedPositions(who.topGifterRank, chosen.maxRewardedRank), chosen.pointsPerPosition)

\* The contributions are added up in this order.
TotalAdjustment(who, chosen) ==
  LET a == LevelContribution(who, chosen, "FollowRole")
      b == SaturatingAddNonNegative(a, MarkContribution(who, chosen, "Moderator"))
      c == SaturatingAddNonNegative(b, MarkContribution(who, chosen, "Subscriber"))
      d == SaturatingAddNonNegative(c, MarkContribution(who, chosen, "NewGifter"))
      e == SaturatingAddNonNegative(d, RankContribution(who, chosen))
      f == SaturatingAddNonNegative(e, LevelContribution(who, chosen, "GifterLevel"))
  IN  SaturatingAddNonNegative(f, LevelContribution(who, chosen, "TeamMemberLevel"))

\* Negative settings make it throw.
Evaluation(who, chosen) == IF AreSettingsValid(chosen) THEN TotalAdjustment(who, chosen) ELSE -1

Evaluate(who, chosen) ==
  /\ user' = who
  /\ settings' = chosen
  /\ totalAdjustment' = Evaluation(who, chosen)

PriorityInit ==
  /\ user \in Profiles
  /\ settings \in SettingsInUse
  /\ totalAdjustment = Evaluation(user, settings)

PriorityNext == \E who \in Profiles, chosen \in SettingsInUse : Evaluate(who, chosen)

PrioritySpec == PriorityInit /\ [][PriorityNext]_priorityVars
------------------------------------------------------------------------------
(* Properties *)

\* The exact sum of what the attributes are worth, in unbounded arithmetic: the levels
\* up to their limits, the marks, and the positions between the rank and the last one
\* that is rewarded.
Least(a, b) == IF a < b THEN a ELSE b
Worth(who, chosen, level) ==
  (IF who.level[level] < 0 THEN 0 ELSE Least(who.level[level], chosen.maxLevel[level]))
    * chosen.pointsPerLevel[level]
ExactSum(who, chosen) ==
  Worth(who, chosen, "FollowRole") + Worth(who, chosen, "GifterLevel")
    + Worth(who, chosen, "TeamMemberLevel")
    + MarkContribution(who, chosen, "Moderator")
    + MarkContribution(who, chosen, "Subscriber")
    + MarkContribution(who, chosen, "NewGifter")
    + (IF who.topGifterRank < 1 \/ who.topGifterRank > chosen.maxRewardedRank THEN 0
       ELSE chosen.maxRewardedRank + 1 - who.topGifterRank) * chosen.pointsPerPosition

\* What is kept is the evaluation of the user and the settings that are kept.
IsEvaluation ==
  /\ user \in Profiles
  /\ settings \in SettingsInUse
  /\ totalAdjustment = Evaluation(user, settings)

\* However the intermediate products and sums saturate, the total is the exact sum, cut
\* off once at the largest adjustment.
TotalIsClampedSum ==
  totalAdjustment # -1 =>
    totalAdjustment = Least(MaxPriorityAdjustment, ExactSum(user, settings))

\* One user is at least another: no attribute of his is worth less.
IsAtLeast(one, other) ==
  /\ \A level \in Level : one.level[level] >= other.level[level]
  /\ other.marks \subseteq one.marks
  /\ other.topGifterRank >= 1 => one.topGifterRank \in 1..other.topGifterRank

\* A user who gains in attributes never loses priority: a message of his does not wait
\* behind the one he would have sent before.
GainNeverCosts ==
  [][(settings' = settings /\ totalAdjustment # -1 /\ IsAtLeast(user', user)) =>
        totalAdjustment' >= totalAdjustment]_priorityVars
==============================================================================
