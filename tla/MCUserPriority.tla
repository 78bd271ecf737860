---------------------------- MODULE MCUserPriority ----------------------------
(***************************************************************************)
(* Instances of UserPriority for TLC: profiles and settings.               *)
(***************************************************************************)
EXTENDS UserPriority

\* Levels below, at and beyond their limits; ranks that are none, rewarded and not.
SomeProfiles ==
  [level : {[level \in Level |-> IF level = "FollowRole" THEN role ELSE other] :
              role \in {-1, 0, 1, 3}, other \in {0, 2, 7}},
   marks : {{}, {"Moderator"}, {"Moderator", "NewGifter"}, Mark},
   topGifterRank : {0, 1, 2, 3, 4}]

Settings(points, limit, bonus, rank) ==
  [pointsPerLevel |-> [level \in Level |-> points], maxLevel |-> [level \in Level |-> limit],
   bonus |-> [mark \in Mark |-> bonus], pointsPerPosition |-> points, maxRewardedRank |-> rank]

\* Small ones, ones that saturate a product or a sum, no levels at all, and invalid ones.
SomeSettings ==
  {Settings(1, 2, 1, 3), Settings(3, 3, 2, 3), Settings(7, 7, 0, 2), Settings(0, 2, 7, 0),
   Settings(2, 0, 3, 3), Settings(1, 2, -1, 3)}
==============================================================================
