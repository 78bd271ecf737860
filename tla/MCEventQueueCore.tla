-------------------------- MODULE MCEventQueueCore --------------------------
(***************************************************************************)
(* Instances of EventQueueCore for TLC: settings of the flows and inputs.  *)
(***************************************************************************)
EXTENDS EventQueueCore

CONSTANTS chat, gift

\* One flow whose emissions expire and are discarded, one with room for a single
\* emission that is consolidated; the weights let scores saturate and tie.
Quick == [bEnabled |-> TRUE, baseWeight |-> 1, ttl |-> 2,
          expirePolicy |-> "Discard", maxSlots |-> 2]
Lasting == [bEnabled |-> TRUE, baseWeight |-> 0, ttl |-> 0,
            expirePolicy |-> "Consolidate", maxSlots |-> 1]
Closed == [Quick EXCEPT !.bEnabled = FALSE]
Negative == [Quick EXCEPT !.ttl = -1]
Unknown == [Quick EXCEPT !.expirePolicy = None]

OneFlow == [f \in Flow |-> Quick]
TwoFlows == [f \in Flow |-> IF f = chat THEN Quick ELSE Lasting]
AllFlows == Flow \cup {None}
ValidInputs == {Quick, [Lasting EXCEPT !.maxSlots = 3]}
OddInputs == {Closed, Negative, Unknown}

LowestScore == -1
NoOverride == {None}
Overrides == {None, 1}
AllOverrides == {None, 0, -1, 1}
NewWeights == {None, 0, 1}
Lowered == {None, 0}
AllScores == {None, 0, -1}
NoExpectation == {None}
Expectations == {None, 2}
==============================================================================
