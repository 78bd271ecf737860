--------------------------- MODULE MCEventPipeline ---------------------------
(***************************************************************************)
(* Instances of EventPipeline for TLC: settings of the flows and inputs.   *)
(***************************************************************************)
EXTENDS EventPipeline

CONSTANTS gift, ana, leo

\* Chat batches expire and outrank gifts, which wait for ever.
Chatting == [bEnabled |-> TRUE, baseWeight |-> 1, ttl |-> 2,
             expirePolicy |-> "Consolidate", maxSlots |-> 2]
Giving == [bEnabled |-> TRUE, baseWeight |-> 0, ttl |-> 0,
           expirePolicy |-> "Discard", maxSlots |-> 1]
ChatAndGift == [flow \in Flow |-> IF flow = Chat THEN Chatting ELSE Giving]

Message(user, bytes) ==
  [user |-> user, userBytes |-> 1, adjustment |-> 0, bytes |-> bytes, bIsCommand |-> FALSE]
Command(user, bytes) == [Message(user, bytes) EXCEPT !.bIsCommand = TRUE]

Chatter == {Message(ana, 1), Message(leo, 1)}
\* One that is no command, one too long, one without a user, and two that pass.
Oddities == {Message(ana, 1), Command(leo, 3), Command(None, 1), Command(ana, 1), Command(leo, 1)}
Closing == {[Chatting EXCEPT !.bEnabled = FALSE]}

NoOverride == {None}
NoScore == {None}
AnyTime == Time

\* What the next operation depends on: not the answers of the last one.
CoordinatorState == <<settings, now, nextIdentity, queueVars, externalVars>>
==============================================================================
