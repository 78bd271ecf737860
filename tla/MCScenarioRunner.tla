-------------------------- MODULE MCScenarioRunner --------------------------
(***************************************************************************)
(* Instances of ScenarioRunner for TLC: chat settings, users and commands. *)
(***************************************************************************)
EXTENDS ScenarioRunner

CONSTANTS ana, leo

Chatting == [bEnabled |-> TRUE, baseWeight |-> 0, ttl |-> 3,
             expirePolicy |-> "Consolidate", maxSlots |-> 3]
ChatSettings == [flow \in Flow |-> Chatting]

Message(user, adjustment) ==
  [user |-> user, userBytes |-> 1, adjustment |-> adjustment, bytes |-> 1,
   bIsCommand |-> FALSE]
Chatter == {Message(ana, 0), Message(leo, 1)}

Everything ==
  [kind : {"Input"}, flow : {Chat}, detail : ChatInputs]
    \cup [kind : {"Completion"}, flow : {Chat},
          detail : [id : Identity, succeeded : {TRUE}]]

NoOverride == {None}
NoScore == {None}
AnyTime == Time
==============================================================================
