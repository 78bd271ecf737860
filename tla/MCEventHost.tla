----------------------------- MODULE MCEventHost -----------------------------
(***************************************************************************)
(* Instances of EventHost for TLC: flow settings and commands.             *)
(***************************************************************************)
EXTENDS EventHost

CONSTANTS gift, ana

\* Chat batches expire and outrank gifts, which wait for ever.
Chatting == [bEnabled |-> TRUE, baseWeight |-> 1, ttl |-> 2,
             expirePolicy |-> "Consolidate", maxSlots |-> 2]
Giving == [bEnabled |-> TRUE, baseWeight |-> 0, ttl |-> 0,
           expirePolicy |-> "Discard", maxSlots |-> 1]
ChatAndGift == [flow \in Flow |-> IF flow = Chat THEN Chatting ELSE Giving]
Closing == {[Giving EXCEPT !.bEnabled = FALSE]}

Hello == [user |-> ana, userBytes |-> 1, adjustment |-> 0, bytes |-> 1, bIsCommand |-> FALSE]
Chatter == {Hello}

Input(flow) ==
  [kind |-> "Input", flow |-> flow, detail |-> IF flow = Chat THEN Hello ELSE None]
Completion(id, succeeded, flow) ==
  [kind |-> "Completion", flow |-> flow, detail |-> [id |-> id, succeeded |-> succeeded]]
Update(flow, new) == [kind |-> "FlowSettingsUpdate", flow |-> flow, detail |-> new]

\* Every kind of command; completions that fit, and that name another flow or nothing.
Everything ==
  {Input(Chat), Input(gift), Completion(1, TRUE, Chat), Completion(1, FALSE, gift),
   Completion(2, TRUE, gift)} \cup {Update(gift, new) : new \in Closing}

\* Gifts, and a completion that is delivered twice.
Redelivered == {Input(gift), Completion(1, TRUE, gift)}

NoOverride == {None}
NoScore == {None}
AnyTime == Time

\* What the next step depends on: not the answers of the last operation.
HostState ==
  <<settings, now, nextIdentity, queueVars, externalVars, mailboxVars, ownerVars, signal>>
==============================================================================
