---------------------------- MODULE EventService ----------------------------
(***************************************************************************)
(* What the host promises to the threads that post: one line of commands   *)
(* for all of them, served one at a time and in order.  A command leaves   *)
(* the line when it takes effect or is refused for good, and then it has   *)
(* exactly the effect EventDelivery knows for it; a failure in between     *)
(* leaves the line and the deliveries as they were.                        *)
(***************************************************************************)
EXTENDS EventDelivery

CONSTANT Command  \* what can be posted

VARIABLE waiting  \* the commands not yet served, in the order they were posted

Post ==
  /\ \E command \in Command : waiting' = Append(waiting, command)
  /\ UNCHANGED vars

\* What an input brings is what the event delivers: a new one, or the last message.
Carries(payload, input) ==
  input # None =>
    /\ payload.user = input.user
    /\ payload.messages[Len(payload.messages)] = input.bytes

ServeInput(command) ==
  \/ Admit /\ Carries(deliveries'[used'].payload, command.detail)
  \/ /\ AppendMessage
     /\ Carries(deliveries'[outcome'.emissionId].payload, command.detail)
  \/ /\ Refuse
     /\ outcome'.status \in {"NoEmission", "RejectedInvalidInput", "RejectedSemanticLimit",
                             "RejectedPayloadIdentityExhausted", "RejectedByCore"}

\* A completion ends the emission it names, or names none that is processed.
ServeCompletion(command) ==
  /\ outcome'.emissionId = command.detail.id
  /\ \/ Finish
     \/ Refuse /\ outcome'.status = "RejectedCompletion"

ServeSettings == UNCHANGED <<deliveries, used>> /\ outcome'.status = "Done"

Serve ==
  /\ waiting # <<>>
  /\ waiting' = Tail(waiting)
  /\ LET command == Head(waiting)
     IN  CASE command.kind = "Input" -> ServeInput(command)
           [] command.kind = "Completion" -> ServeCompletion(command)
           [] command.kind = "FlowSettingsUpdate" -> ServeSettings

\* The host hands out what is ready and looks after the queue, or fails.
Look ==
  /\ \/ Begin
     \/ Maintain
     \/ Refuse /\ outcome'.status = "LogicError"
  /\ UNCHANGED waiting

ServiceInit == Init /\ waiting = <<>>

ServiceNext == Post \/ Serve \/ Look

ServiceSpec == ServiceInit /\ [][ServiceNext]_<<vars, waiting>>
==============================================================================
