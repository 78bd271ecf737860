---------------------------- MODULE EventDelivery ----------------------------
(***************************************************************************)
(* What the pipeline promises to the producers and to the handlers, with   *)
(* the queue, the clock, the bindings and the handles hidden.  An event is *)
(* admitted with its payload under a new identity and waits.  A waiting    *)
(* chat batch grows by one message at its end, and a user has one batch    *)
(* that grows.  One event at a time is ready and then processed, with the  *)
(* payload it had when it stopped waiting; each leaves once.               *)
(***************************************************************************)
EXTENDS EventQueueTypes, Sequences

VARIABLES deliveries,  \* the live events, by identity: stage and payload
          used,        \* the last identity given
          outcome      \* what the last operation answered

vars == <<deliveries, used, outcome>>

At(stage) == {id \in DOMAIN deliveries : deliveries[id].stage = stage}

\* Another message at the end of the batch; the user data may be newer.
Extends(new, old) ==
  /\ new.user = old.user
  /\ Len(new.messages) = Len(old.messages) + 1
  /\ SubSeq(new.messages, 1, Len(old.messages)) = old.messages

\* Some that wait end; then, if nothing is out, one that waits may become ready.
Advance(alive, ended) ==
  LET left == Without(alive, ended)
  IN  \/ deliveries' = left
      \/ /\ \A id \in DOMAIN left : left[id].stage = "Waiting"
         /\ \E id \in DOMAIN left : deliveries' = [left EXCEPT ![id].stage = "Ready"]

\* The newcomer is the only batch of its user that can still grow.
Admit ==
  /\ used' = used + 1
  /\ used' \in DOMAIN deliveries'
  /\ LET payload == deliveries'[used'].payload
     IN  /\ Len(payload.messages) = IF payload.user = None THEN 0 ELSE 1
         /\ \E ended \in SUBSET At("Waiting") :
              /\ \A id \in At("Waiting") \ ended :
                   payload.user = None \/ deliveries[id].payload.user # payload.user
              /\ Advance(With(deliveries, used', [stage |-> "Waiting", payload |-> payload]),
                         ended)
  /\ outcome' = [status |-> "Accepted", emissionId |-> used', payload |-> None]

AppendMessage ==
  \E id \in At("Waiting") :
    /\ DOMAIN deliveries' = DOMAIN deliveries
    /\ Extends(deliveries'[id].payload, deliveries[id].payload)
    /\ deliveries' = [deliveries EXCEPT ![id].payload = deliveries'[id].payload]
    /\ outcome' = [status |-> "Accumulated", emissionId |-> id, payload |-> None]
    /\ UNCHANGED used

Begin ==
  \E id \in At("Ready") :
    /\ deliveries' = [deliveries EXCEPT ![id].stage = "Processing"]
    /\ outcome' = [status |-> "Dispatched", emissionId |-> id,
                   payload |-> deliveries[id].payload]
    /\ UNCHANGED used

Finish ==
  \E id \in At("Processing") :
    /\ \E ended \in SUBSET At("Waiting") : Advance(deliveries, ended \cup {id})
    /\ outcome' = [status |-> "Completed", emissionId |-> id, payload |-> None]
    /\ UNCHANGED used

\* Time passes, the queue is looked after, or an operation is refused.
Maintain ==
  /\ \E ended \in SUBSET At("Waiting") : Advance(deliveries, ended)
  /\ outcome' = [status |-> "Done", emissionId |-> 0, payload |-> None]
  /\ UNCHANGED used

Refuse ==
  /\ outcome'.status \notin {"Accepted", "Accumulated", "Dispatched", "Completed"}
  /\ UNCHANGED <<deliveries, used>>

Init ==
  /\ deliveries = [id \in {} |-> None]
  /\ used = 0
  /\ outcome = [status |-> "Done", emissionId |-> 0, payload |-> None]

Next == Admit \/ AppendMessage \/ Begin \/ Finish \/ Maintain \/ Refuse

Spec == Init /\ [][Next]_vars
==============================================================================
