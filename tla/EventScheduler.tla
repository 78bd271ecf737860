--------------------------- MODULE EventScheduler ---------------------------
(***************************************************************************)
(* What the event queue promises to its callers, without its indexes, its  *)
(* revisions or its settings: a set of live emissions of which at most one *)
(* is handed out; the rest wait until they are due or until they are the   *)
(* best of those waiting.  Each action is what one operation may do, and   *)
(* answer is what that operation tells its caller.                         *)
(***************************************************************************)
EXTENDS EventQueueTypes, Sequences

VARIABLES now,       \* the time
          live,      \* the live emissions, by identity: envelope and policy
          inFlight,  \* the emission handed out, or 0
          used,      \* how many identities were ever given
          answer     \* what the last operation told

vars == <<now, live, inFlight, used, answer>>

Silence == [emission |-> None, pump |-> "NotRequested", ready |-> None,
            events |-> <<>>, wake |-> None]

Waiting(alive, active) == DOMAIN alive \ {active}
Overdue(alive, active) == {id \in Waiting(alive, active) : Due(alive[id].envelope, now)}

End(emission, reason) == [envelope |-> emission.envelope, reason |-> reason]
Expiration(emission) ==
  End(emission, ResolveExpirationTerminalReason(emission.expirePolicy))

\* The events that tell of every overdue emission, earliest expiration first.
Expirations(alive, active) ==
  {[i \in DOMAIN q |-> Expiration(alive[q[i].emissionId])] :
     q \in InExpirationOrder({alive[id].envelope : id \in Overdue(alive, active)})}

\* Everything overdue ends; then, if nothing is out, the best that waits goes.
Dispatch(alive, active, said) ==
  LET left == Without(alive, Overdue(alive, active))
      waiting == Waiting(left, active)
  IN  /\ live' = left
      /\ \E ended \in Expirations(alive, active) :
           LET told == [said EXCEPT !.events = @ \o ended]
           IN  \/ /\ active # 0
                  /\ inFlight' = active
                  /\ answer' = [told EXCEPT !.pump = "Busy"]
               \/ /\ active = 0 /\ waiting = {}
                  /\ inFlight' = 0
                  /\ answer' = [told EXCEPT !.pump = "QueueEmpty"]
               \/ /\ active = 0
                  /\ \E best \in waiting :
                       /\ \A other \in waiting \ {best} :
                            PriorityAhead(left[best].envelope, left[other].envelope)
                       /\ inFlight' = best
                       /\ answer' = [told EXCEPT !.pump = "EmissionReady",
                                                 !.ready = left[best].envelope]

\* A new emission has the next identity, never one used before, and is not due.
Admit ==
  /\ used < MaxIdentity
  /\ used' = used + 1
  /\ UNCHANGED now
  /\ \E flow \in Flow, expiresAt \in Time, score \in Score, policy \in ExpirePolicy :
       LET envelope == [emissionId |-> used + 1, flow |-> flow, expiresAt |-> expiresAt,
                        priorityScore |-> score]
           grown == With(live, used + 1, [envelope |-> envelope, expirePolicy |-> policy])
           told == [Silence EXCEPT !.emission = envelope]
       IN  /\ answer'.emission = envelope
           /\ ~Due(envelope, now)
           /\ \/ live' = grown /\ answer' = told /\ UNCHANGED inFlight
              \/ inFlight = 0 /\ Dispatch(grown, 0, told)

\* Only what waits and is not due is rescheduled, and never to expire earlier.
Reschedule(id) ==
  /\ id \in Waiting(live, inFlight) \ Overdue(live, inFlight)
  /\ UNCHANGED <<now, inFlight, used>>
  /\ \E expiresAt \in Time, score \in Score :
       LET envelope == [live[id].envelope EXCEPT !.expiresAt = expiresAt,
                                                 !.priorityScore = score]
       IN  /\ answer' = [Silence EXCEPT !.emission = envelope]
           /\ expiresAt >= live[id].envelope.expiresAt
           /\ live' = [live EXCEPT ![id].envelope = envelope]

Pump == Dispatch(live, inFlight, Silence) /\ UNCHANGED <<now, used>>

\* The emission handed out ends, and its successor may go out in the same step.
Finish(reason) ==
  LET left == Without(live, {inFlight})
      told == [Silence EXCEPT !.events = <<End(live[inFlight], reason)>>]
  IN  /\ inFlight # 0
      /\ \/ live' = left /\ inFlight' = 0 /\ answer' = told
         \/ reason = "Confirmed" /\ Dispatch(left, 0, told)
      /\ UNCHANGED <<now, used>>

Expire ==
  /\ live' = Without(live, Overdue(live, inFlight))
  /\ \E ended \in Expirations(live, inFlight) : answer' = [Silence EXCEPT !.events = ended]
  /\ UNCHANGED <<now, inFlight, used>>

\* The earliest instant at which something that waits becomes due.
NextWake ==
  LET times == {live[id].envelope.expiresAt : id \in Waiting(live, inFlight)} \ {MaxTime}
  IN  /\ \/ times = {} /\ answer' = Silence
         \/ \E first \in times :
              /\ \A t \in times : first <= t
              /\ answer' = [Silence EXCEPT !.wake = first]
      /\ UNCHANGED <<now, live, inFlight, used>>

\* Any operation may be refused: it tells nothing of any emission but, at most,
\* the one it was asked to update and found as it should be.
Refuse ==
  /\ \/ answer' = Silence
     \/ \E id \in Waiting(live, inFlight) :
          answer' = [Silence EXCEPT !.emission = live[id].envelope]
  /\ UNCHANGED <<now, live, inFlight, used>>

Tick == now' > now /\ answer' = Silence /\ UNCHANGED <<live, inFlight, used>>

Init ==
  /\ now \in Time
  /\ live = [id \in {} |-> None]
  /\ inFlight = 0
  /\ used = 0
  /\ answer = Silence

Next ==
  \/ Refuse
  \/ Tick
  \/ Admit
  \/ \E id \in DOMAIN live : Reschedule(id)
  \/ Pump
  \/ \E reason \in {"Confirmed", "Cancelled"} : Finish(reason)
  \/ Expire
  \/ NextWake

Spec == Init /\ [][Next]_vars
==============================================================================
