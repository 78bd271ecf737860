------------------------- MODULE SevenEventProbeProofs -------------------------
(***************************************************************************)
(* Proofs about the probe: whatever the threads do, the checklist counts   *)
(* every message once and the report is about all of them. For any frames  *)
(* and any number of messages.                                             *)
(***************************************************************************)
EXTENDS SevenEventProbe, FiniteSetTheorems, TLAPS

Counter == [validFrameCount : Nat, invalidFrameCount : Nat, seenValid : BOOLEAN]
Checklist ==
  [events : [Kind -> Counter],
   knownDecodedEvents : Nat, unknownEvents : Nat, invalidFrames : Nat,
   transportErrors : Nat, binaryFrames : Nat]

ProbeTypeOK ==
  /\ options \in [stopWhenAllSeen : BOOLEAN, requireAllSeen : BOOLEAN]
  /\ checklist \in Checklist
  /\ bStopRequested \in BOOLEAN /\ bInternalFailure \in BOOLEAN
  /\ connection \in {"connecting", "open", "closed"}
  /\ callback \in {"idle", "print", "stop", "fail"}
  /\ mainThread \in {"waiting", "stopping", "stopped", "ended", "terminated"}
  /\ received \in Nat /\ failed \in Nat /\ threw \in BOOLEAN

\* No callback runs once the socket has stopped.
CallbacksEnded == mainThread \in {"stopped", "ended", "terminated"} => callback = "idle"

\* An exception of a callback is remembered, at the latest when the callback returns, and
\* nothing else is.
FailureRemembered == threw <=> (bInternalFailure \/ callback = "fail")

\* What is reported is the checklist and follows from what the threads left behind.
ReportKept ==
  mainThread = "ended" => finalSnapshot = checklist /\ exitCode \in {3, ExitCode(checklist)}

\* The inductive invariant.
ProbeInv ==
  /\ ProbeTypeOK
  /\ MessagesAccountedFor
  /\ CallbacksEnded
  /\ FailureRemembered
  /\ ReportKept
------------------------------------------------------------------------------
(* The decoder and the checklist *)

\* What the decoder accepts is one of the seven, under the name it came with.
LEMMA AcceptedIsKnown ==
  ASSUME NEW frame \in Frame, Decode(frame).status = Accepted
  PROVE  /\ Decode(frame).eventName \in Kind
         /\ Decode(frame).event = Message(Decode(frame).eventName, frame)
<1> DEFINE envelope == EnvelopeCheck(frame)
           found == IF envelope.status = Accepted THEN DataFault(frame.event, frame)
                    ELSE envelope
<1>1. Decode(frame).status = found.status /\ Decode(frame).eventName = EventName(frame)
      /\ Decode(frame).event =
           IF found.status = Accepted THEN Message(frame.event, frame) ELSE NoMessage
  BY Zenon DEF Decode
<1>2. envelope.status = Accepted
  BY <1>1
<1>3. frame.text \in {"blank", "malformed", "notObject", "object"}
      /\ frame.event \in {"absent", "notString", "empty", "unknown"} \cup Kind
  BY DEF Frame
<1>4. frame.text = "object" /\ frame.event \in Kind
  BY <1>2, <1>3 DEF EnvelopeCheck, Check, Accepted
<1>5. EventName(frame) = frame.event
  BY <1>4, Zenon DEF EventName
<1> QED
  BY <1>1, <1>4, <1>5

\* The decoder and the checklist agree: Observe throws for nothing that the decoder returns.
THEOREM DecodedIsObservable ==
  ASSUME NEW frame \in Frame
  PROVE  IsObservable(Decode(frame))
<1> SUFFICES ASSUME Decode(frame).status = Accepted
             PROVE  /\ Decode(frame).event # NoMessage
                    /\ Decode(frame).eventName \in Kind
                    /\ Decode(frame).event.kind = Decode(frame).eventName
  BY Zenon DEF IsObservable
<1>1. Decode(frame).eventName \in Kind
      /\ Decode(frame).event = Message(Decode(frame).eventName, frame)
  BY AcceptedIsKnown
<1>2. Decode(frame).event.kind = Decode(frame).eventName
  BY <1>1 DEF Message
<1>3. NoMessage.kind = "" /\ "" \notin Kind
  BY DEF NoMessage, Kind
<1> QED
  BY <1>1, <1>2, <1>3

\* A snapshot has seen all seven if it has seen each: the size of the set says as much.
LEMMA SeenAllIsEach ==
  ASSUME NEW snapshot \in Checklist
  PROVE  HasSeenAllSevenValid(snapshot) <=> \A kind \in Kind : snapshot.events[kind].seenValid
<1> DEFINE Seen == {kind \in Kind : snapshot.events[kind].seenValid}
<1>1. IsFiniteSet(Kind)
  <2> DEFINE Three == {"chat"} \cup {"gift"} \cup {"like"}
             Five == Three \cup {"follow"} \cup {"share"}
             Seven == Five \cup {"member"} \cup {"roomUser"}
  <2>1. IsFiniteSet({"chat"})
    BY FS_Singleton
  <2>2. IsFiniteSet({"chat"} \cup {"gift"})
    BY <2>1, FS_AddElement
  <2>3. IsFiniteSet(Three)
    BY <2>2, FS_AddElement
  <2>4. IsFiniteSet(Three \cup {"follow"})
    BY <2>3, FS_AddElement
  <2>5. IsFiniteSet(Five)
    BY <2>4, FS_AddElement
  <2>6. IsFiniteSet(Five \cup {"member"})
    BY <2>5, FS_AddElement
  <2>7. IsFiniteSet(Seven)
    BY <2>6, FS_AddElement
  <2>8. Kind = Seven
    BY DEF Kind
  <2> QED
    BY <2>7, <2>8
<1>2. Seen \subseteq Kind
  OBVIOUS
<1>3. Cardinality(Seen) = Cardinality(Kind) <=> Seen = Kind
  BY <1>1, <1>2, FS_Subset
<1> QED
  BY <1>3 DEF HasSeenAllSevenValid
------------------------------------------------------------------------------
(* Counting *)

\* The messages a snapshot tells of, and the valid and invalid frames of the kinds together.
Messages(c) == c.knownDecodedEvents + c.unknownEvents + c.invalidFrames + c.binaryFrames

ValidFrames(c) ==
  LET Valid(kind) == c.events[kind].validFrameCount IN SumOver(Valid)

InvalidFrames(c) ==
  LET Invalid(kind) == c.events[kind].invalidFrameCount IN SumOver(Invalid)

CountsAgree(c) ==
  /\ ValidFrames(c) = c.knownDecodedEvents
  /\ InvalidFrames(c) <= c.invalidFrames
  /\ \A kind \in Kind : c.events[kind].seenValid <=> c.events[kind].validFrameCount > 0

\* MessagesAccountedFor in terms of a snapshot.
LEMMA AccountedBySnapshot ==
  MessagesAccountedFor <=> received = Messages(checklist) + failed /\ CountsAgree(checklist)
BY Zenon DEF MessagesAccountedFor, Messages, CountsAgree, ValidFrames, InvalidFrames

\* A snapshot is its six parts, and a counter its three.
LEMMA SnapshotParts ==
  ASSUME NEW c \in Checklist
  PROVE  /\ c = [events |-> c.events, knownDecodedEvents |-> c.knownDecodedEvents,
                 unknownEvents |-> c.unknownEvents, invalidFrames |-> c.invalidFrames,
                 transportErrors |-> c.transportErrors, binaryFrames |-> c.binaryFrames]
         /\ c.events \in [Kind -> Counter]
         /\ \A kind \in Kind :
              /\ c.events[kind] \in Counter
              /\ c.events[kind] = [validFrameCount |-> c.events[kind].validFrameCount,
                                   invalidFrameCount |-> c.events[kind].invalidFrameCount,
                                   seenValid |-> c.events[kind].seenValid]
<1>1. \A counter \in Counter :
        counter = [validFrameCount |-> counter.validFrameCount,
                   invalidFrameCount |-> counter.invalidFrameCount,
                   seenValid |-> counter.seenValid]
  BY DEF Counter
<1>2. c.events \in [Kind -> Counter]
  BY DEF Checklist
<1>3. c = [events |-> c.events, knownDecodedEvents |-> c.knownDecodedEvents,
           unknownEvents |-> c.unknownEvents, invalidFrames |-> c.invalidFrames,
           transportErrors |-> c.transportErrors, binaryFrames |-> c.binaryFrames]
  BY DEF Checklist
<1>4. \A kind \in Kind : c.events[kind] \in Counter
  BY <1>2
<1> QED
  BY <1>1, <1>2, <1>3, <1>4, Zenon

\* A snapshot after a valid frame, in its parts.
CountValid(c, kind) ==
  [c EXCEPT !.knownDecodedEvents = @ + 1,
            !.events[kind].validFrameCount = @ + 1,
            !.events[kind].seenValid = TRUE]

TickedOff(c, kind) ==
  LET counted == [c.events[kind] EXCEPT !.validFrameCount = @ + 1]
  IN  [c.events EXCEPT ![kind] = [counted EXCEPT !.seenValid = TRUE]]

LEMMA CountValidParts ==
  ASSUME NEW c \in Checklist, NEW kind \in Kind
  PROVE  CountValid(c, kind) =
           [events |-> TickedOff(c, kind), knownDecodedEvents |-> c.knownDecodedEvents + 1,
            unknownEvents |-> c.unknownEvents, invalidFrames |-> c.invalidFrames,
            transportErrors |-> c.transportErrors, binaryFrames |-> c.binaryFrames]
<1>1. PICK events \in [Kind -> Counter] : events = c.events
  BY SnapshotParts
<1> DEFINE one == [events[kind] EXCEPT !.validFrameCount = @ + 1]
           two == [one EXCEPT !.seenValid = TRUE]
           ticked == [events EXCEPT ![kind].validFrameCount = @ + 1]
<1>2. [ticked EXCEPT ![kind].seenValid = TRUE] = [events EXCEPT ![kind] = two]
  <2>1. ticked = [events EXCEPT ![kind] = one] /\ ticked[kind] = one
    OBVIOUS
  <2>2. [ticked EXCEPT ![kind].seenValid = TRUE] = [ticked EXCEPT ![kind] = two]
    <3>1. [ticked[kind] EXCEPT !.seenValid = TRUE] = two
      BY <2>1
    <3> HIDE DEF two, ticked
    <3> QED
      BY <3>1
  <2>3. [[events EXCEPT ![kind] = one] EXCEPT ![kind] = two] = [events EXCEPT ![kind] = two]
    <3> HIDE DEF one, two
    <3> QED
      OBVIOUS
  <2> HIDE DEF one, two, ticked
  <2> QED
    BY <2>1, <2>2, <2>3
<1>3. [ticked EXCEPT ![kind].seenValid = TRUE] = TickedOff(c, kind)
  BY <1>1, <1>2, Zenon DEF TickedOff
<1>4. CountValid(c, kind) =
        [c EXCEPT !.knownDecodedEvents = @ + 1,
                  !.events = [ticked EXCEPT ![kind].seenValid = TRUE]]
  BY <1>1 DEF CountValid, Checklist
<1>5. CountValid(c, kind) = [c EXCEPT !.knownDecodedEvents = @ + 1,
                                      !.events = TickedOff(c, kind)]
  BY <1>3, <1>4
<1> QED
  BY <1>5 DEF Checklist

\* A valid frame of a kind is one more, of that kind and in all.
LEMMA ValidFrameCounts ==
  ASSUME NEW c \in Checklist, CountsAgree(c), NEW kind \in Kind
  PROVE  LET d == CountValid(c, kind)
         IN  d \in Checklist /\ Messages(d) = Messages(c) + 1 /\ CountsAgree(d)
<1> DEFINE d == CountValid(c, kind)
<1>1. /\ d = [events |-> TickedOff(c, kind), knownDecodedEvents |-> c.knownDecodedEvents + 1,
              unknownEvents |-> c.unknownEvents, invalidFrames |-> c.invalidFrames,
              transportErrors |-> c.transportErrors, binaryFrames |-> c.binaryFrames]
      /\ d.events = TickedOff(c, kind)
      /\ d.knownDecodedEvents = c.knownDecodedEvents + 1
      /\ d.invalidFrames = c.invalidFrames
  BY CountValidParts
<1> HIDE DEF d
<1>2. \A k \in Kind : c.events[k] \in Counter
  BY SnapshotParts
<1>3. PICK old \in Counter : old = c.events[kind]
  BY <1>2
<1>4. PICK new \in Counter :
        /\ new.validFrameCount = old.validFrameCount + 1
        /\ new.invalidFrameCount = old.invalidFrameCount
        /\ new.seenValid
        /\ TickedOff(c, kind) = [c.events EXCEPT ![kind] = new]
  <2> DEFINE new == [[old EXCEPT !.validFrameCount = @ + 1] EXCEPT !.seenValid = TRUE]
  <2>1. [old EXCEPT !.validFrameCount = @ + 1] \in Counter
    BY DEF Counter
  <2>2. /\ new \in Counter
        /\ new.validFrameCount = [old EXCEPT !.validFrameCount = @ + 1].validFrameCount
        /\ new.invalidFrameCount = [old EXCEPT !.validFrameCount = @ + 1].invalidFrameCount
        /\ new.seenValid
    BY <2>1 DEF Counter
  <2>3. /\ [old EXCEPT !.validFrameCount = @ + 1].validFrameCount = old.validFrameCount + 1
        /\ [old EXCEPT !.validFrameCount = @ + 1].invalidFrameCount = old.invalidFrameCount
    BY DEF Counter
  <2>4. TickedOff(c, kind) = [c.events EXCEPT ![kind] = new]
    BY <1>3, Zenon DEF TickedOff
  <2> HIDE DEF new
  <2> QED
    BY <2>2, <2>3, <2>4
<1>5. c.events \in [Kind -> Counter] /\ TickedOff(c, kind) \in [Kind -> Counter]
  BY <1>4, SnapshotParts
<1>9. d \in Checklist /\ Messages(d) = Messages(c) + 1
  BY <1>1, <1>5 DEF Checklist, Messages
<1>10. \A k \in Kind : d.events[k] = IF k = kind THEN new ELSE c.events[k]
  BY <1>1, <1>4, <1>5
<1>11. \A k \in Kind :
         /\ d.events[k].invalidFrameCount = c.events[k].invalidFrameCount
         /\ d.events[k].validFrameCount
              = c.events[k].validFrameCount + (IF k = kind THEN 1 ELSE 0)
         /\ c.events[k].validFrameCount \in Nat
         /\ c.events[k].invalidFrameCount \in Nat
  BY <1>2, <1>3, <1>4, <1>10 DEF Counter
<1>6. ValidFrames(d) = ValidFrames(c) + 1
  BY <1>11 DEF ValidFrames, SumOver, Kind
<1>7. InvalidFrames(d) = InvalidFrames(c)
  BY <1>11 DEF InvalidFrames, SumOver, Kind
<1>8. \A k \in Kind : d.events[k].seenValid <=> d.events[k].validFrameCount > 0
  <2> SUFFICES ASSUME NEW k \in Kind
               PROVE  d.events[k].seenValid <=> d.events[k].validFrameCount > 0
    OBVIOUS
  <2>1. CASE k = kind
    <3>1. d.events[k] = new /\ new.validFrameCount > 0
      BY <2>1, <1>4, <1>10 DEF Counter
    <3> QED
      BY <3>1, <1>4
  <2>2. CASE k # kind
    BY <2>2, <1>10 DEF CountsAgree
  <2> QED
    BY <2>1, <2>2
<1>12. ValidFrames(d) = d.knownDecodedEvents /\ InvalidFrames(d) <= d.invalidFrames
  BY <1>1, <1>6, <1>7 DEF CountsAgree
<1>13. CountsAgree(d)
  BY <1>8, <1>12, Zenon DEF CountsAgree
<1> QED
  BY <1>9, <1>13 DEF d

\* A frame that is rejected is one more, whether or not its kind is known.
LEMMA InvalidFrameCounts ==
  ASSUME NEW c \in Checklist, CountsAgree(c), NEW kind,
         NEW d, d = LET counted == [c EXCEPT !.invalidFrames = @ + 1]
                    IN  IF kind \in Kind
                        THEN [counted EXCEPT !.events[kind].invalidFrameCount = @ + 1]
                        ELSE counted
  PROVE  d \in Checklist /\ Messages(d) = Messages(c) + 1 /\ CountsAgree(d)
<1>1. d \in Checklist
  <2> DEFINE counted == [c EXCEPT !.invalidFrames = @ + 1]
  <2>1. counted \in Checklist
    BY DEF Checklist
  <2>2. ASSUME kind \in Kind
        PROVE  [counted EXCEPT !.events[kind].invalidFrameCount = @ + 1] \in Checklist
    <3>1. c.events \in [Kind -> Counter] /\ counted.events = c.events
          /\ c.events[kind] \in Counter
      BY <2>2, SnapshotParts DEF Checklist
    <3>2. [c.events[kind] EXCEPT !.invalidFrameCount = @ + 1] \in Counter
      BY <3>1 DEF Counter
    <3>3. [c.events EXCEPT ![kind].invalidFrameCount = @ + 1] \in [Kind -> Counter]
      BY <3>1, <3>2
    <3>4. [counted EXCEPT !.events[kind].invalidFrameCount = @ + 1]
            = [counted EXCEPT !.events = [c.events EXCEPT ![kind].invalidFrameCount = @ + 1]]
      BY <3>1
    <3> QED
      BY <2>1, <3>3, <3>4 DEF Checklist
  <2> QED
    BY <2>1, <2>2
<1>2. Messages(d) = Messages(c) + 1
  BY DEF Messages, Checklist, Counter
<1>3. /\ d.knownDecodedEvents = c.knownDecodedEvents
      /\ d.invalidFrames = c.invalidFrames + 1
      /\ \A k \in Kind :
           /\ d.events[k].invalidFrameCount
                = c.events[k].invalidFrameCount + (IF k = kind THEN 1 ELSE 0)
           /\ d.events[k].validFrameCount = c.events[k].validFrameCount
           /\ d.events[k].seenValid = c.events[k].seenValid
  BY DEF Checklist, Counter
<1>4. \A k \in Kind : c.events[k].invalidFrameCount \in Nat
  BY DEF Checklist, Counter
<1>5. ValidFrames(d) = ValidFrames(c)
  BY <1>3 DEF ValidFrames, SumOver, Kind
<1>6. InvalidFrames(d) <= InvalidFrames(c) + 1 /\ InvalidFrames(c) \in Nat
  BY <1>3, <1>4 DEF InvalidFrames, SumOver, Kind
<1>7. \A k \in Kind : d.events[k].seenValid <=> d.events[k].validFrameCount > 0
  BY <1>3 DEF CountsAgree
<1>8. c.invalidFrames \in Nat /\ InvalidFrames(d) \in Nat
  BY <1>1, <1>3, <1>4 DEF Checklist, InvalidFrames, SumOver, Kind
<1> QED
  BY <1>1, <1>2, <1>3, <1>5, <1>6, <1>7, <1>8 DEF CountsAgree

\* Whatever the decoder says of a frame, observing it counts it once.
LEMMA ObserveCounts ==
  ASSUME NEW c \in Checklist, CountsAgree(c), NEW decoded, IsObservable(decoded)
  PROVE  LET d == Observe(c, decoded)
         IN  d \in Checklist /\ Messages(d) = Messages(c) + 1 /\ CountsAgree(d)
<1>1. CASE decoded.status = Accepted
  <2>1. decoded.event.kind \in Kind
    BY <1>1 DEF IsObservable
  <2>2. Observe(c, decoded) = CountValid(c, decoded.event.kind)
    BY <1>1 DEF Observe, CountValid, Accepted
  <2> QED
    BY <2>1, <2>2, ValidFrameCounts
<1>2. CASE decoded.status # Accepted /\ decoded.status = "IgnoredUnknownEvent"
  <2>1. Observe(c, decoded) = [c EXCEPT !.unknownEvents = @ + 1]
    BY <1>2 DEF Observe
  <2>2. /\ Observe(c, decoded) \in Checklist
        /\ Messages(Observe(c, decoded)) = Messages(c) + 1
    BY <2>1 DEF Checklist, Counter, Messages
  <2>3. /\ Observe(c, decoded).events = c.events
        /\ Observe(c, decoded).knownDecodedEvents = c.knownDecodedEvents
        /\ Observe(c, decoded).invalidFrames = c.invalidFrames
    BY <2>1 DEF Checklist
  <2> QED
    BY <2>2, <2>3 DEF CountsAgree, ValidFrames, InvalidFrames
<1>3. CASE decoded.status # Accepted /\ decoded.status # "IgnoredUnknownEvent"
  <2>1. Observe(c, decoded)
          = LET counted == [c EXCEPT !.invalidFrames = @ + 1]
            IN  IF decoded.eventName \in Kind
                THEN [counted EXCEPT !.events[decoded.eventName].invalidFrameCount = @ + 1]
                ELSE counted
    BY <1>3 DEF Observe
  <2> QED
    BY <2>1, InvalidFrameCounts
<1> QED
  BY <1>1, <1>2, <1>3

\* A message that is not a text is counted apart from the kinds.
LEMMA BinaryCounts ==
  ASSUME NEW c \in Checklist, CountsAgree(c)
  PROVE  LET d == [c EXCEPT !.binaryFrames = @ + 1]
         IN  d \in Checklist /\ Messages(d) = Messages(c) + 1 /\ CountsAgree(d)
<1> DEFINE d == [c EXCEPT !.binaryFrames = @ + 1]
<1>1. d \in Checklist /\ Messages(d) = Messages(c) + 1
  BY DEF Checklist, Messages
<1>2. /\ d.events = c.events
      /\ d.knownDecodedEvents = c.knownDecodedEvents
      /\ d.invalidFrames = c.invalidFrames
  BY DEF Checklist
<1> QED
  BY <1>1, <1>2 DEF CountsAgree, ValidFrames, InvalidFrames

\* An error of the connection is no message.
LEMMA ErrorCounts ==
  ASSUME NEW c \in Checklist, CountsAgree(c)
  PROVE  LET d == [c EXCEPT !.transportErrors = @ + 1]
         IN  d \in Checklist /\ Messages(d) = Messages(c) /\ CountsAgree(d)
<1> DEFINE d == [c EXCEPT !.transportErrors = @ + 1]
<1>1. d \in Checklist /\ Messages(d) = Messages(c)
  BY DEF Checklist, Messages
<1>2. /\ d.events = c.events
      /\ d.knownDecodedEvents = c.knownDecodedEvents
      /\ d.invalidFrames = c.invalidFrames
  BY DEF Checklist
<1> QED
  BY <1>1, <1>2 DEF CountsAgree, ValidFrames, InvalidFrames
------------------------------------------------------------------------------
(* The invariant *)

\* The probe starts in a consistent state.
LEMMA ProbeInitEstablishes == ProbeInit => ProbeInv
<1> SUFFICES ASSUME ProbeInit PROVE ProbeInv
  OBVIOUS
<1>1. EmptyChecklist \in Checklist
  BY DEF EmptyChecklist, Checklist, Counter
<1>2. Messages(EmptyChecklist) = 0 /\ CountsAgree(EmptyChecklist)
  BY DEF EmptyChecklist, Messages, CountsAgree, ValidFrames, InvalidFrames, SumOver, Kind
<1>3. MessagesAccountedFor
  BY <1>2, AccountedBySnapshot DEF ProbeInit
<1>4. ProbeTypeOK
  BY <1>1 DEF ProbeInit, ProbeTypeOK
<1> QED
  BY <1>3, <1>4 DEF ProbeInit, ProbeInv, CallbacksEnded, FailureRemembered, ReportKept

\* The same, of the snapshot after a step.
LEMMA AccountedAfter ==
  received' = Messages(checklist') + failed' /\ CountsAgree(checklist')
    => MessagesAccountedFor'
BY DEF MessagesAccountedFor, Messages, CountsAgree, ValidFrames, InvalidFrames, SumOver

\* A callback that delivers: the main thread has not stopped the socket yet.
LEMMA ReceivePreserves ==
  ASSUME ProbeInv,
         (\E decoded \in DecodedFrames : ReceiveText(decoded)) \/ ReceiveBinary \/ FailToDecode
  PROVE  ProbeInv'
<1>0. /\ checklist \in Checklist /\ CountsAgree(checklist)
      /\ received = Messages(checklist) + failed /\ received \in Nat /\ failed \in Nat
      /\ threw \in BOOLEAN
  BY AccountedBySnapshot DEF ProbeInv, ProbeTypeOK
<1>1. /\ mainThread \in {"waiting", "stopping"} /\ callback = "idle"
      /\ received' = received + 1
      /\ UNCHANGED <<options, bStopRequested, bInternalFailure, connection, mainThread>>
  BY Zenon DEF ReceiveText, ReceiveBinary, FailToDecode, Arrives, MayDeliver, reportVars
<1>2. Messages(checklist) \in Nat
  BY <1>0 DEF Messages, Checklist
<1>3. /\ checklist' \in Checklist /\ CountsAgree(checklist') /\ failed' \in Nat
      /\ received' = Messages(checklist') + failed'
      /\ callback' \in {"print", "stop", "fail"}
      /\ threw' \in BOOLEAN
      /\ threw' <=> (threw \/ callback' = "fail")
  <2>1. ASSUME NEW decoded \in DecodedFrames, ReceiveText(decoded)
        PROVE  <1>3
    <3>1. PICK frame \in Frame : decoded = Decode(frame)
      BY <2>1, ProbeAssumption DEF DecodedFrames
    <3>2. IsObservable(decoded)
      BY <3>1, DecodedIsObservable
    <3>3. /\ checklist' = Observe(checklist, decoded) /\ failed' = failed
          /\ callback' = AfterObserving(checklist') /\ threw' = threw
      BY <2>1, <3>2 DEF ReceiveText
    <3>4. /\ checklist' \in Checklist /\ CountsAgree(checklist')
          /\ Messages(checklist') = Messages(checklist) + 1
      BY <1>0, <3>2, <3>3, ObserveCounts
    <3>5. callback' \in {"print", "stop"}
      BY <3>3 DEF AfterObserving
    <3> QED
      BY <1>0, <1>1, <1>2, <3>3, <3>4, <3>5
  <2>2. CASE ReceiveBinary
    <3>1. /\ checklist' = [checklist EXCEPT !.binaryFrames = @ + 1]
          /\ callback' = "print" /\ failed' = failed /\ threw' = threw
      BY <2>2 DEF ReceiveBinary
    <3>3. /\ checklist' \in Checklist /\ CountsAgree(checklist')
          /\ Messages(checklist') = Messages(checklist) + 1
      BY <1>0, <3>1, BinaryCounts
    <3> QED
      BY <1>0, <1>1, <1>2, <3>1, <3>3
  <2>3. CASE FailToDecode
    BY <1>0, <1>1, <1>2, <2>3 DEF FailToDecode
  <2> QED
    BY <2>1, <2>2, <2>3
<1>4. MessagesAccountedFor'
  BY <1>3, AccountedAfter
<1>5. ProbeTypeOK'
  BY <1>0, <1>1, <1>3 DEF ProbeInv, ProbeTypeOK
<1>6. FailureRemembered'
  BY <1>1, <1>3 DEF ProbeInv, FailureRemembered
<1> QED
  BY <1>1, <1>4, <1>5, <1>6 DEF ProbeInv, CallbacksEnded, ReportKept

\* A connection that fails is counted apart from the messages.
LEMMA TransportErrorPreserves ==
  ASSUME ProbeInv, TransportError
  PROVE  ProbeInv'
<1>0. /\ checklist \in Checklist /\ CountsAgree(checklist)
      /\ received = Messages(checklist) + failed
  BY AccountedBySnapshot DEF ProbeInv, ProbeTypeOK
<1>1. /\ mainThread \in {"waiting", "stopping"}
      /\ callback = "idle" /\ callback' = "stop" /\ connection' = "closed"
      /\ checklist' = [checklist EXCEPT !.transportErrors = @ + 1]
      /\ UNCHANGED <<options, bStopRequested, bInternalFailure, mainThread, historyVars>>
  BY Zenon DEF TransportError, MayDeliver, reportVars, historyVars
<1>4. /\ checklist' \in Checklist /\ CountsAgree(checklist')
      /\ Messages(checklist') = Messages(checklist)
  BY <1>0, <1>1, ErrorCounts
<1>5. MessagesAccountedFor'
  BY <1>0, <1>1, <1>4, AccountedAfter DEF historyVars
<1> QED
  BY <1>1, <1>4, <1>5
     DEF ProbeInv, ProbeTypeOK, CallbacksEnded, FailureRemembered, ReportKept, historyVars

\* What neither receives nor loses a message leaves the checklist alone.
LEMMA QuietStepPreserves ==
  ASSUME ProbeInv,
         \/ Open \/ Close \/ FailToPrint \/ ReturnFromCallback \/ ThrowFromHandler
         \/ MainStep \/ PassDeadline \/ FailToReport \/ UNCHANGED probeVars
  PROVE  ProbeInv'
<1>0. UNCHANGED <<options, checklist, received, failed>>
  BY Zenon DEF Open, Close, FailToPrint, ReturnFromCallback, ThrowFromHandler, MainStep,
         NoticeStop, StopSocket, Report, PassDeadline, FailToReport, probeVars, sharedVars, historyVars
<1>1. MessagesAccountedFor'
  BY <1>0, AccountedBySnapshot, AccountedAfter DEF ProbeInv
<1> USE DEF ProbeInv, ProbeTypeOK, CallbacksEnded, FailureRemembered, ReportKept, sharedVars,
            reportVars, historyVars
<1>2. CASE Open \/ Close
  BY <1>0, <1>1, <1>2 DEF Open, Close, MayDeliver
<1>3. CASE FailToPrint
  BY <1>0, <1>1, <1>3 DEF FailToPrint, ExitCode
<1>4. CASE ReturnFromCallback
  BY <1>0, <1>1, <1>4 DEF ReturnFromCallback
<1>5. CASE NoticeStop \/ PassDeadline
  BY <1>0, <1>1, <1>5 DEF NoticeStop, PassDeadline
<1>6. CASE StopSocket
  BY <1>0, <1>1, <1>6 DEF StopSocket
<1>7. CASE Report
  BY <1>0, <1>1, <1>7 DEF Report, ExitCode
<1>8. CASE ThrowFromHandler
  BY <1>0, <1>1, <1>8 DEF ThrowFromHandler
<1>9. CASE FailToReport
  BY <1>0, <1>1, <1>9 DEF FailToReport
<1>10. CASE UNCHANGED probeVars
  BY <1>0, <1>1, <1>10 DEF probeVars, ExitCode
<1> QED
  BY <1>2, <1>3, <1>4, <1>5, <1>6, <1>7, <1>8, <1>9, <1>10 DEF MainStep

\* The invariant holds whatever arrives, fails and is asked for.
THEOREM ProbeConsistent == ProbeSpec => []ProbeInv
<1>1. ProbeInit => ProbeInv
  BY ProbeInitEstablishes
<1>2. ProbeInv /\ [ProbeNext]_probeVars => ProbeInv'
  BY ReceivePreserves, TransportErrorPreserves, QuietStepPreserves, Zenon DEF ProbeNext
<1> QED
  BY <1>1, <1>2, PTL DEF ProbeSpec

\* Every message that arrived is counted once, by kind as in total, except the decodings
\* that threw: Observe under the mutex and the callbacks around it lose none.
THEOREM EveryMessageCounted == ProbeSpec => []MessagesAccountedFor
<1>1. ProbeInv => MessagesAccountedFor
  BY DEF ProbeInv
<1> QED
  BY <1>1, ProbeConsistent, PTL

\* The report says what was observed in the end, and the exit code says of it what is true,
\* whenever the deadline or the request to stop comes while a callback runs: 4 if and only
\* if a callback threw, wherever it did.
THEOREM ReportIsAboutEverything == ProbeSpec => []ReportIsFinal
<1>1. ProbeInv => ReportIsFinal
  <2> SUFFICES ASSUME ProbeInv, mainThread = "ended"
               PROVE  LET allSeven == \A kind \in Kind :
                                        checklist.events[kind].validFrameCount > 0
                      IN  /\ finalSnapshot = checklist /\ callback = "idle"
                          /\ exitCode = 0 => (options.requireAllSeen => allSeven)
                          /\ exitCode = 5 => ~allSeven
                          /\ exitCode # 3 => (exitCode = 4 <=> threw)
    BY DEF ReportIsFinal
  <2>1. /\ finalSnapshot = checklist /\ exitCode \in {3, ExitCode(checklist)}
        /\ callback = "idle"
        /\ threw <=> bInternalFailure
    BY DEF ProbeInv, ProbeTypeOK, ReportKept, CallbacksEnded, FailureRemembered
  <2>2. checklist \in Checklist
        /\ \A kind \in Kind :
             checklist.events[kind].seenValid <=> checklist.events[kind].validFrameCount > 0
    BY AccountedBySnapshot DEF ProbeInv, ProbeTypeOK, CountsAgree
  <2>3. HasSeenAllSevenValid(checklist)
          <=> \A kind \in Kind : checklist.events[kind].validFrameCount > 0
    BY <2>2, SeenAllIsEach
  <2> QED
    BY <2>1, <2>3 DEF ExitCode
<1> QED
  BY <1>1, ProbeConsistent, PTL
==============================================================================
