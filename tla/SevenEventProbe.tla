---------------------------- MODULE SevenEventProbe ----------------------------
(***************************************************************************)
(* TikFinitySevenEventProbe: a thread of the web socket decodes what       *)
(* arrives and ticks the kinds off in FTSTikFinitySevenEventChecklist      *)
(* under a mutex; the main thread waits for a request to stop or for the   *)
(* deadline, stops the socket, and reports. The two share the checklist    *)
(* and two atomic flags.                                                   *)
(***************************************************************************)
EXTENDS TikFinityDecoder, FiniteSets

CONSTANTS FramesReceived,  \* the text frames that may arrive
          MaxOtherFrames   \* bound: messages that bring no new kind

ASSUME ProbeAssumption == FramesReceived \subseteq Frame /\ MaxOtherFrames \in Nat

VARIABLES
  options,           \* FProbeOptions: stopWhenAllSeen, requireAllSeen
  checklist,         \* FTSTikFinitySevenEventChecklistSnapshot
  bStopRequested,
  bInternalFailure,
  connection,        \* the socket: connecting, open, closed
  callback,          \* idle, or what the callback will do after the lock: print, stop, fail
  mainThread,        \* waiting, stopping, stopped, ended; terminated with the program
  finalSnapshot, exitCode,
  received,          \* history: messages that arrived
  failed,            \* history: those whose decoding threw
  threw              \* history: whether a callback caught an exception, of whatever kind

sharedVars == <<checklist, bStopRequested, bInternalFailure>>
reportVars == <<finalSnapshot, exitCode>>
historyVars == <<received, failed, threw>>
probeVars == <<options, sharedVars, connection, callback, mainThread, reportVars, historyVars>>
------------------------------------------------------------------------------
(* The checklist *)

EmptyChecklist ==
  [events |-> [kind \in Kind |-> [validFrameCount |-> 0, invalidFrameCount |-> 0,
                                  seenValid |-> FALSE]],
   knownDecodedEvents |-> 0, unknownEvents |-> 0, invalidFrames |-> 0,
   transportErrors |-> 0, binaryFrames |-> 0]

HasSeenAllSevenValid(snapshot) ==
  Cardinality({kind \in Kind : snapshot.events[kind].seenValid}) = Cardinality(Kind)

\* Observe throws unless name and type of a decoded event agree.
IsObservable(decoded) ==
  decoded.status = Accepted =>
    /\ decoded.event # NoMessage
    /\ decoded.eventName \in Kind
    /\ decoded.event.kind = decoded.eventName

\* Mutation: a rejected frame with a known name is counted for its kind only.
ObserveRejectedByName(snapshot, decoded) ==
  CASE decoded.status = Accepted ->
         [snapshot EXCEPT !.knownDecodedEvents = @ + 1,
                          !.events[decoded.event.kind].validFrameCount = @ + 1,
                          !.events[decoded.event.kind].seenValid = TRUE]
    [] decoded.status = "IgnoredUnknownEvent" -> [snapshot EXCEPT !.unknownEvents = @ + 1]
    [] OTHER -> IF decoded.eventName \in Kind
                THEN [snapshot EXCEPT !.events[decoded.eventName].invalidFrameCount = @ + 1]
                ELSE [snapshot EXCEPT !.invalidFrames = @ + 1]

Observe(snapshot, decoded) ==
  CASE decoded.status = Accepted ->
         [snapshot EXCEPT !.knownDecodedEvents = @ + 1,
                          !.events[decoded.event.kind].validFrameCount = @ + 1,
                          !.events[decoded.event.kind].seenValid = TRUE]
    [] decoded.status = "IgnoredUnknownEvent" -> [snapshot EXCEPT !.unknownEvents = @ + 1]
    [] OTHER ->
         LET counted == [snapshot EXCEPT !.invalidFrames = @ + 1]
         IN  IF decoded.eventName \in Kind
             THEN [counted EXCEPT !.events[decoded.eventName].invalidFrameCount = @ + 1]
             ELSE counted
------------------------------------------------------------------------------
(* The thread of the socket: one callback at a time *)

KindsSeen == {kind \in Kind : checklist.events[kind].seenValid}
MayDeliver == callback = "idle" /\ mainThread \in {"waiting", "stopping"}
Arrives(isNew) ==
  /\ connection = "open" /\ MayDeliver
  /\ isNew \/ received - Cardinality(KindsSeen) < MaxOtherFrames
  /\ received' = received + 1
  /\ UNCHANGED <<options, bStopRequested, bInternalFailure, connection, mainThread, reportVars>>

\* The checklist is read under the lock, and then printed like any other.
Open ==
  /\ connection = "connecting" /\ MayDeliver
  /\ connection' = "open"
  /\ callback' = "print"
  /\ UNCHANGED <<options, sharedVars, mainThread, reportVars, historyVars>>

\* Mutation: whether all are seen is asked before the frame is observed.
AfterAskingFirst(observed) ==
  IF options.stopWhenAllSeen /\ HasSeenAllSevenValid(checklist) THEN "stop" ELSE "print"

\* What is left to do after the lock is released: print, and then perhaps ask to stop.
AfterObserving(observed) ==
  IF options.stopWhenAllSeen /\ HasSeenAllSevenValid(observed) THEN "stop" ELSE "print"

\* Decoding, and observing under the lock.
ReceiveText(decoded) ==
  /\ Arrives(decoded.status = Accepted /\ decoded.eventName \notin KindsSeen)
  /\ failed' = failed
  /\ IF IsObservable(decoded)
     THEN /\ checklist' = Observe(checklist, decoded)
          /\ callback' = AfterObserving(checklist')
          /\ UNCHANGED threw
     ELSE /\ UNCHANGED checklist
          /\ callback' = "fail"
          /\ threw' = TRUE

\* An allocation fails in the decoder: nothing is observed.
FailToDecode ==
  /\ Arrives(FALSE)
  /\ failed' = failed + 1
  /\ threw' = TRUE
  /\ callback' = "fail"
  /\ UNCHANGED checklist

ReceiveBinary ==
  /\ Arrives(FALSE)
  /\ checklist' = [checklist EXCEPT !.binaryFrames = @ + 1]
  /\ callback' = "print"
  /\ UNCHANGED <<failed, threw>>

\* There is no reconnection.
TransportError ==
  /\ connection # "closed" /\ MayDeliver
  /\ connection' = "closed"
  /\ checklist' = [checklist EXCEPT !.transportErrors = @ + 1]
  /\ callback' = "stop"
  /\ UNCHANGED <<options, bStopRequested, bInternalFailure, mainThread, reportVars, historyVars>>

Close ==
  /\ connection = "open" /\ MayDeliver
  /\ connection' = "closed"
  /\ callback' = "stop"
  /\ UNCHANGED <<options, sharedVars, mainThread, reportVars, historyVars>>

\* Printing may throw too, before the request to stop.
FailToPrint ==
  /\ callback \in {"print", "stop"}
  /\ callback' = "fail"
  /\ threw' = TRUE
  /\ UNCHANGED <<options, sharedVars, connection, mainThread, reportVars, received, failed>>

\* The callback ends, after it has stored what it has to tell. A failure is stored first;
\* the main thread reads it after the socket has stopped, so both are one step.
ReturnFromCallback ==
  /\ callback # "idle"
  /\ callback' = "idle"
  /\ bStopRequested' = (bStopRequested \/ callback \in {"stop", "fail"})
  /\ bInternalFailure' = (bInternalFailure \/ callback = "fail")
  /\ UNCHANGED <<options, checklist, connection, mainThread, reportVars, historyVars>>

\* The handler of an exception prints too, and nobody catches what that throws: it leaves
\* the callback, and the program ends without a report.
ThrowFromHandler ==
  /\ callback = "fail"
  /\ callback' = "idle"
  /\ bStopRequested' = TRUE /\ bInternalFailure' = TRUE
  /\ mainThread' = "terminated"
  /\ UNCHANGED <<options, checklist, connection, reportVars, historyVars>>
------------------------------------------------------------------------------
(* The main thread *)

\* The loop ends: it is asked to stop, or the deadline passes.
NoticeStop ==
  /\ mainThread = "waiting" /\ bStopRequested
  /\ mainThread' = "stopping"
  /\ UNCHANGED <<options, sharedVars, connection, callback, reportVars, historyVars>>

PassDeadline ==
  /\ mainThread = "waiting"
  /\ mainThread' = "stopping"
  /\ UNCHANGED <<options, sharedVars, connection, callback, reportVars, historyVars>>

\* Mutation: stop() returns while a callback runs.
StopWithoutJoin ==
  /\ mainThread = "stopping"
  /\ mainThread' = "stopped"
  /\ connection' = "closed"
  /\ UNCHANGED <<options, sharedVars, callback, reportVars, historyVars>>

\* WebSocket.stop() joins the thread of the socket: no callback runs when it returns.
StopSocket ==
  /\ mainThread = "stopping" /\ callback = "idle"
  /\ mainThread' = "stopped"
  /\ connection' = "closed"
  /\ UNCHANGED <<options, sharedVars, callback, reportVars, historyVars>>

ExitCode(snapshot) ==
  IF bInternalFailure THEN 4
  ELSE IF options.requireAllSeen /\ ~HasSeenAllSevenValid(snapshot) THEN 5 ELSE 0

Report ==
  /\ mainThread = "stopped"
  /\ mainThread' = "ended"
  /\ finalSnapshot' = checklist
  /\ exitCode' = ExitCode(finalSnapshot')
  /\ UNCHANGED <<options, sharedVars, connection, callback, historyVars>>

\* Printing the report throws: what main catches ends the program with 3.
FailToReport ==
  /\ mainThread = "stopped"
  /\ mainThread' = "ended"
  /\ finalSnapshot' = checklist
  /\ exitCode' = 3
  /\ UNCHANGED <<options, sharedVars, connection, callback, historyVars>>

ProbeInit ==
  /\ options \in [stopWhenAllSeen : BOOLEAN, requireAllSeen : BOOLEAN]
  /\ checklist = EmptyChecklist
  /\ bStopRequested = FALSE /\ bInternalFailure = FALSE
  /\ connection = "connecting" /\ callback = "idle" /\ mainThread = "waiting"
  /\ finalSnapshot = EmptyChecklist /\ exitCode = -1
  /\ received = 0 /\ failed = 0 /\ threw = FALSE

DecodedFrames == {Decode(frame) : frame \in FramesReceived}

MainStep == NoticeStop \/ StopSocket \/ Report
ProbeNext ==
  \/ Open \/ Close \/ TransportError
  \/ \E decoded \in DecodedFrames : ReceiveText(decoded)
  \/ ReceiveBinary \/ FailToDecode \/ FailToPrint \/ ReturnFromCallback
  \/ ThrowFromHandler \/ MainStep \/ PassDeadline \/ FailToReport

\* Both threads run on. Nothing says that a frame arrives, and the deadline may be a day away.
ProbeSpec ==
  ProbeInit /\ [][ProbeNext]_probeVars /\ WF_probeVars(MainStep)
    /\ WF_probeVars(ReturnFromCallback)
------------------------------------------------------------------------------
(* Properties *)

SumOver(count(_)) ==
  count("chat") + count("gift") + count("like") + count("follow") + count("share")
    + count("member") + count("roomUser")

\* Every message that arrived is counted once, also those that are rejected, and by kind as
\* in total; only a decoding that threw for want of memory is not.
MessagesAccountedFor ==
  LET Valid(kind) == checklist.events[kind].validFrameCount
      Invalid(kind) == checklist.events[kind].invalidFrameCount
  IN  /\ received = checklist.knownDecodedEvents + checklist.unknownEvents
                      + checklist.invalidFrames + checklist.binaryFrames + failed
      /\ SumOver(Valid) = checklist.knownDecodedEvents
      /\ SumOver(Invalid) <= checklist.invalidFrames
      /\ \A kind \in Kind : checklist.events[kind].seenValid <=> Valid(kind) > 0

\* The report is about everything that was observed, and nothing is observed after it.
\* Who asked for all seven and got 0 has had a valid frame of each kind, and who got 5 has
\* not; 4 is for an exception in a callback, any exception, and for nothing else. Only a
\* report that itself cannot be printed says neither: that is 3.
ReportIsFinal ==
  mainThread = "ended" =>
    LET allSeven == \A kind \in Kind : checklist.events[kind].validFrameCount > 0
    IN  /\ finalSnapshot = checklist /\ callback = "idle"
        /\ exitCode = 0 => (options.requireAllSeen => allSeven)
        /\ exitCode = 5 => ~allSeven
        /\ exitCode # 3 => (exitCode = 4 <=> threw)

\* The probe ends once the seven are seen, if it was asked to, and whenever it must stop:
\* with its report, unless an exception has left a callback.
EndsOnceDone ==
  (bStopRequested \/ mainThread = "stopping"
     \/ (options.stopWhenAllSeen /\ KindsSeen = Kind)) ~> mainThread \in {"ended", "terminated"}
==============================================================================
