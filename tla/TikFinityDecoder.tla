--------------------------- MODULE TikFinityDecoder ---------------------------
(***************************************************************************)
(* FTSTikFinityJsonEventDecoder: a text frame of TikFinity becomes one of  *)
(* seven typed events, or the first thing that is wrong with it in the     *)
(* stable order of the contract. Pure operators.                           *)
(*                                                                         *)
(* A JSON value is its type and a number: an integer, the length of a      *)
(* text, 0 or 1 for a Boolean. An integer out of the range of 64 bits on   *)
(* either side is a fraction for the parser.                               *)
(***************************************************************************)
EXTENDS Integers, Sequences, SequencesExt

CONSTANT MaxInt64  \* the largest signed 64-bit integer

ASSUME DecoderAssumption == MaxInt64 \in Nat

Kind == {"chat", "gift", "like", "follow", "share", "member", "roomUser"}

JsonType ==
  {"absent", "string", "integer", "boolean", "fraction", "null", "array", "object"}
Value == [type : {"integer"}, n : Int] \cup [type : JsonType \ {"integer"}, n : Nat]
Absent == [type |-> "absent", n |-> 0]

\* What data holds besides the user, what the user holds, and what an element of a list
\* holds; the members of the user of a viewer are "user.<member>".
CommonUser ==
  <<<<"uniqueId", "string">>, <<"nickname", "string">>, <<"profilePictureUrl", "string">>,
    <<"followRole", "integer">>, <<"isModerator", "boolean">>, <<"isSubscriber", "boolean">>,
    <<"isNewGifter", "boolean">>, <<"topGifterRank", "integer">>,
    <<"gifterLevel", "integer">>, <<"teamMemberLevel", "integer">>>>

EmoteMembers == <<<<"emoteId", "string">>, <<"emoteImageUrl", "string">>>>

RoomUserViewerUser ==
  <<<<"user.uniqueId", "string">>, <<"user.nickname", "string">>,
    <<"user.profilePictureUrl", "string">>, <<"user.isModerator", "boolean">>,
    <<"user.isSubscriber", "boolean">>, <<"user.gifterLevel", "integer">>,
    <<"user.teamMemberLevel", "integer">>>>

TopViewerMembers == <<<<"coinCount", "integer">>, <<"user", "object">>>> \o RoomUserViewerUser

GiftFields ==
  <<<<"giftId", "integer">>, <<"giftName", "string">>, <<"giftPictureUrl", "string">>,
    <<"diamondCount", "integer">>, <<"repeatCount", "integer">>, <<"giftType", "integer">>,
    <<"describe", "string">>, <<"repeatEnd", "boolean">>, <<"groupId", "string">>>>

\* The fields of data in the order in which they are read.
Contract ==
  [kind \in Kind |->
     CASE kind = "chat"     -> <<<<"comment", "string">>, <<"emotes", "array">>>> \o CommonUser
       [] kind = "gift"     -> GiftFields \o CommonUser
       [] kind = "like"     -> <<<<"likeCount", "integer">>, <<"totalLikeCount", "integer">>>>
                                 \o CommonUser
       [] kind = "member"   -> <<<<"actionId", "integer">>>> \o CommonUser
       [] kind = "roomUser" -> <<<<"viewerCount", "integer">>, <<"topGifterRank", "integer">>,
                                 <<"topViewers", "array">>>>
       [] OTHER             -> CommonUser]

Members == [kind \in Kind |-> IF kind = "chat" THEN EmoteMembers ELSE TopViewerMembers]

Keys(typed) == {typed[i][1] : i \in DOMAIN typed}
Key == UNION {Keys(Contract[kind]) : kind \in Kind}
MemberKey == Keys(EmoteMembers) \cup Keys(TopViewerMembers)

\* A frame: what its text is, what "event" and "data" are, what is in data and in the
\* list it may have. A user that is not an object has no members.
Frame ==
  [text : {"blank", "malformed", "notObject", "object"},
   event : {"absent", "notString", "empty", "unknown"} \cup Kind,
   data : {"absent", "notObject", "object"},
   fields : [Key -> Value],
   elements : Seq([value : Value, members : [MemberKey -> Value]])]

\* ErrorPath: "data.<key>" with an index counted from 1, 0 for none, and a member of the
\* element; "$", "event" and "data" name themselves, and "" is the empty path.
At(key, index, member) == [key |-> key, index |-> index, member |-> member]
NoPath == At("", 0, "")
------------------------------------------------------------------------------
\* Decoded for the decoder, Converted for a converter.
Accepted == "Accepted"

\* Mutation: null counts as absent.
NullIsAbsent(value, type) ==
  IF value.type \in {"absent", "null"} THEN Accepted
  ELSE IF value.type # type THEN "RejectedInvalidFieldType"
  ELSE IF type = "integer" /\ value.n > MaxInt64 THEN "RejectedNumericOutOfRange"
  ELSE Accepted

\* ReadOptionalString, ReadOptionalBoolean and ReadOptionalInteger, and the tests of what
\* must be an array or an object.
ReadOptional(value, type) ==
  IF value = Absent THEN Accepted
  ELSE IF value.type # type THEN "RejectedInvalidFieldType"
  ELSE IF type = "integer" /\ value.n > MaxInt64 THEN "RejectedNumericOutOfRange"
  ELSE Accepted

Check(path, status) == [path |-> path, status |-> status]

\* Mutation: a later fault overwrites an earlier one.
LastFault(checks) ==
  Last(<<Check(NoPath, Accepted)>>
         \o SelectSeq(checks, LAMBDA check : check.status # Accepted))

\* The first of a sequence of checks that fails, an accepting one if none does.
FirstFault(checks) ==
  IF \A i \in DOMAIN checks : checks[i].status = Accepted THEN Check(NoPath, Accepted)
  ELSE checks[CHOOSE i \in DOMAIN checks :
                /\ checks[i].status # Accepted
                /\ \A j \in 1..(i - 1) : checks[j].status = Accepted]

MemberFaults(kind, key, element, i) ==
  [m \in DOMAIN Members[kind] |->
     LET member == Members[kind][m][1]
     IN  Check(At(key, i, member), ReadOptional(element.members[member], Members[kind][m][2]))]

\* Mutation: the path of an element counts from the next one.
ShiftedElementFault(kind, key, element, i) ==
  IF element.value.type # "object" THEN Check(At(key, i + 1, ""), "RejectedInvalidArrayElement")
  ELSE FirstFault(MemberFaults(kind, key, element, i))

\* DecodeEmotes and DecodeTopViewers: an element that is no object is rejected as a whole.
ElementFault(kind, key, element, i) ==
  IF element.value.type # "object" THEN Check(At(key, i, ""), "RejectedInvalidArrayElement")
  ELSE FirstFault(MemberFaults(kind, key, element, i))

\* A field; the elements of a list are read with the list.
FieldFault(kind, frame, field) ==
  LET value == frame.fields[field[1]]
      own == Check(At(field[1], 0, ""), ReadOptional(value, field[2]))
  IN  IF value = Absent \/ value.type # "array" \/ own.status # Accepted THEN own
      ELSE FirstFault([i \in DOMAIN frame.elements |->
                         ElementFault(kind, field[1], frame.elements[i], i)])

\* DecodeChat to DecodeRoomUser.
DataFault(kind, frame) ==
  FirstFault([i \in DOMAIN Contract[kind] |-> FieldFault(kind, frame, Contract[kind][i])])

\* The tests before the event is known by its name.
EnvelopeCheck(frame) ==
  CASE frame.text = "blank"        -> Check(NoPath, "RejectedEmptyFrame")
    [] frame.text = "malformed"    -> Check(NoPath, "RejectedMalformedJson")
    [] frame.text = "notObject"    -> Check(At("$", 0, ""), "RejectedRootNotObject")
    [] frame.event = "absent"      -> Check(At("event", 0, ""), "RejectedMissingEvent")
    [] frame.event \in {"notString", "empty"} ->
                                      Check(At("event", 0, ""), "RejectedInvalidEventName")
    [] frame.event = "unknown"     -> Check(NoPath, "IgnoredUnknownEvent")
    [] frame.data = "absent"       -> Check(At("data", 0, ""), "RejectedMissingData")
    [] frame.data = "notObject"    -> Check(At("data", 0, ""), "RejectedDataNotObject")
    [] OTHER                       -> Check(NoPath, Accepted)

\* The name is kept as soon as it is read, in rejected results too.
EventName(frame) ==
  IF frame.text = "object" /\ frame.event \in Kind \cup {"unknown"} THEN frame.event ELSE ""

\* What the structs of a kind hold after reading: the fields of the contract, and the
\* elements of the list.
ReadFields(kind, frame) ==
  [key \in Key |-> IF key \in Keys(Contract[kind]) THEN frame.fields[key] ELSE Absent]
ListKeys(kind) == {"emotes", "topViewers"} \cap Keys(Contract[kind])
ReadElements(kind, frame) ==
  IF \E key \in ListKeys(kind) : frame.fields[key].type = "array"
  THEN [i \in DOMAIN frame.elements |-> frame.elements[i].members] ELSE <<>>

\* Mutation: the user is set only where there is an identity.
MessageOfIdentified(kind, frame) ==
  [kind |-> kind, eventName |-> frame.event, hasData |-> TRUE,
   hasUser |-> kind # "roomUser" /\ frame.fields["uniqueId"] # Absent,
   fields |-> ReadFields(kind, frame), elements |-> ReadElements(kind, frame)]

\* The typed event: the struct of its kind, with its data and, unless it is roomUser, with
\* the common user, which is set whatever is known of it.
Message(kind, frame) ==
  [kind |-> kind, eventName |-> frame.event, hasData |-> TRUE,
   hasUser |-> kind # "roomUser",
   fields |-> ReadFields(kind, frame), elements |-> ReadElements(kind, frame)]
NoMessage ==
  [kind |-> "", eventName |-> "", hasData |-> FALSE, hasUser |-> FALSE,
   fields |-> [key \in Key |-> Absent], elements |-> <<>>]

Decode(frame) ==
  LET envelope == EnvelopeCheck(frame)
      found == IF envelope.status = Accepted THEN DataFault(frame.event, frame)
               ELSE envelope
  IN  [status |-> found.status, eventName |-> EventName(frame), errorPath |-> found.path,
       event |-> IF found.status = Accepted THEN Message(frame.event, frame) ELSE NoMessage]
==============================================================================
