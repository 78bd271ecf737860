--------------------------- MODULE TikFinityAdapter ---------------------------
(***************************************************************************)
(* The boundary of TikFinity: a frame is decoded, and a decoded event is   *)
(* converted to the input of its family, or refused as a whole. The sender *)
(* sees where a frame is wrong and sends it again, corrected there.        *)
(***************************************************************************)
EXTENDS TikFinityDecoder

CONSTANTS MaxInt32,        \* the largest signed 32-bit integer
          FramesReceived   \* frames as they are sent first, and as they were meant

ASSUME AdapterAssumption ==
  /\ MaxInt32 \in Nat
  /\ MaxInt32 < MaxInt64
  /\ FramesReceived \subseteq [sent : Frame, meant : Frame]
  /\ \A f \in FramesReceived : Len(f.sent.elements) <= Len(f.meant.elements)

VARIABLES frame,      \* the last frame received
          meant,      \* what its sender meant
          result,     \* FTSTikFinityJsonDecodeResult
          conversion  \* the result of the converter of its family

adapterVars == <<frame, meant, result, conversion>>
------------------------------------------------------------------------------
(* Conversion *)

\* Mutation: the width is not checked, so the cast wraps.
FitsAnyWidth(value) == value = Absent \/ value.n >= 0

\* TryConvertNumericField and its likes: an absent number has a default.
Fits(value) == value = Absent \/ value.n \in 0..MaxInt32

HasText(value) == value # Absent /\ value.n > 0

Need(status, holds) == Check(NoPath, IF holds THEN Accepted ELSE status)

UserNumbers == {"followRole", "topGifterRank", "gifterLevel", "teamMemberLevel"}

NumbersFit(m, keys) ==
  <<Need("RejectedInvalidNumericField", \A key \in keys : Fits(m.fields[key]))>>

\* The requirements of a family in order. All ask for their envelope and their data, all but
\* roomUser for a user who is somebody.
EnvelopeNeeds(m) ==
  <<Need("RejectedInvalidEnvelope", m.eventName # ""),
    Need("IgnoredOtherEvent", m.eventName = m.kind),
    Need("RejectedMissingData", m.hasData)>>

UserNeeds(m) ==
  EnvelopeNeeds(m) \o
    <<Need("RejectedMissingUser", m.hasUser),
      Need("RejectedMissingUserIdentity", HasText(m.fields["uniqueId"]))>>

FollowNeeds(m) == UserNeeds(m) \o NumbersFit(m, UserNumbers)
ShareNeeds(m) == UserNeeds(m) \o NumbersFit(m, UserNumbers)

ChatNeeds(m) ==
  UserNeeds(m)
    \o <<Need("RejectedEmptyContent", HasText(m.fields["comment"]) \/ m.elements # <<>>)>>
    \o NumbersFit(m, UserNumbers)
    \o <<Need("RejectedInvalidEmote",
              \A i \in DOMAIN m.elements : /\ HasText(m.elements[i]["emoteId"])
                                           /\ HasText(m.elements[i]["emoteImageUrl"]))>>

GiftNeeds(m) ==
  UserNeeds(m)
    \o <<Need("RejectedMissingGiftId", m.fields["giftId"] # Absent),
         Need("RejectedMissingGiftName", HasText(m.fields["giftName"])),
         Need("RejectedMissingDiamondCount", m.fields["diamondCount"] # Absent)>>
    \o NumbersFit(m, UserNumbers \cup {"giftId", "diamondCount", "repeatCount", "giftType"})

LikeNeeds(m) ==
  UserNeeds(m)
    \o <<Need("RejectedMissingLikeCount", m.fields["likeCount"] # Absent),
         Need("RejectedMissingTotalLikeCount", m.fields["totalLikeCount"] # Absent)>>
    \o NumbersFit(m, UserNumbers \cup {"likeCount", "totalLikeCount"})

MemberNeeds(m) ==
  UserNeeds(m)
    \o <<Need("RejectedMissingActionId", m.fields["actionId"] # Absent)>>
    \o NumbersFit(m, UserNumbers \cup {"actionId"})

ViewerNeeds(viewer) ==
  <<Need("RejectedMissingTopViewerCoinCount", viewer["coinCount"] # Absent),
    Need("RejectedMissingTopViewerUser", viewer["user"] # Absent),
    Need("RejectedMissingTopViewerIdentity", HasText(viewer["user.uniqueId"])),
    Need("RejectedInvalidNumericField",
         \A key \in {"coinCount", "user.gifterLevel", "user.teamMemberLevel"} :
           Fits(viewer[key]))>>

RoomUserNeeds(m) ==
  EnvelopeNeeds(m)
    \o <<Need("RejectedMissingViewerCount", m.fields["viewerCount"] # Absent)>>
    \o NumbersFit(m, {"viewerCount", "topGifterRank"})
    \o [i \in DOMAIN m.elements |-> FirstFault(ViewerNeeds(m.elements[i]))]

Needs(m) ==
  CASE m.kind = "chat"     -> ChatNeeds(m)
    [] m.kind = "gift"     -> GiftNeeds(m)
    [] m.kind = "like"     -> LikeNeeds(m)
    [] m.kind = "follow"   -> FollowNeeds(m)
    [] m.kind = "share"    -> ShareNeeds(m)
    [] m.kind = "member"   -> MemberNeeds(m)
    [] m.kind = "roomUser" -> RoomUserNeeds(m)

\* A static_cast to 32 bits.
Int32(n) == ((n + MaxInt32 + 1) % (2 * (MaxInt32 + 1))) - (MaxInt32 + 1)

\* The value of a field: its default where it is absent, a number in 32 bits.
Default(key) == IF key = "repeatCount" THEN 1 ELSE 0
Converted(key, value) ==
  IF value = Absent THEN Default(key)
  ELSE IF value.type = "integer" THEN Int32(value.n) ELSE value.n

Input(m) ==
  [kind |-> m.kind,
   fields |-> [key \in Key |-> Converted(key, m.fields[key])],
   elements |-> [i \in DOMAIN m.elements |->
                   [key \in MemberKey |-> Converted(key, m.elements[i][key])]]]
NoInput == [kind |-> "", fields |-> [key \in Key |-> 0], elements |-> <<>>]

\* The converter of the family: all or nothing.
Convert(m) ==
  IF m = NoMessage THEN [status |-> "NotDecoded", input |-> NoInput]
  ELSE LET need == FirstFault(Needs(m))
       IN  [status |-> need.status, input |-> IF need.status = Accepted THEN Input(m) ELSE NoInput]
------------------------------------------------------------------------------
(* Behaviour *)

\* A frame arrives: it is decoded, and converted if it is one of the seven.
Receive(next) ==
  /\ frame' = next
  /\ result' = Decode(frame')
  /\ conversion' = Convert(result'.event)
  /\ UNCHANGED meant

\* The sender corrects what the result names, and nothing else.
Corrected ==
  LET path == result.errorPath
  IN  CASE path.key \in {"", "$"} -> [frame EXCEPT !.text = meant.text]
        [] path.key = "event"     -> [frame EXCEPT !.event = meant.event]
        [] path.key = "data"      -> [frame EXCEPT !.data = meant.data]
        [] path.key \in {"emotes", "topViewers"} /\ path.index = 0 ->
             [frame EXCEPT !.fields[path.key] = meant.fields[path.key],
                           !.elements = meant.elements]
        [] path.index = 0         -> [frame EXCEPT !.fields[path.key] = meant.fields[path.key]]
        [] path.index > Len(frame.elements) -> frame
        [] path.member \in {"", "user"}     ->
             [frame EXCEPT !.elements[path.index] = meant.elements[path.index]]
        [] OTHER ->
             [frame EXCEPT !.elements[path.index].members[path.member] =
                meant.elements[path.index].members[path.member]]

IsRejected == result.status \notin {Accepted, "IgnoredUnknownEvent"}

SendAgain == IsRejected /\ Receive(Corrected)

AdapterInit ==
  /\ \E f \in FramesReceived : frame = f.sent /\ meant = f.meant
  /\ result = Decode(frame)
  /\ conversion = Convert(result.event)

AdapterSpec == AdapterInit /\ [][SendAgain]_adapterVars /\ WF_adapterVars(SendAgain)
------------------------------------------------------------------------------
(* Properties *)

\* Every field of the contract that is there has its type and its width. No order.
IsWellTyped(f) ==
  LET Good(value, type) ==
        value # Absent => value.type = type /\ (type = "integer" => value.n <= MaxInt64)
  IN  /\ \A i \in DOMAIN Contract[f.event] :
           Good(f.fields[Contract[f.event][i][1]], Contract[f.event][i][2])
      /\ (\E key \in ListKeys(f.event) : f.fields[key].type = "array") =>
           \A i \in DOMAIN f.elements :
             /\ f.elements[i].value.type = "object"
             /\ \A j \in DOMAIN Members[f.event] :
                  Good(f.elements[i].members[Members[f.event][j][1]], Members[f.event][j][2])

\* A frame is decoded exactly when it is one of the seven events and nothing in it has
\* another type than the contract says, wherever in the frame it is.
DecodesWellTyped ==
  result.status = Accepted <=>
    /\ frame.text = "object" /\ frame.event \in Kind /\ frame.data = "object"
    /\ IsWellTyped(frame)

\* Where a path is in the stable order of the contract.
Place(path) ==
  LET order == <<"", "$", "event", "data">>
                 \o [i \in DOMAIN Contract[meant.event] |-> Contract[meant.event][i][1]]
      members == <<"">> \o [i \in DOMAIN Members[meant.event] |-> Members[meant.event][i][1]]
  IN  <<CHOOSE i \in DOMAIN order : order[i] = path.key, path.index,
        CHOOSE i \in DOMAIN members : members[i] = path.member>>
IsBefore(p, q) ==
  \E i \in 1..3 : p[i] < q[i] /\ \A j \in 1..(i - 1) : p[j] = q[j]

\* What a rejection names is the first thing that is wrong: once it is corrected, the next
\* rejection, if any, is about something further on in the stable order.
CorrectionAdvances ==
  [][IsRejected' =>
       IsBefore(Place(result.errorPath), Place(result'.errorPath))]_adapterVars

\* A sender who corrects what he is told is understood in the end.
CorrectedIsDecoded == <>~IsRejected

\* The decoder leaves the converters only the requirements of their family to refuse for:
\* envelope, data and user of a decoded event are always there.
DecodedIsConvertible ==
  conversion.status \notin {"RejectedInvalidEnvelope", "IgnoredOtherEvent",
                            "RejectedMissingData", "RejectedMissingUser"}

\* An input that enters the queue says what the frame said: every number as it was sent
\* and not negative, no element lost, and nobody in it without identity.
InputSaysWhatWasSent ==
  conversion.status = Accepted =>
    LET input == conversion.input
        Same(sent, kept) == sent # Absent => kept = sent.n /\ kept >= 0
        listed == \E key \in ListKeys(input.kind) : frame.fields[key] # Absent
    IN  /\ input.kind = frame.event
        /\ \A i \in DOMAIN Contract[input.kind] :
             LET key == Contract[input.kind][i][1]
             IN  Same(frame.fields[key], input.fields[key])
        /\ input.kind # "roomUser" => input.fields["uniqueId"] > 0
        /\ Len(input.elements) = IF listed THEN Len(frame.elements) ELSE 0
        /\ \A i \in DOMAIN input.elements :
             /\ \A key \in Keys(Members[input.kind]) :
                  Same(frame.elements[i].members[key], input.elements[i][key])
             /\ IF input.kind = "chat"
                THEN input.elements[i]["emoteId"] > 0 /\ input.elements[i]["emoteImageUrl"] > 0
                ELSE input.elements[i]["user.uniqueId"] > 0
==============================================================================
