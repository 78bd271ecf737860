------------------------ MODULE TikFinityAdapterProofs ------------------------
(***************************************************************************)
(* The boundary of TikFinity, for every frame: what is decoded is what the *)
(* contract says, and what is converted is what was sent.                  *)
(***************************************************************************)
EXTENDS TikFinityAdapter, WellFoundedInduction, SequenceTheorems, TLAPS

\* All of a list of checks accept.
Passes(checks) == \A i \in DOMAIN checks : checks[i].status = Accepted
------------------------------------------------------------------------------
\* A list of checks of which one fails has a first one that does.
LEMMA FirstExists ==
  ASSUME NEW checks, NEW n \in Nat, DOMAIN checks = 1..n, ~Passes(checks)
  PROVE  \E i \in DOMAIN checks : /\ checks[i].status # Accepted
                                  /\ \A j \in 1..(i - 1) : checks[j].status = Accepted
<1> DEFINE faults == {i \in DOMAIN checks : checks[i].status # Accepted}
<1>1. faults # {} /\ faults \subseteq Nat
  BY DEF Passes
<1>2. PICK i \in faults : \A j \in faults : ~(<<j, i>> \in OpToRel(<, Nat))
  BY <1>1, NatLessThanWellFounded, WFMin
<1>3. \A j \in faults : ~(j < i)
  BY <1>1, <1>2 DEF OpToRel
<1> QED
  BY <1>3

\* FirstFault accepts if and only if every check does, and otherwise it is one of those
\* that do not, all checks before it accepting.
LEMMA FirstFaultProperties ==
  ASSUME NEW checks, NEW n \in Nat, DOMAIN checks = 1..n
  PROVE  /\ FirstFault(checks).status = Accepted <=> Passes(checks)
         /\ Passes(checks) => FirstFault(checks) = Check(NoPath, Accepted)
         /\ ~Passes(checks) =>
              \E i \in DOMAIN checks :
                /\ FirstFault(checks) = checks[i]
                /\ checks[i].status # Accepted
                /\ \A j \in 1..(i - 1) : checks[j].status = Accepted
<1>1. CASE Passes(checks)
  BY <1>1 DEF Passes, FirstFault, Check
<1>2. CASE ~Passes(checks)
  <2> DEFINE i == CHOOSE i \in DOMAIN checks :
                    /\ checks[i].status # Accepted
                    /\ \A j \in 1..(i - 1) : checks[j].status = Accepted
  <2>1. /\ i \in DOMAIN checks /\ checks[i].status # Accepted
        /\ \A j \in 1..(i - 1) : checks[j].status = Accepted
    BY <1>2, FirstExists
  <2>2. FirstFault(checks) = checks[i]
    BY <1>2 DEF Passes, FirstFault
  <2> HIDE DEF i
  <2> QED
    BY <1>2, <2>1, <2>2
<1> QED
  BY <1>1, <1>2
------------------------------------------------------------------------------
(* The contract *)

\* A list, of whatever it holds.
IsList(s) == s \in Seq(Range(s))

\* A list holds what its parts hold.
LEMMA RangeConcat ==
  ASSUME NEW s, NEW t, IsList(s), IsList(t)
  PROVE  IsList(s \o t) /\ Range(s \o t) = Range(s) \cup Range(t)
<1> DEFINE S == Range(s)
           T == Range(t)
<1>0. s \in Seq(S) /\ t \in Seq(T)
  BY DEF IsList
<1> HIDE DEF S, T
<1>1. /\ s \in Seq(S \cup T) /\ t \in Seq(S \cup T)
      /\ s \o t \in Seq(S \cup T)
  BY <1>0
<1>2. /\ DOMAIN (s \o t) = 1..(Len(s) + Len(t))
      /\ \A i \in 1..(Len(s) + Len(t)) :
           (s \o t)[i] = IF i <= Len(s) THEN s[i] ELSE t[i - Len(s)]
  BY <1>1
<1>3. DOMAIN s = 1..Len(s) /\ DOMAIN t = 1..Len(t) /\ Len(s) \in Nat /\ Len(t) \in Nat
  BY <1>0
<1>4. ASSUME NEW e \in Range(s \o t) PROVE e \in Range(s) \cup Range(t)
  <2>1. PICK i \in DOMAIN (s \o t) : e = (s \o t)[i]
    BY DEF Range
  <2>2. CASE i <= Len(s)
    BY <1>2, <1>3, <2>1, <2>2 DEF Range
  <2>3. CASE ~(i <= Len(s))
    <3>1. i - Len(s) \in DOMAIN t
      BY <1>2, <1>3, <2>3
    <3> QED
      BY <1>2, <2>1, <2>3, <3>1 DEF Range
  <2> QED
    BY <2>2, <2>3
<1>5. ASSUME NEW e \in Range(s) PROVE e \in Range(s \o t)
  <2>1. PICK i \in DOMAIN s : e = s[i]
    BY DEF Range
  <2>2. i \in DOMAIN (s \o t) /\ (s \o t)[i] = s[i]
    BY <1>2, <1>3
  <2> QED
    BY <2>1, <2>2 DEF Range
<1>6. ASSUME NEW e \in Range(t) PROVE e \in Range(s \o t)
  <2>1. PICK i \in DOMAIN t : e = t[i]
    BY DEF Range
  <2>2. i + Len(s) \in DOMAIN (s \o t) /\ (s \o t)[i + Len(s)] = t[i]
    BY <1>2, <1>3
  <2> QED
    BY <2>1, <2>2 DEF Range
<1>7. Range(s \o t) = Range(s) \cup Range(t)
  BY <1>4, <1>5, <1>6
<1> QED
  BY <1>1, <1>7 DEF S, T, IsList

\* What a list of one to ten fields holds.
LEMMA RangeLiteral ==
  /\ \A a1 : IsList(<<a1>>) /\ Range(<<a1>>) = {a1}
  /\ \A a1, a2 : IsList(<<a1, a2>>) /\ Range(<<a1, a2>>) = {a1, a2}
  /\ \A a1, a2, a3 : IsList(<<a1, a2, a3>>) /\ Range(<<a1, a2, a3>>) = {a1, a2, a3}
  /\ \A a1, a2, a3, a4, a5, a6, a7 :
       LET all == <<a1, a2, a3, a4, a5, a6, a7>>
       IN  IsList(all) /\ Range(all) = {a1, a2, a3, a4, a5, a6, a7}
  /\ \A a1, a2, a3, a4, a5, a6, a7, a8, a9 :
       LET all == <<a1, a2, a3, a4, a5, a6, a7, a8, a9>>
       IN  IsList(all) /\ Range(all) = {a1, a2, a3, a4, a5, a6, a7, a8, a9}
  /\ \A a1, a2, a3, a4, a5, a6, a7, a8, a9, a10 :
       LET all == <<a1, a2, a3, a4, a5, a6, a7, a8, a9, a10>>
       IN  IsList(all) /\ Range(all) = {a1, a2, a3, a4, a5, a6, a7, a8, a9, a10}
BY SMTT(60) DEF Range, IsList

LEMMA CommonUserHolds ==
  /\ IsList(CommonUser)
  /\ Range(CommonUser) =
       {<<"uniqueId", "string">>, <<"nickname", "string">>, <<"profilePictureUrl", "string">>,
        <<"followRole", "integer">>, <<"isModerator", "boolean">>,
        <<"isSubscriber", "boolean">>, <<"isNewGifter", "boolean">>,
        <<"topGifterRank", "integer">>, <<"gifterLevel", "integer">>,
        <<"teamMemberLevel", "integer">>}
BY RangeLiteral, SMT DEF CommonUser

LEMMA GiftFieldsHolds ==
  /\ IsList(GiftFields)
  /\ Range(GiftFields) =
       {<<"giftId", "integer">>, <<"giftName", "string">>, <<"giftPictureUrl", "string">>,
        <<"diamondCount", "integer">>, <<"repeatCount", "integer">>, <<"giftType", "integer">>,
        <<"describe", "string">>, <<"repeatEnd", "boolean">>, <<"groupId", "string">>}
BY RangeLiteral, SMT DEF GiftFields

\* The fields of each kind.
LEMMA ContractHolds ==
  /\ \A kind \in Kind : IsList(Contract[kind])
  /\ Range(Contract["chat"]) =
       {<<"comment", "string">>, <<"emotes", "array">>} \cup Range(CommonUser)
  /\ Range(Contract["gift"]) = Range(GiftFields) \cup Range(CommonUser)
  /\ Range(Contract["like"]) =
       {<<"likeCount", "integer">>, <<"totalLikeCount", "integer">>} \cup Range(CommonUser)
  /\ Range(Contract["member"]) = {<<"actionId", "integer">>} \cup Range(CommonUser)
  /\ \A kind \in {"follow", "share"} : Range(Contract[kind]) = Range(CommonUser)
  /\ Range(Contract["roomUser"]) =
       {<<"viewerCount", "integer">>, <<"topGifterRank", "integer">>,
        <<"topViewers", "array">>}
<1> DEFINE chat == <<<<"comment", "string">>, <<"emotes", "array">>>>
           like == <<<<"likeCount", "integer">>, <<"totalLikeCount", "integer">>>>
           member == <<<<"actionId", "integer">>>>
           roomUser == <<<<"viewerCount", "integer">>, <<"topGifterRank", "integer">>,
                         <<"topViewers", "array">>>>
<1>1. /\ IsList(chat) /\ Range(chat) = {<<"comment", "string">>, <<"emotes", "array">>}
      /\ IsList(like)
      /\ Range(like) = {<<"likeCount", "integer">>, <<"totalLikeCount", "integer">>}
  BY RangeLiteral, SMT
<1>2. /\ IsList(member) /\ Range(member) = {<<"actionId", "integer">>}
      /\ IsList(roomUser)
      /\ Range(roomUser) = {<<"viewerCount", "integer">>, <<"topGifterRank", "integer">>,
                            <<"topViewers", "array">>}
  BY RangeLiteral, SMT
<1>3. /\ Contract["chat"] = chat \o CommonUser /\ Contract["gift"] = GiftFields \o CommonUser
      /\ Contract["like"] = like \o CommonUser /\ Contract["member"] = member \o CommonUser
      /\ Contract["follow"] = CommonUser /\ Contract["share"] = CommonUser
      /\ Contract["roomUser"] = roomUser
  BY DEF Contract, Kind
<1> HIDE DEF chat, like, member, roomUser
<1>4. /\ IsList(chat \o CommonUser)
      /\ Range(chat \o CommonUser) = Range(chat) \cup Range(CommonUser)
  BY <1>1, CommonUserHolds, RangeConcat, Zenon
<1>5. /\ IsList(GiftFields \o CommonUser)
      /\ Range(GiftFields \o CommonUser) = Range(GiftFields) \cup Range(CommonUser)
  BY CommonUserHolds, GiftFieldsHolds, RangeConcat, Zenon
<1>6. /\ IsList(like \o CommonUser)
      /\ Range(like \o CommonUser) = Range(like) \cup Range(CommonUser)
  BY <1>1, CommonUserHolds, RangeConcat, Zenon
<1>7. /\ IsList(member \o CommonUser)
      /\ Range(member \o CommonUser) = Range(member) \cup Range(CommonUser)
  BY <1>2, CommonUserHolds, RangeConcat, Zenon
<1>8. ASSUME NEW kind \in Kind PROVE IsList(Contract[kind])
  BY <1>2, <1>3, <1>4, <1>5, <1>6, <1>7, <1>8, CommonUserHolds DEF Kind
<1>9. \A kind \in {"follow", "share"} : Range(Contract[kind]) = Range(CommonUser)
  BY <1>3
<1> QED
  BY <1>1, <1>2, <1>3, <1>4, <1>5, <1>6, <1>7, <1>8, <1>9, Zenon

\* The members of an element of a list.
LEMMA MembersHold ==
  /\ \A kind \in Kind : IsList(Members[kind])
  /\ Range(Members["chat"]) = {<<"emoteId", "string">>, <<"emoteImageUrl", "string">>}
  /\ \A kind \in Kind \ {"chat"} :
       Range(Members[kind]) =
         {<<"coinCount", "integer">>, <<"user", "object">>, <<"user.uniqueId", "string">>,
          <<"user.nickname", "string">>, <<"user.profilePictureUrl", "string">>,
          <<"user.isModerator", "boolean">>, <<"user.isSubscriber", "boolean">>,
          <<"user.gifterLevel", "integer">>, <<"user.teamMemberLevel", "integer">>}
<1> DEFINE viewer == <<<<"coinCount", "integer">>, <<"user", "object">>>>
<1>1. /\ IsList(EmoteMembers)
      /\ Range(EmoteMembers) = {<<"emoteId", "string">>, <<"emoteImageUrl", "string">>}
  BY RangeLiteral, SMT DEF EmoteMembers
<1>2. IsList(viewer) /\ Range(viewer) = {<<"coinCount", "integer">>, <<"user", "object">>}
  BY RangeLiteral, SMT
<1>3. /\ IsList(RoomUserViewerUser)
      /\ Range(RoomUserViewerUser) =
           {<<"user.uniqueId", "string">>, <<"user.nickname", "string">>,
            <<"user.profilePictureUrl", "string">>, <<"user.isModerator", "boolean">>,
            <<"user.isSubscriber", "boolean">>, <<"user.gifterLevel", "integer">>,
            <<"user.teamMemberLevel", "integer">>}
  BY RangeLiteral, SMT DEF RoomUserViewerUser
<1>4. TopViewerMembers = viewer \o RoomUserViewerUser
  BY DEF TopViewerMembers
<1> HIDE DEF viewer
<1>5. /\ IsList(viewer \o RoomUserViewerUser)
      /\ Range(viewer \o RoomUserViewerUser) = Range(viewer) \cup Range(RoomUserViewerUser)
  BY <1>2, <1>3, RangeConcat, Zenon
<1>6. \A kind \in Kind : Members[kind] = IF kind = "chat" THEN EmoteMembers ELSE TopViewerMembers
  BY DEF Members
<1>7. "chat" \in Kind
  BY DEF Kind
<1> QED
  BY <1>1, <1>2, <1>3, <1>4, <1>5, <1>6, <1>7

\* A list is a sequence of what it holds.
LEMMA ListProperties ==
  ASSUME NEW s, IsList(s)
  PROVE  /\ Len(s) \in Nat /\ DOMAIN s = 1..Len(s)
         /\ \A i \in DOMAIN s : s[i] \in Range(s) /\ s[i][1] \in Keys(s)
         /\ \A e \in Range(s) : \E i \in DOMAIN s : e = s[i]
         /\ Keys(s) = {e[1] : e \in Range(s)}
<1> DEFINE T == Range(s)
<1>1. s \in Seq(T)
  BY DEF IsList
<1> HIDE DEF T
<1>2. Len(s) \in Nat /\ DOMAIN s = 1..Len(s)
  BY <1>1
<1> QED
  BY <1>2, Zenon DEF Range, Keys

\* Every field has one of four types, and what is an array is a list of its kind.
LEMMA FieldTypes ==
  ASSUME NEW kind \in Kind, NEW e \in Range(Contract[kind])
  PROVE  /\ e[1] \in Key
         /\ e[2] \in {"string", "integer", "boolean", "array"}
         /\ e[2] = "array" <=> e[1] \in {"emotes", "topViewers"}
<1>1. e[1] \in Key
  BY ContractHolds, ListProperties DEF Key
<1>2. \A c \in Range(CommonUser) :
        c[2] \in {"string", "integer", "boolean"} /\ c[1] \notin {"emotes", "topViewers"}
  BY CommonUserHolds
<1>3. \A c \in Range(GiftFields) :
        c[2] \in {"string", "integer", "boolean"} /\ c[1] \notin {"emotes", "topViewers"}
  BY GiftFieldsHolds
<1>4. \/ e \in Range(CommonUser) \/ e \in Range(GiftFields)
      \/ e \in {<<"comment", "string">>, <<"emotes", "array">>}
      \/ e \in {<<"likeCount", "integer">>, <<"totalLikeCount", "integer">>}
      \/ e \in {<<"actionId", "integer">>}
      \/ e \in {<<"viewerCount", "integer">>, <<"topGifterRank", "integer">>,
                <<"topViewers", "array">>}
  BY ContractHolds DEF Kind
<1> QED
  BY <1>1, <1>2, <1>3, <1>4

\* Chat has emotes, roomUser viewers, and no other kind a list.
LEMMA ListOfKind ==
  /\ ListKeys("chat") = {"emotes"}
  /\ ListKeys("roomUser") = {"topViewers"}
  /\ \A kind \in Kind \ {"chat", "roomUser"} : ListKeys(kind) = {}
  /\ \A kind \in Kind : ListKeys(kind) \subseteq Key
<1>0. "chat" \in Kind /\ "roomUser" \in Kind
  BY DEF Kind
<1>1. \A kind \in Kind : Keys(Contract[kind]) = {e[1] : e \in Range(Contract[kind])}
  BY ContractHolds, ListProperties
<1>2. \A c \in Range(CommonUser) \cup Range(GiftFields) : c[1] \notin {"emotes", "topViewers"}
  BY CommonUserHolds, GiftFieldsHolds
<1>3. ListKeys("chat") = {"emotes"}
  <2>1. <<"emotes", "array">> \in Range(Contract["chat"])
    BY ContractHolds
  <2>2. \A e \in Range(Contract["chat"]) : e[1] # "topViewers"
    BY <1>2, ContractHolds
  <2>3. "emotes" \in Keys(Contract["chat"])
    BY <1>0, <1>1, <2>1
  <2>4. "topViewers" \notin Keys(Contract["chat"])
    BY <1>0, <1>1, <2>2
  <2> QED
    BY <2>3, <2>4 DEF ListKeys
<1>4. ListKeys("roomUser") = {"topViewers"}
  <2>1. <<"topViewers", "array">> \in Range(Contract["roomUser"])
    BY ContractHolds
  <2>2. \A e \in Range(Contract["roomUser"]) : e[1] # "emotes"
    BY ContractHolds
  <2>3. "topViewers" \in Keys(Contract["roomUser"])
    BY <1>0, <1>1, <2>1
  <2>4. "emotes" \notin Keys(Contract["roomUser"])
    BY <1>0, <1>1, <2>2
  <2> QED
    BY <2>3, <2>4 DEF ListKeys
<1>5. ASSUME NEW kind \in Kind \ {"chat", "roomUser"} PROVE ListKeys(kind) = {}
  <2>1. \A e \in Range(Contract[kind]) : e[1] \notin {"emotes", "topViewers"}
    BY <1>2, ContractHolds DEF Kind
  <2> QED
    BY <1>1, <2>1 DEF ListKeys
<1>6. \A kind \in Kind : ListKeys(kind) \subseteq Key
  BY DEF ListKeys, Key
<1> QED
  BY <1>3, <1>4, <1>5, <1>6
------------------------------------------------------------------------------
(* Decoding *)

\* A field is there with its type and its width, or absent.
WellTyped(value, type) ==
  value # Absent => value.type = type /\ (type = "integer" => value.n <= MaxInt64)

WellTypedElement(kind, element) ==
  /\ element.value.type = "object"
  /\ \A j \in DOMAIN Members[kind] :
       WellTyped(element.members[Members[kind][j][1]], Members[kind][j][2])

Element == [value : Value, members : [MemberKey -> Value]]

LEMMA ReadOptionalAccepts ==
  ASSUME NEW value \in Value, NEW type
  PROVE  ReadOptional(value, type) = Accepted <=> WellTyped(value, type)
<1>1. value.n \in Int
  BY DEF Value
<1> QED
  BY <1>1, DecoderAssumption DEF ReadOptional, WellTyped, Accepted

LEMMA MemberKeys ==
  ASSUME NEW kind \in Kind
  PROVE  \A j \in DOMAIN Members[kind] : Members[kind][j][1] \in MemberKey
BY DEF Members, MemberKey, Keys

\* An element is accepted if it is an object and its members are well typed.
LEMMA ElementAccepts ==
  ASSUME NEW kind \in Kind, NEW key, NEW element \in Element, NEW i
  PROVE  ElementFault(kind, key, element, i).status = Accepted
           <=> WellTypedElement(kind, element)
<1> DEFINE checks == MemberFaults(kind, key, element, i)
<1>1. PICK n \in Nat : DOMAIN Members[kind] = 1..n
  BY MembersHold, ListProperties
<1>2. DOMAIN checks = 1..n
  BY <1>1 DEF MemberFaults
<1>3. \A j \in DOMAIN Members[kind] :
        checks[j].status = Accepted
          <=> WellTyped(element.members[Members[kind][j][1]], Members[kind][j][2])
  BY MemberKeys, ReadOptionalAccepts DEF MemberFaults, Check, Element
<1>4. FirstFault(checks).status = Accepted <=> Passes(checks)
  BY <1>2, FirstFaultProperties
<1> QED
  BY <1>1, <1>2, <1>3, <1>4 DEF ElementFault, WellTypedElement, Passes, Check, Accepted

\* A field is accepted if it is well typed and, if it is a list, its elements are.
LEMMA FieldAccepts ==
  ASSUME NEW kind \in Kind, NEW f \in Frame, NEW e \in Range(Contract[kind])
  PROVE  FieldFault(kind, f, e).status = Accepted
           <=> /\ WellTyped(f.fields[e[1]], e[2])
               /\ f.fields[e[1]].type = "array" =>
                    \A i \in DOMAIN f.elements : WellTypedElement(kind, f.elements[i])
<1> DEFINE value == f.fields[e[1]]
           own == Check(At(e[1], 0, ""), ReadOptional(value, e[2]))
           checks == [i \in DOMAIN f.elements |-> ElementFault(kind, e[1], f.elements[i], i)]
<1>1. f.fields \in [Key -> Value] /\ f.elements \in Seq(Element)
  BY DEF Frame, Element
<1>2. value \in Value
  BY <1>1, FieldTypes
<1>3. own.status = Accepted <=> WellTyped(value, e[2])
  BY <1>2, ReadOptionalAccepts DEF Check
<1>4. PICK n \in Nat : DOMAIN f.elements = 1..n
  BY <1>1
<1>5. \A i \in DOMAIN f.elements : f.elements[i] \in Element
  BY <1>1
<1>6. FirstFault(checks).status = Accepted
        <=> \A i \in DOMAIN f.elements : WellTypedElement(kind, f.elements[i])
  <2>1. FirstFault(checks).status = Accepted <=> Passes(checks)
    BY <1>4, FirstFaultProperties
  <2>2. \A i \in DOMAIN f.elements :
          checks[i].status = Accepted <=> WellTypedElement(kind, f.elements[i])
    BY <1>5, ElementAccepts
  <2> QED
    BY <2>1, <2>2 DEF Passes
<1>7. FieldFault(kind, f, e) =
        IF value = Absent \/ value.type # "array" \/ own.status # Accepted THEN own
        ELSE FirstFault(checks)
  BY DEF FieldFault
<1>8. Absent.type # "array"
  BY DEF Absent
<1> HIDE DEF value, own, checks
<1>9. /\ FieldFault(kind, f, e).status = Accepted
           <=> /\ WellTyped(value, e[2])
               /\ value.type = "array" =>
                    \A i \in DOMAIN f.elements : WellTypedElement(kind, f.elements[i])
  BY <1>3, <1>6, <1>7, <1>8
<1> QED
  BY <1>9 DEF value

\* The event of a frame is read without fault exactly when the frame is well typed.
LEMMA DataAccepts ==
  ASSUME NEW f \in Frame, f.event \in Kind
  PROVE  DataFault(f.event, f).status = Accepted <=> IsWellTyped(f)
<1> DEFINE kind == f.event
           contract == Contract[kind]
           checks == [i \in DOMAIN contract |-> FieldFault(kind, f, contract[i])]
           elements == \A i \in DOMAIN f.elements : WellTypedElement(kind, f.elements[i])
<1>1. PICK n \in Nat : DOMAIN contract = 1..n
  BY ContractHolds, ListProperties
<1>2. \A i \in DOMAIN contract : contract[i] \in Range(contract)
  BY ContractHolds, ListProperties
<1>3. FirstFault(checks).status = Accepted <=> Passes(checks)
  BY <1>1, FirstFaultProperties
<1>4. ASSUME NEW i \in DOMAIN contract
      PROVE  checks[i].status = Accepted
               <=> /\ WellTyped(f.fields[contract[i][1]], contract[i][2])
                   /\ f.fields[contract[i][1]].type = "array" => elements
  BY <1>2, FieldAccepts
<1>5. IsWellTyped(f) <=>
        /\ \A i \in DOMAIN contract : WellTyped(f.fields[contract[i][1]], contract[i][2])
        /\ (\E key \in ListKeys(kind) : f.fields[key].type = "array") => elements
  BY DEF IsWellTyped, WellTyped, WellTypedElement
<1>6. ASSUME NEW i \in DOMAIN contract, f.fields[contract[i][1]].type = "array",
             WellTyped(f.fields[contract[i][1]], contract[i][2])
      PROVE  contract[i][1] \in ListKeys(kind)
  <2>1. contract[i][2] = "array"
    BY <1>6 DEF WellTyped, Absent
  <2>2. contract[i][1] \in {"emotes", "topViewers"} /\ contract[i][1] \in Keys(contract)
    BY <1>2, <2>1, FieldTypes, ContractHolds, ListProperties
  <2> QED
    BY <2>2 DEF ListKeys
<1>7. \A key \in ListKeys(kind) : \E i \in DOMAIN contract : contract[i][1] = key
  BY DEF ListKeys, Keys
<1>8. DataFault(kind, f) = FirstFault(checks)
  BY DEF DataFault
<1> HIDE DEF checks, elements, contract
<1>9. Passes(checks) <=> \A i \in DOMAIN contract : checks[i].status = Accepted
  <2>1. DOMAIN checks = DOMAIN contract
    BY DEF checks
  <2> QED
    BY <2>1 DEF Passes
<1>10. Passes(checks) <=> IsWellTyped(f)
  BY <1>4, <1>5, <1>6, <1>7, <1>9
<1> QED
  BY <1>3, <1>8, <1>10

\* What is decoded, and what its message then is.
LEMMA DecodeAccepts ==
  ASSUME NEW f \in Frame
  PROVE  /\ Decode(f).status = Accepted
              <=> /\ f.text = "object" /\ f.event \in Kind /\ f.data = "object"
                  /\ IsWellTyped(f)
         /\ Decode(f).event = IF Decode(f).status = Accepted THEN Message(f.event, f)
                              ELSE NoMessage
<1>1. /\ f.text \in {"blank", "malformed", "notObject", "object"}
      /\ f.event \in {"absent", "notString", "empty", "unknown"} \cup Kind
      /\ f.data \in {"absent", "notObject", "object"}
  BY DEF Frame
<1>2. EnvelopeCheck(f).status = Accepted
        <=> f.text = "object" /\ f.event \in Kind /\ f.data = "object"
  BY <1>1 DEF EnvelopeCheck, Check, Accepted, Kind
<1>3. Decode(f).status = IF EnvelopeCheck(f).status = Accepted THEN DataFault(f.event, f).status
                         ELSE EnvelopeCheck(f).status
  BY DEF Decode
<1>4. Decode(f).status = Accepted
        <=> EnvelopeCheck(f).status = Accepted /\ IsWellTyped(f)
  BY <1>2, <1>3, DataAccepts
<1>5. Decode(f).event = IF Decode(f).status = Accepted THEN Message(f.event, f) ELSE NoMessage
  BY DEF Decode
<1> QED
  BY <1>2, <1>4, <1>5
------------------------------------------------------------------------------
(* The exchange with the sender *)

\* A frame keeps its form however it is corrected, and result and conversion are those of
\* the frame.
AdapterInv ==
  /\ frame \in Frame /\ meant \in Frame
  /\ Len(frame.elements) <= Len(meant.elements)
  /\ result = Decode(frame)
  /\ conversion = Convert(result.event)

\* A frame with another part of the form of that part is a frame.
LEMMA FrameParts ==
  ASSUME NEW f \in Frame
  PROVE  /\ \A text \in {"blank", "malformed", "notObject", "object"} :
              /\ [f EXCEPT !.text = text] \in Frame
              /\ [f EXCEPT !.text = text].elements = f.elements
         /\ \A event \in {"absent", "notString", "empty", "unknown"} \cup Kind :
              /\ [f EXCEPT !.event = event] \in Frame
              /\ [f EXCEPT !.event = event].elements = f.elements
         /\ \A data \in {"absent", "notObject", "object"} :
              /\ [f EXCEPT !.data = data] \in Frame
              /\ [f EXCEPT !.data = data].elements = f.elements
         /\ \A fields \in [Key -> Value] :
              /\ [f EXCEPT !.fields = fields] \in Frame
              /\ [f EXCEPT !.fields = fields].elements = f.elements
         /\ \A elements \in Seq(Element) :
              /\ [f EXCEPT !.elements = elements] \in Frame
              /\ [f EXCEPT !.elements = elements].elements = elements
BY DEF Frame, Element

\* A function on as many indices is a list of as many elements.
LEMMA ListOfLength ==
  ASSUME NEW T, NEW n \in Nat, NEW s \in [1..n -> T]
  PROVE  s \in Seq(T) /\ Len(s) = n
OBVIOUS

LEMMA CorrectedIsFrame ==
  ASSUME frame \in Frame, meant \in Frame, Len(frame.elements) <= Len(meant.elements)
  PROVE  Corrected \in Frame /\ Len(Corrected.elements) <= Len(meant.elements)
<1> DEFINE path == result.errorPath
           fields == [frame.fields EXCEPT ![path.key] = meant.fields[path.key]]
           element == [frame.elements EXCEPT ![path.index] = meant.elements[path.index]]
           member == [frame.elements EXCEPT ![path.index].members[path.member] =
                        meant.elements[path.index].members[path.member]]
<1>1. /\ meant.text \in {"blank", "malformed", "notObject", "object"}
      /\ meant.event \in {"absent", "notString", "empty", "unknown"} \cup Kind
      /\ meant.data \in {"absent", "notObject", "object"}
      /\ frame.fields \in [Key -> Value] /\ meant.fields \in [Key -> Value]
      /\ frame.elements \in Seq(Element) /\ meant.elements \in Seq(Element)
  BY DEF Frame, Element
<1>2. fields \in [Key -> Value]
  BY <1>1
<1>3. element \in Seq(Element) /\ Len(element) = Len(frame.elements)
  <2>1. path.index \in DOMAIN frame.elements => meant.elements[path.index] \in Element
    BY <1>1
  <2>2. /\ frame.elements \in [1..Len(frame.elements) -> Element]
        /\ Len(frame.elements) \in Nat
    BY <1>1
  <2>3. element \in [1..Len(frame.elements) -> Element]
    BY <2>1, <2>2
  <2> HIDE DEF element
  <2> QED
    BY <2>2, <2>3, ListOfLength, Zenon
<1>4. member \in Seq(Element) /\ Len(member) = Len(frame.elements)
  <2> DEFINE old == frame.elements[path.index]
             new == [old EXCEPT !.members[path.member] =
                       meant.elements[path.index].members[path.member]]
  <2>1. ASSUME path.index \in DOMAIN frame.elements PROVE new \in Element
    <3>1. old \in Element /\ meant.elements[path.index] \in Element
      BY <1>1, <2>1
    <3>2. /\ old.members \in [MemberKey -> Value]
          /\ meant.elements[path.index].members \in [MemberKey -> Value]
      BY <3>1 DEF Element
    <3>3. [old.members EXCEPT ![path.member] =
             meant.elements[path.index].members[path.member]] \in [MemberKey -> Value]
      BY <3>2
    <3> QED
      BY <3>1, <3>3 DEF Element
  <2>2. /\ frame.elements \in [1..Len(frame.elements) -> Element]
        /\ Len(frame.elements) \in Nat
    BY <1>1
  <2>3. member = [frame.elements EXCEPT ![path.index] = new]
    OBVIOUS
  <2> HIDE DEF new, member
  <2>4. member \in [1..Len(frame.elements) -> Element]
    BY <2>1, <2>2, <2>3
  <2> QED
    BY <2>2, <2>4, ListOfLength, Zenon
<1> DEFINE ofText == [frame EXCEPT !.text = meant.text]
           ofEvent == [frame EXCEPT !.event = meant.event]
           ofData == [frame EXCEPT !.data = meant.data]
           ofList == [frame EXCEPT !.fields[path.key] = meant.fields[path.key],
                                   !.elements = meant.elements]
           ofField == [frame EXCEPT !.fields[path.key] = meant.fields[path.key]]
           ofElement == [frame EXCEPT !.elements[path.index] = meant.elements[path.index]]
           ofMember == [frame EXCEPT !.elements[path.index].members[path.member] =
                          meant.elements[path.index].members[path.member]]
<1>5. Corrected \in {frame, ofText, ofEvent, ofData, ofList, ofField, ofElement, ofMember}
  <2>1. Corrected =
          CASE path.key \in {"", "$"} -> ofText
            [] path.key = "event"     -> ofEvent
            [] path.key = "data"      -> ofData
            [] path.key \in {"emotes", "topViewers"} /\ path.index = 0 -> ofList
            [] path.index = 0         -> ofField
            [] path.index > Len(frame.elements) -> frame
            [] path.member \in {"", "user"} -> ofElement
            [] OTHER -> ofMember
    BY DEF Corrected
  <2> HIDE DEF path, ofText, ofEvent, ofData, ofList, ofField, ofElement, ofMember
  <2> QED
    BY <2>1, Zenon
<1>6. /\ ofField = [frame EXCEPT !.fields = fields]
      /\ ofList = [ofField EXCEPT !.elements = meant.elements]
      /\ ofElement = [frame EXCEPT !.elements = element]
      /\ ofMember = [frame EXCEPT !.elements = member]
  OBVIOUS
<1> HIDE DEF path, fields, element, member, ofText, ofEvent, ofData, ofList, ofField, ofElement,
             ofMember
<1>7. ofText \in Frame /\ ofText.elements = frame.elements
  BY <1>1, FrameParts DEF ofText
<1>8. ofEvent \in Frame /\ ofEvent.elements = frame.elements
  BY <1>1, FrameParts DEF ofEvent
<1>9. ofData \in Frame /\ ofData.elements = frame.elements
  BY <1>1, FrameParts DEF ofData
<1>10. ofField \in Frame /\ ofField.elements = frame.elements
  BY <1>2, <1>6, FrameParts
<1>11. ofList \in Frame /\ ofList.elements = meant.elements
  BY <1>1, <1>6, <1>10, FrameParts
<1>12. ofElement \in Frame /\ ofElement.elements = element
  BY <1>3, <1>6, FrameParts
<1>13. ofMember \in Frame /\ ofMember.elements = member
  BY <1>4, <1>6, FrameParts
<1>14. Len(meant.elements) <= Len(meant.elements)
  BY <1>1
<1> QED
  BY <1>3, <1>4, <1>5, <1>7, <1>8, <1>9, <1>10, <1>11, <1>12, <1>13, <1>14

\* THEOREM. The invariant of the exchange with a sender, whatever he meant.
THEOREM ExchangeConsistent == AdapterSpec => []AdapterInv
<1>1. AdapterInit => AdapterInv
  <2> SUFFICES ASSUME AdapterInit PROVE AdapterInv
    OBVIOUS
  <2>1. PICK f \in FramesReceived : frame = f.sent /\ meant = f.meant
    BY DEF AdapterInit
  <2>2. frame \in Frame /\ meant \in Frame /\ Len(frame.elements) <= Len(meant.elements)
    BY <2>1, AdapterAssumption
  <2> QED
    BY <2>2 DEF AdapterInit, AdapterInv
<1>2. AdapterInv /\ [SendAgain]_adapterVars => AdapterInv'
  <2> SUFFICES ASSUME AdapterInv, [SendAgain]_adapterVars PROVE AdapterInv'
    OBVIOUS
  <2>1. CASE SendAgain
    <3>1. frame' = Corrected /\ meant' = meant
      BY <2>1 DEF SendAgain, Receive
    <3>2. result' = Decode(frame') /\ conversion' = Convert(result'.event)
      BY <2>1 DEF SendAgain, Receive
    <3>3. frame' \in Frame /\ Len(frame'.elements) <= Len(meant.elements)
      BY <3>1, CorrectedIsFrame DEF AdapterInv
    <3> QED
      BY <3>1, <3>2, <3>3 DEF AdapterInv
  <2>2. CASE UNCHANGED adapterVars
    BY <2>2 DEF AdapterInv, adapterVars
  <2> QED
    BY <2>1, <2>2
<1> QED
  BY <1>1, <1>2, PTL DEF AdapterSpec

\* THEOREM. A frame is decoded exactly when it is one of the seven events and nothing in it
\* has another type or width than the contract says: FTSTikFinityJsonEventDecoder::Decode.
THEOREM DecodesExactlyWellTyped == AdapterSpec => []DecodesWellTyped
<1>1. AdapterInv => DecodesWellTyped
  BY DecodeAccepts DEF AdapterInv, DecodesWellTyped
<1> QED
  BY <1>1, ExchangeConsistent, PTL
------------------------------------------------------------------------------
(* Conversion *)

\* What a decoded event never fails for.
OfEnvelope ==
  {"RejectedInvalidEnvelope", "IgnoredOtherEvent", "RejectedMissingData", "RejectedMissingUser"}

Avoids(checks) == \A i \in DOMAIN checks : checks[i].status \notin OfEnvelope

LEMMA RequirementsConcat ==
  ASSUME NEW s, NEW t, IsList(s), IsList(t)
  PROVE  /\ IsList(s \o t)
         /\ Passes(s \o t) <=> Passes(s) /\ Passes(t)
         /\ Avoids(s \o t) <=> Avoids(s) /\ Avoids(t)
<1>1. IsList(s \o t) /\ Range(s \o t) = Range(s) \cup Range(t)
  BY RangeConcat
<1>2. ASSUME NEW u, IsList(u)
      PROVE  /\ Passes(u) <=> \A c \in Range(u) : c.status = Accepted
             /\ Avoids(u) <=> \A c \in Range(u) : c.status \notin OfEnvelope
  BY <1>2, ListProperties DEF Passes, Avoids
<1> QED
  BY <1>1, <1>2

LEMMA RequirementsLiteral ==
  /\ \A a1 : /\ IsList(<<a1>>)
             /\ Passes(<<a1>>) <=> a1.status = Accepted
             /\ Avoids(<<a1>>) <=> a1.status \notin OfEnvelope
  /\ \A a1, a2 : /\ IsList(<<a1, a2>>)
                 /\ Passes(<<a1, a2>>) <=> a1.status = Accepted /\ a2.status = Accepted
                 /\ Avoids(<<a1, a2>>)
                      <=> a1.status \notin OfEnvelope /\ a2.status \notin OfEnvelope
  /\ \A a1, a2, a3 : /\ IsList(<<a1, a2, a3>>)
                     /\ Passes(<<a1, a2, a3>>) <=> /\ a1.status = Accepted
                                                   /\ a2.status = Accepted
                                                   /\ a3.status = Accepted
                     /\ Avoids(<<a1, a2, a3>>) <=> /\ a1.status \notin OfEnvelope
                                                   /\ a2.status \notin OfEnvelope
                                                   /\ a3.status \notin OfEnvelope
<1>1. \A a1 : /\ DOMAIN <<a1>> = {1} /\ <<a1>>[1] = a1
  OBVIOUS
<1>2. \A a1, a2 : /\ DOMAIN <<a1, a2>> = {1, 2} /\ <<a1, a2>>[1] = a1 /\ <<a1, a2>>[2] = a2
  OBVIOUS
<1>3. \A a1, a2, a3 : /\ DOMAIN <<a1, a2, a3>> = {1, 2, 3} /\ <<a1, a2, a3>>[1] = a1
                      /\ <<a1, a2, a3>>[2] = a2 /\ <<a1, a2, a3>>[3] = a3
  OBVIOUS
<1> QED
  BY <1>1, <1>2, <1>3, RangeLiteral DEF Passes, Avoids

\* What a decoded event is for its converter.
IsMessage(m) ==
  /\ m.kind \in Kind /\ m.eventName = m.kind /\ m.hasData = TRUE
  /\ m.kind # "roomUser" => m.hasUser = TRUE
  /\ m.elements \in Seq([MemberKey -> Value])

LEMMA EnvelopeAsks ==
  ASSUME NEW m, IsMessage(m)
  PROVE  IsList(EnvelopeNeeds(m)) /\ Passes(EnvelopeNeeds(m)) /\ Avoids(EnvelopeNeeds(m))
<1>1. m.eventName # "" /\ m.eventName = m.kind /\ m.hasData = TRUE
  BY Zenon DEF IsMessage, Kind
<1>2. EnvelopeNeeds(m) =
        <<Check(NoPath, Accepted), Check(NoPath, Accepted), Check(NoPath, Accepted)>>
  BY <1>1, Zenon DEF EnvelopeNeeds, Need
<1>3. Check(NoPath, Accepted).status = Accepted /\ Accepted \notin OfEnvelope
  BY DEF Check, OfEnvelope, Accepted
<1> QED
  BY <1>2, <1>3, RequirementsLiteral

LEMMA UserAsks ==
  ASSUME NEW m, IsMessage(m), m.kind # "roomUser"
  PROVE  /\ IsList(UserNeeds(m)) /\ Avoids(UserNeeds(m))
         /\ Passes(UserNeeds(m)) <=> HasText(m.fields["uniqueId"])
<1> DEFINE identity == Need("RejectedMissingUserIdentity", HasText(m.fields["uniqueId"]))
           user == <<Need("RejectedMissingUser", m.hasUser), identity>>
<1>1. Need("RejectedMissingUser", m.hasUser).status = Accepted
  BY DEF IsMessage, Need, Check
<1>2. /\ identity.status = Accepted <=> HasText(m.fields["uniqueId"])
      /\ identity.status \notin OfEnvelope
  BY DEF Need, Check, OfEnvelope, Accepted
<1>3. UserNeeds(m) = EnvelopeNeeds(m) \o user
  BY DEF UserNeeds
<1>4. Accepted \notin OfEnvelope
  BY DEF OfEnvelope, Accepted
<1>5. /\ IsList(user) /\ Avoids(user)
      /\ Passes(user) <=> HasText(m.fields["uniqueId"])
  <2> HIDE DEF identity
  <2> QED
    BY <1>1, <1>2, <1>4, RequirementsLiteral
<1> HIDE DEF user
<1> QED
  BY <1>3, <1>5, EnvelopeAsks, RequirementsConcat

LEMMA NumbersAsk ==
  ASSUME NEW m, NEW keys
  PROVE  /\ IsList(NumbersFit(m, keys)) /\ Avoids(NumbersFit(m, keys))
         /\ Passes(NumbersFit(m, keys)) <=> \A key \in keys : Fits(m.fields[key])
<1> DEFINE fit == Need("RejectedInvalidNumericField", \A key \in keys : Fits(m.fields[key]))
<1>1. /\ fit.status = Accepted <=> \A key \in keys : Fits(m.fields[key])
      /\ fit.status \notin OfEnvelope
  BY DEF Need, Check, OfEnvelope, Accepted
<1>2. NumbersFit(m, keys) = <<fit>>
  BY DEF NumbersFit
<1> HIDE DEF fit
<1> QED
  BY <1>1, <1>2, RequirementsLiteral

\* What the family of each event asks: of follow and share nothing but the user.
LEMMA FollowAsks ==
  ASSUME NEW m, IsMessage(m), m.kind \in {"follow", "share"}
  PROVE  /\ IsList(Needs(m)) /\ Avoids(Needs(m))
         /\ Passes(Needs(m)) => /\ HasText(m.fields["uniqueId"])
                                /\ \A key \in UserNumbers : Fits(m.fields[key])
<1>1. Needs(m) = UserNeeds(m) \o NumbersFit(m, UserNumbers)
  BY DEF Needs, FollowNeeds, ShareNeeds
<1> QED
  BY <1>1, UserAsks, NumbersAsk, RequirementsConcat

LEMMA ChatAsks ==
  ASSUME NEW m, IsMessage(m), m.kind = "chat"
  PROVE  /\ IsList(Needs(m)) /\ Avoids(Needs(m))
         /\ Passes(Needs(m)) =>
              /\ HasText(m.fields["uniqueId"])
              /\ \A key \in UserNumbers : Fits(m.fields[key])
              /\ \A i \in DOMAIN m.elements : /\ HasText(m.elements[i]["emoteId"])
                                              /\ HasText(m.elements[i]["emoteImageUrl"])
<1> DEFINE all == \A i \in DOMAIN m.elements : /\ HasText(m.elements[i]["emoteId"])
                                               /\ HasText(m.elements[i]["emoteImageUrl"])
           content == Need("RejectedEmptyContent",
                           HasText(m.fields["comment"]) \/ m.elements # <<>>)
           emotes == Need("RejectedInvalidEmote", all)
           numbers == NumbersFit(m, UserNumbers)
<1>1. content.status \notin OfEnvelope
  BY DEF Need, Check, OfEnvelope, Accepted
<1>2. emotes.status \notin OfEnvelope /\ (emotes.status = Accepted <=> all)
  BY DEF Need, Check, OfEnvelope, Accepted
<1>3. Needs(m) = UserNeeds(m) \o <<content>> \o numbers \o <<emotes>>
  BY DEF Needs, ChatNeeds
<1> HIDE DEF content, emotes, all
<1>4. /\ IsList(<<content>>) /\ Avoids(<<content>>) /\ IsList(<<emotes>>) /\ Avoids(<<emotes>>)
      /\ Passes(<<emotes>>) <=> all
  BY <1>1, <1>2, RequirementsLiteral
<1>5. /\ IsList(numbers) /\ Avoids(numbers)
      /\ Passes(numbers) <=> \A key \in UserNumbers : Fits(m.fields[key])
  BY NumbersAsk
<1> HIDE DEF numbers
<1> DEFINE first == UserNeeds(m) \o <<content>>
           most == first \o numbers
<1>6. /\ IsList(first) /\ Avoids(first)
      /\ Passes(first) => HasText(m.fields["uniqueId"])
  BY <1>4, UserAsks, RequirementsConcat
<1> HIDE DEF first
<1>7. /\ IsList(most) /\ Avoids(most)
      /\ Passes(most) => Passes(first) /\ Passes(numbers)
  BY <1>5, <1>6, RequirementsConcat
<1>8. Needs(m) = most \o <<emotes>>
  BY <1>3 DEF first
<1> HIDE DEF most
<1>9. /\ IsList(Needs(m)) /\ Avoids(Needs(m))
      /\ Passes(Needs(m)) => Passes(most) /\ Passes(<<emotes>>)
  BY <1>4, <1>7, <1>8, RequirementsConcat
<1> QED
  BY <1>4, <1>5, <1>6, <1>7, <1>9 DEF all

\* Gift, like and member ask for fields of their own that are there, and for their numbers.
LEMMA OwnFieldsAsk ==
  ASSUME NEW m, IsMessage(m), m.kind # "roomUser", NEW own, IsList(own), Avoids(own),
         NEW keys, Needs(m) = UserNeeds(m) \o own \o NumbersFit(m, keys)
  PROVE  /\ IsList(Needs(m)) /\ Avoids(Needs(m))
         /\ Passes(Needs(m)) => /\ HasText(m.fields["uniqueId"])
                                /\ \A key \in keys : Fits(m.fields[key])
<1>1. /\ IsList(UserNeeds(m) \o own) /\ Avoids(UserNeeds(m) \o own)
      /\ Passes(UserNeeds(m) \o own) => HasText(m.fields["uniqueId"])
  BY UserAsks, RequirementsConcat
<1> QED
  BY <1>1, NumbersAsk, RequirementsConcat

LEMMA GiftAsks ==
  ASSUME NEW m, IsMessage(m), m.kind = "gift"
  PROVE  /\ IsList(Needs(m)) /\ Avoids(Needs(m))
         /\ Passes(Needs(m)) =>
              /\ HasText(m.fields["uniqueId"])
              /\ \A key \in UserNumbers \cup {"giftId", "diamondCount", "repeatCount", "giftType"} :
                   Fits(m.fields[key])
<1> DEFINE id == Need("RejectedMissingGiftId", m.fields["giftId"] # Absent)
           name == Need("RejectedMissingGiftName", HasText(m.fields["giftName"]))
           count == Need("RejectedMissingDiamondCount", m.fields["diamondCount"] # Absent)
           keys == UserNumbers \cup {"giftId", "diamondCount", "repeatCount", "giftType"}
<1>1. id.status \notin OfEnvelope /\ name.status \notin OfEnvelope /\ count.status \notin OfEnvelope
  BY DEF Need, Check, OfEnvelope, Accepted
<1>2. Needs(m) = UserNeeds(m) \o <<id, name, count>> \o NumbersFit(m, keys)
  BY DEF Needs, GiftNeeds
<1> HIDE DEF id, name, count, keys
<1>3. IsList(<<id, name, count>>) /\ Avoids(<<id, name, count>>)
  BY <1>1, RequirementsLiteral
<1>4. /\ IsList(Needs(m)) /\ Avoids(Needs(m))
      /\ Passes(Needs(m)) => /\ HasText(m.fields["uniqueId"])
                             /\ \A key \in keys : Fits(m.fields[key])
  BY <1>2, <1>3, OwnFieldsAsk
<1> QED
  BY <1>4 DEF keys

LEMMA LikeAsks ==
  ASSUME NEW m, IsMessage(m), m.kind = "like"
  PROVE  /\ IsList(Needs(m)) /\ Avoids(Needs(m))
         /\ Passes(Needs(m)) =>
              /\ HasText(m.fields["uniqueId"])
              /\ \A key \in UserNumbers \cup {"likeCount", "totalLikeCount"} :
                   Fits(m.fields[key])
<1> DEFINE likes == Need("RejectedMissingLikeCount", m.fields["likeCount"] # Absent)
           total == Need("RejectedMissingTotalLikeCount", m.fields["totalLikeCount"] # Absent)
           keys == UserNumbers \cup {"likeCount", "totalLikeCount"}
<1>1. likes.status \notin OfEnvelope /\ total.status \notin OfEnvelope
  BY DEF Need, Check, OfEnvelope, Accepted
<1>2. Needs(m) = UserNeeds(m) \o <<likes, total>> \o NumbersFit(m, keys)
  BY DEF Needs, LikeNeeds
<1> HIDE DEF likes, total, keys
<1>3. IsList(<<likes, total>>) /\ Avoids(<<likes, total>>)
  BY <1>1, RequirementsLiteral
<1>4. /\ IsList(Needs(m)) /\ Avoids(Needs(m))
      /\ Passes(Needs(m)) => /\ HasText(m.fields["uniqueId"])
                             /\ \A key \in keys : Fits(m.fields[key])
  BY <1>2, <1>3, OwnFieldsAsk
<1> QED
  BY <1>4 DEF keys

LEMMA MemberAsks ==
  ASSUME NEW m, IsMessage(m), m.kind = "member"
  PROVE  /\ IsList(Needs(m)) /\ Avoids(Needs(m))
         /\ Passes(Needs(m)) =>
              /\ HasText(m.fields["uniqueId"])
              /\ \A key \in UserNumbers \cup {"actionId"} : Fits(m.fields[key])
<1> DEFINE action == Need("RejectedMissingActionId", m.fields["actionId"] # Absent)
           keys == UserNumbers \cup {"actionId"}
<1>1. action.status \notin OfEnvelope
  BY DEF Need, Check, OfEnvelope, Accepted
<1>2. Needs(m) = UserNeeds(m) \o <<action>> \o NumbersFit(m, keys)
  BY DEF Needs, MemberNeeds
<1> HIDE DEF action, keys
<1>3. IsList(<<action>>) /\ Avoids(<<action>>)
  BY <1>1, RequirementsLiteral
<1>4. /\ IsList(Needs(m)) /\ Avoids(Needs(m))
      /\ Passes(Needs(m)) => /\ HasText(m.fields["uniqueId"])
                             /\ \A key \in keys : Fits(m.fields[key])
  BY <1>2, <1>3, OwnFieldsAsk
<1> QED
  BY <1>4 DEF keys

\* A viewer who is accepted has an identity, and his numbers fit.
LEMMA ViewerAsks ==
  ASSUME NEW viewer
  PROVE  /\ FirstFault(ViewerNeeds(viewer)).status \notin OfEnvelope
         /\ FirstFault(ViewerNeeds(viewer)).status = Accepted =>
              /\ HasText(viewer["user.uniqueId"])
              /\ \A key \in {"coinCount", "user.gifterLevel", "user.teamMemberLevel"} :
                   Fits(viewer[key])
<1> DEFINE fit == \A key \in {"coinCount", "user.gifterLevel", "user.teamMemberLevel"} :
                    Fits(viewer[key])
           checks == ViewerNeeds(viewer)
<1>1. DOMAIN checks = 1..4
  BY DEF ViewerNeeds
<1>2. /\ checks[1].status \notin OfEnvelope /\ checks[2].status \notin OfEnvelope
      /\ checks[3].status \notin OfEnvelope /\ checks[4].status \notin OfEnvelope
  BY DEF ViewerNeeds, Need, Check, OfEnvelope, Accepted
<1>3. checks[3].status = Accepted <=> HasText(viewer["user.uniqueId"])
  BY DEF ViewerNeeds, Need, Check, Accepted
<1>4. checks[4].status = Accepted <=> fit
  BY DEF ViewerNeeds, Need, Check, Accepted
<1> HIDE DEF checks, fit
<1>5. /\ FirstFault(checks).status = Accepted <=> Passes(checks)
      /\ ~Passes(checks) => \E i \in DOMAIN checks : FirstFault(checks) = checks[i]
  BY <1>1, FirstFaultProperties
<1>6. Accepted \notin OfEnvelope
  BY DEF OfEnvelope, Accepted
<1>7. FirstFault(checks).status \notin OfEnvelope
  BY <1>1, <1>2, <1>5, <1>6
<1>8. Passes(checks) => HasText(viewer["user.uniqueId"]) /\ fit
  BY <1>1, <1>3, <1>4 DEF Passes
<1> QED
  BY <1>5, <1>7, <1>8 DEF checks, fit

LEMMA RoomUserAsks ==
  ASSUME NEW m, IsMessage(m), m.kind = "roomUser"
  PROVE  /\ IsList(Needs(m)) /\ Avoids(Needs(m))
         /\ Passes(Needs(m)) =>
              /\ \A key \in {"viewerCount", "topGifterRank"} : Fits(m.fields[key])
              /\ \A i \in DOMAIN m.elements :
                   /\ HasText(m.elements[i]["user.uniqueId"])
                   /\ \A key \in {"coinCount", "user.gifterLevel", "user.teamMemberLevel"} :
                        Fits(m.elements[i][key])
<1> DEFINE count == Need("RejectedMissingViewerCount", m.fields["viewerCount"] # Absent)
           numbers == NumbersFit(m, {"viewerCount", "topGifterRank"})
           viewers == [i \in DOMAIN m.elements |-> FirstFault(ViewerNeeds(m.elements[i]))]
<1>1. count.status \notin OfEnvelope
  BY DEF Need, Check, OfEnvelope, Accepted
<1>2. Needs(m) = EnvelopeNeeds(m) \o <<count>> \o numbers \o viewers
  BY DEF Needs, RoomUserNeeds
<1>3. \A i \in DOMAIN m.elements : viewers[i] = FirstFault(ViewerNeeds(m.elements[i]))
  OBVIOUS
<1>4. DOMAIN viewers = DOMAIN m.elements
  OBVIOUS
<1>5. IsList(viewers)
  <2>1. PICK n \in Nat : DOMAIN m.elements = 1..n
    BY DEF IsMessage
  <2>2. viewers \in [1..n -> Range(viewers)]
    BY <2>1 DEF Range
  <2> HIDE DEF viewers
  <2> QED
    BY <2>1, <2>2, ListOfLength DEF IsList
<1> HIDE DEF count, viewers
<1>6. IsList(<<count>>) /\ Avoids(<<count>>)
  BY <1>1, RequirementsLiteral
<1>7. Avoids(viewers)
  BY <1>3, <1>4, ViewerAsks DEF Avoids
<1>8. /\ IsList(numbers) /\ Avoids(numbers)
      /\ Passes(numbers) <=> \A key \in {"viewerCount", "topGifterRank"} : Fits(m.fields[key])
  BY NumbersAsk
<1> HIDE DEF numbers
<1> DEFINE first == EnvelopeNeeds(m) \o <<count>>
           most == first \o numbers
<1>9. IsList(first) /\ Avoids(first)
  BY <1>6, EnvelopeAsks, RequirementsConcat
<1> HIDE DEF first
<1>10. IsList(most) /\ Avoids(most) /\ (Passes(most) => Passes(numbers))
  BY <1>8, <1>9, RequirementsConcat
<1>11. Needs(m) = most \o viewers
  BY <1>2 DEF first
<1> HIDE DEF most
<1>12. /\ IsList(Needs(m)) /\ Avoids(Needs(m))
       /\ Passes(Needs(m)) => Passes(most) /\ Passes(viewers)
  BY <1>5, <1>7, <1>10, <1>11, RequirementsConcat
<1>13. ASSUME Passes(viewers), NEW i \in DOMAIN m.elements
       PROVE  /\ HasText(m.elements[i]["user.uniqueId"])
              /\ \A key \in {"coinCount", "user.gifterLevel", "user.teamMemberLevel"} :
                   Fits(m.elements[i][key])
  <2>1. FirstFault(ViewerNeeds(m.elements[i])).status = Accepted
    BY <1>3, <1>4, <1>13 DEF Passes
  <2> QED
    BY <2>1, ViewerAsks, Zenon
<1> QED
  BY <1>8, <1>10, <1>12, <1>13

\* What every family asks of a decoded event: somebody, the width of every number of its
\* contract, and the identity of everybody in its list.
LEMMA FamilyAsks ==
  ASSUME NEW m, IsMessage(m)
  PROVE  /\ IsList(Needs(m)) /\ Avoids(Needs(m))
         /\ Passes(Needs(m)) =>
              /\ m.kind # "roomUser" => HasText(m.fields["uniqueId"])
              /\ \A e \in Range(Contract[m.kind]) :
                   e[2] = "integer" => Fits(m.fields[e[1]])
              /\ m.kind = "chat" =>
                   \A i \in DOMAIN m.elements : /\ HasText(m.elements[i]["emoteId"])
                                                /\ HasText(m.elements[i]["emoteImageUrl"])
              /\ m.kind = "roomUser" =>
                   \A i \in DOMAIN m.elements :
                     /\ HasText(m.elements[i]["user.uniqueId"])
                     /\ \A key \in {"coinCount", "user.gifterLevel", "user.teamMemberLevel"} :
                          Fits(m.elements[i][key])
<1> DEFINE Fit(kind) == \A e \in Range(Contract[kind]) : e[2] = "integer" => Fits(m.fields[e[1]])
           UserFits == \A key \in UserNumbers : Fits(m.fields[key])
<1>1. m.kind \in Kind
  BY DEF IsMessage
<1>2. UserFits => \A e \in Range(CommonUser) : e[2] = "integer" => Fits(m.fields[e[1]])
  BY CommonUserHolds DEF UserNumbers
<1>3. CASE m.kind \in {"follow", "share"}
  BY <1>2, <1>3, FollowAsks, ContractHolds
<1>4. CASE m.kind = "chat"
  <2>1. UserFits => Fit("chat")
    BY <1>2, ContractHolds
  <2> HIDE DEF Fit, UserFits
  <2>2. Passes(Needs(m)) => UserFits
    BY <1>4, ChatAsks DEF UserFits
  <2> QED
    BY <1>4, <2>1, <2>2, ChatAsks DEF Fit
<1>5. CASE m.kind = "gift"
  <2>1. Passes(Needs(m)) =>
          \A key \in {"giftId", "diamondCount", "repeatCount", "giftType"} : Fits(m.fields[key])
    BY <1>5, GiftAsks
  <2>2. Passes(Needs(m)) =>
          \A e \in Range(GiftFields) : e[2] = "integer" => Fits(m.fields[e[1]])
    BY <2>1, GiftFieldsHolds
  <2>3. Passes(Needs(m)) => UserFits
    BY <1>5, GiftAsks
  <2>4. Passes(Needs(m)) => Fit("gift")
    BY <1>2, <2>2, <2>3, ContractHolds
  <2> HIDE DEF Fit, UserFits
  <2> QED
    BY <1>5, <2>4, GiftAsks DEF Fit
<1>6. CASE m.kind = "like"
  <2>1. Passes(Needs(m)) => Fits(m.fields["likeCount"]) /\ Fits(m.fields["totalLikeCount"])
    BY <1>6, LikeAsks
  <2>2. Passes(Needs(m)) => UserFits
    BY <1>6, LikeAsks
  <2>3. Passes(Needs(m)) => Fit("like")
    BY <1>2, <2>1, <2>2, ContractHolds
  <2> HIDE DEF Fit, UserFits
  <2> QED
    BY <1>6, <2>3, LikeAsks DEF Fit
<1>7. CASE m.kind = "member"
  <2>1. Passes(Needs(m)) => Fits(m.fields["actionId"])
    BY <1>7, MemberAsks
  <2>2. Passes(Needs(m)) => UserFits
    BY <1>7, MemberAsks
  <2>3. Passes(Needs(m)) => Fit("member")
    BY <1>2, <2>1, <2>2, ContractHolds
  <2> HIDE DEF Fit, UserFits
  <2> QED
    BY <1>7, <2>3, MemberAsks DEF Fit
<1>8. CASE m.kind = "roomUser"
  <2>1. Passes(Needs(m)) => Fits(m.fields["viewerCount"]) /\ Fits(m.fields["topGifterRank"])
    BY <1>8, RoomUserAsks
  <2>2. Passes(Needs(m)) => Fit("roomUser")
    BY <2>1, ContractHolds
  <2> HIDE DEF Fit
  <2> QED
    BY <1>8, <2>2, RoomUserAsks DEF Fit
<1> QED
  BY <1>1, <1>3, <1>4, <1>5, <1>6, <1>7, <1>8 DEF Kind

\* A decoded event is a message.
LEMMA DecodedIsMessage ==
  ASSUME NEW f \in Frame, Decode(f).status = Accepted
  PROVE  /\ Decode(f).event = Message(f.event, f)
         /\ IsMessage(Message(f.event, f))
         /\ Message(f.event, f) # NoMessage
<1> DEFINE m == Message(f.event, f)
<1>1. f.event \in Kind /\ Decode(f).event = m
  BY DecodeAccepts
<1>2. /\ m.kind = f.event /\ m.eventName = f.event /\ m.hasData = TRUE
      /\ m.hasUser = (f.event # "roomUser") /\ m.elements = ReadElements(f.event, f)
  BY DEF Message
<1>3. f.elements \in Seq(Element)
  BY DEF Frame, Element
<1>4. ReadElements(f.event, f) \in Seq([MemberKey -> Value])
  <2> DEFINE read == [i \in DOMAIN f.elements |-> f.elements[i].members]
  <2>1. Len(f.elements) \in Nat /\ DOMAIN f.elements = 1..Len(f.elements)
    BY <1>3
  <2>2. \A i \in 1..Len(f.elements) : f.elements[i].members \in [MemberKey -> Value]
    <3>1. \A i \in 1..Len(f.elements) : f.elements[i] \in Element
      BY <1>3
    <3> QED
      BY <3>1 DEF Element
  <2>3. read \in [1..Len(f.elements) -> [MemberKey -> Value]]
    BY <2>1, <2>2
  <2>4. read \in Seq([MemberKey -> Value])
    <3> HIDE DEF read
    <3> QED
      BY <2>1, <2>3, ListOfLength
  <2>5. <<>> \in Seq([MemberKey -> Value])
    OBVIOUS
  <2> QED
    BY <2>4, <2>5 DEF ReadElements
<1>5. m # NoMessage
  <2>1. NoMessage.kind = "" /\ "" \notin Kind
    BY DEF NoMessage, Kind
  <2> QED
    BY <1>1, <1>2, <2>1, Zenon
<1>6. IsMessage(m)
  BY <1>1, <1>2, <1>4 DEF IsMessage
<1> QED
  BY <1>1, <1>5, <1>6

\* A converter answers with a requirement of its family that fails, or accepts when none does.
LEMMA ConvertProperties ==
  ASSUME NEW m, IsMessage(m), m # NoMessage
  PROVE  /\ Convert(m).status \notin OfEnvelope
         /\ Convert(m).status = Accepted <=> Passes(Needs(m))
         /\ Convert(m).status = Accepted => Convert(m).input = Input(m)
<1> DEFINE need == FirstFault(Needs(m))
<1>1. PICK n \in Nat : DOMAIN Needs(m) = 1..n
  BY FamilyAsks, ListProperties
<1>2. /\ need.status = Accepted <=> Passes(Needs(m))
      /\ ~Passes(Needs(m)) => \E i \in DOMAIN Needs(m) : need = Needs(m)[i]
  BY <1>1, FirstFaultProperties
<1>3. Avoids(Needs(m))
  BY FamilyAsks
<1>4. Convert(m).status = need.status
  BY DEF Convert
<1>5. need.status = Accepted => Convert(m).input = Input(m)
  BY DEF Convert
<1>6. Accepted \notin OfEnvelope
  BY DEF OfEnvelope, Accepted
<1> HIDE DEF need
<1> QED
  BY <1>2, <1>3, <1>4, <1>5, <1>6 DEF Avoids

\* THEOREM. The decoder leaves the converters nothing of the envelope to refuse for: the
\* seven converters of TikFinity ask for it, and always find it.
THEOREM ConvertersFindEnvelope == AdapterSpec => []DecodedIsConvertible
<1>1. AdapterInv => DecodedIsConvertible
  <2> SUFFICES ASSUME AdapterInv PROVE conversion.status \notin OfEnvelope
    BY DEF DecodedIsConvertible, OfEnvelope
  <2>1. frame \in Frame /\ conversion = Convert(Decode(frame).event)
    BY DEF AdapterInv
  <2>2. CASE Decode(frame).status = Accepted
    BY <2>1, <2>2, DecodedIsMessage, ConvertProperties
  <2>3. CASE Decode(frame).status # Accepted
    <3>1. conversion.status = "NotDecoded"
      BY <2>1, <2>3, DecodeAccepts DEF Convert
    <3> QED
      BY <3>1 DEF OfEnvelope
  <2> QED
    BY <2>2, <2>3
<1> QED
  BY <1>1, ExchangeConsistent, PTL

\* A number that fits is kept as it is.
LEMMA Int32Keeps ==
  ASSUME NEW n \in 0..MaxInt32
  PROVE  Int32(n) = n
<1>1. ASSUME NEW a \in Nat, NEW b \in Nat, a < b PROVE a % b = a
  BY <1>1
<1>2. /\ n + MaxInt32 + 1 \in Nat /\ 2 * (MaxInt32 + 1) \in Nat
      /\ n + MaxInt32 + 1 < 2 * (MaxInt32 + 1)
  BY AdapterAssumption
<1>3. (n + MaxInt32 + 1) % (2 * (MaxInt32 + 1)) = n + MaxInt32 + 1
  BY <1>1, <1>2
<1> QED
  BY <1>3, AdapterAssumption DEF Int32

\* A value that is there is converted to what was sent, and is not negative.
LEMMA ConvertedKeeps ==
  ASSUME NEW value \in Value, NEW key, value # Absent, value.type = "integer" => Fits(value)
  PROVE  Converted(key, value) = value.n /\ value.n >= 0
<1>1. CASE value.type = "integer"
  <2>1. value.n \in 0..MaxInt32
    BY <1>1 DEF Fits
  <2>2. value.n >= 0
    BY <2>1, AdapterAssumption
  <2> QED
    BY <1>1, <2>1, <2>2, Int32Keeps DEF Converted
<1>2. CASE value.type # "integer"
  <2>1. value.n \in Nat
    BY <1>2 DEF Value
  <2> QED
    BY <1>2, <2>1 DEF Converted
<1> QED
  BY <1>1, <1>2

\* What the types of a decoded frame are, for its fields and for its list.
LEMMA DecodedFields ==
  ASSUME NEW f \in Frame, Decode(f).status = Accepted, NEW e \in Range(Contract[f.event])
  PROVE  /\ e[1] \in Key /\ f.fields[e[1]] \in Value
         /\ WellTyped(f.fields[e[1]], e[2])
         /\ Message(f.event, f).fields[e[1]] = f.fields[e[1]]
<1>1. f.event \in Kind /\ IsWellTyped(f)
  BY DecodeAccepts
<1>2. PICK i \in DOMAIN Contract[f.event] : e = Contract[f.event][i]
  BY <1>1, ContractHolds, ListProperties
<1>3. e[1] \in Key /\ e[1] \in Keys(Contract[f.event])
  BY <1>1, <1>2, FieldTypes, ContractHolds, ListProperties
<1>4. WellTyped(f.fields[e[1]], e[2])
  BY <1>1, <1>2, Zenon DEF IsWellTyped, WellTyped
<1>5. f.fields \in [Key -> Value]
  BY DEF Frame
<1>6. Message(f.event, f).fields[e[1]] = f.fields[e[1]]
  BY <1>3 DEF Message, ReadFields
<1> QED
  BY <1>3, <1>4, <1>5, <1>6

LEMMA DecodedElements ==
  ASSUME NEW f \in Frame, Decode(f).status = Accepted
  PROVE  LET listed == \E key \in ListKeys(f.event) : f.fields[key] # Absent
             elements == Message(f.event, f).elements
         IN  /\ ~listed => elements = <<>>
             /\ listed => /\ elements = [i \in DOMAIN f.elements |-> f.elements[i].members]
                          /\ \A i \in DOMAIN f.elements : WellTypedElement(f.event, f.elements[i])
<1> DEFINE array == \E key \in ListKeys(f.event) : f.fields[key].type = "array"
<1>1. f.event \in Kind /\ IsWellTyped(f)
  BY DecodeAccepts
<1>2. ASSUME NEW key \in ListKeys(f.event)
      PROVE  f.fields[key] # Absent <=> f.fields[key].type = "array"
  <2>1. PICK e \in Range(Contract[f.event]) : e[1] = key
    BY <1>1, ContractHolds, ListProperties DEF ListKeys
  <2>2. e[2] = "array"
    BY <1>1, <2>1, FieldTypes DEF ListKeys
  <2>3. WellTyped(f.fields[key], "array")
    BY <2>1, <2>2, DecodedFields
  <2> QED
    BY <2>3 DEF WellTyped, Absent
<1>3. Message(f.event, f).elements =
        IF array THEN [i \in DOMAIN f.elements |-> f.elements[i].members] ELSE <<>>
  BY DEF Message, ReadElements
<1>4. array => \A i \in DOMAIN f.elements : WellTypedElement(f.event, f.elements[i])
  BY <1>1, Zenon DEF IsWellTyped, WellTyped, WellTypedElement
<1> QED
  BY <1>2, <1>3, <1>4

\* The numbers among the members of an element, and its identity.
LEMMA MemberTypes ==
  /\ \A e \in Range(Members["chat"]) : e[2] # "integer"
  /\ \A kind \in Kind \ {"chat"} : \A e \in Range(Members[kind]) :
       e[2] = "integer" => e[1] \in {"coinCount", "user.gifterLevel", "user.teamMemberLevel"}
BY MembersHold

\* THEOREM. What enters the queue says what the frame said: no number is wrapped or negative,
\* no element is lost, and nobody in it is without identity.
THEOREM InputsAreFaithful == AdapterSpec => []InputSaysWhatWasSent
<1>1. AdapterInv => InputSaysWhatWasSent
  <2> SUFFICES ASSUME AdapterInv, conversion.status = Accepted PROVE InputSaysWhatWasSent
    BY DEF InputSaysWhatWasSent
  <2> DEFINE kind == frame.event
             m == Message(kind, frame)
             input == conversion.input
             listed == \E key \in ListKeys(kind) : frame.fields[key] # Absent
             Same(sent, kept) == sent # Absent => kept = sent.n /\ kept >= 0
  <2>1. frame \in Frame /\ conversion = Convert(Decode(frame).event)
    BY DEF AdapterInv
  <2>2. Decode(frame).status = Accepted
    BY <2>1, DecodeAccepts DEF Convert, Accepted
  <2>3. kind \in Kind
    BY <2>1, <2>2, DecodeAccepts
  <2>4. IsMessage(m) /\ Passes(Needs(m)) /\ input = Input(m)
    BY <2>1, <2>2, DecodedIsMessage, ConvertProperties
  <2>5. /\ input.kind = kind /\ m.kind = kind
        /\ \A key \in Key : input.fields[key] = Converted(key, m.fields[key])
        /\ input.elements = [i \in DOMAIN m.elements |->
                               [key \in MemberKey |-> Converted(key, m.elements[i][key])]]
    BY <2>4 DEF Input, Message
  <2> HIDE DEF kind, m, input
  <2>6. ASSUME NEW e \in Range(Contract[kind])
        PROVE  Same(frame.fields[e[1]], input.fields[e[1]])
    <3>1. /\ e[1] \in Key /\ frame.fields[e[1]] \in Value
          /\ WellTyped(frame.fields[e[1]], e[2])
          /\ m.fields[e[1]] = frame.fields[e[1]]
      BY <2>1, <2>2, DecodedFields DEF kind, m
    <3>2. e[2] = "integer" => Fits(m.fields[e[1]])
      BY <2>4, <2>5, FamilyAsks
    <3> QED
      BY <2>5, <3>1, <3>2, ConvertedKeeps DEF WellTyped
  <2>7. ASSUME kind # "roomUser" PROVE input.fields["uniqueId"] > 0
    <3> DEFINE value == frame.fields["uniqueId"]
    <3>1. <<"uniqueId", "string">> \in Range(Contract[kind])
      BY <2>3, <2>7, CommonUserHolds, ContractHolds DEF Kind
    <3>2. Same(value, input.fields["uniqueId"]) /\ m.fields["uniqueId"] = value
      BY <2>1, <2>2, <2>6, <3>1, DecodedFields DEF kind, m
    <3>3. HasText(m.fields["uniqueId"])
      BY <2>4, <2>5, <2>7, FamilyAsks
    <3> QED
      BY <3>2, <3>3 DEF HasText
  <2>8. /\ ~listed => m.elements = <<>>
        /\ listed => /\ m.elements = [i \in DOMAIN frame.elements |-> frame.elements[i].members]
                     /\ \A i \in DOMAIN frame.elements :
                          WellTypedElement(kind, frame.elements[i])
    BY <2>1, <2>2, DecodedElements DEF kind, m
  <2>9. frame.elements \in Seq(Element)
    BY <2>1 DEF Frame, Element
  <2>10. Len(input.elements) = IF listed THEN Len(frame.elements) ELSE 0
    <3>1. Len(frame.elements) \in Nat /\ DOMAIN frame.elements = 1..Len(frame.elements)
      BY <2>9
    <3>2. DOMAIN input.elements = 1..(IF listed THEN Len(frame.elements) ELSE 0)
      BY <2>5, <2>8, <3>1
    <3> QED
      BY <2>5, <3>1, <3>2
  <2>11. ASSUME NEW i \in DOMAIN input.elements
         PROVE  /\ listed /\ i \in DOMAIN frame.elements /\ i \in DOMAIN m.elements
                /\ frame.elements[i] \in Element
                /\ m.elements[i] = frame.elements[i].members
                /\ WellTypedElement(kind, frame.elements[i])
                /\ \A key \in MemberKey :
                     input.elements[i][key] = Converted(key, frame.elements[i].members[key])
    <3>1. i \in DOMAIN m.elements
      BY <2>5
    <3>2. listed /\ i \in DOMAIN frame.elements
      BY <2>8, <3>1
    <3>3. m.elements[i] = frame.elements[i].members
      BY <2>8, <3>2
    <3> QED
      BY <2>5, <2>8, <2>9, <3>1, <3>2, <3>3
  <2>12. ASSUME NEW i \in DOMAIN input.elements PROVE kind \in {"chat", "roomUser"}
    BY <2>3, <2>11, ListOfKind
  <2>13. ASSUME NEW i \in DOMAIN input.elements, NEW e \in Range(Members[kind])
         PROVE  /\ Same(frame.elements[i].members[e[1]], input.elements[i][e[1]])
                /\ WellTyped(frame.elements[i].members[e[1]], e[2])
    <3> DEFINE value == frame.elements[i].members[e[1]]
    <3>1. PICK j \in DOMAIN Members[kind] : e = Members[kind][j]
      BY <2>3, MembersHold, ListProperties
    <3>2. e[1] \in MemberKey
      BY <2>3, <3>1, MemberKeys
    <3>3. value \in Value
      BY <2>11, <3>2 DEF Element
    <3>4. WellTyped(value, e[2])
      BY <2>11, <3>1 DEF WellTypedElement
    <3>5. e[2] = "integer" => Fits(value)
      <4>1. e[2] = "integer" => /\ kind = "roomUser"
                                /\ e[1] \in {"coinCount", "user.gifterLevel",
                                             "user.teamMemberLevel"}
        BY <2>3, <2>12, MemberTypes
      <4>2. kind = "roomUser" =>
              \A key \in {"coinCount", "user.gifterLevel", "user.teamMemberLevel"} :
                Fits(m.elements[i][key])
        BY <2>4, <2>5, <2>11, FamilyAsks
      <4> QED
        BY <2>11, <4>1, <4>2
    <3>6. input.elements[i][e[1]] = Converted(e[1], value)
      BY <2>11, <3>2
    <3> HIDE DEF value
    <3>7. Same(value, input.elements[i][e[1]])
      BY <3>3, <3>4, <3>5, <3>6, ConvertedKeeps DEF WellTyped
    <3> QED
      BY <3>4, <3>7 DEF value
  <2>14. ASSUME NEW i \in DOMAIN input.elements
         PROVE  IF kind = "chat"
                THEN input.elements[i]["emoteId"] > 0 /\ input.elements[i]["emoteImageUrl"] > 0
                ELSE input.elements[i]["user.uniqueId"] > 0
    <3>1. CASE kind = "chat"
      <4>1. /\ <<"emoteId", "string">> \in Range(Members[kind])
            /\ <<"emoteImageUrl", "string">> \in Range(Members[kind])
        BY <3>1, MembersHold
      <4>2. /\ Same(frame.elements[i].members["emoteId"], input.elements[i]["emoteId"])
            /\ Same(frame.elements[i].members["emoteImageUrl"],
                    input.elements[i]["emoteImageUrl"])
        BY <2>13, <4>1
      <4>3. /\ HasText(frame.elements[i].members["emoteId"])
            /\ HasText(frame.elements[i].members["emoteImageUrl"])
        BY <2>4, <2>5, <2>11, <3>1, FamilyAsks
      <4> QED
        BY <3>1, <4>2, <4>3 DEF HasText
    <3>2. CASE kind = "roomUser"
      <4>1. <<"user.uniqueId", "string">> \in Range(Members[kind])
        BY <2>3, <3>2, MembersHold
      <4>2. Same(frame.elements[i].members["user.uniqueId"],
                 input.elements[i]["user.uniqueId"])
        BY <2>13, <4>1
      <4>3. HasText(frame.elements[i].members["user.uniqueId"])
        BY <2>4, <2>5, <2>11, <3>2, FamilyAsks
      <4> QED
        BY <3>2, <4>2, <4>3 DEF HasText
    <3> QED
      BY <2>12, <3>1, <3>2
  <2>15. ASSUME NEW i \in DOMAIN Contract[kind]
         PROVE  Same(frame.fields[Contract[kind][i][1]], input.fields[Contract[kind][i][1]])
    BY <2>3, <2>6, ContractHolds, ListProperties
  <2>16. ASSUME NEW i \in DOMAIN input.elements, NEW key \in Keys(Members[kind])
         PROVE  Same(frame.elements[i].members[key], input.elements[i][key])
    <3>1. PICK e \in Range(Members[kind]) : e[1] = key
      BY <2>3, MembersHold, ListProperties
    <3> QED
      BY <2>13, <3>1
  <2> QED
    BY <2>5, <2>7, <2>10, <2>14, <2>15, <2>16, Zenon DEF InputSaysWhatWasSent, input, kind
<1> QED
  BY <1>1, ExchangeConsistent, PTL
==============================================================================
