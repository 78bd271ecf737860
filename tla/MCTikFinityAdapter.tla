-------------------------- MODULE MCTikFinityAdapter --------------------------
(***************************************************************************)
(* Instances of TikFinityAdapter for TLC: a valid frame of each kind, and  *)
(* those that differ from it in one or two places.                         *)
(***************************************************************************)
EXTENDS TikFinityAdapter

TypeIn(typed, key) == (CHOOSE i \in DOMAIN typed : typed[i][1] = key)

\* What a field of a type may hold instead: nothing, null, another type, and the ends of
\* what its type and the types it is converted to can hold.
Good(type) == [type |-> type, n |-> IF type \in {"array", "object"} THEN 0 ELSE 1]
Others(type) ==
  {Absent, [type |-> "null", n |-> 0], [type |-> IF type = "string" THEN "integer" ELSE "string", n |-> 1]}
    \cup (IF type \in {"array", "object"} THEN {} ELSE {[type |-> type, n |-> 0]})
    \cup (IF type # "integer" THEN {}
          ELSE {[type |-> type, n |-> n] :
                  n \in {-1, MaxInt32, MaxInt32 + 1, MaxInt64, MaxInt64 + 1}}
               \cup {[type |-> "fraction", n |-> 1]})

Fields(kind) ==
  [key \in Key |-> IF key \in Keys(Contract[kind])
                   THEN Good(Contract[kind][TypeIn(Contract[kind], key)][2]) ELSE Absent]
Element(kind) ==
  [value |-> Good("object"),
   members |-> [key \in MemberKey |->
                  IF key \in Keys(Members[kind])
                  THEN Good(Members[kind][TypeIn(Members[kind], key)][2]) ELSE Absent]]
ValidFrame(kind) ==
  [text |-> "object", event |-> kind, data |-> "object", fields |-> Fields(kind),
   elements |-> IF kind \in {"chat", "roomUser"} THEN <<Element(kind), Element(kind)>> ELSE <<>>]

\* Without a user that is an object there is none of its members.
WithMember(element, key, value) ==
  IF key # "user" THEN [element EXCEPT !.members[key] = value]
  ELSE [element EXCEPT !.members = [k \in MemberKey |-> IF k = "coinCount" THEN @[k]
                                                       ELSE IF k = "user" THEN value ELSE Absent]]

\* The frames that differ from f in one place; of the elements, the last one differs.
Deviations(kind, f) ==
  {[f EXCEPT !.text = text] : text \in {"blank", "malformed", "notObject"}}
    \cup {[f EXCEPT !.event = event] : event \in {"absent", "notString", "empty", "unknown"}}
    \cup {[f EXCEPT !.data = data] : data \in {"absent", "notObject"}}
    \cup UNION {{[f EXCEPT !.fields[Contract[kind][i][1]] = value] :
                    value \in Others(Contract[kind][i][2])} : i \in DOMAIN Contract[kind]}
    \cup (IF f.elements = <<>> THEN {}
          ELSE {[f EXCEPT !.elements = <<>>],
                [f EXCEPT !.elements[2].value = [type |-> "null", n |-> 0]]}
               \cup UNION {{[f EXCEPT !.elements[2] = WithMember(@, Members[kind][i][1], value)] :
                              value \in Others(Members[kind][i][2])} : i \in DOMAIN Members[kind]})

OneDeviation(kind) == Deviations(kind, ValidFrame(kind))

\* A frame in which everything is wrong, which takes a correction for every place.
WrongFrame(kind) ==
  LET null == [type |-> "null", n |-> 0]
  IN  [text |-> "blank", event |-> "empty", data |-> "notObject",
       fields |-> [key \in Key |-> IF key \in Keys(Contract[kind]) \ {"emotes", "topViewers"}
                                   THEN null ELSE Fields(kind)[key]],
       elements |-> IF kind \notin {"chat", "roomUser"} THEN <<>>
                    ELSE <<[value |-> null, members |-> Element(kind).members],
                           [value |-> Good("object"),
                            members |-> [key \in MemberKey |->
                              IF key \in Keys(Members[kind]) \ {"user"} THEN null
                              ELSE Element(kind).members[key]]]>>]

\* Every kind with one fault and with everything wrong, and pairs of faults of which one is
\* in the list.
Frames ==
  LET InList(kind) == {f \in OneDeviation(kind) :
                         f.elements # <<>> /\ f.elements # ValidFrame(kind).elements}
      Sent(kind) == {ValidFrame(kind), WrongFrame(kind)} \cup OneDeviation(kind)
                      \cup UNION {Deviations(kind, f) : f \in InList(kind)}
  IN  UNION {{[sent |-> f, meant |-> ValidFrame(kind)] : f \in Sent(kind)} : kind \in Kind}
==============================================================================
