--------------------------- MODULE MCSevenEventProbe ---------------------------
(***************************************************************************)
(* An instance of SevenEventProbe for TLC: a valid frame of each kind, and *)
(* frames that are rejected with a name, rejected without one, ignored.    *)
(***************************************************************************)
EXTENDS SevenEventProbe

FrameOf(event, data) ==
  [text |-> "object", event |-> event, data |-> data,
   fields |-> [key \in Key |-> Absent], elements |-> <<>>]

SomeFrames ==
  {FrameOf(kind, "object") : kind \in Kind}
    \cup {FrameOf("gift", "notObject"), FrameOf("absent", "object"), FrameOf("unknown", "object")}
==============================================================================
