----------------------------- MODULE MCGateway -----------------------------
(***************************************************************************)
(* Gateway for TLC: two prefixes; an optional file beside instance         *)
(* metadata, which may all be empty, or a static list, a file and an       *)
(* object.                                                                 *)
(***************************************************************************)
EXTENDS Gateway

CONSTANTS p1, p2

MCPrefix == {p1, p2}

MCOriginLists == {<<"optional", "metadata">>, <<"static", "file", "object">>}

Readable1(p) == [routes |-> {p}, state |-> "readable"]

Absent == [routes |-> {}, state |-> "absent"]

Spoiled == [routes |-> {p1, p2}, state |-> "spoiled"]

MCPublications ==
  [kind \in Kind |->
    CASE kind = "static" -> {Readable1(p1)}
      [] kind = "file" -> {Readable1(p1), Spoiled}
      [] kind = "optional" -> {Absent, Spoiled}
      [] OTHER -> {Readable1(p1), Readable1(p2), Absent}]
=============================================================================
