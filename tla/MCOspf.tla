------------------------------- MODULE MCOspf -------------------------------
(***************************************************************************)
(* Instances of OspfPair for TLC.                                          *)
(***************************************************************************)
EXTENDS OspfPair

Three == {1, 2, 3}
OneToThree == <<1, 2, 3>>

(* Each router knows its own LSA, and the first, or both, or none, that of *)
(* a third router.                                                         *)
OneKnows == << <<1, 0, 1>>, <<0, 1, 0>> >>
BothKnow == << <<1, 0, 1>>, <<0, 1, 1>> >>
NoneKnows == << <<1, 0, 0>>, <<0, 1, 0>> >>

AnyType == {"hello", "dd", "lsr", "lsu", "ack"}

Case(dbs, lossy, lost, early, expired, learn) ==
    [dbs |-> dbs, lossy |-> lossy, lost |-> lost, early |-> early, expired |-> expired,
     learn |-> learn]

(* A packet is lost and a timer early; a neighbour is declared dead; an    *)
(* LSA arrives on another interface of a router that did not have it.      *)
Faulty == {Case(OneKnows, AnyType, 1, 1, 0, {}), Case(OneKnows, {}, 0, 0, 1, {}),
           Case(NoneKnows, {}, 0, 0, 0, {<<1, 3>>}), Case(OneKnows, {}, 0, 0, 0, {<<2, 3>>})}

(* Any packet is lost but a database description after the negotiation.    *)
Repaired == {Case(OneKnows, (AnyType \ {"dd"}) \cup {"init"}, 1, 0, 0, {})}

(* A newer instance of a known LSA arrives on another interface. *)
Updated == {Case(OneKnows, {}, 0, 0, 0, {<<1, 3>>})}
=============================================================================
