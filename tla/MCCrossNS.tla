----------------------------- MODULE MCCrossNS -----------------------------
(* Two operators with labels of their own: opA asks for up to two pairs,   *)
(* and changes the rules of one; opB asks for a pair of its own or nothing.*)
EXTENDS CrossNS, TLC

CONSTANTS opA, opB, a1, a2, b1

AskedFor ==
    [o \in Operators |->
        IF o = opA THEN {Nothing, a1 :> 1, (a1 :> 2) @@ (a2 :> 1)}
                   ELSE {Nothing, b1 :> 1}]

(* One starts with a CR that asks for a pair, the other one's comes later. *)
OneAsks == { [o \in Operators |-> IF o = opA THEN a1 :> 1 ELSE Nothing] }

(* A Role and a RoleBinding somebody else made, without labels.            *)
SomeonesObjects ==
    { [rules |-> 2, label |-> NoLabel], [ref |-> TRUE, subject |-> None, label |-> NoLabel] }

OwnLabel == [o \in Operators |-> o]
============================================================================
