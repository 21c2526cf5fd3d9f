------------------------------ MODULE MCGuards ------------------------------
(* Values for the constants of Guards: a default ClusterRole that lets     *)
(* editors impersonate, one an admin writes, and an operator's pods.       *)
EXTENDS Guards

CONSTANTS base, extra

Rule(R, V) == [resources |-> R, verbs |-> V]

Act       == Rule({"serviceaccounts", "pods"}, {"impersonate"})
Anything  == Rule({"*"}, {"*"})
Unrelated == Rule({"pods"}, {"*"})

SomeRules    == {Act, Anything, Unrelated}
BaseDefaults == [n \in Roles |-> IF n = base THEN {Act, Unrelated} ELSE {}]
============================================================================
