----------------------------- MODULE MCGraceful -----------------------------
(* Values for the constants of Graceful: one CR whose Reconcile lists and  *)
(* then gets a resource; a backoff key names the resource, not the verb.   *)
EXTENDS Graceful, TLC

CONSTANTS ca, na, list, get, pods

HomeOf  == [c \in CRs |-> na]
InOrder == [c \in CRs |-> <<list, get>>]
OneKey  == [p \in Perms |-> pods]

(* The second and the third check are the same.                            *)
Asked   == [i \in Checks |-> IF i = 1 THEN <<list, na>> ELSE <<get, na>>]
============================================================================
