---------------------------- MODULE SAProtection ----------------------------
(***************************************************************************)
(* pkg/saprotection: the validating webhook that lets only some identities *)
(* give a pod a protected ServiceAccount, or take one from it.  The API    *)
(* server calls it for every create and update of a pod in the namespaces  *)
(* it guards (failurePolicy Fail); pods are told apart by name only.       *)
(***************************************************************************)
CONSTANTS
    Pods,
    SANames,        \* names a pod may give, "" for none
    Protected,      \* config.ProtectedServiceAccounts
    Identities,     \* user names
    Allowed,        \* config.AllowedIdentities
    NoPod

ASSUME ProtectionAssumption ==
    /\ SANames \subseteq STRING /\ Protected \subseteq STRING
    /\ Allowed \subseteq Identities
    /\ NoPod \notin SANames \cup Protected

VARIABLES
    pods,       \* the serviceAccountName of each pod
    requester   \* history: on whose behalf the last request for each pod was, if it is there

podVars == <<pods, requester>>

PodsTypeOK ==
    /\ pods \in [Pods -> SANames \cup {NoPod}]
    /\ requester \in [Pods -> Identities \cup {NoPod}]

PodsInit ==
    /\ pods = [p \in Pods |-> NoPod]
    /\ requester = [p \in Pods |-> NoPod]

serviceAccountName(sa) == IF sa = "" THEN "default" ELSE sa

isProtected(name) == name \in Protected

(* Mutant: an update is judged like a create.                              *)
HandleNewOnly(operation, user, old, new) ==
    isProtected(serviceAccountName(new)) => user \in Allowed

(* Handle: whether the request is allowed.                                 *)
Handle(operation, user, old, new) ==
    \/ operation \notin {"CREATE", "UPDATE"}
    \/ user \in Allowed
    \/ operation = "CREATE" /\ ~isProtected(serviceAccountName(new))
    \/ /\ operation = "UPDATE"
       /\ \/ serviceAccountName(new) = serviceAccountName(old)
          \/ ~isProtected(serviceAccountName(new)) /\ ~isProtected(serviceAccountName(old))

(* A request the API server takes for one of user's.                       *)
PodRequest(p, who, user) ==
    /\ \E operation \in {"CREATE", "UPDATE", "DELETE"}, sa \in SANames \cup {NoPod} :
          /\ (operation = "CREATE") <=> (pods[p] = NoPod)
          /\ (operation = "DELETE") <=> (sa = NoPod)
          /\ Handle(operation, user, pods[p], sa)
          /\ pods' = [pods EXCEPT ![p] = sa]
    /\ requester' = [requester EXCEPT ![p] = IF pods'[p] = NoPod THEN NoPod ELSE who]

(* The ServiceAccount a pod runs as, and whether a step gives it one that  *)
(* is protected or takes such a one from it.                               *)
RunsAs(sa) == IF sa = NoPod THEN NoPod ELSE serviceAccountName(sa)

Reassigned(p) ==
    /\ pods'[p] # NoPod /\ RunsAs(pods[p]) # RunsAs(pods'[p])
    /\ {RunsAs(pods[p]), RunsAs(pods'[p])} \cap Protected # {}
============================================================================
