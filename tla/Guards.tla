------------------------------- MODULE Guards -------------------------------
(***************************************************************************)
(* The impersonation guard beside the ServiceAccount protection webhook.   *)
(* The webhook knows the user of a request by name; whoever the edit role  *)
(* lets impersonate ServiceAccounts may send requests under other names,   *)
(* so what the webhook promises rests on the guard.                        *)
(***************************************************************************)
EXTENDS ImpersonationGuard, SAProtection

CONSTANTS
    Editors,          \* identities bound to the edit role
    ServiceAccounts   \* identities that are ServiceAccounts of the namespace

vars == <<guardVars, podVars>>

GuardsTypeOK == GuardTypeOK /\ PodsTypeOK

Init == GuardInit /\ PodsInit

(* The names under which the API server takes a request of who.            *)
NamesOf(who) ==
    {who} \cup (IF who \in Editors /\ hasImpersonateVerb(edit) THEN ServiceAccounts ELSE {})

Request(p) ==
    /\ \E who \in Identities : \E user \in NamesOf(who) : PodRequest(p, who, user)
    /\ UNCHANGED guardVars

Next ==
    \/ GuardNext /\ UNCHANGED podVars
    \/ \E p \in Pods : Request(p)

Spec == Init /\ [][Next]_vars

FairSpec ==
    /\ Spec
    /\ WF_vars(GuardUpdate /\ UNCHANGED podVars)
    /\ WF_vars(Aggregate /\ UNCHANGED podVars)
    /\ \A n \in Roles : /\ WF_vars(GuardGet(n) /\ UNCHANGED podVars)
                        /\ WF_vars(GuardHears(n) /\ UNCHANGED podVars)

(* As long as the edit role does not let anybody impersonate, a pod gets   *)
(* or loses a protected ServiceAccount only on behalf of an identity that  *)
(* is allowed to, by the name the pod runs under, given or defaulted.      *)
ProtectedForAllowed ==
    [][ ~hasImpersonateVerb(edit) =>
          \A p \in Pods : Reassigned(p) => requester'[p] \in Allowed ]_vars

(* From some point on this is so whatever has happened to the ClusterRoles *)
(* before: the guard gives the webhook what it needs.                      *)
ProtectedInTheEnd ==
    <>[][ \A p \in Pods : Reassigned(p) => requester'[p] \in Allowed ]_vars
============================================================================
