------------------------ MODULE ProvisioningWebhook ------------------------
(***************************************************************************)
(* pkg/scoper/webhook.go: ProvisioningWebhookHandler.Handle, called by the *)
(* API server before it stores a new CR.  The handler creates the          *)
(* RoleBinding ahead of the CR and leaves a pending-owner annotation for   *)
(* the reconciler to turn into an owner reference.  It never refuses a CR. *)
(* Requests for different CRs run concurrently.  A dry run changes nothing *)
(* and is left out.                                                        *)
(***************************************************************************)
EXTENDS Cluster

VARIABLE adm   \* [CRs -> request in flight for the CR, or NoCR]

Requests == [step: {"get", "create", "store"}, spec: Specs]

AdmTypeOK == adm \in [CRs -> Requests \cup {NoCR}]

AdmInit == adm = [c \in CRs |-> NoCR]

admRest == <<userVars, cache, nsVars, queueVars, served>>

AdmKey(c) == <<HomeNs[c], ManagedName>>

At(c, step) == adm[c] # NoCR /\ adm[c].step = step

AdvanceTo(c, step) == adm' = [adm EXCEPT ![c].step = step]

(* The deny list and the NamespaceSelector come first.                     *)
Admit(c, s) ==
    /\ WebhookProvisioning
    /\ crs[c] = NoCR /\ born[c] < MaxGen /\ adm[c] = NoCR
    /\ LET n == HomeNs[c]
           wanted == n \notin Denied /\ (HasSelector => selected[n])
       IN  adm' = [adm EXCEPT ![c] = [step |-> IF wanted THEN "get" ELSE "store", spec |-> s]]
    /\ UNCHANGED <<admRest, rbs, ripe, boundVars>>

(* A RoleBinding that is there, or a ClusterRole that is not, ends it.     *)
WebhookGet(c) ==
    /\ At(c, "get")
    /\ AdvanceTo(c, IF Read(AdmKey(c)) = NoRB /\ clusterRole THEN "create" ELSE "store")
    /\ UNCHANGED <<admRest, rbs, ripe, boundVars>>

(* Of a CR with generateName the handler sees no name yet.                 *)
WebhookCreate(c) ==
    /\ At(c, "create")
    /\ LET k == AdmKey(c)
           name == IF c \in GenerateNames THEN Nameless ELSE c
       IN  IF rbs[k] = NoRB
           THEN /\ rbs' = [rbs EXCEPT ![k] = [NewRB(TargetSA, "webhook") EXCEPT !.pending = name]]
                /\ ripe' = ripe \ {k}
           ELSE UNCHANGED <<rbs, ripe>>
    /\ AdvanceTo(c, "store")
    /\ UNCHANGED <<admRest, boundVars>>

(* An error reading the RoleBinding counts as "not there"; every other one *)
(* allows the CR without a RoleBinding.                                    *)
WebhookFails(c) ==
    /\ faults < MaxFaults /\ faults' = faults + 1
    /\ \/ At(c, "get") /\ clusterRole /\ AdvanceTo(c, "create")
       \/ (At(c, "get") \/ At(c, "create")) /\ AdvanceTo(c, "store")
    /\ UNCHANGED <<admRest, rbs, ripe, edits>>

(* The API server stores the CR, or a later admission check refuses it.    *)
Store(c) ==
    /\ At(c, "store")
    /\ CreateCR(c, adm[c].spec)
    /\ adm' = [adm EXCEPT ![c] = NoCR]

Refuse(c) ==
    /\ At(c, "store")
    /\ Edit("refuse")
    /\ adm' = [adm EXCEPT ![c] = NoCR]
    /\ UNCHANGED <<admRest, rbs, ripe, faults>>

(* pendingOwnerTTL passes for a pending-owner annotation; it is longer than *)
(* the admission of the CR it names takes.                                 *)
Ripen(k) ==
    /\ rbs[k] # NoRB /\ rbs[k].pending # NoOwner /\ k \notin ripe
    /\ rbs[k].pending \in CRs => adm[rbs[k].pending] = NoCR
    /\ ripe' = ripe \cup {k}
    /\ UNCHANGED <<admRest, rbs, boundVars, adm>>

AdmissionStep(c) == WebhookGet(c) \/ WebhookCreate(c) \/ Store(c)

Admission ==
    \/ \E c \in CRs :
          \/ \E s \in Specs : Admit(c, s)
          \/ AdmissionStep(c)
          \/ WebhookFails(c)
          \/ Refuse(c)
    \/ \E k \in Keys : Ripen(k)
============================================================================
