------------------------------- MODULE Scoper -------------------------------
(***************************************************************************)
(* pkg/scoper for one ScopingTarget: the scoping controller, the cleanup   *)
(* ticker, the provisioning webhook and the label trigger, started by      *)
(* Setup according to the target's fields, working on one cluster.         *)
(***************************************************************************)
EXTENDS ScopingReconciler, CleanupReconciler, ProvisioningWebhook, LabelTrigger

vars == <<clusterVars, recVars, cleanVars, adm, trigVars>>

TypeOK == ClusterTypeOK /\ RecTypeOK /\ CleanTypeOK /\ AdmTypeOK /\ TrigTypeOK

Init == ClusterInit /\ RecInit /\ CleanInit /\ AdmInit /\ TrigInit

(* Without the webhook a CR is stored as soon as it is submitted.          *)
Submit(c, s) == ~WebhookProvisioning /\ CreateCR(c, s) /\ UNCHANGED adm

(* The manager stops, or loses its lease, and starts again: a fresh        *)
(* informer cache, and one event for each CR and each namespace.  The      *)
(* requests the webhook had in flight go on without it.                    *)
Crash ==
    /\ faults < MaxFaults /\ faults' = faults + 1
    /\ Reset
    /\ queue' = LiveCRs
    /\ cache' = IF CacheLag THEN rbs ELSE cache
    /\ nsQueue' = IF HasLabelTrigger THEN Namespaces ELSE {}
    /\ cpc' = "idle" /\ ckey' = NoRB /\ snap' = [k \in Keys |-> NoRB]
    /\ unchecked' = {} /\ valid' = {}
    /\ LReset
    /\ adm' = [c \in CRs |-> IF adm[c] = NoCR THEN NoCR ELSE [adm[c] EXCEPT !.step = "store"]]
    /\ UNCHANGED <<userVars, rbs, ripe, nsVars, served, edits>>

Next ==
    \/ Environment /\ UNCHANGED <<recVars, cleanVars, adm, trigVars>>
    \/ (\E c \in CRs, s \in Specs : Submit(c, s)) /\ UNCHANGED <<recVars, cleanVars, trigVars>>
    \/ Reconciler /\ UNCHANGED <<cleanVars, adm, trigVars>>
    \/ Cleanup /\ UNCHANGED <<recVars, adm, trigVars>>
    \/ Admission /\ UNCHANGED <<recVars, cleanVars, trigVars>>
    \/ Trigger /\ UNCHANGED <<recVars, cleanVars, adm>>
    \/ Crash

Spec == Init /\ [][Next]_vars

(* Fairness: controller-runtime runs each started worker, the work queue   *)
(* is first-in first-out (so no request in it waits for ever: SF), the     *)
(* informer delivers, Kubernetes collects garbage, the ticker ticks, and   *)
(* admission of a request ends.  Users and admins owe nothing.             *)
EventFairness ==
    /\ WF_vars(ReconcilerStep /\ UNCHANGED <<cleanVars, adm, trigVars>>)
    /\ WF_vars((ListManaged \/ CleanupStep) /\ UNCHANGED <<recVars, adm, trigVars>>)
    /\ WF_vars(TriggerStep /\ UNCHANGED <<recVars, cleanVars, adm>>)
    /\ \A c \in CRs :
          /\ SF_vars(Dequeue(c) /\ UNCHANGED <<cleanVars, adm, trigVars>>)
          /\ WF_vars(AdmissionStep(c) /\ UNCHANGED <<recVars, cleanVars, trigVars>>)
    /\ \A n \in Namespaces : SF_vars(LDequeue(n) /\ UNCHANGED <<recVars, cleanVars, adm>>)
    /\ \A k \in Keys :
          /\ WF_vars((GCDelete(k) \/ GCPrune(k)) /\ UNCHANGED <<recVars, cleanVars, adm, trigVars>>)
          /\ WF_vars(CacheSync(k) /\ UNCHANGED <<recVars, cleanVars, adm, trigVars>>)
          /\ WF_vars(Ripen(k) /\ UNCHANGED <<recVars, cleanVars, trigVars>>)

(* The periodic resync of controller-runtime's informers.                  *)
ResyncFairness ==
    /\ \A c \in CRs : WF_vars(Resync(c) /\ UNCHANGED <<recVars, cleanVars, adm, trigVars>>)
    /\ \A n \in Namespaces :
          WF_vars(ResyncNamespace(n) /\ UNCHANGED <<recVars, cleanVars, adm, trigVars>>)

EventSpec == Spec /\ EventFairness
FairSpec  == Spec /\ EventFairness /\ ResyncFairness

----------------------------------------------------------------------------
(* Safety.                                                                 *)

Uid(c) == <<c, crs[c].gen>>

Exists(c) == rbs[KeyOf(c, crs[c])] # NoRB

Holds(c) == Exists(c) /\ Uid(c) \in Recorded(rbs[KeyOf(c, crs[c])])

Repairing(c) == pc = "recreate" /\ key = KeyOf(c, crs[c])

(* Once a Reconcile for a CR has returned success, the RoleBinding stays   *)
(* and goes on recording the CR as an owner for as long as the CR lives,   *)
(* whatever other CRs, the garbage collector and the other controllers do, *)
(* except between the delete and the create that repair a drifted RoleRef, *)
(* and unless the CR is about to be reconciled again anyway.               *)
ServedStaysGranted ==
    \A c \in served : Holds(c) \/ Repairing(c) \/ c \in queue

(* The same without the record of ownership: what the documentation        *)
(* promises when it says that the RoleBinding persists until all CRs of    *)
(* the namespace are removed.                                              *)
PersistsUntilAllRemoved ==
    \A c \in served : Exists(c) \/ Repairing(c) \/ c \in queue

(* The scoping controller loses sight of no CR in an allowed namespace: it *)
(* has granted what the CR asks for now, has it in its queue, or is at it, *)
(* so that a missing ClusterRole, an error, a crash or an edit that comes  *)
(* while it works on an old copy leaves nobody waiting for a resync.  Not  *)
(* so when admins edit RoleBindings, which it does not watch, or when it   *)
(* fails to list the CRs or to read the namespace.                         *)
NoCRForgotten ==
    \A c \in LiveCRs : NamespaceAllowed(TargetOf(c, crs[c])) =>
        c \in served \/ c \in queue \/ (pc # "idle" /\ cur = c)

(* No RoleBinding of this code's making is ever in a denied namespace,     *)
(* though the check and the write are separate calls, three controllers    *)
(* write, and a user may edit the target field in between.                 *)
NeverInDenied ==
    \A k \in Keys : k[1] \in Denied /\ rbs[k] # NoRB => ~Managed(rbs[k])

(* Once a Reconcile for a CR has returned success, the webhook's           *)
(* pending-owner annotation for that CR is gone: it would let the cleanup  *)
(* ticker delete the RoleBinding when this one of its owners goes.         *)
BackfillConsumesPending ==
    \A c \in served : Exists(c) => rbs[KeyOf(c, crs[c])].pending # c

(* What the workers know between two calls.  The reconciler writes only    *)
(* where the namespace check has passed, and from a copy it has read; the  *)
(* webhook and the label trigger have passed the deny list as well.        *)
CopyLabels == {"refetch", "delete", "recreate", "writeSubjects", "writePending",
               "patchRefs", "writeOwners"}

RecKnows ==
    /\ pc # "idle" => cur \in CRs /\ obj \in CRObjects
    /\ pc \notin {"idle", "namespace"} => TargetOf(cur, obj) \in Namespaces \ Denied
    /\ pc \in CopyLabels => copy \in RBObjects

CleanKnows ==
    cpc # "idle" => ckey \in Keys /\ snap[ckey] \in RBObjects

AdmKnows ==
    \A c \in CRs : At(c, "get") \/ At(c, "create") => HomeNs[c] \notin Denied

TrigKnows ==
    /\ lpc # "idle" => lns \in Namespaces
    /\ lpc \notin {"idle", "check", "remove"} => lns \notin Denied
    /\ lpc = "writeSubjects" => lcopy \in RBObjects

WorkersKnow == RecKnows /\ CleanKnows /\ AdmKnows /\ TrigKnows

(* With what the workers know, the type invariant and NeverInDenied are    *)
(* inductive (proved in Scoper_proofs).                                    *)
IInv == TypeOK /\ NeverInDenied /\ WorkersKnow

OwnersKept ==
    (pc' # pc \/ cur' # cur) /\ pc # "delete" =>
        \A k \in Keys :
            rbs[k] # NoRB => rbs'[k] # NoRB /\ rbs[k].owners \subseteq rbs'[k].owners

(* A step of the scoping controller, other than the delete that repairs a  *)
(* RoleRef, never takes an entry out of the owner annotation, however old  *)
(* the copy it writes from: optimistic concurrency at work.                *)
ReconcilerKeepsOwners == [][OwnersKept]_vars

(* Nor does it ever take the reference of a live CR out of the list of     *)
(* owner references, although its patch replaces the whole list.           *)
ReconcilerKeepsReferences ==
    [][ (pc' # pc \/ cur' # cur) /\ pc # "delete" =>
          \A k \in Keys :
             rbs[k] # NoRB => /\ rbs'[k] # NoRB
                              /\ {u \in rbs[k].refs : Live(u)} \subseteq rbs'[k].refs ]_vars

----------------------------------------------------------------------------
(* Liveness.                                                               *)

Wants(c) ==
    /\ crs[c] # NoCR
    /\ NamespaceAllowed(TargetOf(c, crs[c]))
    /\ crs[c].sa # Unset
    /\ clusterRole

Granted(c) ==
    /\ Holds(c)
    /\ rbs[KeyOf(c, crs[c])].role
    /\ rbs[KeyOf(c, crs[c])].subject = crs[c].sa

(* Every CR that stays, in a namespace that is allowed, ends up granted    *)
(* for good, whatever faults, drift and stale reads there were.            *)
EventuallyGranted == \A c \in CRs : <>[](Wants(c) => Granted(c))

Orphan(k) ==
    /\ rbs[k] # NoRB /\ Managed(rbs[k])
    /\ ClaimantsOf(k) = {}
    /\ ~(HasLabelTrigger /\ Wanted(k[1]))

(* What the garbage collector, the cleanup ticker and the label trigger    *)
(* each go by when they delete a RoleBinding.                              *)
Traceable(k) ==
    LET rb == rbs[k] IN
    \/ rb.refs # {} /\ \A u \in rb.refs : ~Live(u)
    \/ /\ HasCleanup /\ k[2] = ManagedName
       /\ IF rb.pending # NoOwner
          THEN rb.pending # Nameless /\ crs[rb.pending] = NoCR
          ELSE rb.owners # {} /\ \A u \in rb.owners : ~IsOwnerValid(u, k[1])
    \/ HasLabelTrigger /\ k[2] = ManagedName /\ Removable(rb)

(* A RoleBinding nobody asks for carries what one of them goes by, however *)
(* often it was adopted, patched from old copies, backfilled or pruned: no *)
(* grant is left that nobody knows the reason for.                         *)
OrphansAreTraceable == \A k \in Keys : Orphan(k) => Traceable(k)

(* A RoleBinding nobody asks for any more is gone in the end.              *)
EventuallyCollected == \A k \in Keys : <>[]~Orphan(k)

(* The label trigger and the scoping controller share a RoleBinding, which *)
(* either creates, repairs and lets go.  In the end a namespace that keeps *)
(* the label has it, though CRs adopt it and garbage collection deletes it *)
(* with the last of them; and a CR that stays is granted by it, though the *)
(* trigger may delete it after the CR has adopted it.                      *)
SharedConverges ==
    \A n \in Namespaces :
        <>[](/\ HasLabelTrigger /\ Wanted(n) /\ clusterRole => rbs[<<n, ManagedName>>] # NoRB
             /\ \A c \in CRs : Wants(c) /\ TargetOf(c, crs[c]) = n => Granted(c))
============================================================================
