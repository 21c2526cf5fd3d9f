------------------------- MODULE ScopingReconciler -------------------------
(***************************************************************************)
(* pkg/scoper/reconciler.go: ScopingReconciler.Reconcile.  One worker      *)
(* (MaxConcurrentReconciles is 1 and the manager has leader election)      *)
(* takes a CR from the queue and makes sure that its target namespace has  *)
(* the managed RoleBinding and that the RoleBinding records the CR as an   *)
(* owner.  Every API call is one atomic step; what the worker holds        *)
(* between two calls is in cur, obj and copy.                              *)
(***************************************************************************)
EXTENDS Cluster

VARIABLES
    pc,    \* the API call the worker makes next
    cur,   \* name of the CR being reconciled
    obj,   \* the CR as Reconcile read it
    copy   \* the RoleBinding as the worker last read it

recVars == <<pc, cur, obj, copy>>

Labels == {"idle", "namespace", "clusterrole", "get", "create",
           "refetch", "delete", "recreate", "readSubjects", "writeSubjects",
           "readPending", "writePending", "readRefs", "patchRefs",
           "readOwners", "writeOwners"}

RecTypeOK ==
    /\ pc \in Labels
    /\ cur \in CRs \cup {NoCR}
    /\ obj \in CRObjects \cup {NoCR}
    /\ copy \in RBObjects \cup {NoRB}

RecInit == pc = "idle" /\ cur = NoCR /\ obj = NoCR /\ copy = NoRB

(* Everything a step of the worker leaves to others.                       *)
restVars == <<userVars, cache, ripe, nsVars, nsQueue, edits>>

key == KeyOf(cur, obj)
uid == <<cur, obj.gen>>

----------------------------------------------------------------------------
(* How a step ends.                                                        *)

Goto(label) ==
    /\ pc' = label
    /\ UNCHANGED <<cur, obj, queue, served>>

Reset == pc' = "idle" /\ cur' = NoCR /\ obj' = NoCR /\ copy' = NoRB

(* Mutant: the request is read after it has been cleared.                  *)
RequeueAfterReset == Reset /\ queue' = queue \cup {cur'} /\ UNCHANGED served

(* Reconcile returns an error, or RequeueAfter: the CR comes back.         *)
Requeue == Reset /\ queue' = queue \cup {cur} /\ UNCHANGED served

(* Reconcile returns nil without a grant: nothing brings the CR back.      *)
Drop == Reset /\ UNCHANGED <<queue, served>>

(* Reconcile returns nil having ensured the RoleBinding.                   *)
Succeed ==
    /\ Reset
    /\ served' = IF crs[cur] = obj THEN served \cup {cur} ELSE served
    /\ UNCHANGED queue

Put(rb) == rbs' = [rbs EXCEPT ![key] = rb]

(* r.Update of the held copy, with its resourceVersion.  NotFound ends the *)
(* reconcile with an error; on a conflict RetryOnConflict reads again, or  *)
(* gives up after its fifth attempt.                                       *)
Update(rb, readAgain, next) ==
    \/ /\ rbs[key] = copy
       /\ Put(rb)
       /\ next
    \/ /\ rbs[key] # copy
       /\ UNCHANGED rbs
       /\ \/ rbs[key] # NoRB /\ Goto(readAgain) /\ copy' = NoRB
          \/ Requeue

----------------------------------------------------------------------------
(* Reconcile.                                                              *)

DequeueGone(c) ==
    /\ pc = "idle" /\ c \in queue /\ crs[c] = NoCR
    /\ queue' = queue \ {c}
    /\ UNCHANGED <<restVars, recVars, rbs, served, faults>>

DequeueLive(c) ==
    /\ pc = "idle" /\ c \in queue /\ crs[c] # NoCR
    /\ queue' = queue \ {c}
    /\ pc' = "namespace" /\ cur' = c /\ obj' = crs[c]
    /\ UNCHANGED <<restVars, copy, rbs, served, faults>>

Dequeue(c) == DequeueGone(c) \/ DequeueLive(c)

(* Mutant: the deny list is left out.                                      *)
SelectedOnly(n) == n # Unset /\ (HasSelector => selected[n])

(* isNamespaceAllowed, after extractFieldValue for a cross-namespace       *)
(* target.  Each refusal returns nil.                                      *)
NamespaceAllowed(n) ==
    /\ n # Unset
    /\ n \notin Denied
    /\ HasSelector => selected[n]

CheckNamespace ==
    /\ pc = "namespace"
    /\ IF NamespaceAllowed(TargetOf(cur, obj))
       THEN Goto("clusterrole") /\ UNCHANGED copy
       ELSE Drop
    /\ UNCHANGED <<restVars, rbs, faults>>

(* Mutant: a missing ClusterRole ends the reconcile without a requeue.     *)
CheckClusterRoleOnce ==
    /\ pc = "clusterrole"
    /\ IF clusterRole THEN Goto("get") /\ UNCHANGED copy ELSE Drop
    /\ UNCHANGED <<restVars, rbs, faults>>

(* ValidateClusterRole; a failure comes back after thirty seconds.         *)
CheckClusterRole ==
    /\ pc = "clusterrole"
    /\ IF clusterRole THEN Goto("get") /\ UNCHANGED copy ELSE Requeue
    /\ UNCHANGED <<restVars, rbs, faults>>

AfterSpec == IF CrossNamespace THEN "readOwners" ELSE "readPending"

(* Mutant: the drift comparison overlooks the RoleRef.                     *)
GetIgnoringRoleRef ==
    /\ pc = "get"
    /\ LET rb == Read(key) IN
       IF obj.sa = Unset THEN Requeue
       ELSE IF rb = NoRB THEN Goto("create") /\ UNCHANGED copy
       ELSE IF rb.subject # obj.sa THEN Goto("readSubjects") /\ UNCHANGED copy
       ELSE Goto(AfterSpec) /\ UNCHANGED copy
    /\ UNCHANGED <<restVars, rbs, faults>>

(* ensureRoleBinding: resolveTargetSA, the first read of the RoleBinding,  *)
(* and the drift comparison of ensureRoleBindingSpec.                      *)
GetRoleBinding ==
    /\ pc = "get"
    /\ LET rb == Read(key) IN
       IF obj.sa = Unset THEN Requeue
       ELSE IF rb = NoRB THEN Goto("create") /\ UNCHANGED copy
       ELSE IF ~rb.role THEN Goto("refetch") /\ copy' = rb
       ELSE IF rb.subject # obj.sa THEN Goto("readSubjects") /\ UNCHANGED copy
       ELSE Goto(AfterSpec) /\ UNCHANGED copy
    /\ UNCHANGED <<restVars, rbs, faults>>

(* Mutant: the owner reference is left for a later reconcile.              *)
CreateUnowned ==
    /\ pc = "create"
    /\ IF rbs[key] = NoRB THEN Put(NewRB(obj.sa, "scoper")) ELSE UNCHANGED rbs
    /\ Succeed
    /\ UNCHANGED <<restVars, faults>>

(* createRoleBinding: AlreadyExists counts as success.                     *)
CreateRoleBinding ==
    /\ pc = "create"
    /\ IF rbs[key] = NoRB
       THEN Put(IF CrossNamespace
                THEN [NewRB(obj.sa, "scoper") EXCEPT !.owners = {uid}]
                ELSE [NewRB(obj.sa, "scoper") EXCEPT !.refs = {uid}])
       ELSE UNCHANGED rbs
    /\ Succeed
    /\ UNCHANGED <<restVars, faults>>

----------------------------------------------------------------------------
(* ensureRoleBindingSpec, RoleRef drift: read again, delete, create.  The  *)
(* copy keeps the owners; the pending-owner annotation is not carried on.  *)

Refetch ==
    /\ pc = "refetch"
    /\ copy' = IF Read(key) = NoRB THEN copy ELSE Read(key)
    /\ Goto("delete")
    /\ UNCHANGED <<restVars, rbs, faults>>

DeleteDrifted ==
    /\ pc = "delete"
    /\ Put(NoRB)
    /\ Goto("recreate")
    /\ UNCHANGED <<restVars, copy, faults>>

Recreated == [NewRB(obj.sa, "scoper") EXCEPT !.refs = copy.refs, !.owners = copy.owners]

Recreate ==
    /\ pc = "recreate"
    /\ IF rbs[key] = NoRB THEN Put(Recreated) ELSE UNCHANGED rbs
    /\ Goto(AfterSpec)
    /\ copy' = NoRB
    /\ UNCHANGED <<restVars, faults>>

(* A Get before an Update or a Patch: NotFound is an error.                *)
ReadFor(label, done, next) ==
    LET rb == Read(key) IN
    IF rb = NoRB THEN Requeue
    ELSE IF done THEN next
    ELSE Goto(label) /\ copy' = rb

ReadSubjects ==
    /\ pc = "readSubjects"
    /\ ReadFor("writeSubjects", FALSE, FALSE)
    /\ UNCHANGED <<restVars, rbs, faults>>

WriteSubjects ==
    /\ pc = "writeSubjects"
    /\ Update([copy EXCEPT !.subject = obj.sa], "readSubjects",
              Goto(AfterSpec) /\ copy' = NoRB)
    /\ UNCHANGED <<restVars, faults>>

----------------------------------------------------------------------------
(* backfillPendingOwner, for same-namespace targets.                       *)

ReadPending ==
    /\ pc = "readPending"
    /\ ReadFor("writePending", Read(key).pending # cur,
               Goto("readRefs") /\ UNCHANGED copy)
    /\ UNCHANGED <<restVars, rbs, faults>>

(* Mutant: the annotation stays when the owner reference is set.           *)
WriteReferenceOnly ==
    /\ pc = "writePending"
    /\ Update([copy EXCEPT !.refs = SetOwnerReference(@, uid)],
              "readPending", Goto("readRefs") /\ copy' = NoRB)
    /\ UNCHANGED <<restVars, faults>>

WritePending ==
    /\ pc = "writePending"
    /\ Update([copy EXCEPT !.refs = SetOwnerReference(@, uid), !.pending = NoOwner],
              "readPending", Goto("readRefs") /\ copy' = NoRB)
    /\ UNCHANGED <<restVars, faults>>

(* Mutants: any owner reference will do; the patch holds only the new one. *)
ReadAnyReference ==
    /\ pc = "readRefs"
    /\ ReadFor("patchRefs", Read(key).refs # {}, Succeed)
    /\ UNCHANGED <<restVars, rbs, faults>>

PatchOneReference ==
    /\ pc = "patchRefs"
    /\ IF rbs[key] = NoRB
       THEN UNCHANGED rbs /\ Requeue
       ELSE Put([rbs[key] EXCEPT !.refs = {uid}]) /\ Succeed
    /\ UNCHANGED <<restVars, faults>>

(* ensureOwnerReference.  The patch is the difference of two copies: it    *)
(* carries the whole list of references and no resourceVersion.            *)
ReadRefs ==
    /\ pc = "readRefs"
    /\ ReadFor("patchRefs", uid \in Read(key).refs, Succeed)
    /\ UNCHANGED <<restVars, rbs, faults>>

PatchRefs ==
    /\ pc = "patchRefs"
    /\ IF rbs[key] = NoRB
       THEN UNCHANGED rbs /\ Requeue
       ELSE Put([rbs[key] EXCEPT !.refs = SetOwnerReference(copy.refs, uid)]) /\ Succeed
    /\ UNCHANGED <<restVars, faults>>

(* Mutant: one entry, whoever it names, is taken for this CR's.            *)
ReadAnyOwner ==
    /\ pc = "readOwners"
    /\ ReadFor("writeOwners", Read(key).owners # {}, Succeed)
    /\ UNCHANGED <<restVars, rbs, faults>>

(* The owner annotation, for cross-namespace targets.                      *)
ReadOwners ==
    /\ pc = "readOwners"
    /\ ReadFor("writeOwners", uid \in Read(key).owners, Succeed)
    /\ UNCHANGED <<restVars, rbs, faults>>

(* Mutant: the annotation is written from this CR alone.                   *)
WriteOwnersAfresh ==
    /\ pc = "writeOwners"
    /\ Update([copy EXCEPT !.owners = {uid}], "readOwners", Succeed)
    /\ UNCHANGED <<restVars, faults>>

WriteOwners ==
    /\ pc = "writeOwners"
    /\ Update([copy EXCEPT !.owners = @ \cup {uid}], "readOwners", Succeed)
    /\ UNCHANGED <<restVars, faults>>

----------------------------------------------------------------------------
(* Failures of the API server, bounded by MaxFaults.                       *)

Fault == faults < MaxFaults /\ faults' = faults + 1

(* Any other error of any call: Reconcile returns it.                      *)
APIError ==
    /\ pc \notin {"idle", "namespace"}
    /\ Fault
    /\ Requeue
    /\ UNCHANGED <<restVars, rbs>>

(* An error reading the Namespace reads as "not allowed".                  *)
NamespaceReadFails ==
    /\ pc = "namespace" /\ HasSelector
    /\ Fault
    /\ Drop
    /\ UNCHANGED <<restVars, rbs>>

ReconcilerStep ==
    \/ CheckNamespace \/ CheckClusterRole \/ GetRoleBinding \/ CreateRoleBinding
    \/ Refetch \/ DeleteDrifted \/ Recreate \/ ReadSubjects \/ WriteSubjects
    \/ ReadPending \/ WritePending \/ ReadRefs \/ PatchRefs
    \/ ReadOwners \/ WriteOwners

Reconciler ==
    \/ \E c \in CRs : Dequeue(c)
    \/ ReconcilerStep
    \/ APIError
    \/ NamespaceReadFails
============================================================================
