--------------------------- MODULE Orphans_proofs ---------------------------
(***************************************************************************)
(* No RoleBinding is left that nobody knows the reason for: each one that  *)
(* no CR asks for carries what the garbage collector, the cleanup ticker   *)
(* or the label trigger goes by, for any number of CRs, edits and faults,  *)
(* and however old the copies are that the workers write from.             *)
(***************************************************************************)
EXTENDS Scoper_proofs

USE ClusterAssumption

(* Where it holds.  A repair of the RoleRef makes a RoleBinding of the     *)
(* scoping controller from any other and leaves the pending owner out.  A  *)
(* generated name is not in the annotation.  The sweep knows the static    *)
(* name only.                                                              *)
Collectable ==
    /\ "role" \in EditKinds => ~WebhookProvisioning /\ ~HasLabelTrigger /\ "plant" \notin EditKinds
    /\ WebhookProvisioning => GenerateNames = {}
    /\ HasCleanup => \A c \in CRs : RBNameOf[c] = ManagedName

----------------------------------------------------------------------------
(* What a RoleBinding says of itself.                                      *)

(* A recorded owner is a CR that would ask for this RoleBinding, or for    *)
(* one of its name elsewhere.                                              *)
Placed(k, u) ==
    IF CrossNamespace THEN RBNameOf[u[1]] = k[2] ELSE <<HomeNs[u[1]], RBNameOf[u[1]]>> = k

Accounted(k, rb) ==
    \/ Recorded(rb) # {}
    \/ rb.pending # NoOwner
    \/ HasLabelTrigger /\ k[2] = ManagedName /\ rb.createdBy = "label-trigger"

Leashed(k, rb) ==
    /\ \A u \in Recorded(rb) : Placed(k, u)
    /\ rb.pending # NoOwner =>
          WebhookProvisioning /\ rb.pending \in CRs /\ AdmKey(rb.pending) = k
    /\ Managed(rb) => Accounted(k, rb)
    /\ "role" \notin EditKinds => rb.role
    /\ "role" \in EditKinds => rb.createdBy = "scoper"

(* And what the workers know of it: the reconciler's copy is of its key,   *)
(* it repairs a RoleRef only where somebody has replaced one, the sweep    *)
(* keeps none but listed owners, and nobody works who is not set up.       *)
RBsLeashed    == \A k \in Keys : rbs[k] # NoRB => Leashed(k, rbs[k])
CacheLeashed  == \A k \in Keys : cache[k] # NoRB => Leashed(k, cache[k])
CopyLeashed   == pc \in CopyLabels => Leashed(key, copy)
RepairsKnown  == pc \in {"refetch", "delete", "recreate"} => "role" \in EditKinds
SweepKeepsListed ==
    IF cpc = "entries" THEN unchecked \cup valid \subseteq snap[ckey].owners
    ELSE unchecked = {} /\ valid = {}
TriggerSetUp  == lpc # "idle" \/ nsQueue # {} => HasLabelTrigger
WebhookSetUp  == \A c \in CRs : adm[c] # NoCR => WebhookProvisioning

LeashInv ==
    /\ RBsLeashed /\ CacheLeashed
    /\ CopyLeashed /\ RepairsKnown
    /\ SweepKeepsListed
    /\ TriggerSetUp /\ WebhookSetUp

----------------------------------------------------------------------------
(* Writing and reading.                                                    *)

LEMMA WriteLeashed ==
    ASSUME ClusterTypeOK, RBsLeashed, NEW k \in Keys, NEW x, Written(k, x),
           x = NoRB \/ Leashed(k, x)
    PROVE  RBsLeashed'
<1> SUFFICES ASSUME NEW j \in Keys, rbs'[j] # NoRB PROVE Leashed(j, rbs'[j])
  BY DEF RBsLeashed, Leashed, Recorded, Placed, Managed, Accounted, AdmKey
<1> QED BY DEF ClusterTypeOK, Written, RBsLeashed

LEMMA UnwrittenLeashed ==
    /\ RBsLeashed /\ UNCHANGED rbs => RBsLeashed'
    /\ CacheLeashed /\ UNCHANGED cache => CacheLeashed'
BY DEF RBsLeashed, CacheLeashed, Leashed, Recorded, Placed, Managed, Accounted, AdmKey

LEMMA ReadLeashed ==
    ASSUME LeashInv, NEW k \in Keys, Read(k) # NoRB
    PROVE  Leashed(k, Read(k))
BY DEF LeashInv, RBsLeashed, CacheLeashed, Read

(* A change of a leashed RoleBinding that keeps the owners, or records     *)
(* others that belong there, whether or not it takes the pending one.      *)
LEMMA ChangeLeashed ==
    ASSUME NEW k \in Keys, NEW rb, Leashed(k, rb), NEW x,
           x.createdBy = rb.createdBy,
           x.role = rb.role \/ "role" \in EditKinds,
           \/ Recorded(x) = Recorded(rb) /\ x.pending = rb.pending
           \/ /\ Recorded(x) # {} /\ \A u \in Recorded(x) : Placed(k, u)
              /\ x.pending \in {rb.pending, NoOwner}
    PROVE  Leashed(k, x)
BY DEF Leashed, Managed, Accounted

----------------------------------------------------------------------------
(* Users, admins and Kubernetes.                                           *)

LEMMA EnvironmentLeashed ==
    ASSUME IInv, Collectable, LeashInv, Environment, UNCHANGED lpc
    PROVE  RBsLeashed' /\ CacheLeashed' /\ TriggerSetUp'
<1> USE DEF userVars, nsVars, queueVars, boundVars
<1>0. ClusterTypeOK /\ RBsLeashed /\ CacheLeashed /\ TriggerSetUp
  BY DEF IInv, TypeOK, LeashInv
<1>1. UNCHANGED nsQueue => TriggerSetUp'
  BY <1>0 DEF TriggerSetUp
<1>2. ASSUME NEW c \in CRs, \/ DeleteCR(c) \/ Resync(c) \/ \E s \in Specs : EditCR(c, s)
      PROVE  UNCHANGED <<rbs, cache, nsQueue>>
  BY <1>2 DEF DeleteCR, Resync, EditCR
<1>3. ASSUME NEW n \in Namespaces,
             RelabelForSelector(n) \/ RelabelForTrigger(n) \/ ResyncNamespace(n)
      PROVE  UNCHANGED <<rbs, cache>> /\ TriggerSetUp'
  BY <1>0, <1>3 DEF RelabelForSelector, RelabelForTrigger, NamespaceEvent, ResyncNamespace,
     TriggerSetUp
<1>4. CASE EditClusterRole
  BY <1>0, <1>1, <1>4, UnwrittenLeashed DEF EditClusterRole
<1>5. ASSUME NEW k \in Keys, CacheSync(k)
      PROVE  RBsLeashed' /\ CacheLeashed' /\ TriggerSetUp'
  <2>1. RBsLeashed' /\ TriggerSetUp'
    BY <1>0, <1>1, <1>5, UnwrittenLeashed DEF CacheSync
  <2>2. ASSUME NEW j \in Keys, cache'[j] # NoRB PROVE Leashed(j, cache'[j])
    BY <1>0, <1>5, <2>2 DEF CacheSync, ClusterTypeOK, RBsLeashed, CacheLeashed
  <2>3. CacheLeashed'
    BY <2>2 DEF CacheLeashed, Leashed, Recorded, Placed, Managed, Accounted, AdmKey
  <2> QED BY <2>1, <2>3
<1>6. ASSUME NEW k \in Keys, \/ DeleteRB(k) \/ PlantRB(k) \/ DriftSubjects(k)
                             \/ DriftRoleRef(k) \/ GCDelete(k) \/ GCPrune(k)
      PROVE  RBsLeashed' /\ CacheLeashed' /\ TriggerSetUp'
  <2>1. CacheLeashed' /\ TriggerSetUp'
    BY <1>0, <1>1, <1>6, UnwrittenLeashed
       DEF DeleteRB, PlantRB, DriftSubjects, DriftRoleRef, GCDelete, GCPrune
  <2>2. \E x \in RB0 : Written(k, x) /\ (x = NoRB \/ Leashed(k, x))
    <3>1. rbs[k] # NoRB => rbs[k] \in RBObjects /\ Leashed(k, rbs[k])
      BY <1>0 DEF ClusterTypeOK, RBsLeashed
    <3>2. CASE DeleteRB(k) \/ GCDelete(k)
      BY <3>2 DEF DeleteRB, GCDelete, Written, RB0
    <3>3. CASE PlantRB(k)
      <4>1. "role" \notin EditKinds
        BY <3>3 DEF PlantRB, Edit, Collectable
      <4>2. Leashed(k, NewRB(Unset, "external"))
        BY <4>1 DEF Leashed, NewRB, Recorded, Managed
      <4> QED BY <3>3, <4>2, NewRBType DEF PlantRB, Written, RB0, Creators
    <3>4. CASE DriftSubjects(k)
      <4> DEFINE x == [rbs[k] EXCEPT !.subject = Unset]
      <4>1. x \in RB0 /\ Written(k, x)
        BY <3>1, <3>4, RBExceptType DEF DriftSubjects, Written, RB0
      <4>2. /\ x.createdBy = rbs[k].createdBy /\ x.role = rbs[k].role
            /\ Recorded(x) = Recorded(rbs[k]) /\ x.pending = rbs[k].pending
        BY <3>1, <3>4 DEF DriftSubjects, RBObjects, Recorded
      <4> QED BY <3>1, <3>4, <4>1, <4>2, ChangeLeashed DEF DriftSubjects
    <3>5. CASE DriftRoleRef(k)
      <4> DEFINE x == [rbs[k] EXCEPT !.role = FALSE]
      <4>1. x \in RB0 /\ Written(k, x) /\ "role" \in EditKinds
        BY <3>1, <3>5, RBExceptType DEF DriftRoleRef, Edit, Written, RB0
      <4>2. /\ x.createdBy = rbs[k].createdBy
            /\ Recorded(x) = Recorded(rbs[k]) /\ x.pending = rbs[k].pending
        BY <3>1, <3>5 DEF DriftRoleRef, RBObjects, Recorded
      <4> QED BY <3>1, <3>5, <4>1, <4>2, ChangeLeashed DEF DriftRoleRef
    <3>6. CASE GCPrune(k)
      <4> DEFINE S == {u \in rbs[k].refs : Live(u)}
                 x == [rbs[k] EXCEPT !.refs = S]
      <4>1. S \in SUBSET UIDs /\ S \subseteq rbs[k].refs /\ S # {}
        BY <3>1, <3>6, RBExceptType DEF GCPrune
      <4> HIDE DEF S
      <4>2. x \in RB0
        BY <3>1, <3>6, <4>1, RBExceptType DEF GCPrune, RB0
      <4>3. /\ x.createdBy = rbs[k].createdBy /\ x.role = rbs[k].role
            /\ x.pending = rbs[k].pending /\ x.refs = S /\ x.owners = rbs[k].owners
        BY <3>1, <3>6 DEF GCPrune, RBObjects
      <4>4. \/ Recorded(x) = Recorded(rbs[k])
            \/ Recorded(x) # {} /\ \A u \in Recorded(x) : Placed(k, u)
        BY <3>1, <3>6, <4>1, <4>3 DEF GCPrune, Recorded, Leashed
      <4>5. Written(k, x)
        BY <3>6 DEF GCPrune, Written, S
      <4> HIDE DEF x
      <4> QED BY <3>1, <3>6, <4>2, <4>3, <4>4, <4>5, ChangeLeashed DEF GCPrune
    <3> QED BY <1>6, <3>2, <3>3, <3>4, <3>5, <3>6
  <2> QED BY <1>0, <2>1, <2>2, WriteLeashed
<1> QED
  BY <1>0, <1>1, <1>2, <1>3, <1>4, <1>5, <1>6, UnwrittenLeashed DEF Environment

----------------------------------------------------------------------------
(* The scoping controller.                                                 *)

(* The worker's own CR belongs at its key, beside whoever does.            *)
LEMMA OwnPlaced ==
    ASSUME IInv, pc \notin {"idle", "namespace"}
    PROVE  /\ Placed(key, uid)
           /\ \A S : (\A u \in S : Placed(key, u)) =>
                 /\ \A u \in SetOwnerReference(S, uid) : Placed(key, u)
                 /\ SetOwnerReference(S, uid) # {}
                 /\ \A u \in S \cup {uid} : Placed(key, u)
<1>1. Placed(key, uid)
  BY DEF Placed, key, uid, KeyOf, TargetOf
<1> QED BY <1>1 DEF SetOwnerReference

(* An Update writes a change of what is there, which the copy equals.      *)
LEMMA UpdateLeashed ==
    ASSUME IInv, LeashInv, pc \in CopyLabels, NEW x, NEW again, NEW next,
           Update(x, again, next), Leashed(key, copy) => Leashed(key, x)
    PROVE  UNCHANGED rbs \/ (Put(x) /\ Leashed(key, x))
BY DEF Update, LeashInv, CopyLeashed

(* Every RoleBinding the worker writes is leashed.                         *)
LEMMA WorkerWritesLeashed ==
    ASSUME IInv, Collectable, LeashInv, Reconciler
    PROVE  RBsLeashed'
<1>0. ClusterTypeOK /\ RBsLeashed /\ CopyLeashed /\ RepairsKnown /\ RecInv
  BY DEF IInv, TypeOK, LeashInv, WorkersKnow, RecInv
<1>1. ASSUME pc \notin {"idle", "namespace"}, NEW x, Put(x), x = NoRB \/ Leashed(key, x)
      PROVE  RBsLeashed'
  BY <1>0, <1>1, KeyType, WriteLeashed DEF Put, Written
<1>2. ASSUME UNCHANGED rbs PROVE RBsLeashed'
  BY <1>0, <1>2, UnwrittenLeashed
<1>3. pc \in CopyLabels => copy \in RBObjects /\ Leashed(key, copy)
  BY <1>0 DEF CopyLeashed, RecInv, RecKnows
<1>4. CASE CreateRoleBinding
  <2> DEFINE new == NewRB(obj.sa, "scoper")
             x == IF CrossNamespace THEN [new EXCEPT !.owners = {uid}]
                                    ELSE [new EXCEPT !.refs = {uid}]
  <2>1. pc = "create" /\ Placed(key, uid)
    BY <1>4, OwnPlaced DEF CreateRoleBinding
  <2>2. Recorded(x) = {uid} /\ x.pending = NoOwner /\ x.role /\ x.createdBy = "scoper"
    BY DEF NewRB, Recorded
  <2>3. Leashed(key, x)
    BY <2>1, <2>2 DEF Leashed, Accounted
  <2> QED BY <1>1, <1>2, <1>4, <2>1, <2>3 DEF CreateRoleBinding
<1>5. CASE DeleteDrifted
  BY <1>1, <1>5 DEF DeleteDrifted
<1>6. CASE Recreate
  <2>1. copy \in RBObjects /\ Leashed(key, copy) /\ "role" \in EditKinds
    BY <1>0, <1>3, <1>6 DEF Recreate, RepairsKnown, CopyLabels
  <2>2. ~WebhookProvisioning /\ ~HasLabelTrigger
    BY <2>1 DEF Collectable
  <2>3. Recorded(copy) # {}
    BY <2>1, <2>2 DEF Leashed, Managed, Accounted
  <2>4. /\ Recorded(Recreated) = Recorded(copy)
        /\ Recreated.pending = NoOwner /\ Recreated.createdBy = "scoper"
    BY DEF Recreated, NewRB, Recorded
  <2>5. Leashed(key, Recreated)
    BY <2>1, <2>3, <2>4 DEF Leashed, Accounted
  <2> QED BY <1>1, <1>2, <1>6, <2>5 DEF Recreate
<1>7. CASE WriteSubjects
  <2> DEFINE x == [copy EXCEPT !.subject = obj.sa]
  <2>1. pc \in CopyLabels /\ copy \in RBObjects
    BY <1>3, <1>7 DEF WriteSubjects, CopyLabels
  <2>2. /\ x.createdBy = copy.createdBy /\ x.role = copy.role /\ x.pending = copy.pending
        /\ Recorded(x) = Recorded(copy)
    BY <2>1 DEF RBObjects, Recorded
  <2>3. Leashed(key, copy) => Leashed(key, x)
    BY <2>2, ChangeLeashed, <1>0, <1>7, KeyType DEF WriteSubjects
  <2> QED BY <1>1, <1>2, <1>7, <2>1, <2>3, UpdateLeashed DEF WriteSubjects
<1>8. CASE WritePending
  <2> DEFINE S == SetOwnerReference(copy.refs, uid)
             x == [copy EXCEPT !.refs = SetOwnerReference(@, uid), !.pending = NoOwner]
  <2>1. pc \in CopyLabels /\ copy \in RBObjects /\ Leashed(key, copy) /\ key \in Keys
    BY <1>0, <1>3, <1>8, KeyType DEF WritePending, CopyLabels
  <2>2. /\ x.createdBy = copy.createdBy /\ x.role = copy.role /\ x.pending = NoOwner
        /\ x.refs = S /\ x.owners = copy.owners
    BY <2>1 DEF RBObjects
  <2>3. ASSUME CrossNamespace PROVE Leashed(key, x)
    <3>1. copy.pending = NoOwner
      BY <2>1, <2>3, TargetAssumption DEF Leashed
    <3>2. Recorded(x) = Recorded(copy)
      BY <2>2, <2>3 DEF Recorded
    <3> QED BY <2>1, <2>2, <3>1, <3>2, ChangeLeashed
  <2>4. ASSUME ~CrossNamespace PROVE Leashed(key, x)
    <3>1. Recorded(x) # {} /\ \A u \in Recorded(x) : Placed(key, u)
      BY <1>8, <2>1, <2>2, <2>4, OwnPlaced DEF WritePending, Leashed, Recorded
    <3> QED BY <2>1, <2>2, <3>1, ChangeLeashed
  <2>5. Leashed(key, x)
    BY <2>3, <2>4
  <2> QED BY <1>1, <1>2, <1>8, <2>1, <2>5, UpdateLeashed DEF WritePending
<1>9. CASE PatchRefs
  <2> DEFINE S == SetOwnerReference(copy.refs, uid)
             x == [rbs[key] EXCEPT !.refs = S]
  <2> SUFFICES ASSUME rbs[key] # NoRB, Put(x) PROVE RBsLeashed'
    BY <1>2, <1>9 DEF PatchRefs
  <2>1. Leashed(key, copy) /\ key \in Keys
    BY <1>0, <1>3, <1>9, KeyType DEF PatchRefs, CopyLabels
  <2>2. rbs[key] \in RBObjects /\ Leashed(key, rbs[key])
    BY <1>0, <2>1 DEF ClusterTypeOK, RBsLeashed
  <2>3. /\ x.createdBy = rbs[key].createdBy /\ x.role = rbs[key].role
        /\ x.pending = rbs[key].pending /\ x.refs = S /\ x.owners = rbs[key].owners
    BY <2>2 DEF RBObjects
  <2>4. \/ Recorded(x) = Recorded(rbs[key])
        \/ Recorded(x) # {} /\ \A u \in Recorded(x) : Placed(key, u)
    BY <1>9, <2>1, <2>3, OwnPlaced DEF PatchRefs, Leashed, Recorded
  <2>5. Leashed(key, x)
    BY <2>1, <2>2, <2>3, <2>4, ChangeLeashed
  <2> QED BY <1>1, <1>9, <2>5 DEF PatchRefs
<1>10. CASE WriteOwners
  <2> DEFINE S == copy.owners \cup {uid}
             x == [copy EXCEPT !.owners = @ \cup {uid}]
  <2>1. pc \in CopyLabels /\ copy \in RBObjects /\ Leashed(key, copy) /\ key \in Keys
    BY <1>0, <1>3, <1>10, KeyType DEF WriteOwners, CopyLabels
  <2>2. /\ x.createdBy = copy.createdBy /\ x.role = copy.role /\ x.pending = copy.pending
        /\ x.owners = S /\ x.refs = copy.refs
    BY <2>1 DEF RBObjects
  <2>3. \/ Recorded(x) = Recorded(copy)
        \/ Recorded(x) # {} /\ \A u \in Recorded(x) : Placed(key, u)
    BY <1>10, <2>1, <2>2, OwnPlaced DEF WriteOwners, Leashed, Recorded
  <2>4. Leashed(key, x)
    BY <2>1, <2>2, <2>3, ChangeLeashed
  <2> QED BY <1>1, <1>2, <1>10, <2>1, <2>4, UpdateLeashed DEF WriteOwners
<1>11. CASE \/ \E c \in CRs : Dequeue(c)
            \/ CheckNamespace \/ CheckClusterRole \/ GetRoleBinding \/ Refetch
            \/ ReadSubjects \/ ReadPending \/ ReadRefs \/ ReadOwners
            \/ APIError \/ NamespaceReadFails
  BY <1>2, <1>11 DEF Dequeue, DequeueGone, DequeueLive, CheckNamespace, CheckClusterRole,
     GetRoleBinding, Refetch, ReadSubjects, ReadPending, ReadRefs, ReadOwners, APIError,
     NamespaceReadFails
<1> QED
  BY <1>4, <1>5, <1>6, <1>7, <1>8, <1>9, <1>10, <1>11 DEF Reconciler, ReconcilerStep

(* What it reads is, and it repairs only what has been replaced.           *)
LEMMA WorkerReadsLeashed ==
    ASSUME IInv, LeashInv, Reconciler
    PROVE  CopyLeashed' /\ RepairsKnown'
<1> USE DEF CopyLeashed, RepairsKnown, CopyLabels
<1>0. RecInv
  BY DEF IInv, TypeOK, WorkersKnow, RecInv
<1>1. ASSUME Reset PROVE CopyLeashed' /\ RepairsKnown'
  BY <1>1 DEF Reset
<1>2. ASSUME NEW label, Goto(label), label \notin CopyLabels
      PROVE  CopyLeashed' /\ RepairsKnown'
  BY <1>2 DEF Goto
<1>3. ASSUME NEW label, Goto(label), Leashed(key, copy'),
             label \in {"refetch", "delete", "recreate"} => "role" \in EditKinds
      PROVE  CopyLeashed' /\ RepairsKnown'
  BY <1>3 DEF Goto, key, Leashed, Placed, Recorded, Managed, Accounted, AdmKey, KeyOf, TargetOf
<1>4. ASSUME pc \notin {"idle", "namespace"}, Read(key) # NoRB PROVE Leashed(key, Read(key))
  BY <1>0, <1>4, KeyType, ReadLeashed
<1>5. ASSUME pc \notin {"idle", "namespace"}, NEW label \in CopyLabels \ {"refetch", "delete", "recreate"},
             NEW done, NEW next, ReadFor(label, done, next), done /\ next => Succeed \/ Goto("readRefs")
      PROVE  CopyLeashed' /\ RepairsKnown'
  <2>1. CASE Requeue \/ Succeed
    BY <1>1, <2>1 DEF Requeue, Succeed
  <2>2. CASE Goto("readRefs")
    BY <1>2, <2>2
  <2>3. CASE Read(key) # NoRB /\ Goto(label) /\ copy' = Read(key)
    BY <1>3, <1>4, <1>5, <2>3
  <2> QED BY <1>5, <2>1, <2>2, <2>3 DEF ReadFor
<1>6. ASSUME NEW x, NEW again \in Labels \ CopyLabels, NEW next, Update(x, again, next),
             next => Reset \/ \E label \in Labels \ CopyLabels : Goto(label)
      PROVE  CopyLeashed' /\ RepairsKnown'
  BY <1>1, <1>2, <1>6 DEF Update, Requeue
<1>7. AfterSpec \in Labels \ CopyLabels
  BY DEF AfterSpec, Labels
<1>8. ASSUME NEW c \in CRs, Dequeue(c) PROVE CopyLeashed' /\ RepairsKnown'
  <2>1. CASE DequeueGone(c)
    BY <2>1 DEF DequeueGone, recVars
  <2>2. CASE DequeueLive(c)
    BY <2>2 DEF DequeueLive
  <2> QED BY <1>8, <2>1, <2>2 DEF Dequeue
<1>9. CASE CheckNamespace \/ CheckClusterRole \/ CreateRoleBinding \/ PatchRefs \/ APIError
           \/ NamespaceReadFails
  BY <1>1, <1>2, <1>9 DEF CheckNamespace, CheckClusterRole, CreateRoleBinding, PatchRefs,
     APIError, NamespaceReadFails, Drop, Requeue, Succeed
<1>10. CASE GetRoleBinding
  <2>1. CASE Requeue
    BY <1>1, <2>1 DEF Requeue
  <2>2. CASE Goto("create") \/ Goto("readSubjects") \/ Goto(AfterSpec)
    BY <1>2, <1>7, <2>2
  <2>3. CASE Read(key) # NoRB /\ ~Read(key).role /\ Goto("refetch") /\ copy' = Read(key)
    <3>1. Leashed(key, copy')
      BY <1>4, <1>10, <2>3 DEF GetRoleBinding
    <3>2. "role" \in EditKinds
      BY <2>3, <3>1 DEF Leashed
    <3> QED BY <1>3, <2>3, <3>1, <3>2
  <2> QED BY <1>10, <2>1, <2>2, <2>3 DEF GetRoleBinding
<1>11. CASE Refetch \/ DeleteDrifted
  <2>1. Leashed(key, copy) /\ "role" \in EditKinds
    BY <1>11 DEF Refetch, DeleteDrifted, LeashInv
  <2>2. Leashed(key, copy')
    BY <1>4, <1>11, <2>1 DEF Refetch, DeleteDrifted
  <2> QED BY <1>3, <1>11, <2>1, <2>2 DEF Refetch, DeleteDrifted
<1>12. CASE Recreate
  BY <1>2, <1>7, <1>12 DEF Recreate
<1>13. CASE ReadSubjects
  BY <1>5, <1>13 DEF ReadSubjects
<1>14. CASE ReadPending
  BY <1>5, <1>14 DEF ReadPending
<1>15. CASE ReadRefs
  BY <1>5, <1>15 DEF ReadRefs
<1>16. CASE ReadOwners
  BY <1>5, <1>16 DEF ReadOwners
<1>17. CASE WriteSubjects
  BY <1>6, <1>7, <1>17 DEF WriteSubjects, Labels
<1>18. CASE WritePending
  BY <1>6, <1>18 DEF WritePending, Labels
<1>19. CASE WriteOwners
  BY <1>6, <1>19 DEF WriteOwners, Labels, Succeed
<1> QED
  BY <1>8, <1>9, <1>10, <1>11, <1>12, <1>13, <1>14, <1>15, <1>16, <1>17, <1>18, <1>19
     DEF Reconciler, ReconcilerStep
----------------------------------------------------------------------------
(* The others.                                                             *)

LEMMA SweepLeashed ==
    ASSUME IInv, LeashInv, Cleanup
    PROVE  RBsLeashed' /\ SweepKeepsListed'
<1>0. ClusterTypeOK /\ RBsLeashed /\ SweepKeepsListed /\ CleanTypeOK /\ CleanKnows
  BY DEF IInv, TypeOK, LeashInv, WorkersKnow
<1>1. UNCHANGED rbs => RBsLeashed'
  BY <1>0, UnwrittenLeashed
<1>2. DoneWithIt => SweepKeepsListed'
  BY DEF DoneWithIt, SweepKeepsListed
<1>3. CASE ListManaged
  BY <1>0, <1>1, <1>3 DEF ListManaged, SweepKeepsListed
<1>4. ASSUME NEW k \in Keys, PickRoleBinding(k) PROVE RBsLeashed' /\ SweepKeepsListed'
  BY <1>0, <1>1, <1>4 DEF PickRoleBinding, SweepKeepsListed
<1>5. ASSUME NEW u \in UIDs, CheckEntry(u) PROVE RBsLeashed' /\ SweepKeepsListed'
  BY <1>0, <1>1, <1>5 DEF CheckEntry, SweepKeepsListed
<1>6. CASE SettleEntries
  <2>1. ckey \in Keys /\ snap[ckey] \in RBObjects /\ valid \subseteq snap[ckey].owners
    BY <1>0, <1>6 DEF SettleEntries, CleanKnows, SweepKeepsListed
  <2>2. CASE UNCHANGED rbs
    BY <1>1, <1>2, <1>6, <2>2 DEF SettleEntries
  <2>3. CASE rbs' = [rbs EXCEPT ![ckey] = NoRB]
    BY <1>0, <1>2, <1>6, <2>1, <2>3, WriteLeashed DEF SettleEntries, Written
  <2>4. CASE valid # {} /\ rbs[ckey] = snap[ckey] /\ rbs' = [rbs EXCEPT ![ckey].owners = valid]
    <3> DEFINE x == [rbs[ckey] EXCEPT !.owners = valid]
    <3>1. rbs[ckey] \in RBObjects /\ Leashed(ckey, rbs[ckey])
      BY <1>0, <2>1, <2>4 DEF ClusterTypeOK, RBsLeashed
    <3>2. /\ x.createdBy = rbs[ckey].createdBy /\ x.role = rbs[ckey].role
          /\ x.pending = rbs[ckey].pending /\ x.owners = valid /\ x.refs = rbs[ckey].refs
      BY <3>1 DEF RBObjects
    <3>3. \/ Recorded(x) = Recorded(rbs[ckey])
          \/ Recorded(x) # {} /\ \A u \in Recorded(x) : Placed(ckey, u)
      BY <2>1, <2>4, <3>1, <3>2 DEF Recorded, Leashed
    <3>4. Leashed(ckey, x)
      BY <2>1, <3>1, <3>2, <3>3, ChangeLeashed
    <3>5. Written(ckey, x)
      BY <2>4 DEF Written
    <3> HIDE DEF x
    <3> QED BY <1>0, <1>2, <1>6, <2>1, <3>4, <3>5, WriteLeashed DEF SettleEntries
  <2> QED BY <1>6, <2>2, <2>3, <2>4 DEF SettleEntries
<1>7. CASE CheckPendingOwner
  BY <1>0, <1>1, <1>2, <1>7 DEF CheckPendingOwner, SweepKeepsListed
<1>8. CASE DeletePending
  BY <1>0, <1>2, <1>8, WriteLeashed DEF DeletePending, CleanKnows, Written
<1>9. CASE CleanupError
  <2>1. \/ DoneWithIt
        \/ \E u \in unchecked : /\ cpc = "entries" /\ unchecked' = unchecked \ {u}
                                /\ valid' = valid \cup {u} /\ UNCHANGED <<cpc, snap, ckey>>
    BY <1>9 DEF CleanupError
  <2>2. SweepKeepsListed'
    BY <1>0, <1>2, <2>1 DEF SweepKeepsListed
  <2> QED BY <1>1, <1>9, <2>2 DEF CleanupError
<1> QED BY <1>3, <1>4, <1>5, <1>6, <1>7, <1>8, <1>9 DEF Cleanup, CleanupStep

LEMMA AdmissionLeashed ==
    ASSUME IInv, Collectable, LeashInv, Admission
    PROVE  RBsLeashed' /\ WebhookSetUp'
<1>0. ClusterTypeOK /\ RBsLeashed /\ WebhookSetUp /\ AdmTypeOK
  BY DEF IInv, TypeOK, LeashInv
<1>1. UNCHANGED rbs => RBsLeashed'
  BY <1>0, UnwrittenLeashed
<1>2. ASSUME NEW c \in CRs, \E s \in Specs : Admit(c, s) PROVE UNCHANGED rbs /\ WebhookSetUp'
  BY <1>0, <1>2 DEF Admit, WebhookSetUp
<1>3. ASSUME NEW c \in CRs, adm[c] # NoCR, \E a : adm' = [adm EXCEPT ![c] = a]
      PROVE  WebhookSetUp'
  BY <1>0, <1>3 DEF WebhookSetUp, AdmTypeOK
<1>4. ASSUME NEW c \in CRs, WebhookGet(c) \/ WebhookFails(c) \/ Store(c) \/ Refuse(c)
      PROVE  UNCHANGED rbs /\ WebhookSetUp'
  BY <1>3, <1>4 DEF WebhookGet, WebhookFails, Store, Refuse, CreateCR, At, AdvanceTo, admRest
<1>5. ASSUME NEW c \in CRs, WebhookCreate(c) PROVE RBsLeashed' /\ WebhookSetUp'
  <2> DEFINE x == [NewRB(TargetSA, "webhook") EXCEPT !.pending = c]
  <2>1. WebhookSetUp' /\ WebhookProvisioning
    BY <1>0, <1>3, <1>5 DEF WebhookCreate, At, AdvanceTo, WebhookSetUp
  <2>2. c \notin GenerateNames /\ "role" \notin EditKinds
    BY <2>1 DEF Collectable
  <2>3. AdmKey(c) \in Keys
    BY DEF AdmKey, Keys
  <2>4. /\ x.pending = c /\ c # NoOwner /\ x.role /\ Recorded(x) = {}
    BY DEF NewRB, Recorded
  <2>5. Leashed(AdmKey(c), x)
    BY <2>1, <2>2, <2>4 DEF Leashed, Accounted
  <2>6. UNCHANGED rbs \/ Written(AdmKey(c), x)
    BY <1>5, <2>2 DEF WebhookCreate, Written
  <2> QED BY <1>0, <1>1, <2>1, <2>3, <2>5, <2>6, WriteLeashed
<1>6. ASSUME NEW k \in Keys, Ripen(k) PROVE UNCHANGED rbs /\ WebhookSetUp'
  BY <1>0, <1>6 DEF Ripen, WebhookSetUp
<1> QED BY <1>1, <1>2, <1>4, <1>5, <1>6 DEF Admission, AdmissionStep

LEMMA TriggerLeashed ==
    ASSUME IInv, Collectable, LeashInv, Trigger
    PROVE  RBsLeashed' /\ TriggerSetUp'
<1>0. ClusterTypeOK /\ RBsLeashed /\ TriggerSetUp /\ TrigKnows
  BY DEF IInv, TypeOK, LeashInv, WorkersKnow
<1>1. HasLabelTrigger
  BY <1>0 DEF Trigger, TriggerStep, LDequeue, LCheckClusterRole, LCreate, LCheckDrift,
     LDeleteDrifted, LRecreate, LReadSubjects, LWriteSubjects, LCheckRemovable, LRemove, LError,
     TriggerSetUp
<1>2. TriggerSetUp'
  BY <1>1 DEF TriggerSetUp
<1>3. UNCHANGED rbs => RBsLeashed'
  BY <1>0, UnwrittenLeashed
<1>4. lpc # "idle" => lkey \in Keys /\ lkey[2] = ManagedName
  BY <1>0 DEF TrigKnows, lkey, Keys
<1>5. ASSUME lpc # "idle", NEW x, LPut(x), x = NoRB \/ Leashed(lkey, x) PROVE RBsLeashed'
  BY <1>0, <1>4, <1>5, WriteLeashed DEF LPut, Written
<1>6. lpc # "idle" => Leashed(lkey, Expected)
  <2>1. "role" \notin EditKinds
    BY <1>1 DEF Collectable
  <2>2. /\ Expected.createdBy = "label-trigger" /\ Expected.role
        /\ Expected.pending = NoOwner /\ Recorded(Expected) = {}
    BY DEF Expected, NewRB, Recorded
  <2> QED BY <1>1, <1>4, <2>1, <2>2 DEF Leashed, Accounted
<1>7. CASE LCreate \/ LRecreate
  BY <1>2, <1>3, <1>5, <1>6, <1>7 DEF LCreate, LRecreate
<1>8. CASE LDeleteDrifted \/ LRemove
  BY <1>2, <1>5, <1>8 DEF LDeleteDrifted, LRemove
<1>9. CASE LWriteSubjects
  <2> SUFFICES ASSUME rbs[lkey] = lcopy, LPut([lcopy EXCEPT !.subject = TargetSA])
               PROVE  RBsLeashed'
    BY <1>2, <1>3, <1>9 DEF LWriteSubjects
  <2> DEFINE x == [lcopy EXCEPT !.subject = TargetSA]
  <2>1. lcopy \in RBObjects /\ lkey \in Keys /\ Leashed(lkey, lcopy)
    BY <1>0, <1>4, <1>9 DEF LWriteSubjects, TrigKnows, RBsLeashed
  <2>2. /\ x.createdBy = lcopy.createdBy /\ x.role = lcopy.role /\ x.pending = lcopy.pending
        /\ Recorded(x) = Recorded(lcopy)
    BY <2>1 DEF RBObjects, Recorded
  <2>3. Leashed(lkey, x)
    BY <2>1, <2>2, ChangeLeashed
  <2> QED BY <1>5, <1>9, <2>3 DEF LWriteSubjects
<1>10. CASE \/ \E n \in Namespaces : LDequeue(n)
            \/ LCheckClusterRole \/ LCheckDrift \/ LReadSubjects \/ LCheckRemovable \/ LError
  BY <1>2, <1>3, <1>10 DEF LDequeue, LCheckClusterRole, LCheckDrift, LReadSubjects, LCheckRemovable,
     LError
<1> QED BY <1>2, <1>7, <1>8, <1>9, <1>10 DEF Trigger, TriggerStep

----------------------------------------------------------------------------
(* The whole.                                                              *)

(* Who does not step keeps what it knows.                                  *)
LEMMA RestingLeashed ==
    ASSUME LeashInv
    PROVE  /\ UNCHANGED recVars => CopyLeashed' /\ RepairsKnown'
           /\ UNCHANGED cleanVars => SweepKeepsListed'
           /\ UNCHANGED adm => WebhookSetUp'
           /\ UNCHANGED <<trigVars, nsQueue>> => TriggerSetUp'
<1>1. UNCHANGED recVars => CopyLeashed' /\ RepairsKnown'
  BY DEF LeashInv, recVars, CopyLeashed, RepairsKnown, key, KeyOf, TargetOf, Leashed, Placed,
     Recorded, Managed, Accounted, AdmKey
<1>2. UNCHANGED cleanVars => SweepKeepsListed'
  BY DEF LeashInv, cleanVars, SweepKeepsListed
<1>3. UNCHANGED adm => WebhookSetUp'
  BY DEF LeashInv, WebhookSetUp
<1>4. UNCHANGED <<trigVars, nsQueue>> => TriggerSetUp'
  BY DEF LeashInv, trigVars, TriggerSetUp
<1> QED BY <1>1, <1>2, <1>3, <1>4

LEMMA NextKeepsLeash ==
    ASSUME IInv, Collectable, LeashInv, [Next]_vars
    PROVE  LeashInv'
<1>0. UNCHANGED rbs => RBsLeashed'
  BY UnwrittenLeashed DEF LeashInv
<1>1. UNCHANGED cache => CacheLeashed'
  BY UnwrittenLeashed DEF LeashInv
<1>2. CASE Environment /\ UNCHANGED <<recVars, cleanVars, adm, trigVars>>
  BY <1>2, EnvironmentLeashed, RestingLeashed DEF trigVars, LeashInv
<1>3. CASE (\E c \in CRs, s \in Specs : Submit(c, s)) /\ UNCHANGED <<recVars, cleanVars, trigVars>>
  BY <1>0, <1>1, <1>3, RestingLeashed DEF Submit, CreateCR, LeashInv
<1>4. CASE Reconciler /\ UNCHANGED <<cleanVars, adm, trigVars>>
  <2>1. UNCHANGED <<cache, nsQueue>>
    BY <1>4 DEF Reconciler, ReconcilerStep, Dequeue, DequeueGone, DequeueLive, CheckNamespace,
       CheckClusterRole, GetRoleBinding, CreateRoleBinding, Refetch, DeleteDrifted, Recreate,
       ReadSubjects, WriteSubjects, ReadPending, WritePending, ReadRefs, PatchRefs, ReadOwners,
       WriteOwners, APIError, NamespaceReadFails, restVars
  <2> QED BY <1>1, <1>4, <2>1, WorkerWritesLeashed, WorkerReadsLeashed, RestingLeashed DEF LeashInv
<1>5. CASE Cleanup /\ UNCHANGED <<recVars, adm, trigVars>>
  <2>1. UNCHANGED <<cache, nsQueue>>
    BY <1>5 DEF Cleanup, CleanupStep, ListManaged, PickRoleBinding, CheckEntry, SettleEntries,
       CheckPendingOwner, DeletePending, CleanupError, cleanRest, queueVars
  <2> QED BY <1>1, <1>5, <2>1, SweepLeashed, RestingLeashed DEF LeashInv
<1>6. CASE Admission /\ UNCHANGED <<recVars, cleanVars, trigVars>>
  <2>1. UNCHANGED <<cache, nsQueue>>
    BY <1>6 DEF Admission, AdmissionStep, Admit, WebhookGet, WebhookCreate, WebhookFails, Store,
       CreateCR, Refuse, Ripen, admRest, queueVars
  <2> QED BY <1>1, <1>6, <2>1, AdmissionLeashed, RestingLeashed DEF LeashInv
<1>7. CASE Trigger /\ UNCHANGED <<recVars, cleanVars, adm>>
  <2>1. UNCHANGED cache
    BY <1>7 DEF Trigger, TriggerStep, LDequeue, LCheckClusterRole, LCreate, LCheckDrift,
       LDeleteDrifted, LRecreate, LReadSubjects, LWriteSubjects, LCheckRemovable, LRemove, LError,
       trigRest
  <2> QED BY <1>1, <1>7, <2>1, TriggerLeashed, RestingLeashed DEF LeashInv
<1>8. CASE Crash
  <2>1. RBsLeashed' /\ CacheLeashed'
    <3>1. RBsLeashed'
      BY <1>0, <1>8 DEF Crash
    <3>2. CASE CacheLag
      BY <1>8, <3>1, <3>2 DEF Crash, RBsLeashed, CacheLeashed
    <3>3. CASE ~CacheLag
      BY <1>1, <1>8, <3>1, <3>3 DEF Crash
    <3> QED BY <3>1, <3>2, <3>3
  <2>2. CopyLeashed' /\ RepairsKnown' /\ SweepKeepsListed' /\ TriggerSetUp'
    BY <1>8 DEF Crash, Reset, LReset, CopyLeashed, CopyLabels, RepairsKnown, SweepKeepsListed,
       TriggerSetUp
  <2>3. WebhookSetUp'
    BY <1>8 DEF Crash, LeashInv, WebhookSetUp
  <2> QED BY <2>1, <2>2, <2>3 DEF LeashInv
<1>9. CASE UNCHANGED vars
  BY <1>0, <1>1, <1>9, RestingLeashed DEF vars, clusterVars, LeashInv
<1> QED
  BY <1>2, <1>3, <1>4, <1>5, <1>6, <1>7, <1>8, <1>9 DEF Next

(* A leashed RoleBinding that no CR asks for is one that somebody goes by. *)
LEMMA LeashedIsTraceable ==
    ASSUME IInv, Collectable, LeashInv
    PROVE  OrphansAreTraceable
<1> SUFFICES ASSUME NEW k \in Keys, Orphan(k) PROVE Traceable(k)
  BY DEF OrphansAreTraceable
<1> DEFINE rb == rbs[k]
<1>1. rb \in RBObjects /\ Leashed(k, rb) /\ Accounted(k, rb)
  BY DEF Orphan, IInv, TypeOK, ClusterTypeOK, LeashInv, RBsLeashed, Leashed
<1>2. ASSUME NEW c \in CRs, crs[c] # NoCR PROVE KeyOf(c, crs[c]) # k
  BY <1>2 DEF Orphan, ClaimantsOf, LiveCRs
<1>3. rb.refs \subseteq UIDs /\ rb.owners \subseteq UIDs
  BY <1>1, RBExceptType
<1>4. CASE ~CrossNamespace /\ rb.refs # {}
  <2>1. ASSUME NEW u \in rb.refs PROVE ~Live(u)
    <3>1. u[1] \in CRs /\ <<HomeNs[u[1]], RBNameOf[u[1]]>> = k
      BY <1>1, <1>3, <1>4, <2>1 DEF UIDs, Leashed, Recorded, Placed
    <3> QED BY <1>2, <1>4, <3>1 DEF Live, KeyOf, TargetOf
  <2> QED BY <1>4, <2>1 DEF Traceable
<1>5. CASE rb.pending # NoOwner
  <2>1. /\ WebhookProvisioning /\ ~CrossNamespace
        /\ rb.pending \in CRs /\ AdmKey(rb.pending) = k
    BY <1>1, <1>5, TargetAssumption DEF Leashed
  <2>2. HasCleanup /\ k[2] = ManagedName /\ RBNameOf[rb.pending] = ManagedName
    BY <2>1 DEF HasCleanup, Collectable, AdmKey
  <2>3. KeyOf(rb.pending, crs[rb.pending]) = k
    BY <2>1, <2>2 DEF KeyOf, TargetOf, AdmKey
  <2> QED BY <1>2, <1>5, <2>1, <2>2, <2>3 DEF Traceable
<1>6. CASE CrossNamespace /\ rb.owners # {} /\ rb.pending = NoOwner
  <2>1. ASSUME NEW u \in rb.owners
        PROVE  ~IsOwnerValid(u, k[1]) /\ k[2] = RBNameOf[u[1]] /\ u[1] \in CRs
    <3>1. u[1] \in CRs /\ RBNameOf[u[1]] = k[2]
      BY <1>1, <1>3, <1>6, <2>1 DEF UIDs, Leashed, Recorded, Placed
    <3>2. k = <<k[1], k[2]>>
      BY DEF Keys
    <3> QED BY <1>2, <1>6, <3>1, <3>2 DEF IsOwnerValid, Live, KeyOf, TargetOf
  <2>2. HasCleanup /\ k[2] = ManagedName
    BY <1>6, <2>1 DEF HasCleanup, Collectable
  <2> QED BY <1>6, <2>1, <2>2 DEF Traceable
<1>7. CASE /\ HasLabelTrigger /\ k[2] = ManagedName /\ rb.createdBy = "label-trigger"
           /\ rb.refs = {}
  BY <1>7 DEF Traceable, Removable
<1>8. Recorded(rb) = IF CrossNamespace THEN rb.owners ELSE rb.refs
  BY DEF Recorded
<1> QED
  BY <1>1, <1>4, <1>5, <1>6, <1>7, <1>8, TargetAssumption DEF Accounted

(* Whoever wrote, adopted, patched or pruned a RoleBinding, and whoever    *)
(* failed or went away meanwhile: once no CR asks for it, the garbage      *)
(* collector, the sweep or the label trigger knows it by what it carries.  *)
THEOREM NoneIsLost == Collectable => (Spec => []OrphansAreTraceable)
<1> SUFFICES ASSUME Collectable PROVE Spec => []OrphansAreTraceable
  OBVIOUS
<1>1. Init => LeashInv
  BY DEF Init, ClusterInit, RecInit, CleanInit, AdmInit, TrigInit, LeashInv, RBsLeashed,
     CacheLeashed, CopyLeashed, CopyLabels, RepairsKnown, SweepKeepsListed, TriggerSetUp,
     WebhookSetUp
<1>2. IInv /\ LeashInv /\ [Next]_vars => LeashInv'
  BY NextKeepsLeash
<1>3. IInv /\ LeashInv => OrphansAreTraceable
  BY LeashedIsTraceable
<1> QED BY Invariance, <1>1, <1>2, <1>3, PTL DEF Spec
============================================================================
