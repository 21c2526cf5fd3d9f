--------------------------- MODULE Scoper_proofs ---------------------------
(***************************************************************************)
(* Theorems about Scoper: the type invariant, and that no RoleBinding of   *)
(* this code's making is ever in a denied namespace, for every set of CRs  *)
(* and namespaces, every configuration of the target, with and without an  *)
(* informer cache, and any number of faults and edits.                     *)
(***************************************************************************)
EXTENDS Scoper, TLAPS

USE ClusterAssumption

RB0 == RBObjects \cup {NoRB}

(* Every RoleBinding built from nothing is well-formed.                    *)
LEMMA NewRBType ==
    ASSUME NEW s \in SAs \cup {Unset}, NEW by \in Creators
    PROVE  NewRB(s, by) \in RBObjects
BY DEF NewRB, RBObjects

(* What a changed copy of a RoleBinding is made of.                        *)
LEMMA RBExceptType ==
    ASSUME NEW rb \in RBObjects
    PROVE  /\ \A s \in SAs \cup {Unset} : [rb EXCEPT !.subject = s] \in RBObjects
           /\ \A b \in BOOLEAN : [rb EXCEPT !.role = b] \in RBObjects
           /\ \A S \in SUBSET UIDs : [rb EXCEPT !.refs = S] \in RBObjects
           /\ \A S \in SUBSET UIDs : [rb EXCEPT !.owners = S] \in RBObjects
           /\ \A S \in SUBSET UIDs, p \in CRs \cup {NoOwner, Nameless} :
                 [rb EXCEPT !.refs = S, !.pending = p] \in RBObjects
           /\ \A p \in CRs \cup {NoOwner, Nameless} : [rb EXCEPT !.pending = p] \in RBObjects
           /\ \A S, T \in SUBSET UIDs : [rb EXCEPT !.refs = S, !.owners = T] \in RBObjects
           /\ rb # NoRB
           /\ rb.refs \subseteq UIDs /\ rb.owners \subseteq UIDs
           /\ rb.pending \in CRs \cup {NoOwner, Nameless}
BY DEF RBObjects

LEMMA SetOwnerReferenceType ==
    ASSUME NEW S \in SUBSET UIDs, NEW u \in UIDs
    PROVE  SetOwnerReference(S, u) \in SUBSET UIDs
BY DEF SetOwnerReference

(* A read returns a RoleBinding or nothing, from the cache or not.         *)
LEMMA ReadType ==
    ASSUME ClusterTypeOK, NEW k \in Keys
    PROVE  Read(k) \in RB0
BY DEF ClusterTypeOK, Read, RB0

(* A write of x at k keeps the types; and no managed RoleBinding appears   *)
(* in a denied namespace if it was not there and k or x is harmless.       *)
Written(k, x) == rbs' = [rbs EXCEPT ![k] = x]

LEMMA WriteKeeps ==
    ASSUME ClusterTypeOK, NeverInDenied, NEW k \in Keys, NEW x \in RB0, Written(k, x),
           \/ x = NoRB
           \/ k[1] \notin Denied
           \/ rbs[k] # NoRB /\ x.createdBy = rbs[k].createdBy
           \/ ~Managed(x)
    PROVE  rbs' \in [Keys -> RB0] /\ NeverInDenied'
<1>1. rbs' \in [Keys -> RB0]
  BY DEF ClusterTypeOK, Written, RB0
<1>2. ASSUME NEW j \in Keys, j[1] \in Denied, rbs'[j] # NoRB
      PROVE  ~Managed(rbs'[j])
  <2>1. CASE j # k
    BY <1>2, <2>1 DEF ClusterTypeOK, Written, NeverInDenied
  <2>2. CASE j = k
    BY <1>2, <2>2 DEF ClusterTypeOK, Written, NeverInDenied, Managed
  <2> QED BY <2>1, <2>2
<1> QED BY <1>1, <1>2 DEF NeverInDenied
----------------------------------------------------------------------------
(* The other side of a write: what a step leaves alone stays in order.     *)

(* A step that leaves the RoleBindings alone cannot break NeverInDenied.   *)
LEMMA Unwritten ==
    ASSUME NeverInDenied, UNCHANGED rbs
    PROVE  NeverInDenied'
BY DEF NeverInDenied, Managed

(* A record of a CR with other contents is a record of a CR.               *)
LEMMA CRExceptType ==
    ASSUME NEW o \in CRObjects, NEW s \in Specs
    PROVE  /\ [o EXCEPT !.target = s.target, !.sa = s.sa] \in CRObjects
           /\ o # NoCR
BY DEF CRObjects

----------------------------------------------------------------------------
(* Users, admins and Kubernetes.                                           *)

LEMMA InitIInv == Init => IInv
<1> SUFFICES ASSUME Init PROVE IInv
  OBVIOUS
<1> USE DEF Init
<1>1. ClusterTypeOK
  <2>1. crs \in [CRs -> CRObjects \cup {NoCR}] /\ born \in [CRs -> 0..MaxGen]
    BY DEF ClusterInit
  <2>2. rbs \in [Keys -> RBObjects \cup {NoRB}] /\ cache \in [Keys -> RBObjects \cup {NoRB}]
    BY DEF ClusterInit
  <2>3. selected \in [Namespaces -> BOOLEAN] /\ labelled \in [Namespaces -> BOOLEAN]
    BY DEF ClusterInit
  <2>4. nsQueue \subseteq Namespaces /\ queue \subseteq CRs /\ served \subseteq CRs
        /\ ripe \subseteq Keys /\ clusterRole \in BOOLEAN
        /\ edits \in 0..MaxEdits /\ faults \in 0..MaxFaults
    BY DEF ClusterInit
  <2> QED
    BY <2>1, <2>2, <2>3, <2>4 DEF ClusterTypeOK
<1>2. RecTypeOK /\ RecKnows
  BY DEF RecInit, RecTypeOK, RecKnows, Labels, CopyLabels
<1>3. CleanTypeOK /\ CleanKnows
  BY DEF CleanInit, CleanTypeOK, CleanKnows
<1>4. AdmTypeOK /\ AdmKnows
  BY DEF AdmInit, AdmTypeOK, AdmKnows, At
<1>5. TrigTypeOK /\ TrigKnows
  BY DEF TrigInit, TrigTypeOK, TrigKnows, TrigLabels
<1>6. NeverInDenied
  BY DEF ClusterInit, NeverInDenied
<1> QED
  BY <1>1, <1>2, <1>3, <1>4, <1>5, <1>6 DEF IInv, TypeOK, WorkersKnow

(* Storing a new CR, at once or at the end of its admission.               *)
LEMMA CreateCRKeeps ==
    ASSUME ClusterTypeOK, NeverInDenied, NEW c \in CRs, NEW s \in Specs, CreateCR(c, s)
    PROVE  ClusterTypeOK' /\ NeverInDenied'
<1>1. s.target \in Namespaces \cup {Unset} /\ s.sa \in SAs \cup {Unset}
  OBVIOUS
<1>2. born[c] + 1 \in 1..MaxGen
  BY DEF CreateCR, ClusterTypeOK
<1>3. crs' \in [CRs -> CRObjects \cup {NoCR}] /\ born' \in [CRs -> 0..MaxGen]
  BY <1>1, <1>2 DEF CreateCR, ClusterTypeOK, CRObjects
<1>4. ClusterTypeOK'
  BY <1>3 DEF CreateCR, ClusterTypeOK, nsVars, boundVars
<1> QED
  BY <1>4, Unwritten DEF CreateCR

(* One edit more is within the bound.                                      *)
LEMMA EditCounts ==
    ASSUME ClusterTypeOK, NEW kind, Edit(kind)
    PROVE  edits' \in 0..MaxEdits
BY DEF ClusterTypeOK, Edit

LEMMA EnvironmentKeeps ==
    ASSUME ClusterTypeOK, NeverInDenied, Environment
    PROVE  ClusterTypeOK' /\ NeverInDenied'
<1> USE DEF userVars, nsVars, queueVars, boundVars
<1>1. ASSUME NEW c \in CRs, DeleteCR(c)
      PROVE  ClusterTypeOK' /\ NeverInDenied'
  BY <1>1, Unwritten DEF DeleteCR, ClusterTypeOK
<1>2. ASSUME NEW c \in CRs, Resync(c)
      PROVE  ClusterTypeOK' /\ NeverInDenied'
  BY <1>2, Unwritten DEF Resync, ClusterTypeOK
<1>3. ASSUME NEW c \in CRs, NEW s \in Specs, EditCR(c, s)
      PROVE  ClusterTypeOK' /\ NeverInDenied'
  <2>1. crs[c] \in CRObjects
    BY <1>3 DEF EditCR, ClusterTypeOK
  <2>2. crs' \in [CRs -> CRObjects \cup {NoCR}]
    BY <1>3, <2>1, CRExceptType DEF EditCR, ClusterTypeOK
  <2> QED
    BY <1>3, <2>2, EditCounts, Unwritten DEF EditCR, ClusterTypeOK
<1>4. ASSUME NEW n \in Namespaces, NamespaceEvent(n)
      PROVE  queue' \subseteq CRs /\ nsQueue' \subseteq Namespaces /\ faults' \in 0..MaxFaults
  BY <1>4 DEF NamespaceEvent, ClusterTypeOK, LiveCRs
<1>5. ASSUME NEW n \in Namespaces, RelabelForSelector(n)
      PROVE  ClusterTypeOK' /\ NeverInDenied'
  BY <1>4, <1>5, EditCounts, Unwritten DEF RelabelForSelector, ClusterTypeOK
<1>6. ASSUME NEW n \in Namespaces, RelabelForTrigger(n)
      PROVE  ClusterTypeOK' /\ NeverInDenied'
  BY <1>4, <1>6, EditCounts, Unwritten DEF RelabelForTrigger, ClusterTypeOK
<1>7. ASSUME NEW n \in Namespaces, ResyncNamespace(n)
      PROVE  ClusterTypeOK' /\ NeverInDenied'
  BY <1>7, Unwritten DEF ResyncNamespace, ClusterTypeOK
<1>8. CASE EditClusterRole
  BY <1>8, EditCounts, Unwritten DEF EditClusterRole, ClusterTypeOK
<1>9. ASSUME NEW k \in Keys, CacheSync(k)
      PROVE  ClusterTypeOK' /\ NeverInDenied'
  BY <1>9, Unwritten DEF CacheSync, ClusterTypeOK
<1>10. ASSUME NEW k \in Keys, NEW x \in RB0, Written(k, x),
              \/ x = NoRB
              \/ rbs[k] # NoRB /\ x.createdBy = rbs[k].createdBy
              \/ ~Managed(x),
              served' \subseteq CRs, edits' \in 0..MaxEdits,
              UNCHANGED <<userVars, cache, ripe, nsVars, queueVars, faults>>
       PROVE  ClusterTypeOK' /\ NeverInDenied'
  BY <1>10, WriteKeeps DEF ClusterTypeOK, RB0
<1>11. ASSUME NEW k \in Keys, DeleteRB(k) \/ PlantRB(k) \/ DriftSubjects(k) \/ DriftRoleRef(k)
                              \/ GCDelete(k) \/ GCPrune(k)
       PROVE  ClusterTypeOK' /\ NeverInDenied'
  <2>1. rbs[k] \in RB0
    BY DEF ClusterTypeOK, RB0
  <2>2. CASE DeleteRB(k) \/ GCDelete(k)
    <3>1. Written(k, NoRB) /\ served' \subseteq CRs /\ edits' \in 0..MaxEdits
      BY <2>2, EditCounts DEF DeleteRB, GCDelete, Unserve, Written, ClusterTypeOK
    <3> QED
      BY <2>2, <3>1, <1>10 DEF DeleteRB, GCDelete, RB0
  <2>3. CASE PlantRB(k)
    <3>1. NewRB(Unset, "external") \in RB0 /\ ~Managed(NewRB(Unset, "external"))
      BY NewRBType DEF RB0, Managed, NewRB, Creators
    <3>2. Written(k, NewRB(Unset, "external")) /\ served' \subseteq CRs /\ edits' \in 0..MaxEdits
      BY <2>3, EditCounts DEF PlantRB, Unserve, Written, ClusterTypeOK
    <3> QED
      BY <2>3, <3>1, <3>2, <1>10 DEF PlantRB
  <2>4. CASE DriftSubjects(k)
    <3> DEFINE x == [rbs[k] EXCEPT !.subject = Unset]
    <3>1. rbs[k] \in RBObjects
      BY <2>1, <2>4 DEF DriftSubjects, RB0
    <3>2. x \in RB0 /\ x.createdBy = rbs[k].createdBy
      BY <3>1 DEF RB0, RBObjects
    <3>3. Written(k, x) /\ served' \subseteq CRs /\ edits' \in 0..MaxEdits
      BY <2>4, EditCounts DEF DriftSubjects, Unserve, Written, ClusterTypeOK
    <3> HIDE DEF x
    <3> QED
      BY <2>4, <3>2, <3>3, <1>10 DEF DriftSubjects
  <2>5. CASE DriftRoleRef(k)
    <3> DEFINE x == [rbs[k] EXCEPT !.role = FALSE]
    <3>1. rbs[k] \in RBObjects
      BY <2>1, <2>5 DEF DriftRoleRef, RB0
    <3>2. x \in RB0 /\ x.createdBy = rbs[k].createdBy
      BY <3>1 DEF RB0, RBObjects
    <3>3. Written(k, x) /\ served' \subseteq CRs /\ edits' \in 0..MaxEdits
      BY <2>5, EditCounts DEF DriftRoleRef, Unserve, Written, ClusterTypeOK
    <3> HIDE DEF x
    <3> QED
      BY <2>5, <3>2, <3>3, <1>10 DEF DriftRoleRef
  <2>6. CASE GCPrune(k)
    <3> DEFINE S == {u \in rbs[k].refs : Live(u)}
               x == [rbs[k] EXCEPT !.refs = S]
    <3>1. rbs[k] \in RBObjects
      BY <2>1, <2>6 DEF GCPrune, RB0
    <3>2. S \in SUBSET UIDs
      BY <3>1, RBExceptType
    <3>3. x \in RB0 /\ x.createdBy = rbs[k].createdBy
      BY <3>1, <3>2, RBExceptType DEF RB0, RBObjects
    <3>4. Written(k, x)
      BY <2>6 DEF GCPrune, Written
    <3>5. served' \subseteq CRs /\ edits' \in 0..MaxEdits
      BY <2>6 DEF GCPrune, ClusterTypeOK
    <3> HIDE DEF x
    <3> QED
      BY <2>6, <3>1, <3>3, <3>4, <3>5, <1>10 DEF GCPrune
  <2> QED
    BY <1>11, <2>2, <2>3, <2>4, <2>5, <2>6
<1> QED
  BY <1>1, <1>2, <1>3, <1>5, <1>6, <1>7, <1>8, <1>9, <1>11 DEF Environment
----------------------------------------------------------------------------
(* The scoping controller.                                                 *)

RecInv == ClusterTypeOK /\ NeverInDenied /\ RecTypeOK /\ RecKnows

(* Beyond the namespace check the worker has a CR with a UID, and a key    *)
(* outside the deny list.                                                  *)
LEMMA KeyType ==
    ASSUME RecInv, pc \notin {"idle", "namespace"}
    PROVE  /\ cur \in CRs /\ obj \in CRObjects
           /\ key \in Keys /\ key[1] \notin Denied
           /\ uid \in UIDs
           /\ obj.sa \in SAs \cup {Unset}
           /\ rbs[key] \in RB0 /\ Read(key) \in RB0
<1>1. cur \in CRs /\ obj \in CRObjects /\ TargetOf(cur, obj) \in Namespaces \ Denied
  BY DEF RecInv, RecKnows
<1>2. key \in Keys /\ key[1] \notin Denied
  BY <1>1 DEF key, KeyOf, Keys
<1>3. uid \in UIDs /\ obj.sa \in SAs \cup {Unset}
  BY <1>1 DEF uid, UIDs, CRObjects
<1>4. rbs[key] \in RB0 /\ Read(key) \in RB0
  BY <1>2, ReadType DEF RecInv, ClusterTypeOK, RB0
<1> QED BY <1>1, <1>2, <1>3, <1>4

(* Wherever a step of the worker goes on to, it ends in order: at rest, or *)
(* at a later call with a copy it may write from.                          *)
LEMMA EndsInOrder ==
    ASSUME RecInv, pc # "idle",
           \/ Requeue \/ Drop \/ Succeed
           \/ /\ pc \notin {"idle", "namespace"}
              /\ \E label \in Labels \ {"idle", "namespace"} :
                    /\ Goto(label)
                    /\ copy' \in RB0
                    /\ label \in CopyLabels => copy' \in RBObjects
    PROVE  RecTypeOK' /\ RecKnows' /\ queue' \subseteq CRs /\ served' \subseteq CRs
<1>1. cur \in CRs /\ obj \in CRObjects
  BY DEF RecInv, RecKnows
<1>2. CASE Requeue \/ Drop \/ Succeed
  <2>1. Reset
    BY <1>2 DEF Requeue, Drop, Succeed
  <2>2. RecTypeOK' /\ RecKnows'
    BY <2>1 DEF Reset, RecTypeOK, RecKnows, Labels, CopyLabels
  <2>3. queue' \subseteq CRs /\ served' \subseteq CRs
    BY <1>1, <1>2 DEF Requeue, Drop, Succeed, RecInv, ClusterTypeOK
  <2> QED BY <2>2, <2>3
<1>3. CASE \E label \in Labels \ {"idle", "namespace"} :
              /\ pc \notin {"idle", "namespace"}
              /\ Goto(label)
              /\ copy' \in RB0
              /\ label \in CopyLabels => copy' \in RBObjects
  BY <1>1, <1>3 DEF Goto, RecInv, RecTypeOK, RecKnows, TargetOf, ClusterTypeOK, RB0
<1> QED BY <1>2, <1>3

(* A step that also writes at most at the key, what may be written there.  *)
LEMMA StepKeeps ==
    ASSUME RecInv,
           UNCHANGED rbs \/ (pc \notin {"idle", "namespace"} /\ \E x \in RB0 : Put(x)),
           UNCHANGED restVars, faults' \in 0..MaxFaults,
           RecTypeOK', RecKnows', queue' \subseteq CRs, served' \subseteq CRs
    PROVE  RecInv'
<1>1. rbs' \in [Keys -> RB0] /\ NeverInDenied'
  <2>1. CASE UNCHANGED rbs
    BY <2>1, Unwritten DEF RecInv, ClusterTypeOK, RB0
  <2>2. CASE pc \notin {"idle", "namespace"} /\ \E x \in RB0 : Put(x)
    BY <2>2, KeyType, WriteKeeps DEF Put, Written, RecInv
  <2> QED BY <2>1, <2>2
<1>2. ClusterTypeOK'
  BY <1>1 DEF RecInv, ClusterTypeOK, RB0, restVars, userVars, nsVars
<1> QED BY <1>1, <1>2 DEF RecInv
(* r.Update of a held copy: the copy, changed but for its creator, or not. *)
LEMMA UpdateKeeps ==
    ASSUME RecInv, pc \in CopyLabels,
           NEW x \in RBObjects,
           NEW again \in Labels \ ({"idle", "namespace"} \cup CopyLabels),
           NEW next,
           Update(x, again, next),
           next => Succeed \/ \E label \in Labels \ ({"idle", "namespace"} \cup CopyLabels) :
                                 Goto(label) /\ copy' = NoRB,
           UNCHANGED <<restVars, faults>>
    PROVE  RecInv'
<1>1. pc \notin {"idle", "namespace"}
  BY DEF CopyLabels
<1>2. UNCHANGED rbs \/ \E y \in RB0 : Put(y)
  BY DEF Update, RB0
<1>3. \/ Requeue \/ Succeed
      \/ \E label \in Labels \ ({"idle", "namespace"} \cup CopyLabels) :
            Goto(label) /\ copy' = NoRB
  BY DEF Update
<1>4. RecTypeOK' /\ RecKnows' /\ queue' \subseteq CRs /\ served' \subseteq CRs
  BY <1>1, <1>3, EndsInOrder DEF RB0
<1>5. faults' \in 0..MaxFaults
  BY DEF RecInv, ClusterTypeOK
<1> QED
  BY <1>1, <1>2, <1>4, <1>5, StepKeeps

(* A read before an update or a patch.                                     *)
LEMMA ReadForKeeps ==
    ASSUME RecInv, pc \notin {"idle", "namespace"},
           NEW label \in Labels \ {"idle", "namespace"}, NEW done, NEW next,
           ReadFor(label, done, next),
           done /\ next => Succeed \/ (Goto("readRefs") /\ UNCHANGED copy),
           UNCHANGED <<restVars, rbs, faults>>
    PROVE  RecInv'
<1>1. copy \in RB0 /\ Read(key) \in RB0
  BY KeyType DEF RecInv, RecTypeOK, RB0
<1>2. \/ Requeue \/ Succeed
      \/ Goto("readRefs") /\ UNCHANGED copy
      \/ Goto(label) /\ copy' = Read(key) /\ Read(key) # NoRB
  BY DEF ReadFor
<1>3. RecTypeOK' /\ RecKnows' /\ queue' \subseteq CRs /\ served' \subseteq CRs
  BY <1>1, <1>2, EndsInOrder DEF RB0, Labels, CopyLabels
<1>4. faults' \in 0..MaxFaults
  BY DEF RecInv, ClusterTypeOK
<1> QED
  BY <1>3, <1>4, StepKeeps

LEMMA ReconcilerKeeps ==
    ASSUME RecInv, Reconciler
    PROVE  RecInv'
<1> USE DEF restVars
<1>0. faults \in 0..MaxFaults /\ copy \in RB0
  BY DEF RecInv, ClusterTypeOK, RecTypeOK, RB0
<1>1. ASSUME NEW c \in CRs, Dequeue(c)
      PROVE  RecInv'
  <2>1. CASE DequeueGone(c)
    BY <2>1, <1>0, Unwritten
       DEF DequeueGone, RecInv, ClusterTypeOK, RecTypeOK, RecKnows, recVars, userVars, nsVars
  <2>2. CASE DequeueLive(c)
    <3>1. crs[c] \in CRObjects
      BY <2>2 DEF DequeueLive, RecInv, ClusterTypeOK
    <3>2. RecTypeOK' /\ RecKnows' /\ queue' \subseteq CRs /\ served' \subseteq CRs
      BY <2>2, <3>1 DEF DequeueLive, RecInv, ClusterTypeOK, RecTypeOK, RecKnows, Labels, CopyLabels
    <3> QED
      BY <2>2, <3>2, <1>0, StepKeeps DEF DequeueLive
  <2> QED BY <1>1, <2>1, <2>2 DEF Dequeue
<1>2. CASE CheckNamespace
  <2>1. CASE Drop
    BY <2>1, <1>0, <1>2, EndsInOrder, StepKeeps DEF CheckNamespace
  <2>2. CASE NamespaceAllowed(TargetOf(cur, obj)) /\ Goto("clusterrole") /\ UNCHANGED copy
    <3>1. TargetOf(cur, obj) \in Namespaces \ Denied
      BY <1>2, <2>2 DEF CheckNamespace, NamespaceAllowed, TargetOf, RecInv, RecKnows, CRObjects
    <3>2. RecTypeOK' /\ RecKnows' /\ queue' \subseteq CRs /\ served' \subseteq CRs
      BY <1>2, <2>2, <3>1
         DEF CheckNamespace, Goto, RecInv, ClusterTypeOK, RecTypeOK, RecKnows, Labels, CopyLabels,
             TargetOf
    <3> QED
      BY <1>0, <1>2, <3>2, StepKeeps DEF CheckNamespace
  <2> QED BY <1>2, <2>1, <2>2 DEF CheckNamespace
<1>3. CASE CheckClusterRole
  <2>1. RecTypeOK' /\ RecKnows' /\ queue' \subseteq CRs /\ served' \subseteq CRs
    BY <1>0, <1>3, EndsInOrder DEF CheckClusterRole, Labels, CopyLabels
  <2> QED BY <1>0, <1>3, <2>1, StepKeeps DEF CheckClusterRole
<1>4. CASE GetRoleBinding
  <2>1. Read(key) \in RB0
    BY <1>4, KeyType DEF GetRoleBinding
  <2>2. \/ Requeue
        \/ \E label \in {"create", "readSubjects", AfterSpec} : Goto(label) /\ UNCHANGED copy
        \/ Goto("refetch") /\ copy' = Read(key) /\ Read(key) # NoRB
    BY <1>4 DEF GetRoleBinding
  <2>3. AfterSpec \in Labels \ ({"idle", "namespace"} \cup CopyLabels)
    BY DEF AfterSpec, Labels, CopyLabels
  <2>4. RecTypeOK' /\ RecKnows' /\ queue' \subseteq CRs /\ served' \subseteq CRs
    BY <1>0, <1>4, <2>1, <2>2, <2>3, EndsInOrder DEF GetRoleBinding, Labels, CopyLabels, RB0
  <2> QED BY <1>0, <1>4, <2>4, StepKeeps DEF GetRoleBinding
<1>5. CASE CreateRoleBinding
  <2>1. [NewRB(obj.sa, "scoper") EXCEPT !.owners = {uid}] \in RB0
        /\ [NewRB(obj.sa, "scoper") EXCEPT !.refs = {uid}] \in RB0
    BY <1>5, KeyType, NewRBType, RBExceptType DEF CreateRoleBinding, Creators, RB0
  <2>2. UNCHANGED rbs \/ \E x \in RB0 : Put(x)
    BY <1>5, <2>1 DEF CreateRoleBinding
  <2>3. RecTypeOK' /\ RecKnows' /\ queue' \subseteq CRs /\ served' \subseteq CRs
    BY <1>5, EndsInOrder DEF CreateRoleBinding
  <2> QED BY <1>0, <1>5, <2>2, <2>3, StepKeeps DEF CreateRoleBinding
<1>6. CASE Refetch
  <2>1. copy' \in RBObjects
    BY <1>6, KeyType DEF Refetch, RecInv, RecKnows, CopyLabels, RB0
  <2>2. RecTypeOK' /\ RecKnows' /\ queue' \subseteq CRs /\ served' \subseteq CRs
    BY <1>6, <2>1, EndsInOrder DEF Refetch, Labels, RB0
  <2> QED BY <1>0, <1>6, <2>2, StepKeeps DEF Refetch
<1>7. CASE DeleteDrifted
  <2>1. copy \in RBObjects
    BY <1>7 DEF DeleteDrifted, RecInv, RecKnows, CopyLabels
  <2>2. RecTypeOK' /\ RecKnows' /\ queue' \subseteq CRs /\ served' \subseteq CRs
    BY <1>7, <2>1, EndsInOrder DEF DeleteDrifted, Labels, RB0
  <2> QED BY <1>0, <1>7, <2>2, StepKeeps DEF DeleteDrifted, RB0
<1>8. CASE Recreate
  <2>1. copy \in RBObjects
    BY <1>8 DEF Recreate, RecInv, RecKnows, CopyLabels
  <2>2. Recreated \in RB0
    BY <1>8, <2>1, KeyType, NewRBType, RBExceptType DEF Recreate, Recreated, Creators, RB0
  <2>3. AfterSpec \in Labels \ ({"idle", "namespace"} \cup CopyLabels)
    BY DEF AfterSpec, Labels, CopyLabels
  <2>4. RecTypeOK' /\ RecKnows' /\ queue' \subseteq CRs /\ served' \subseteq CRs
    BY <1>8, <2>3, EndsInOrder DEF Recreate, RB0
  <2> QED BY <1>0, <1>8, <2>2, <2>4, StepKeeps DEF Recreate
<1>9. CASE ReadSubjects
  BY <1>9, ReadForKeeps DEF ReadSubjects, Labels
<1>10. CASE WriteSubjects
  <2>1. pc \in CopyLabels /\ copy \in RBObjects
    BY <1>10 DEF WriteSubjects, RecInv, RecKnows, CopyLabels
  <2>2. [copy EXCEPT !.subject = obj.sa] \in RBObjects
    BY <2>1, <1>10, KeyType, RBExceptType DEF WriteSubjects
  <2>3. AfterSpec \in Labels \ ({"idle", "namespace"} \cup CopyLabels)
        /\ "readSubjects" \in Labels \ ({"idle", "namespace"} \cup CopyLabels)
    BY DEF AfterSpec, Labels, CopyLabels
  <2> QED BY <1>10, <2>1, <2>2, <2>3, UpdateKeeps DEF WriteSubjects
<1>11. CASE ReadPending
  BY <1>11, ReadForKeeps DEF ReadPending, Labels
<1>12. CASE WritePending
  <2>1. pc \in CopyLabels /\ copy \in RBObjects
    BY <1>12 DEF WritePending, RecInv, RecKnows, CopyLabels
  <2>2. SetOwnerReference(copy.refs, uid) \in SUBSET UIDs
    BY <2>1, <1>12, KeyType, RBExceptType, SetOwnerReferenceType DEF WritePending
  <2>3. [copy EXCEPT !.refs = SetOwnerReference(@, uid), !.pending = NoOwner] \in RBObjects
    BY <2>1, <2>2, RBExceptType
  <2>4. {"readRefs", "readPending"} \subseteq Labels \ ({"idle", "namespace"} \cup CopyLabels)
    BY DEF Labels, CopyLabels
  <2> QED BY <1>12, <2>1, <2>3, <2>4, UpdateKeeps DEF WritePending
<1>13. CASE ReadRefs
  BY <1>13, ReadForKeeps DEF ReadRefs, Labels
<1>14. CASE PatchRefs
  <2>1. copy \in RBObjects
    BY <1>14 DEF PatchRefs, RecInv, RecKnows, CopyLabels
  <2>2. SetOwnerReference(copy.refs, uid) \in SUBSET UIDs
    BY <2>1, <1>14, KeyType, RBExceptType, SetOwnerReferenceType DEF PatchRefs
  <2>3. UNCHANGED rbs \/ \E x \in RB0 : Put(x)
    <3>1. CASE rbs[key] = NoRB
      BY <1>14, <3>1 DEF PatchRefs
    <3>2. CASE rbs[key] # NoRB
      <4>1. rbs[key] \in RBObjects
        BY <1>14, <3>2, KeyType DEF PatchRefs, RB0
      <4>2. [rbs[key] EXCEPT !.refs = SetOwnerReference(copy.refs, uid)] \in RB0
        BY <4>1, <2>2, RBExceptType DEF RB0
      <4> QED BY <1>14, <3>2, <4>2 DEF PatchRefs
    <3> QED BY <3>1, <3>2
  <2>4. RecTypeOK' /\ RecKnows' /\ queue' \subseteq CRs /\ served' \subseteq CRs
    BY <1>14, EndsInOrder DEF PatchRefs
  <2> QED BY <1>0, <1>14, <2>3, <2>4, StepKeeps DEF PatchRefs
<1>15. CASE ReadOwners
  BY <1>15, ReadForKeeps DEF ReadOwners, Labels
<1>16. CASE WriteOwners
  <2>1. pc \in CopyLabels /\ copy \in RBObjects
    BY <1>16 DEF WriteOwners, RecInv, RecKnows, CopyLabels
  <2>2. copy.owners \cup {uid} \in SUBSET UIDs
    BY <2>1, <1>16, KeyType, RBExceptType DEF WriteOwners
  <2>3. [copy EXCEPT !.owners = @ \cup {uid}] \in RBObjects
    BY <2>1, <2>2, RBExceptType
  <2>4. "readOwners" \in Labels \ ({"idle", "namespace"} \cup CopyLabels)
    BY DEF Labels, CopyLabels
  <2> QED BY <1>16, <2>1, <2>3, <2>4, UpdateKeeps DEF WriteOwners
<1>17. CASE APIError \/ NamespaceReadFails
  <2>1. faults' \in 0..MaxFaults
    BY <1>17 DEF APIError, NamespaceReadFails, Fault, RecInv, ClusterTypeOK
  <2>2. RecTypeOK' /\ RecKnows' /\ queue' \subseteq CRs /\ served' \subseteq CRs
    BY <1>17, EndsInOrder DEF APIError, NamespaceReadFails
  <2> QED BY <1>17, <2>1, <2>2, StepKeeps DEF APIError, NamespaceReadFails
<1> QED
  BY <1>1, <1>2, <1>3, <1>4, <1>5, <1>6, <1>7, <1>8, <1>9, <1>10, <1>11, <1>12, <1>13, <1>14,
     <1>15, <1>16, <1>17
     DEF Reconciler, ReconcilerStep
----------------------------------------------------------------------------
(* The cleanup ticker.                                                     *)

CleanInv == ClusterTypeOK /\ NeverInDenied /\ CleanTypeOK /\ CleanKnows

(* Done with a RoleBinding, the sweep is at rest.                          *)
LEMMA DoneInOrder ==
    ASSUME CleanInv, DoneWithIt
    PROVE  CleanTypeOK' /\ CleanKnows'
BY DEF CleanInv, CleanTypeOK, CleanKnows, DoneWithIt

(* A step of the sweep deletes, or changes the owners of what it listed.   *)
LEMMA SweepKeeps ==
    ASSUME CleanInv,
           \/ UNCHANGED rbs
           \/ /\ ckey \in Keys
              /\ \/ Written(ckey, NoRB)
                 \/ \E S \in SUBSET UIDs :
                       rbs[ckey] # NoRB /\ Written(ckey, [rbs[ckey] EXCEPT !.owners = S]),
           UNCHANGED cleanRest, faults' \in 0..MaxFaults,
           CleanTypeOK', CleanKnows'
    PROVE  CleanInv'
<1>1. rbs' \in [Keys -> RB0] /\ NeverInDenied'
  <2>1. CASE UNCHANGED rbs
    BY <2>1, Unwritten DEF CleanInv, ClusterTypeOK, RB0
  <2>2. CASE ckey \in Keys /\ Written(ckey, NoRB)
    BY <2>2, WriteKeeps DEF CleanInv, RB0
  <2>3. ASSUME ckey \in Keys, NEW S \in SUBSET UIDs, rbs[ckey] # NoRB,
               Written(ckey, [rbs[ckey] EXCEPT !.owners = S])
        PROVE  rbs' \in [Keys -> RB0] /\ NeverInDenied'
    <3> DEFINE x == [rbs[ckey] EXCEPT !.owners = S]
    <3>1. rbs[ckey] \in RBObjects
      BY <2>3 DEF CleanInv, ClusterTypeOK
    <3>2. x \in RB0 /\ x.createdBy = rbs[ckey].createdBy
      BY <3>1, RBExceptType DEF RB0, RBObjects
    <3> HIDE DEF x
    <3>3. Written(ckey, x)
      BY <2>3 DEF x
    <3> QED BY <2>3, <3>2, <3>3, WriteKeeps DEF CleanInv
  <2> QED BY <2>1, <2>2, <2>3
<1>2. ClusterTypeOK'
  BY <1>1 DEF CleanInv, ClusterTypeOK, RB0, cleanRest, userVars, nsVars, queueVars
<1> QED BY <1>1, <1>2 DEF CleanInv

LEMMA CleanupKeeps ==
    ASSUME CleanInv, Cleanup
    PROVE  CleanInv'
<1>0. faults \in 0..MaxFaults
  BY DEF CleanInv, ClusterTypeOK
<1>1. CASE ListManaged
  <2>1. \A k \in Keys : Read(k) \in RBObjects \cup {NoRB}
    BY ReadType DEF CleanInv, RB0
  <2>2. CleanTypeOK' /\ CleanKnows'
    BY <1>1, <2>1 DEF ListManaged, CleanInv, CleanTypeOK, CleanKnows
  <2> QED BY <1>0, <1>1, <2>2, SweepKeeps DEF ListManaged
<1>2. ASSUME NEW k \in Keys, PickRoleBinding(k)
      PROVE  CleanInv'
  <2>1. snap[k] \in RBObjects
    BY <1>2 DEF PickRoleBinding, CleanInv, CleanTypeOK
  <2>2. snap[k].owners \subseteq UIDs
    BY <2>1, RBExceptType
  <2>3. CleanTypeOK' /\ CleanKnows'
    BY <1>2, <2>1, <2>2 DEF PickRoleBinding, CleanInv, CleanTypeOK, CleanKnows
  <2> QED BY <1>0, <1>2, <2>3, SweepKeeps DEF PickRoleBinding
<1>3. ASSUME NEW u \in UIDs, CheckEntry(u)
      PROVE  CleanInv'
  <2>1. CleanTypeOK' /\ CleanKnows'
    BY <1>3 DEF CheckEntry, CleanInv, CleanTypeOK, CleanKnows
  <2> QED BY <1>0, <1>3, <2>1, SweepKeeps DEF CheckEntry
<1>4. CASE SettleEntries
  <2>1. ckey \in Keys /\ snap[ckey] \in RBObjects /\ valid \in SUBSET UIDs
    BY <1>4 DEF SettleEntries, CleanInv, CleanKnows, CleanTypeOK
  <2>2. snap[ckey] # NoRB
    BY <2>1, RBExceptType
  <2>3. \/ UNCHANGED rbs
        \/ Written(ckey, NoRB)
        \/ rbs[ckey] # NoRB /\ Written(ckey, [rbs[ckey] EXCEPT !.owners = valid])
    BY <1>4, <2>2 DEF SettleEntries, Written
  <2>4. CleanTypeOK' /\ CleanKnows'
    BY <1>4, DoneInOrder DEF SettleEntries
  <2> QED BY <1>0, <1>4, <2>1, <2>3, <2>4, SweepKeeps DEF SettleEntries
<1>5. CASE CheckPendingOwner
  <2>1. CleanTypeOK' /\ CleanKnows'
    BY <1>5, DoneInOrder DEF CheckPendingOwner, CleanInv, CleanTypeOK, CleanKnows
  <2> QED BY <1>0, <1>5, <2>1, SweepKeeps DEF CheckPendingOwner
<1>6. CASE DeletePending
  <2>1. ckey \in Keys /\ Written(ckey, NoRB)
    BY <1>6 DEF DeletePending, CleanInv, CleanKnows, Written
  <2>2. CleanTypeOK' /\ CleanKnows'
    BY <1>6, DoneInOrder DEF DeletePending
  <2> QED BY <1>0, <1>6, <2>1, <2>2, SweepKeeps DEF DeletePending
<1>7. CASE CleanupError
  <2>1. CleanTypeOK' /\ CleanKnows'
    BY <1>7, DoneInOrder DEF CleanupError, CleanInv, CleanTypeOK, CleanKnows
  <2>2. faults' \in 0..MaxFaults
    BY <1>0, <1>7 DEF CleanupError
  <2> QED BY <1>7, <2>1, <2>2, SweepKeeps DEF CleanupError
<1> QED
  BY <1>1, <1>2, <1>3, <1>4, <1>5, <1>6, <1>7 DEF Cleanup, CleanupStep

----------------------------------------------------------------------------
(* The provisioning webhook.                                               *)

AdmInv == ClusterTypeOK /\ NeverInDenied /\ AdmTypeOK /\ AdmKnows

(* Advancing a request keeps it well-formed, and on towards a write only   *)
(* where the deny list lets it.                                            *)
LEMMA AdvanceKeeps ==
    ASSUME AdmInv, NEW c \in CRs, adm[c] # NoCR,
           NEW step \in {"get", "create", "store"}, AdvanceTo(c, step),
           step = "store" \/ HomeNs[c] \notin Denied
    PROVE  AdmTypeOK' /\ AdmKnows'
<1>1. adm[c] \in Requests
  BY DEF AdmInv, AdmTypeOK
<1>2. [adm[c] EXCEPT !.step = step] \in Requests
  BY <1>1 DEF Requests
<1>3. adm' = [adm EXCEPT ![c] = [adm[c] EXCEPT !.step = step]]
  BY DEF AdvanceTo, AdmInv, AdmTypeOK
<1>4. AdmTypeOK'
  BY <1>2, <1>3 DEF AdmInv, AdmTypeOK
<1>5. adm'[c].step = step
  BY <1>1, <1>3 DEF AdmInv, AdmTypeOK, Requests
<1>6. ASSUME NEW d \in CRs, At(d, "get")' \/ At(d, "create")'
      PROVE  HomeNs[d] \notin Denied
  <2>1. CASE d = c
    BY <1>5, <1>6, <2>1 DEF At
  <2>2. CASE d # c
    BY <1>3, <1>6, <2>2 DEF At, AdmInv, AdmTypeOK, AdmKnows
  <2> QED BY <2>1, <2>2
<1> QED BY <1>4, <1>6 DEF AdmKnows

(* A request that ends leaves the others as they are.                      *)
LEMMA EndKeeps ==
    ASSUME AdmInv, NEW c \in CRs, adm' = [adm EXCEPT ![c] = NoCR]
    PROVE  AdmTypeOK' /\ AdmKnows'
BY DEF AdmInv, AdmTypeOK, AdmKnows, At

LEMMA AdmissionKeeps ==
    ASSUME AdmInv, Admission
    PROVE  AdmInv'
<1> USE DEF admRest, userVars, nsVars, queueVars, boundVars
<1>1. ASSUME NEW c \in CRs, NEW s \in Specs, Admit(c, s)
      PROVE  AdmInv'
  <2>1. \E step \in {"get", "store"} :
           /\ adm' = [adm EXCEPT ![c] = [step |-> step, spec |-> s]]
           /\ step = "get" => HomeNs[c] \notin Denied
    BY <1>1 DEF Admit
  <2>2. AdmTypeOK' /\ AdmKnows'
    BY <2>1 DEF AdmInv, AdmTypeOK, AdmKnows, At, Requests
  <2> QED BY <1>1, <2>2, Unwritten DEF Admit, AdmInv, ClusterTypeOK
<1>2. ASSUME NEW c \in CRs, WebhookGet(c)
      PROVE  AdmInv'
  <2>1. HomeNs[c] \notin Denied /\ adm[c] # NoCR
    BY <1>2 DEF WebhookGet, AdmInv, AdmKnows, At
  <2>2. AdmTypeOK' /\ AdmKnows'
    BY <1>2, <2>1, AdvanceKeeps DEF WebhookGet
  <2> QED BY <1>2, <2>2, Unwritten DEF WebhookGet, AdmInv, ClusterTypeOK
<1>3. ASSUME NEW c \in CRs, WebhookCreate(c)
      PROVE  AdmInv'
  <2>1. HomeNs[c] \notin Denied /\ adm[c] # NoCR
    BY <1>3 DEF WebhookCreate, AdmInv, AdmKnows, At
  <2>2. AdmTypeOK' /\ AdmKnows'
    BY <1>3, <2>1, AdvanceKeeps DEF WebhookCreate
  <2>3. AdmKey(c) \in Keys /\ AdmKey(c)[1] \notin Denied
    BY <2>1 DEF AdmKey, Keys
  <2>4. \A p \in CRs \cup {NoOwner, Nameless} :
           [NewRB(TargetSA, "webhook") EXCEPT !.pending = p] \in RB0
    BY NewRBType, RBExceptType DEF Creators, RB0
  <2>5. /\ UNCHANGED rbs \/ \E x \in RB0 : Written(AdmKey(c), x)
        /\ ripe' \subseteq Keys
    BY <1>3, <2>4 DEF WebhookCreate, Written, AdmInv, ClusterTypeOK
  <2>6. rbs' \in [Keys -> RB0] /\ NeverInDenied'
    BY <2>3, <2>5, Unwritten, WriteKeeps DEF AdmInv, ClusterTypeOK, RB0
  <2> QED BY <1>3, <2>2, <2>5, <2>6 DEF WebhookCreate, AdmInv, ClusterTypeOK, RB0
<1>4. ASSUME NEW c \in CRs, Store(c)
      PROVE  AdmInv'
  <2>1. adm[c].spec \in Specs
    BY <1>4 DEF Store, At, AdmInv, AdmTypeOK, Requests
  <2>2. ClusterTypeOK' /\ NeverInDenied'
    BY <1>4, <2>1, CreateCRKeeps DEF Store, AdmInv
  <2> QED BY <1>4, <2>2, EndKeeps DEF Store, AdmInv
<1>5. ASSUME NEW c \in CRs, WebhookFails(c)
      PROVE  AdmInv'
  <2>1. HomeNs[c] \notin Denied /\ adm[c] # NoCR
    BY <1>5 DEF WebhookFails, AdmInv, AdmKnows, At
  <2>2. AdmTypeOK' /\ AdmKnows'
    BY <1>5, <2>1, AdvanceKeeps DEF WebhookFails
  <2> QED BY <1>5, <2>2, Unwritten DEF WebhookFails, AdmInv, ClusterTypeOK
<1>6. ASSUME NEW c \in CRs, Refuse(c)
      PROVE  AdmInv'
  <2>1. AdmTypeOK' /\ AdmKnows'
    BY <1>6, EndKeeps DEF Refuse
  <2> QED BY <1>6, <2>1, EditCounts, Unwritten DEF Refuse, AdmInv, ClusterTypeOK
<1>7. ASSUME NEW k \in Keys, Ripen(k)
      PROVE  AdmInv'
  BY <1>7, Unwritten DEF Ripen, AdmInv, ClusterTypeOK, AdmTypeOK, AdmKnows, At
<1> QED
  BY <1>1, <1>2, <1>3, <1>4, <1>5, <1>6, <1>7 DEF Admission, AdmissionStep
----------------------------------------------------------------------------
(* The label trigger.                                                      *)

TrigInv == ClusterTypeOK /\ NeverInDenied /\ TrigTypeOK /\ TrigKnows

(* A step of the trigger ends its request, puts it back, or goes on to a   *)
(* later call; only the removal may go on in a denied namespace.           *)
LEMMA TrigEndsInOrder ==
    ASSUME TrigInv, lpc # "idle",
           \/ LDone \/ LRequeue
           \/ \E label \in TrigLabels \ {"idle"} :
                 /\ LGoto(label) /\ lcopy' \in RB0
                 /\ label = "remove" \/ lpc \notin {"check", "remove"}
                 /\ label = "writeSubjects" => lcopy' \in RBObjects
    PROVE  TrigTypeOK' /\ TrigKnows' /\ nsQueue' \subseteq Namespaces
<1>1. lns \in Namespaces
  BY DEF TrigInv, TrigKnows
<1>2. CASE LDone \/ LRequeue
  BY <1>1, <1>2
     DEF LDone, LRequeue, LReset, TrigInv, ClusterTypeOK, TrigTypeOK, TrigKnows, TrigLabels
<1>3. CASE \E label \in TrigLabels \ {"idle"} :
              /\ LGoto(label) /\ lcopy' \in RB0
              /\ label = "remove" \/ lpc \notin {"check", "remove"}
              /\ label = "writeSubjects" => lcopy' \in RBObjects
  BY <1>1, <1>3 DEF LGoto, TrigInv, ClusterTypeOK, TrigTypeOK, TrigKnows, RB0
<1> QED BY <1>2, <1>3

(* It deletes, or it writes outside the deny list.                         *)
LEMMA TrigStepKeeps ==
    ASSUME TrigInv, lpc # "idle",
           \/ UNCHANGED rbs \/ LPut(NoRB)
           \/ lpc \notin {"check", "remove"} /\ \E x \in RB0 : LPut(x),
           UNCHANGED trigRest, faults' \in 0..MaxFaults,
           TrigTypeOK', TrigKnows', nsQueue' \subseteq Namespaces
    PROVE  TrigInv'
<1>1. lkey \in Keys /\ (lpc \notin {"check", "remove"} => lkey[1] \notin Denied)
  BY DEF TrigInv, TrigKnows, lkey, Keys
<1>2. rbs' \in [Keys -> RB0] /\ NeverInDenied'
  <2>1. CASE UNCHANGED rbs
    BY <2>1, Unwritten DEF TrigInv, ClusterTypeOK, RB0
  <2>2. CASE LPut(NoRB)
    BY <1>1, <2>2, WriteKeeps DEF LPut, Written, TrigInv, RB0
  <2>3. CASE lpc \notin {"check", "remove"} /\ \E x \in RB0 : LPut(x)
    BY <1>1, <2>3, WriteKeeps DEF LPut, Written, TrigInv
  <2> QED BY <2>1, <2>2, <2>3
<1>3. ClusterTypeOK'
  BY <1>2 DEF TrigInv, ClusterTypeOK, RB0, trigRest, userVars, nsVars
<1> QED BY <1>2, <1>3 DEF TrigInv

LEMMA TriggerKeeps ==
    ASSUME TrigInv, Trigger
    PROVE  TrigInv'
<1>0. faults \in 0..MaxFaults /\ lcopy \in RB0
  BY DEF TrigInv, ClusterTypeOK, TrigTypeOK, RB0
<1>1. ASSUME NEW n \in Namespaces, LDequeue(n)
      PROVE  TrigInv'
  <2>1. TrigTypeOK' /\ TrigKnows'
    BY <1>1 DEF LDequeue, Wanted, TrigInv, TrigTypeOK, TrigKnows, TrigLabels
  <2> QED
    BY <1>1, <2>1, Unwritten
       DEF LDequeue, TrigInv, ClusterTypeOK, trigRest, userVars, nsVars
<1>2. ASSUME lpc # "idle" PROVE lkey \in Keys /\ Read(lkey) \in RB0
  BY <1>2, ReadType DEF TrigInv, TrigKnows, lkey, Keys
<1>3. Expected \in RB0
  BY NewRBType DEF Expected, Creators, RB0
<1>4. CASE LCheckClusterRole
  <2>1. TrigTypeOK' /\ TrigKnows' /\ nsQueue' \subseteq Namespaces
    BY <1>0, <1>4, TrigEndsInOrder DEF LCheckClusterRole, TrigLabels
  <2> QED BY <1>0, <1>4, <2>1, TrigStepKeeps DEF LCheckClusterRole
<1>5. CASE LCreate
  <2>1. TrigTypeOK' /\ TrigKnows' /\ nsQueue' \subseteq Namespaces
    BY <1>0, <1>5, TrigEndsInOrder DEF LCreate, TrigLabels
  <2>2. UNCHANGED rbs \/ \E x \in RB0 : LPut(x)
    BY <1>3, <1>5 DEF LCreate
  <2> QED BY <1>0, <1>5, <2>1, <2>2, TrigStepKeeps DEF LCreate
<1>6. CASE LCheckDrift
  <2>1. TrigTypeOK' /\ TrigKnows' /\ nsQueue' \subseteq Namespaces
    BY <1>0, <1>6, TrigEndsInOrder DEF LCheckDrift, TrigLabels
  <2> QED BY <1>0, <1>6, <2>1, TrigStepKeeps DEF LCheckDrift
<1>7. CASE LDeleteDrifted
  <2>1. TrigTypeOK' /\ TrigKnows' /\ nsQueue' \subseteq Namespaces
    BY <1>0, <1>7, TrigEndsInOrder DEF LDeleteDrifted, TrigLabels
  <2> QED BY <1>0, <1>7, <2>1, TrigStepKeeps DEF LDeleteDrifted
<1>8. CASE LRecreate
  <2>1. TrigTypeOK' /\ TrigKnows' /\ nsQueue' \subseteq Namespaces
    BY <1>8, TrigEndsInOrder DEF LRecreate
  <2>2. UNCHANGED rbs \/ \E x \in RB0 : LPut(x)
    BY <1>3, <1>8 DEF LRecreate
  <2> QED BY <1>0, <1>8, <2>1, <2>2, TrigStepKeeps DEF LRecreate
<1>9. CASE LReadSubjects
  <2>1. TrigTypeOK' /\ TrigKnows' /\ nsQueue' \subseteq Namespaces
    BY <1>2, <1>9, TrigEndsInOrder DEF LReadSubjects, TrigLabels, RB0
  <2> QED BY <1>0, <1>9, <2>1, TrigStepKeeps DEF LReadSubjects
<1>10. CASE LWriteSubjects
  <2>1. [lcopy EXCEPT !.subject = TargetSA] \in RB0
    BY <1>10, RBExceptType DEF LWriteSubjects, TrigInv, TrigKnows, RB0
  <2>2. TrigTypeOK' /\ TrigKnows' /\ nsQueue' \subseteq Namespaces
    BY <1>10, TrigEndsInOrder DEF LWriteSubjects, TrigLabels, RB0
  <2>3. UNCHANGED rbs \/ \E x \in RB0 : LPut(x)
    BY <1>10, <2>1 DEF LWriteSubjects
  <2> QED BY <1>0, <1>10, <2>2, <2>3, TrigStepKeeps DEF LWriteSubjects
<1>11. CASE LCheckRemovable
  <2>1. TrigTypeOK' /\ TrigKnows' /\ nsQueue' \subseteq Namespaces
    BY <1>0, <1>11, TrigEndsInOrder DEF LCheckRemovable, TrigLabels
  <2> QED BY <1>0, <1>11, <2>1, TrigStepKeeps DEF LCheckRemovable
<1>12. CASE LRemove
  <2>1. TrigTypeOK' /\ TrigKnows' /\ nsQueue' \subseteq Namespaces
    BY <1>12, TrigEndsInOrder DEF LRemove
  <2> QED BY <1>0, <1>12, <2>1, TrigStepKeeps DEF LRemove
<1>13. CASE LError
  <2>1. TrigTypeOK' /\ TrigKnows' /\ nsQueue' \subseteq Namespaces
    BY <1>13, TrigEndsInOrder DEF LError
  <2>2. faults' \in 0..MaxFaults
    BY <1>0, <1>13 DEF LError
  <2> QED BY <1>13, <2>1, <2>2, TrigStepKeeps DEF LError
<1> QED
  BY <1>1, <1>4, <1>5, <1>6, <1>7, <1>8, <1>9, <1>10, <1>11, <1>12, <1>13
     DEF Trigger, TriggerStep

----------------------------------------------------------------------------
(* The whole.                                                              *)

LEMMA CrashKeeps ==
    ASSUME IInv, Crash
    PROVE  IInv'
<1>1. faults' \in 0..MaxFaults
  BY DEF IInv, TypeOK, ClusterTypeOK, Crash
<1>2. ClusterTypeOK'
  BY <1>1 DEF IInv, TypeOK, ClusterTypeOK, Crash, LiveCRs, userVars, nsVars
<1>3. RecTypeOK' /\ RecKnows'
  BY DEF Crash, Reset, RecTypeOK, RecKnows, Labels, CopyLabels
<1>4. CleanTypeOK' /\ CleanKnows'
  BY DEF Crash, CleanTypeOK, CleanKnows
<1>5. \A c \in CRs : /\ adm'[c] \in Requests \cup {NoCR}
                     /\ adm'[c] = NoCR \/ adm'[c].step = "store"
  BY DEF IInv, TypeOK, AdmTypeOK, Crash, Requests
<1>6. AdmTypeOK' /\ AdmKnows'
  BY <1>5 DEF Crash, AdmTypeOK, AdmKnows, At
<1>7. TrigTypeOK' /\ TrigKnows'
  BY DEF Crash, LReset, TrigTypeOK, TrigKnows, TrigLabels
<1>8. NeverInDenied'
  BY Unwritten DEF IInv, Crash
<1> QED
  BY <1>2, <1>3, <1>4, <1>6, <1>7, <1>8 DEF IInv, TypeOK, WorkersKnow

(* A worker at rest keeps its types and what it knows.                     *)
LEMMA Resting ==
    ASSUME TypeOK, WorkersKnow
    PROVE  /\ UNCHANGED recVars => RecTypeOK' /\ RecKnows'
           /\ UNCHANGED cleanVars => CleanTypeOK' /\ CleanKnows'
           /\ UNCHANGED adm => AdmTypeOK' /\ AdmKnows'
           /\ UNCHANGED trigVars => TrigTypeOK' /\ TrigKnows'
<1> USE DEF TypeOK, WorkersKnow
<1>1. UNCHANGED recVars => RecTypeOK' /\ RecKnows'
  BY DEF recVars, RecTypeOK, RecKnows, TargetOf
<1>2. UNCHANGED cleanVars => CleanTypeOK' /\ CleanKnows'
  BY DEF cleanVars, CleanTypeOK, CleanKnows
<1>3. UNCHANGED adm => AdmTypeOK' /\ AdmKnows'
  BY DEF AdmTypeOK, AdmKnows, At
<1>4. UNCHANGED trigVars => TrigTypeOK' /\ TrigKnows'
  BY DEF trigVars, TrigTypeOK, TrigKnows
<1> QED BY <1>1, <1>2, <1>3, <1>4

LEMMA NextKeepsIInv == IInv /\ [Next]_vars => IInv'
<1> SUFFICES ASSUME IInv, [Next]_vars PROVE IInv'
  OBVIOUS
<1>0. ClusterTypeOK /\ NeverInDenied /\ TypeOK /\ WorkersKnow
  BY DEF IInv, TypeOK
<1>1. CASE Environment /\ UNCHANGED <<recVars, cleanVars, adm, trigVars>>
  BY <1>0, <1>1, EnvironmentKeeps, Resting DEF IInv, TypeOK, WorkersKnow
<1>2. CASE (\E c \in CRs, s \in Specs : Submit(c, s)) /\ UNCHANGED <<recVars, cleanVars, trigVars>>
  BY <1>0, <1>2, CreateCRKeeps, Resting DEF Submit, IInv, TypeOK, WorkersKnow
<1>3. CASE Reconciler /\ UNCHANGED <<cleanVars, adm, trigVars>>
  BY <1>0, <1>3, ReconcilerKeeps, Resting DEF RecInv, IInv, TypeOK, WorkersKnow
<1>4. CASE Cleanup /\ UNCHANGED <<recVars, adm, trigVars>>
  BY <1>0, <1>4, CleanupKeeps, Resting DEF CleanInv, IInv, TypeOK, WorkersKnow
<1>5. CASE Admission /\ UNCHANGED <<recVars, cleanVars, trigVars>>
  BY <1>0, <1>5, AdmissionKeeps, Resting DEF AdmInv, IInv, TypeOK, WorkersKnow
<1>6. CASE Trigger /\ UNCHANGED <<recVars, cleanVars, adm>>
  BY <1>0, <1>6, TriggerKeeps, Resting DEF TrigInv, IInv, TypeOK, WorkersKnow
<1>7. CASE Crash
  BY <1>7, CrashKeeps
<1>8. CASE UNCHANGED vars
  <2>1. ClusterTypeOK' /\ NeverInDenied'
    BY <1>0, <1>8, Unwritten DEF vars, clusterVars, ClusterTypeOK
  <2> QED
    BY <1>0, <1>8, <2>1, Resting DEF vars, IInv, TypeOK, WorkersKnow
<1> QED
  BY <1>1, <1>2, <1>3, <1>4, <1>5, <1>6, <1>7, <1>8 DEF Next

(* In every reachable state the workers know what they must, and the two   *)
(* facts below hold: the inductive invariant, for all constants.           *)
THEOREM Invariance == Spec => []IInv
BY InitIInv, NextKeepsIInv, PTL DEF Spec

(* Every variable keeps its type: no step stores a malformed RoleBinding,  *)
(* an unknown CR in a work queue or a UID beyond the bound.                *)
THEOREM TypeCorrect == Spec => []TypeOK
<1>1. IInv => TypeOK
  BY DEF IInv
<1> QED
  BY Invariance, <1>1, PTL

(* pkg/scoper creates no RoleBinding in a namespace of the deny list,      *)
(* whichever of its controllers runs and however their calls interleave.   *)
THEOREM DenyListHolds == Spec => []NeverInDenied
<1>1. IInv => NeverInDenied
  BY DEF IInv
<1> QED
  BY Invariance, <1>1, PTL
----------------------------------------------------------------------------
(* The owner annotation.                                                   *)

Keeps(k) == rbs[k] # NoRB => rbs'[k] # NoRB /\ rbs[k].owners \subseteq rbs'[k].owners

(* A write at one key keeps the owners everywhere if it does so there.     *)
LEMMA WriteKeepsOwners ==
    ASSUME ClusterTypeOK, NEW j \in Keys, NEW x, Written(j, x),
           rbs[j] # NoRB => x # NoRB /\ rbs[j].owners \subseteq x.owners
    PROVE  \A k \in Keys : Keeps(k)
BY DEF ClusterTypeOK, Written, Keeps

(* An Update succeeds on the very object it was computed from.             *)
LEMMA UpdateKeepsOwners ==
    ASSUME RecInv, pc \notin {"idle", "namespace"},
           NEW x \in RBObjects, copy.owners \subseteq x.owners,
           NEW again, NEW next, Update(x, again, next)
    PROVE  \A k \in Keys : Keeps(k)
<1>1. key \in Keys /\ x # NoRB
  BY KeyType, RBExceptType
<1>2. CASE rbs[key] = copy /\ Put(x)
  BY <1>1, <1>2, WriteKeepsOwners DEF RecInv, Put, Written
<1>3. CASE UNCHANGED rbs
  BY <1>3 DEF Keeps
<1> QED BY <1>2, <1>3 DEF Update

LEMMA ReconcilerKeepsAll ==
    ASSUME RecInv, Reconciler, pc # "delete"
    PROVE  \A k \in Keys : Keeps(k)
<1>1. CASE UNCHANGED rbs
  BY <1>1 DEF Keeps
<1>2. CASE \/ CreateRoleBinding \/ Recreate
  <2>1. key \in Keys
    BY <1>2, KeyType DEF CreateRoleBinding, Recreate
  <2>2. UNCHANGED rbs \/ (rbs[key] = NoRB /\ \E x : Written(key, x))
    BY <1>2 DEF CreateRoleBinding, Recreate, Put, Written
  <2> QED BY <1>1, <2>1, <2>2, WriteKeepsOwners DEF RecInv
<1>3. CASE PatchRefs
  <2> DEFINE x == [rbs[key] EXCEPT !.refs = SetOwnerReference(copy.refs, uid)]
  <2>1. key \in Keys /\ rbs[key] \in RB0 /\ uid \in UIDs
    BY <1>3, KeyType DEF PatchRefs
  <2>2. CASE rbs[key] # NoRB
    <3>1. copy \in RBObjects
      BY <1>3 DEF PatchRefs, RecInv, RecKnows, CopyLabels
    <3>2. SetOwnerReference(copy.refs, uid) \in SUBSET UIDs
      BY <2>1, <3>1, RBExceptType, SetOwnerReferenceType
    <3>3. rbs[key] \in RBObjects
      BY <2>1, <2>2 DEF RB0
    <3>4. x # NoRB /\ x.owners = rbs[key].owners
      <4>1. x \in RBObjects
        BY <3>2, <3>3, RBExceptType
      <4>2. x # NoRB
        BY <4>1
      <4>3. x.owners = rbs[key].owners
        BY <3>3 DEF RBObjects
      <4> QED BY <4>2, <4>3
    <3>5. Written(key, x)
      BY <1>3, <2>2 DEF PatchRefs, Put, Written
    <3> HIDE DEF x
    <3> QED BY <2>1, <3>4, <3>5, WriteKeepsOwners DEF RecInv
  <2> QED BY <1>1, <1>3, <2>2 DEF PatchRefs
<1>4. ASSUME pc \in CopyLabels
      PROVE  /\ copy \in RBObjects
             /\ key \in Keys /\ uid \in UIDs /\ obj.sa \in SAs \cup {Unset}
             /\ pc \notin {"idle", "namespace"}
  BY <1>4, KeyType DEF RecInv, RecKnows, CopyLabels
<1>5. CASE WriteSubjects
  <2> DEFINE x == [copy EXCEPT !.subject = obj.sa]
  <2>1. x \in RBObjects /\ copy.owners \subseteq x.owners
    BY <1>4, <1>5, RBExceptType DEF WriteSubjects, CopyLabels, RBObjects
  <2> QED BY <1>4, <1>5, <2>1, UpdateKeepsOwners DEF WriteSubjects, CopyLabels
<1>6. CASE WritePending
  <2> DEFINE x == [copy EXCEPT !.refs = SetOwnerReference(@, uid), !.pending = NoOwner]
  <2>1. SetOwnerReference(copy.refs, uid) \in SUBSET UIDs
    BY <1>4, <1>6, RBExceptType, SetOwnerReferenceType DEF WritePending, CopyLabels
  <2>2. x \in RBObjects /\ copy.owners \subseteq x.owners
    BY <1>4, <1>6, <2>1, RBExceptType DEF WritePending, CopyLabels, RBObjects
  <2> QED BY <1>4, <1>6, <2>2, UpdateKeepsOwners DEF WritePending, CopyLabels
<1>7. CASE WriteOwners
  <2> DEFINE x == [copy EXCEPT !.owners = @ \cup {uid}]
  <2>1. copy.owners \cup {uid} \in SUBSET UIDs
    BY <1>4, <1>7, RBExceptType DEF WriteOwners, CopyLabels
  <2>2. x \in RBObjects /\ copy.owners \subseteq x.owners
    BY <1>4, <1>7, <2>1, RBExceptType DEF WriteOwners, CopyLabels, RBObjects
  <2> QED BY <1>4, <1>7, <2>2, UpdateKeepsOwners DEF WriteOwners, CopyLabels
<1>8. ~DeleteDrifted
  BY DEF DeleteDrifted
<1>9. CASE \/ \E c \in CRs : Dequeue(c)
           \/ CheckNamespace \/ CheckClusterRole \/ GetRoleBinding \/ Refetch
           \/ ReadSubjects \/ ReadPending \/ ReadRefs \/ ReadOwners
           \/ APIError \/ NamespaceReadFails
  BY <1>1, <1>9
     DEF Dequeue, DequeueGone, DequeueLive, CheckNamespace, CheckClusterRole, GetRoleBinding,
         Refetch, ReadSubjects, ReadPending, ReadRefs, ReadOwners, APIError, NamespaceReadFails
<1> QED
  BY <1>2, <1>3, <1>5, <1>6, <1>7, <1>8, <1>9 DEF Reconciler, ReconcilerStep

(* No step of the scoping controller, but the delete that repairs a        *)
(* RoleRef, loses an entry of an owner annotation, with any number of CRs  *)
(* and namespaces and reads from an informer cache however old: each write *)
(* of an existing RoleBinding but the patch is an Update of the same       *)
(* version, and the patch leaves the annotation alone.                     *)
THEOREM OwnersAreKept == Spec => ReconcilerKeepsOwners
<1>1. ASSUME IInv, [Next]_vars PROVE [OwnersKept]_vars
  <2> SUFFICES ASSUME pc' # pc \/ cur' # cur, pc # "delete", Next
               PROVE  \A k \in Keys : Keeps(k)
    BY <1>1 DEF OwnersKept, Keeps, vars, recVars
  <2>1. CASE Crash
    BY <2>1 DEF Crash, Keeps
  <2>2. CASE Reconciler
    BY <1>1, <2>2, ReconcilerKeepsAll DEF IInv, TypeOK, WorkersKnow, RecInv
  <2>3. ~UNCHANGED recVars
    BY DEF recVars
  <2> QED
    BY <2>1, <2>2, <2>3 DEF Next
<1> QED
  BY Invariance, <1>1, PTL DEF Spec, ReconcilerKeepsOwners
----------------------------------------------------------------------------
(* Nobody is forgotten.                                                    *)

(* RoleBindings, which the scoping controller does not watch, are left to  *)
(* the controllers, and no read of a namespace nor list of CRs fails.      *)
Attended ==
    /\ EditKinds \cap {"delete", "plant", "subject", "role"} = {}
    /\ HasSelector => MaxFaults = 0

(* The worker's view of the CR is current, or the CR comes again.          *)
WorkerCurrent == pc # "idle" => cur \in queue \/ crs[cur] = obj

(* What a step beside the worker does for the queue: whatever changes what *)
(* a CR is to be given puts the CR there.                                  *)
Reminds ==
    /\ queue \subseteq queue'
    /\ \A c \in CRs : \/ c \in queue'
                      \/ /\ crs'[c] = crs[c]
                         /\ crs[c] # NoCR => /\ c \in served => c \in served'
                                             /\ HasSelector => selected' = selected

LEMMA RemindersKeep ==
    ASSUME RecTypeOK, RecKnows, WorkerCurrent, NoCRForgotten, Reminds, UNCHANGED recVars
    PROVE  WorkerCurrent' /\ NoCRForgotten'
<1>1. WorkerCurrent'
  BY DEF WorkerCurrent, Reminds, RecKnows, recVars
<1>2. NoCRForgotten'
  BY DEF NoCRForgotten, LiveCRs, NamespaceAllowed, TargetOf, Reminds, recVars
<1> QED BY <1>1, <1>2

LEMMA EnvironmentReminds ==
    ASSUME Attended, ClusterTypeOK, Environment
    PROVE  Reminds
<1>. USE DEF Reminds, userVars, nsVars, queueVars, boundVars
<1>1. ASSUME NEW c \in CRs, NEW s \in Specs, DeleteCR(c) \/ EditCR(c, s)
      PROVE  Reminds
  BY <1>1 DEF DeleteCR, EditCR, ClusterTypeOK
<1>2. ASSUME NEW c \in CRs, DeleteCR(c) \/ Resync(c)
      PROVE  Reminds
  BY <1>2 DEF DeleteCR, Resync, ClusterTypeOK
<1>3. ASSUME NEW n \in Namespaces, NamespaceEvent(n)
      PROVE  queue \subseteq queue' /\ (HasSelector => LiveCRs \subseteq queue')
  BY <1>3 DEF NamespaceEvent, Attended, ClusterTypeOK
<1>4. ASSUME NEW n \in Namespaces, RelabelForSelector(n) \/ RelabelForTrigger(n)
      PROVE  Reminds
  <2>1. NamespaceEvent(n) /\ UNCHANGED <<crs, served>>
    BY <1>4 DEF RelabelForSelector, RelabelForTrigger
  <2> QED BY <1>3, <2>1 DEF LiveCRs
<1>5. ASSUME NEW n \in Namespaces, ResyncNamespace(n)
      PROVE  Reminds
  BY <1>5 DEF ResyncNamespace
<1>6. CASE EditClusterRole
  BY <1>6 DEF EditClusterRole
<1>7. ASSUME NEW k \in Keys, GCDelete(k) \/ GCPrune(k) \/ CacheSync(k)
      PROVE  Reminds
  BY <1>7 DEF GCDelete, GCPrune, CacheSync
<1>8. ASSUME NEW k \in Keys
      PROVE  ~(DeleteRB(k) \/ PlantRB(k) \/ DriftSubjects(k) \/ DriftRoleRef(k))
  BY DEF DeleteRB, PlantRB, DriftSubjects, DriftRoleRef, Edit, Attended
<1> QED BY <1>1, <1>2, <1>4, <1>5, <1>6, <1>7, <1>8 DEF Environment

LEMMA CreateReminds ==
    ASSUME ClusterTypeOK, NEW c \in CRs, NEW s \in Specs, CreateCR(c, s)
    PROVE  Reminds
BY DEF CreateCR, ClusterTypeOK, Reminds, nsVars

(* The other controllers leave CRs, queue and namespaces alone.            *)
LEMMA ControllersRemind ==
    ASSUME ClusterTypeOK, AdmTypeOK, Cleanup \/ Admission \/ Trigger
    PROVE  Reminds
<1> DEFINE Apart == UNCHANGED <<crs, queue, served, selected>>
<1>0. Apart => Reminds
  BY DEF Reminds
<1>1. CASE Cleanup
  BY <1>0, <1>1 DEF Cleanup, CleanupStep, CleanupError, ListManaged, PickRoleBinding, CheckEntry,
     SettleEntries, CheckPendingOwner, DeletePending, cleanRest, userVars, nsVars, queueVars
<1>2. CASE Trigger
  BY <1>0, <1>2 DEF Trigger, TriggerStep, LDequeue, LCheckClusterRole, LCreate, LCheckDrift,
     LDeleteDrifted, LRecreate, LReadSubjects, LWriteSubjects, LCheckRemovable, LRemove, LError,
     trigRest, userVars, nsVars
<1>3. ASSUME NEW c \in CRs, Store(c)
      PROVE  Reminds
  <2>1. adm[c].spec \in Specs
    BY <1>3 DEF Store, At, AdmTypeOK, Requests
  <2> QED BY <1>3, <2>1, CreateReminds DEF Store
<1>4. CASE Admission
  <2>1. CASE \E c \in CRs : \/ \E s \in Specs : Admit(c, s)
                            \/ WebhookGet(c) \/ WebhookCreate(c) \/ WebhookFails(c) \/ Refuse(c)
    BY <1>0, <2>1 DEF Admit, WebhookGet, WebhookCreate, WebhookFails, Refuse, admRest,
       userVars, nsVars, queueVars
  <2>2. CASE \E k \in Keys : Ripen(k)
    BY <1>0, <2>2 DEF Ripen, admRest, userVars, nsVars, queueVars
  <2> QED BY <1>3, <1>4, <2>1, <2>2 DEF Admission, AdmissionStep
<1> QED BY <1>1, <1>2, <1>4

(* The worker puts a CR down when it has served it, or has put it back, or *)
(* when nothing is to be done for it.                                      *)
PutsDown ==
    \/ Requeue
    \/ Succeed
    \/ Drop /\ ~NamespaceAllowed(TargetOf(cur, obj))
    \/ \E label \in Labels \ {"idle"} : Goto(label)

LEMMA WorkerPutsDown ==
    ASSUME Attended, ClusterTypeOK, ReconcilerStep \/ APIError \/ NamespaceReadFails
    PROVE  pc # "idle" /\ UNCHANGED <<crs, selected>> /\ PutsDown
<1>. USE DEF PutsDown, Labels, restVars, userVars, nsVars
<1>1. CASE CheckNamespace
  BY <1>1 DEF CheckNamespace
<1>2. CASE CheckClusterRole \/ GetRoleBinding \/ CreateRoleBinding
  BY <1>2 DEF CheckClusterRole, GetRoleBinding, CreateRoleBinding, AfterSpec
<1>3. CASE Refetch \/ DeleteDrifted \/ Recreate
  BY <1>3 DEF Refetch, DeleteDrifted, Recreate, AfterSpec
<1>4. CASE ReadSubjects \/ WriteSubjects
  BY <1>4 DEF ReadSubjects, WriteSubjects, ReadFor, Update, AfterSpec
<1>5. CASE ReadPending \/ WritePending
  BY <1>5 DEF ReadPending, WritePending, ReadFor, Update
<1>6. CASE ReadRefs \/ PatchRefs
  BY <1>6 DEF ReadRefs, PatchRefs, ReadFor
<1>7. CASE ReadOwners \/ WriteOwners
  BY <1>7 DEF ReadOwners, WriteOwners, ReadFor, Update
<1>8. CASE APIError
  BY <1>8 DEF APIError
<1>9. ~NamespaceReadFails
  BY DEF NamespaceReadFails, Fault, Attended, ClusterTypeOK
<1> QED BY <1>1, <1>2, <1>3, <1>4, <1>5, <1>6, <1>7, <1>8, <1>9 DEF ReconcilerStep

LEMMA WorkerRemembers ==
    ASSUME Attended, ClusterTypeOK, RecTypeOK, RecKnows, WorkerCurrent, NoCRForgotten, Reconciler
    PROVE  WorkerCurrent' /\ NoCRForgotten'
<1>1. ASSUME NEW c \in CRs, Dequeue(c)
      PROVE  WorkerCurrent' /\ NoCRForgotten'
  BY <1>1 DEF Dequeue, DequeueGone, DequeueLive, recVars, restVars, userVars, nsVars,
     WorkerCurrent, NoCRForgotten, LiveCRs, NamespaceAllowed, TargetOf
<1>2. ASSUME ReconcilerStep \/ APIError \/ NamespaceReadFails
      PROVE  WorkerCurrent' /\ NoCRForgotten'
  <2>0. pc # "idle" /\ UNCHANGED <<crs, selected>> /\ PutsDown
    BY <1>2, WorkerPutsDown
  <2>. USE <2>0 DEF WorkerCurrent, NoCRForgotten, LiveCRs, NamespaceAllowed, TargetOf
  <2>1. CASE Requeue
    BY <2>1 DEF Requeue, Reset
  <2>2. CASE Succeed
    BY <2>2 DEF Succeed, Reset
  <2>3. CASE Drop /\ ~NamespaceAllowed(TargetOf(cur, obj))
    BY <2>3 DEF Drop, Reset
  <2>4. CASE \E label \in Labels \ {"idle"} : Goto(label)
    BY <2>4 DEF Goto
  <2> QED BY <2>0, <2>1, <2>2, <2>3, <2>4 DEF PutsDown
<1> QED BY <1>1, <1>2 DEF Reconciler

LEMMA NextRemembers ==
    ASSUME Attended, IInv, WorkerCurrent, NoCRForgotten, [Next]_vars
    PROVE  WorkerCurrent' /\ NoCRForgotten'
<1>0. ClusterTypeOK /\ RecTypeOK /\ AdmTypeOK /\ RecKnows
  BY DEF IInv, TypeOK, WorkersKnow
<1>1. CASE Environment /\ UNCHANGED <<recVars, cleanVars, adm, trigVars>>
  BY <1>0, <1>1, EnvironmentReminds, RemindersKeep
<1>2. CASE (\E c \in CRs, s \in Specs : Submit(c, s)) /\ UNCHANGED <<recVars, cleanVars, trigVars>>
  BY <1>0, <1>2, CreateReminds, RemindersKeep DEF Submit
<1>3. CASE \/ Cleanup /\ UNCHANGED <<recVars, adm, trigVars>>
           \/ Admission /\ UNCHANGED <<recVars, cleanVars, trigVars>>
           \/ Trigger /\ UNCHANGED <<recVars, cleanVars, adm>>
  BY <1>0, <1>3, ControllersRemind, RemindersKeep
<1>4. CASE Reconciler /\ UNCHANGED <<cleanVars, adm, trigVars>>
  BY <1>0, <1>4, WorkerRemembers
<1>5. CASE Crash
  BY <1>5 DEF Crash, Reset, userVars, WorkerCurrent, NoCRForgotten, LiveCRs
<1>6. CASE UNCHANGED vars
  BY <1>6 DEF vars, clusterVars, recVars, WorkerCurrent, NoCRForgotten, LiveCRs,
     NamespaceAllowed, TargetOf
<1> QED BY <1>1, <1>2, <1>3, <1>4, <1>5, <1>6 DEF Next

(* Where nobody edits RoleBindings by hand and namespaces are read without *)
(* fail, the scoping controller forgets no CR, for any of its targets and  *)
(* with any of the other controllers beside it, cached reads included.     *)
THEOREM NobodyForgotten == Attended => (Spec => []NoCRForgotten)
<1> SUFFICES ASSUME Attended PROVE Spec => []NoCRForgotten
  OBVIOUS
<1>1. Init => WorkerCurrent /\ NoCRForgotten
  BY DEF Init, ClusterInit, RecInit, WorkerCurrent, NoCRForgotten, LiveCRs
<1>2. IInv /\ (WorkerCurrent /\ NoCRForgotten) /\ [Next]_vars => (WorkerCurrent /\ NoCRForgotten)'
  BY NextRemembers
<1> QED BY Invariance, <1>1, <1>2, PTL DEF Spec
============================================================================
