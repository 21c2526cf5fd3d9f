------------------------------ MODULE Cluster ------------------------------
(***************************************************************************)
(* The Kubernetes objects every controller of pkg/scoper shares, for one   *)
(* ScopingTarget: custom resources (CRs), RoleBindings, namespaces and the *)
(* target's ClusterRole; the informer cache the typed client reads from;   *)
(* the two work queues the watches fill; and the actions of everybody who  *)
(* is not this code: users, admins, the garbage collector, the informer.   *)
(*                                                                         *)
(* Abstractions.  A UID is the pair of a CR's name and a creation count.   *)
(* A resource version is the object's content: an Update succeeds when the *)
(* held copy equals the stored object.  Where an object has gone back to   *)
(* the held content the code conflicts, reads the same content again and   *)
(* writes the same; the cleanup, which does not retry, does in its next    *)
(* sweep.                                                                  *)
(* RoleRef is a Boolean (it names the target's ClusterRole or it does      *)
(* not); Subjects is one service account, or Unset for any other list.     *)
(***************************************************************************)
EXTENDS Naturals, FiniteSets

CONSTANTS
    CRs,                \* names of the watched custom resources
    Namespaces,
    RBNames,            \* names a managed RoleBinding can have
    SAs,                \* service accounts a CR can resolve to
    HomeNs,             \* [CRs -> Namespaces], the namespace of each CR
    RBNameOf,           \* [CRs -> RBNames], resolveRoleBindingName
    ManagedName,        \* target.ManagedRoleBindingName
    TargetSA,           \* target.TargetSA, for the webhook and the label trigger
    Specs,              \* what users write in a CR: its target namespace and SA
    GenerateNames,      \* the CRs whose name is generated by the API server
    Denied,             \* the namespaces IsDenied rejects
    CrossNamespace,     \* target.TargetNamespaceSource # nil
    HasSelector,        \* target.NamespaceSelector # nil
    WebhookProvisioning,\* target.WebhookProvisioning
    HasLabelTrigger,    \* target.NamespaceLabelTrigger # nil
    CacheLag,           \* typed reads are served by an informer cache
    MaxGen,             \* bound: creations of one CR name
    MaxFaults,          \* bound: API errors and crashes
    MaxEdits,           \* bound: edits by users and admins
    EditKinds,          \* the kinds of edits that may happen
    Unset, NoCR, NoRB, NoOwner, Nameless   \* model values

Keys == Namespaces \X RBNames
UIDs == CRs \X (1..MaxGen)

CRObjects == [gen: 1..MaxGen, target: Namespaces \cup {Unset}, sa: SAs \cup {Unset}]

Creators == {"scoper", "webhook", "label-trigger", "external"}

RBObjects == [role: BOOLEAN, subject: SAs \cup {Unset},
              refs: SUBSET UIDs, owners: SUBSET UIDs,
              pending: CRs \cup {NoOwner, Nameless}, createdBy: Creators]

ASSUME ClusterAssumption ==
    /\ HomeNs \in [CRs -> Namespaces]
    /\ RBNameOf \in [CRs -> RBNames]
    /\ ManagedName \in RBNames
    /\ TargetSA \in SAs
    /\ Unset \notin SAs
    /\ GenerateNames \subseteq CRs
    /\ Specs \subseteq [target: Namespaces \cup {Unset}, sa: SAs \cup {Unset}]
    /\ {CrossNamespace, HasSelector, WebhookProvisioning, HasLabelTrigger,
        CacheLag} \subseteq BOOLEAN
    /\ MaxGen \in Nat /\ MaxFaults \in Nat /\ MaxEdits \in Nat
    /\ Unset \notin Namespaces
    /\ NoCR \notin CRs /\ NoCR \notin CRObjects /\ NoRB \notin RBObjects
    /\ NoOwner \notin CRs /\ Nameless \notin CRs /\ NoOwner # Nameless

(* validateTarget: the webhook and the label trigger are same-namespace    *)
(* only, and both need the one service account of a static TargetSA.       *)
ASSUME TargetAssumption ==
    /\ CrossNamespace => ~WebhookProvisioning /\ ~HasLabelTrigger
    /\ WebhookProvisioning \/ HasLabelTrigger => \A s \in Specs : s.sa = TargetSA

VARIABLES
    crs,          \* [CRs -> CRObjects or NoCR]
    born,         \* how often each CR name has been created
    rbs,          \* [Keys -> RBObjects or NoRB], the API server's RoleBindings
    cache,        \* the same, as the manager's informer last saw them
    ripe,         \* keys whose pending-owner annotation is older than its TTL
    selected,     \* [Namespaces -> BOOLEAN], labels match NamespaceSelector
    labelled,     \* [Namespaces -> BOOLEAN], labels match NamespaceLabelTrigger
    clusterRole,  \* the target's ClusterRole exists and is not aggregated
    queue,        \* work queue of the scoping controller, a set of CRs
    nsQueue,      \* work queue of the label trigger, a set of namespaces
    served,       \* history: CRs whose present spec a Reconcile has granted
    edits, faults \* counters of the bounded events

userVars   == <<crs, born>>
nsVars     == <<selected, labelled, clusterRole>>
queueVars  == <<queue, nsQueue>>
boundVars  == <<edits, faults>>
clusterVars == <<crs, born, rbs, cache, ripe, selected, labelled, clusterRole,
                 queue, nsQueue, served, edits, faults>>

ClusterTypeOK ==
    /\ crs \in [CRs -> CRObjects \cup {NoCR}]
    /\ born \in [CRs -> 0..MaxGen]
    /\ rbs \in [Keys -> RBObjects \cup {NoRB}]
    /\ cache \in [Keys -> RBObjects \cup {NoRB}]
    /\ ripe \subseteq Keys
    /\ selected \in [Namespaces -> BOOLEAN]
    /\ labelled \in [Namespaces -> BOOLEAN]
    /\ clusterRole \in BOOLEAN
    /\ queue \subseteq CRs
    /\ nsQueue \subseteq Namespaces
    /\ served \subseteq CRs
    /\ edits \in 0..MaxEdits
    /\ faults \in 0..MaxFaults

ClusterInit ==
    /\ crs = [c \in CRs |-> NoCR]
    /\ born = [c \in CRs |-> 0]
    /\ rbs = [k \in Keys |-> NoRB]
    /\ cache = rbs
    /\ ripe = {}
    /\ selected \in [Namespaces -> IF HasSelector THEN BOOLEAN ELSE {TRUE}]
    /\ labelled \in [Namespaces -> IF HasLabelTrigger THEN BOOLEAN ELSE {FALSE}]
    /\ clusterRole = TRUE
    /\ queue = {}
    /\ nsQueue = IF HasLabelTrigger THEN Namespaces ELSE {}
    /\ served = {}
    /\ edits = 0 /\ faults = 0

----------------------------------------------------------------------------
(* Reading the cluster.                                                    *)

LiveCRs == {c \in CRs : crs[c] # NoCR}

Live(u) == crs[u[1]] # NoCR /\ crs[u[1]].gen = u[2]

(* The namespace a CR asks for; Unset when its field is missing.           *)
TargetOf(c, o) == IF CrossNamespace THEN o.target ELSE HomeNs[c]

KeyOf(c, o) == <<TargetOf(c, o), RBNameOf[c]>>

(* The CRs that count on the RoleBinding at k.                             *)
ClaimantsOf(k) == {c \in LiveCRs : KeyOf(c, crs[c]) = k}

(* client.Get of a RoleBinding: from the cache, or from the API server.    *)
Read(k) == IF CacheLag THEN cache[k] ELSE rbs[k]

(* The owners a RoleBinding records for a target of this kind.             *)
Recorded(rb) == IF CrossNamespace THEN rb.owners ELSE rb.refs

(* controllerutil.SetOwnerReference replaces the reference of the same     *)
(* kind and name, whatever its UID.                                        *)
SetOwnerReference(refs, u) == {v \in refs : v[1] # u[1]} \cup {u}

NewRB(sa, by) == [role |-> TRUE, subject |-> sa, refs |-> {}, owners |-> {},
                  pending |-> NoOwner, createdBy |-> by]

(* The managed label: every RoleBinding this code creates carries it.      *)
Managed(rb) == rb.createdBy # "external"

(* The grant at k changed under the reconciler's feet.                     *)
Unserve(k) == served' = served \ ClaimantsOf(k)

Edit(kind) ==
    /\ kind \in EditKinds /\ edits < MaxEdits
    /\ edits' = edits + 1

----------------------------------------------------------------------------
(* Users: creating, deleting and editing CRs.  The watch event enqueues    *)
(* the CR; a request may wait in the queue for any time.                   *)

CreateCR(c, s) ==
    /\ crs[c] = NoCR /\ born[c] < MaxGen
    /\ crs' = [crs EXCEPT ![c] = [gen |-> born[c] + 1, target |-> s.target, sa |-> s.sa]]
    /\ born' = [born EXCEPT ![c] = @ + 1]
    /\ queue' = queue \cup {c}
    /\ served' = served \ {c}
    /\ UNCHANGED <<rbs, cache, ripe, nsVars, nsQueue, boundVars>>

DeleteCR(c) ==
    /\ crs[c] # NoCR
    /\ crs' = [crs EXCEPT ![c] = NoCR]
    /\ queue' = queue \cup {c}
    /\ served' = served \ {c}
    /\ UNCHANGED <<born, rbs, cache, ripe, nsVars, nsQueue, boundVars>>

EditCR(c, s) ==
    /\ crs[c] # NoCR
    /\ [crs[c] EXCEPT !.target = s.target, !.sa = s.sa] # crs[c]
    /\ Edit("spec")
    /\ crs' = [crs EXCEPT ![c].target = s.target, ![c].sa = s.sa]
    /\ queue' = queue \cup {c}
    /\ served' = served \ {c}
    /\ UNCHANGED <<born, rbs, cache, ripe, nsVars, nsQueue, faults>>

(* Admins: editing namespaces' labels, the ClusterRole and RoleBindings.   *)
(* A Namespace event enqueues every CR when there is a NamespaceSelector   *)
(* (namespaceToRequests) and the namespace itself for the label trigger.   *)
(* When listing the CRs fails, the event is lost for all of them.          *)

NamespaceEvent(n) ==
    /\ nsQueue' = IF HasLabelTrigger THEN nsQueue \cup {n} ELSE nsQueue
    /\ \/ /\ queue' = IF HasSelector THEN queue \cup LiveCRs ELSE queue
          /\ UNCHANGED faults
       \/ /\ HasSelector /\ faults < MaxFaults
          /\ faults' = faults + 1
          /\ UNCHANGED queue

RelabelForSelector(n) ==
    /\ Edit("select")
    /\ selected' = [selected EXCEPT ![n] = ~@]
    /\ NamespaceEvent(n)
    /\ UNCHANGED <<userVars, rbs, cache, ripe, labelled, clusterRole, served>>

RelabelForTrigger(n) ==
    /\ Edit("label")
    /\ labelled' = [labelled EXCEPT ![n] = ~@]
    /\ NamespaceEvent(n)
    /\ UNCHANGED <<userVars, rbs, cache, ripe, selected, clusterRole, served>>

EditClusterRole ==
    /\ Edit("clusterrole")
    /\ clusterRole' = ~clusterRole
    /\ UNCHANGED <<userVars, rbs, cache, ripe, selected, labelled, queueVars, served, faults>>

DeleteRB(k) ==
    /\ rbs[k] # NoRB
    /\ Edit("delete")
    /\ rbs' = [rbs EXCEPT ![k] = NoRB]
    /\ Unserve(k)
    /\ UNCHANGED <<userVars, cache, ripe, nsVars, queueVars, faults>>

(* Somebody else's RoleBinding under the managed name, without the label.  *)
PlantRB(k) ==
    /\ rbs[k] = NoRB
    /\ Edit("plant")
    /\ rbs' = [rbs EXCEPT ![k] = NewRB(Unset, "external")]
    /\ Unserve(k)
    /\ UNCHANGED <<userVars, cache, ripe, nsVars, queueVars, faults>>

DriftSubjects(k) ==
    /\ rbs[k] # NoRB /\ rbs[k].subject # Unset
    /\ Edit("subject")
    /\ rbs' = [rbs EXCEPT ![k].subject = Unset]
    /\ Unserve(k)
    /\ UNCHANGED <<userVars, cache, ripe, nsVars, queueVars, faults>>

(* RoleRef is immutable: the admin replaces the object, metadata and all.  *)
DriftRoleRef(k) ==
    /\ rbs[k] # NoRB /\ rbs[k].role
    /\ Edit("role")
    /\ rbs' = [rbs EXCEPT ![k].role = FALSE]
    /\ Unserve(k)
    /\ UNCHANGED <<userVars, cache, ripe, nsVars, queueVars, faults>>

----------------------------------------------------------------------------
(* Kubernetes.                                                             *)

(* The garbage collector deletes an object none of whose owners exists,    *)
(* and otherwise drops the references to owners that are gone.             *)
GCDelete(k) ==
    /\ rbs[k] # NoRB /\ rbs[k].refs # {}
    /\ \A u \in rbs[k].refs : ~Live(u)
    /\ rbs' = [rbs EXCEPT ![k] = NoRB]
    /\ UNCHANGED <<userVars, cache, ripe, nsVars, queueVars, served, boundVars>>

GCPrune(k) ==
    /\ rbs[k] # NoRB
    /\ \E u \in rbs[k].refs : Live(u)
    /\ \E u \in rbs[k].refs : ~Live(u)
    /\ rbs' = [rbs EXCEPT ![k].refs = {u \in @ : Live(u)}]
    /\ UNCHANGED <<userVars, cache, ripe, nsVars, queueVars, served, boundVars>>

(* The informer catches up with the API server.                            *)
CacheSync(k) ==
    /\ CacheLag /\ cache[k] # rbs[k]
    /\ cache' = [cache EXCEPT ![k] = rbs[k]]
    /\ UNCHANGED <<userVars, rbs, ripe, nsVars, queueVars, served, boundVars>>

(* The informers' periodic resync replays an event for every object.       *)
Resync(c) ==
    /\ crs[c] # NoCR /\ c \notin queue
    /\ queue' = queue \cup {c}
    /\ UNCHANGED <<userVars, rbs, cache, ripe, nsVars, nsQueue, served, boundVars>>

ResyncNamespace(n) ==
    /\ HasLabelTrigger /\ n \notin nsQueue
    /\ nsQueue' = nsQueue \cup {n}
    /\ UNCHANGED <<userVars, rbs, cache, ripe, nsVars, queue, served, boundVars>>

Environment ==
    \/ \E c \in CRs : \/ DeleteCR(c)
                      \/ Resync(c)
                      \/ \E s \in Specs : EditCR(c, s)
    \/ \E n \in Namespaces : RelabelForSelector(n) \/ RelabelForTrigger(n)
                              \/ ResyncNamespace(n)
    \/ EditClusterRole
    \/ \E k \in Keys : \/ DeleteRB(k) \/ PlantRB(k)
                       \/ DriftSubjects(k) \/ DriftRoleRef(k)
                       \/ GCDelete(k) \/ GCPrune(k)
                       \/ CacheSync(k)
============================================================================
