------------------------- MODULE CleanupReconciler -------------------------
(***************************************************************************)
(* pkg/scoper/cleanup.go: the ticker that removes stale owner entries and  *)
(* orphan RoleBindings.  It lists the managed RoleBindings once and then   *)
(* works through the list: it decides from the listed copy of each, while  *)
(* it asks the API server for the owners one by one.                       *)
(***************************************************************************)
EXTENDS Cluster

VARIABLES
    cpc,       \* what the sweep does next
    snap,      \* [Keys -> listed copy], NoRB once done with or not listed
    ckey,      \* the RoleBinding in work
    unchecked, \* its owner entries not yet looked up
    valid      \* its owner entries found valid

cleanVars == <<cpc, snap, ckey, unchecked, valid>>

CleanTypeOK ==
    /\ cpc \in {"idle", "entries", "pending", "delete"}
    /\ snap \in [Keys -> RBObjects \cup {NoRB}]
    /\ ckey \in Keys \cup {NoRB}
    /\ unchecked \subseteq UIDs
    /\ valid \subseteq UIDs

CleanInit ==
    /\ cpc = "idle" /\ ckey = NoRB
    /\ snap = [k \in Keys |-> NoRB]
    /\ unchecked = {} /\ valid = {}

cleanRest == <<userVars, cache, ripe, nsVars, queueVars, served, edits>>

(* Mutant: targets with WebhookProvisioning are left out.                  *)
CleanupCrossOnly == CrossNamespace

(* filterCleanupTargets.                                                   *)
HasCleanup == CrossNamespace \/ WebhookProvisioning

(* The list is filtered by the managed label and by the static name.  What *)
(* cleanupRoleBinding passes over at once is left out here: a pending      *)
(* owner still within its TTL, and no owner annotation at all.             *)
NeedsCheck(k) ==
    LET rb == Read(k) IN
    /\ rb # NoRB /\ k[2] = ManagedName /\ Managed(rb)
    /\ IF rb.pending # NoOwner THEN k \in ripe ELSE rb.owners # {}

ListManaged ==
    /\ HasCleanup
    /\ cpc = "idle" /\ \A k \in Keys : snap[k] = NoRB
    /\ \E k \in Keys : NeedsCheck(k)
    /\ snap' = [k \in Keys |-> IF NeedsCheck(k) THEN Read(k) ELSE NoRB]
    /\ UNCHANGED <<cleanRest, rbs, faults, cpc, ckey, unchecked, valid>>

PickRoleBinding(k) ==
    /\ cpc = "idle" /\ snap[k] # NoRB
    /\ ckey' = k
    /\ IF snap[k].pending # NoOwner
       THEN cpc' = "pending" /\ UNCHANGED unchecked
       ELSE cpc' = "entries" /\ unchecked' = snap[k].owners
    /\ UNCHANGED <<cleanRest, rbs, faults, snap, valid>>

DoneWithIt ==
    /\ cpc' = "idle" /\ ckey' = NoRB
    /\ snap' = [snap EXCEPT ![ckey] = NoRB]
    /\ unchecked' = {} /\ valid' = {}

----------------------------------------------------------------------------
(* cleanupRoleBinding: owner entries.                                      *)

(* Mutant: the target namespace is not compared.                           *)
IsOwnerAlive(u, n) == Live(u)

(* isOwnerValid: the CR exists, with this UID, and still asks for here.    *)
IsOwnerValid(u, n) ==
    /\ Live(u)
    /\ CrossNamespace => crs[u[1]].target = n

CheckEntry(u) ==
    /\ cpc = "entries" /\ u \in unchecked
    /\ unchecked' = unchecked \ {u}
    /\ valid' = IF IsOwnerValid(u, ckey[1]) THEN valid \cup {u} ELSE valid
    /\ UNCHANGED <<cleanRest, rbs, faults, cpc, snap, ckey>>

(* Mutant: one stale entry is enough to delete.                            *)
SettleByDeleting ==
    /\ cpc = "entries" /\ unchecked = {}
    /\ IF valid = snap[ckey].owners THEN UNCHANGED rbs ELSE rbs' = [rbs EXCEPT ![ckey] = NoRB]
    /\ DoneWithIt
    /\ UNCHANGED <<cleanRest, faults>>

(* The delete carries no precondition; the update carries the listed       *)
(* copy's resourceVersion, and its failure is only logged.                 *)
SettleEntries ==
    /\ cpc = "entries" /\ unchecked = {}
    /\ IF valid = snap[ckey].owners THEN UNCHANGED rbs
       ELSE IF valid = {} THEN rbs' = [rbs EXCEPT ![ckey] = NoRB]
       ELSE IF rbs[ckey] = snap[ckey] THEN rbs' = [rbs EXCEPT ![ckey].owners = valid]
       ELSE UNCHANGED rbs
    /\ DoneWithIt
    /\ UNCHANGED <<cleanRest, faults>>

----------------------------------------------------------------------------
(* cleanupPendingOwner.  Looking up an empty name (a pending owner whose   *)
(* name the API server had yet to generate) is not a NotFound error, so    *)
(* the RoleBinding is kept.                                                *)

CheckPendingOwner ==
    /\ cpc = "pending"
    /\ LET c == snap[ckey].pending IN
       IF c # Nameless /\ crs[c] = NoCR
       THEN cpc' = "delete" /\ UNCHANGED <<snap, ckey, unchecked, valid>>
       ELSE DoneWithIt
    /\ UNCHANGED <<cleanRest, rbs, faults>>

DeletePending ==
    /\ cpc = "delete"
    /\ rbs' = [rbs EXCEPT ![ckey] = NoRB]
    /\ DoneWithIt
    /\ UNCHANGED <<cleanRest, faults>>

----------------------------------------------------------------------------
(* An error looking up an owner counts as "valid"; an error of a delete or *)
(* an update is logged.                                                    *)
CleanupError ==
    /\ faults < MaxFaults /\ faults' = faults + 1
    /\ \/ \E u \in unchecked :
             /\ cpc = "entries"
             /\ unchecked' = unchecked \ {u}
             /\ valid' = valid \cup {u}
             /\ UNCHANGED <<cpc, snap, ckey>>
       \/ /\ cpc # "idle" /\ unchecked = {}
          /\ DoneWithIt
    /\ UNCHANGED <<cleanRest, rbs>>

CleanupStep ==
    \/ \E k \in Keys : PickRoleBinding(k)
    \/ \E u \in UIDs : CheckEntry(u)
    \/ SettleEntries \/ CheckPendingOwner \/ DeletePending

Cleanup == ListManaged \/ CleanupStep \/ CleanupError
============================================================================
