------------------------- MODULE ImpersonationGuard -------------------------
(***************************************************************************)
(* pkg/impersonation: the guard takes the impersonate verb on              *)
(* ServiceAccounts out of the ClusterRoles that Kubernetes aggregates into *)
(* system:aggregate-to-edit.  The aggregation, the API server's bootstrap  *)
(* of its default ClusterRoles, the informer and the admins are external.  *)
(* API groups and resource names of a rule, which the guard does not look  *)
(* at, are left out.                                                       *)
(***************************************************************************)
EXTENDS Integers

CONSTANTS
    Roles,          \* names of ClusterRoles that may be aggregated
    Rules,          \* the rules admins write
    Defaults,       \* [Roles -> SUBSET Rules], what the API server restores
    NoRole,
    Periodic,       \* Config.RequeueAfter > 0
    GuardEdits,     \* kinds of edits admins make
    MaxGuardFaults, MaxGuardEdits

standardVerbsWithoutImpersonate ==
    {"get", "list", "watch", "create", "update", "patch", "delete"}

ASSUME GuardAssumption ==
    /\ Rules \subseteq [resources: SUBSET STRING, verbs: SUBSET STRING]
    /\ Defaults \in [Roles -> SUBSET Rules]
    /\ Periodic \in BOOLEAN
    /\ MaxGuardFaults \in Nat /\ MaxGuardEdits \in Nat

coversServiceAccounts(r) == r.resources \cap {"serviceaccounts", "*"} # {}

hasImpersonateVerb(rules) ==
    \E r \in rules : coversServiceAccounts(r) /\ r.verbs \cap {"impersonate", "*"} # {}

filteredVerbs(r) ==
    IF "*" \in r.verbs THEN standardVerbsWithoutImpersonate ELSE r.verbs \ {"impersonate"}

Filtered(r) == [resources |-> r.resources, verbs |-> filteredVerbs(r)]

(* Mutant: a rule is kept without any verb.                                *)
removeImpersonateVerbOnly(rules) ==
    {IF coversServiceAccounts(r) THEN Filtered(r) ELSE r : r \in rules}

(* A rule that covers ServiceAccounts keeps its other verbs, or goes.      *)
removeImpersonateVerb(rules) ==
    {r \in rules : ~coversServiceAccounts(r)}
        \cup {Filtered(r) : r \in {q \in rules : coversServiceAccounts(q) /\ filteredVerbs(q) # {}}}

VARIABLES
    croles,     \* the ClusterRoles: their label, rules and autoupdate annotation
    ccache,     \* as the guard's informer has them
    unheard,    \* those with writes the informer has not heard of
    edit,       \* the rules of system:aggregate-to-edit
    gqueue, gtimers,
    gpc, grole,
    gcopy,      \* the worker's copy of the ClusterRole it is at
    gcurrent,   \* nobody has written that ClusterRole since
    gfaults, gedits

workerVars == <<gpc, grole, gcopy>>
guardVars  == <<croles, ccache, unheard, edit, gqueue, gtimers, workerVars, gcurrent, gfaults, gedits>>

(* The API server takes no rule without verbs.                             *)
GuardWritten == {Filtered(r) : r \in {q \in Rules : filteredVerbs(q) # {}}}

ClusterRoles ==
    [labelled: BOOLEAN, rules: SUBSET (Rules \cup GuardWritten), autoupdate: BOOLEAN]

ASSUME NoRoleAssumption == NoRole \notin ClusterRoles

GuardTypeOK ==
    /\ croles \in [Roles -> ClusterRoles \cup {NoRole}]
    /\ ccache \in [Roles -> ClusterRoles \cup {NoRole}]
    /\ unheard \in SUBSET Roles
    /\ edit \in SUBSET (Rules \cup GuardWritten)
    /\ gqueue \in SUBSET Roles /\ gtimers \in SUBSET Roles
    /\ gpc \in {"idle", "update"}
    /\ grole \in Roles \cup {NoRole}
    /\ gcopy \in ClusterRoles \cup {NoRole}
    /\ gcurrent \in BOOLEAN
    /\ gfaults \in 0..MaxGuardFaults /\ gedits \in 0..MaxGuardEdits

Labelled(cr) == cr # NoRole /\ cr.labelled

Bootstrapped(n) == [labelled |-> TRUE, rules |-> Defaults[n], autoupdate |-> TRUE]

GuardInit ==
    /\ croles = [n \in Roles |-> IF Defaults[n] = {} THEN NoRole ELSE Bootstrapped(n)]
    /\ ccache = croles /\ unheard = {}
    /\ edit = UNION {Defaults[n] : n \in Roles}
    /\ gqueue = {n \in Roles : Labelled(croles[n])} /\ gtimers = {}
    /\ gpc = "idle" /\ grole = NoRole /\ gcopy = NoRole /\ gcurrent = FALSE
    /\ gfaults = 0 /\ gedits = 0

----------------------------------------------------------------------------
(* The API server gives each write a version, and tells the informer.      *)
Write(n, cr) ==
    /\ croles' = [croles EXCEPT ![n] = cr]
    /\ unheard' = unheard \cup {n}

(* Reconcile, run by one worker.                                           *)

Rest == gpc' = "idle" /\ grole' = NoRole /\ gcopy' = NoRole /\ gcurrent' = FALSE

After(n) == gtimers' = IF Periodic THEN gtimers \cup {n} ELSE gtimers

(* Get: nothing to do for a ClusterRole that is gone, not aggregated or    *)
(* clean.                                                                  *)
GuardGet(n) ==
    /\ gpc = "idle" /\ n \in gqueue
    /\ \/ /\ ~Labelled(ccache[n])
          /\ Rest /\ UNCHANGED gtimers
       \/ /\ Labelled(ccache[n]) /\ ~hasImpersonateVerb(ccache[n].rules)
          /\ Rest /\ After(n)
       \/ /\ Labelled(ccache[n]) /\ hasImpersonateVerb(ccache[n].rules)
          /\ gpc' = "update" /\ grole' = n /\ gcopy' = ccache[n]
          /\ gcurrent' = (n \notin unheard)
          /\ UNCHANGED gtimers
    /\ gqueue' = gqueue \ {n}
    /\ UNCHANGED <<croles, ccache, unheard, edit, gfaults, gedits>>

(* Mutant: the rules are written without the annotation.                   *)
GuardedRulesOnly(cr) == [cr EXCEPT !.rules = removeImpersonateVerb(@)]

Guarded(cr) == [cr EXCEPT !.rules = removeImpersonateVerb(@), !.autoupdate = FALSE]

(* Mutant: the Update names no resourceVersion.                            *)
GuardUpdateBlindly ==
    /\ gpc = "update" /\ croles[grole] # NoRole
    /\ Write(grole, Guarded(gcopy))
    /\ After(grole) /\ Rest
    /\ UNCHANGED <<ccache, edit, gqueue, gfaults, gedits>>

(* One Update for rules and annotation; a conflict is returned.            *)
GuardUpdate ==
    /\ gpc = "update"
    /\ \/ /\ gcurrent
          /\ Write(grole, Guarded(gcopy))
          /\ After(grole) /\ UNCHANGED gqueue
       \/ /\ ~gcurrent
          /\ gqueue' = gqueue \cup {grole}
          /\ UNCHANGED <<croles, unheard, gtimers>>
    /\ Rest
    /\ UNCHANGED <<ccache, edit, gfaults, gedits>>

GuardFault == gfaults < MaxGuardFaults /\ gfaults' = gfaults + 1

GuardFails ==
    /\ gpc = "update" /\ GuardFault
    /\ gqueue' = gqueue \cup {grole}
    /\ Rest
    /\ UNCHANGED <<croles, ccache, unheard, edit, gtimers, gedits>>

(* A guard that starts lists the ClusterRoles; the filter keeps some.      *)
GuardRestarts ==
    /\ GuardFault
    /\ ccache' = croles /\ unheard' = {}
    /\ gqueue' = {n \in Roles : Labelled(croles[n])} /\ gtimers' = {}
    /\ Rest
    /\ UNCHANGED <<croles, edit, gedits>>

----------------------------------------------------------------------------
(* SetupWithManager: what the watch makes of a change.                     *)

(* Mutant: an update is judged by the labels before it.                    *)
FilterOld(old, new) == new # NoRole /\ Labelled(old)

(* Creations and updates by their new labels; deletions never.             *)
Filter(old, new) == Labelled(new)

GuardHears(n) ==
    /\ n \in unheard
    /\ unheard' = unheard \ {n}
    /\ ccache' = [ccache EXCEPT ![n] = croles[n]]
    /\ gqueue' = IF Filter(ccache[n], croles[n]) THEN gqueue \cup {n} ELSE gqueue
    /\ UNCHANGED <<croles, edit, gtimers, workerVars, gcurrent, gfaults, gedits>>

GuardTimer(n) ==
    /\ n \in gtimers
    /\ gtimers' = gtimers \ {n} /\ gqueue' = gqueue \cup {n}
    /\ UNCHANGED <<croles, ccache, unheard, edit, workerVars, gcurrent, gfaults, gedits>>

----------------------------------------------------------------------------
(* Kubernetes and the admins.                                              *)

guardRest == <<ccache, gqueue, gtimers, workerVars, gfaults>>

Aggregate ==
    /\ edit' = UNION {croles[n].rules : n \in {m \in Roles : Labelled(croles[m])}}
    /\ UNCHANGED <<croles, unheard, gcurrent, guardRest, gedits>>

Others(n, cr) ==
    /\ Write(n, cr)
    /\ gcurrent' = (gcurrent /\ n # grole)
    /\ UNCHANGED <<edit, guardRest>>

(* An API server starts: a default ClusterRole is created, or gets back    *)
(* what it lacks unless its annotation forbids that.                       *)
Restored(n) ==
    IF croles[n] = NoRole THEN Bootstrapped(n)
    ELSE IF croles[n].autoupdate
         THEN [croles[n] EXCEPT !.rules = @ \cup Defaults[n], !.labelled = TRUE]
         ELSE croles[n]

Bootstrap(n) ==
    /\ Defaults[n] # {} /\ Restored(n) # croles[n]
    /\ Others(n, Restored(n))
    /\ UNCHANGED gedits

AdminEdits(n) ==
    /\ gedits < MaxGuardEdits /\ gedits' = gedits + 1
    /\ IF croles[n] = NoRole
       THEN /\ "create" \in GuardEdits
            /\ \E r \in Rules, l \in BOOLEAN :
                  Others(n, [labelled |-> l, rules |-> {r}, autoupdate |-> TRUE])
       ELSE \/ "rules" \in GuardEdits /\ \E r \in Rules : Others(n, [croles[n] EXCEPT !.rules = @ \cup {r}])
            \/ "label" \in GuardEdits /\ Others(n, [croles[n] EXCEPT !.labelled = ~@])
            \/ "annotation" \in GuardEdits /\ Others(n, [croles[n] EXCEPT !.autoupdate = TRUE])
            \/ "delete" \in GuardEdits /\ Others(n, NoRole)

GuardNext ==
    \/ \E n \in Roles : GuardGet(n) \/ GuardHears(n) \/ GuardTimer(n)
    \/ GuardUpdate \/ GuardFails \/ GuardRestarts
    \/ Aggregate
    \/ \E n \in Roles : Bootstrap(n) \/ AdminEdits(n)

GuardSpec == GuardInit /\ [][GuardNext]_guardVars

(* The worker, the informer and the aggregation go on; API servers need    *)
(* not restart, and timers are not needed.                                 *)
GuardFairness ==
    /\ WF_guardVars(GuardUpdate) /\ WF_guardVars(Aggregate)
    /\ \A n \in Roles : WF_guardVars(GuardGet(n)) /\ WF_guardVars(GuardHears(n))

FairGuardSpec == GuardSpec /\ GuardFairness

----------------------------------------------------------------------------
(* Properties.                                                             *)

(* The guard loses sight of no aggregated ClusterRole that has the verb:   *)
(* its informer has still to hear of it, or it waits in the queue, or it   *)
(* is the one that is being written.  A label set on a ClusterRole the     *)
(* guard did not watch, a refused write and a restart are the ways to      *)
(* lose one, and no timer is needed to find it again.                      *)
VerbIsPursued ==
    \A n \in Roles : Labelled(croles[n]) /\ hasImpersonateVerb(croles[n].rules) =>
        n \in unheard \/ n \in gqueue \/ (gpc = "update" /\ grole = n)

(* In the end nobody gains impersonation of ServiceAccounts by the edit    *)
(* role, however often API servers restart, whatever ClusterRoles are      *)
(* labelled, created or reset, and though the guard reads a cache.         *)
ImpersonationGone == <>[]~hasImpersonateVerb(edit)

(* The guard's write takes the verb from a ClusterRole that is aggregated, *)
(* and nothing else from what it now says: no new permission, and rules    *)
(* that do not cover ServiceAccounts are as before.                        *)
OnlyTheVerb(old, new) ==
    /\ Labelled(old) /\ Labelled(new) /\ ~hasImpersonateVerb(new.rules)
    /\ \A r \in old.rules : ~coversServiceAccounts(r) => r \in new.rules
    /\ \A r \in new.rules :
          r \in old.rules \/ \E q \in old.rules : /\ r.resources = q.resources
                                                  /\ r.verbs \subseteq q.verbs \/ "*" \in q.verbs
    /\ \A q \in old.rules : \A v \in q.verbs \ {"impersonate", "*"} :
          "*" \notin q.verbs => \E r \in new.rules : r.resources = q.resources /\ v \in r.verbs

GuardTakesOnlyTheVerb ==
    [][ gpc = "update" /\ gpc' = "idle" =>
          \A n \in Roles : croles'[n] # croles[n] => OnlyTheVerb(croles[n], croles'[n]) ]_guardVars
============================================================================
