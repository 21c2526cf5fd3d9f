# operator-rbac-toolkit in TLA+

A verification development for operator-rbac-toolkit: TLA+ models of its
controllers, TLC configurations that check them on small clusters, and proofs
checked by TLAPS. Every definition is translated from the Go source; the file
and lines are in `PROJECT.json` under `map`.

## 1. The system

The toolkit keeps Kubernetes operators on namespace-scoped grants: instead of
a cluster-wide binding, a *managed RoleBinding* exists in a namespace for as
long as a custom resource (CR) needs it there. Around that it offers operators
a handler for calls that are forbidden, and guards clusters against ways
around narrow grants.

| Component | State it keeps | Operations | Modelled in |
|---|---|---|---|
| Scoping controller, `pkg/scoper/reconciler.go` | work queue; everything else is in the cluster's objects | `Reconcile`: namespace check, ClusterRole check, create, drift repair, backfill of the pending owner, owner reference or owner annotation | `ScopingReconciler` |
| Cleanup ticker, `cleanup.go` | the listing it works through | list, look up each owner, update or delete; pending owners past their TTL | `CleanupReconciler` |
| Provisioning webhook, `webhook.go` | none between requests | deny list, selector, get, ClusterRole check, create with a pending-owner annotation | `ProvisioningWebhook` |
| Namespace label trigger, `label_trigger.go` | work queue of namespaces | create, drift repair, or delete what it created itself | `LabelTrigger` |
| Setup, `scoper.go`, `types.go`, `cmd/scoper` | the configuration | validates targets, starts the above, maps Namespace events to CRs | `Cluster`, `Scoper` (partly) |
| Owner annotation, `ownership.go` | none | parse, format, add, remove | as a set of UIDs |
| Cross-namespace reconciler, `pkg/crossns` | none between calls | `Apply`, `Teardown`, and the sweep `gc` of Role and RoleBinding pairs | `CrossNS`, `OwnedGrants` |
| Graceful degradation, `pkg/graceful` | a count of denials per backoff key; conditions in each CR's status; a semaphore during discovery | `Do`, `ApplyReport`, `ResetBackoff`, `DiscoverPermissions` | `PermissionDiscovery`, `Graceful` |
| Impersonation guard, `pkg/impersonation` | work queue | `Reconcile`: takes the impersonate verb on ServiceAccounts out of ClusterRoles aggregated to edit | `ImpersonationGuard`, `Guards` |
| ServiceAccount protection, `pkg/saprotection` | none | `Handle`: admits or refuses pods that name a protected ServiceAccount | `SAProtection`, `Guards` |
| `pkg/audit`, `internal/plugin`, `config/vap`, health and metrics | none or counters | read-only scans, scaffolding, CEL policies | not modelled (section 6) |

**How they interact.** Not by calls: they share the RoleBindings. One
RoleBinding can be created by any of three controllers, is adopted by the
scoping controller (an owner reference per CR, or an entry per CR in an
annotation when the CR lives in another namespace), is repaired by two, and is
deleted by three and by the garbage collector. Typed reads come from the
manager's informer cache and may be old; unstructured reads of CRs go to the
API server; writes are atomic, some with a resourceVersion (`Update`) and some
without (`Patch`, `Delete`, `Create`). Admission of a CR calls the webhook
before the CR exists. The manager runs under leader election. `pkg/crossns` is
a library that other operators embed; its instances share the Roles and
RoleBindings of the cluster, and only an owner label tells theirs apart.
`pkg/graceful` is a library too: the workers of an operator share one handler
and its counts, and meet each other and their own earlier writes in the CRs'
status. The impersonation guard shares ClusterRoles with admins, with API
servers that restore their defaults when they start, and with the controller
that aggregates them. The protection webhook looks at user names, and whoever
the edit role lets impersonate ServiceAccounts may choose one: what it promises
rests on what the guard achieves.

**What is hard.** Interleavings of read-decide-write sequences over one
object; stale reads; a delete and a create that repair an immutable field with
a failure between them; wake-ups that are lost because a refusal or a failed
list returns nil; ownership that is handed from the webhook's annotation to a
reference; crashes at any call. In `pkg/graceful`, reports that are written
from old copies of a CR and conflict, and goroutines that end in several ways
while others wait for their slot. In the guard, one writer among several, that
judges by a cache and hears filtered events. `PROJECT.json` lists each hazard at its line
with the property that would catch it.

**What makes it correct.** A CR in an allowed namespace gets and keeps its
grant; a RoleBinding goes when nobody asks for it; nothing is ever created in
a namespace of the deny list; nobody's record of ownership is lost to somebody
else's write; the cleanup and the label trigger do not delete what others need.
A call of `Apply` that returns no error has left exactly the pairs asked for,
and no operator's sweep touches another's. A denial ends up in the CR's status,
with its reason, a recovery takes it away, and no retry comes sooner than the
one before. Discovery reports an answer for every check or fails. The verb
disappears from the edit role for good and nothing else does; from then on
protected ServiceAccounts are given and taken for allowed identities only.

## 2. Modules

    Cluster                the objects, the cache, the queues; users, admins, Kubernetes
      ScopingReconciler    \
      CleanupReconciler     \  each EXTENDS Cluster and adds the variables
      ProvisioningWebhook   /  and the steps of one component
      LabelTrigger         /
        Scoper             composition, crash, fairness, all properties
          SweepObserver    Scoper with a history of the owners a sweep lists
          Scoper_proofs    theorems for every configuration
            Grants_proofs  theorems about grants with direct reads
              Sweep_proofs theorem of SweepObserver
            Orphans_proofs theorem about RoleBindings nobody asks for
          MCScoper, MCSweep   values of the constants for TLC

    OwnedGrants            what a call of Apply promises, abstractly
    CrossNS                operators with a cross-namespace reconciler each,
                           and the mapping to an INSTANCE of OwnedGrants
      CrossNS_proofs       theorems, the refinement among them
      MCCrossNS            values of the constants for TLC

    PermissionDiscovery    DiscoverPermissions and its goroutines
      Graceful             an operator that discovers, and wraps calls in Do
        Graceful_proofs    theorems, with Recursion_proofs: functions defined
                           by recursion over the naturals
        MCGraceful         values of the constants for TLC

    ImpersonationGuard     the guard among API servers and admins
    SAProtection           the pod webhook, over sequences of requests
      Guards               both: impersonated requests while edit allows it
        Guards_proofs      theorems
        MCGuards           values of the constants for TLC

`Cluster` holds what is shared. A CR is `[gen, target, sa]`, its UID the pair
of name and creation count. A RoleBinding is `[role, subject, refs, owners,
pending, createdBy]`: whether RoleRef names the target's ClusterRole, its
subject (`Unset` for any list other than one service account), owner
references, the owner annotation, the pending-owner annotation, and the
created-by annotation. `rbs` is the API server's copy, `cache` the informer's;
`Read` is `client.Get` and uses one or the other according to `CacheLag`.

In each controller a program counter (`pc`, `cpc`, `lpc`, `adm[c].step`) names
the API call to make next: **every API call is one action**, and the code
between two calls belongs to the action of the first. What the Go code holds
in local variables between two calls is in `obj`, `copy`, `snap`, `lcopy`.

| Code | Actions |
|---|---|
| `Reconcile` | `Dequeue`, `CheckNamespace`, `CheckClusterRole`, `GetRoleBinding` |
| `createRoleBinding` | `CreateRoleBinding` |
| `ensureRoleBindingSpec` | `Refetch`, `DeleteDrifted`, `Recreate`; `ReadSubjects`, `WriteSubjects` |
| `backfillPendingOwner` | `ReadPending`, `WritePending` |
| `ensureOwnerReference` | `ReadRefs`, `PatchRefs` |
| owner annotation in `ensureRoleBinding` | `ReadOwners`, `WriteOwners` |
| any failing call | `APIError`, `NamespaceReadFails` |
| `listAndCleanup`, `cleanupRoleBinding`, `isOwnerValid`, `cleanupPendingOwner` | `ListManaged`, `PickRoleBinding`, `CheckEntry`, `SettleEntries`, `CheckPendingOwner`, `DeletePending`, `CleanupError` |
| `Handle` | `Admit`, `WebhookGet`, `WebhookCreate`, `WebhookFails`; the API server's `Store`, `Refuse` |
| label trigger | `LDequeue`, `LCheckClusterRole`, `LCreate`, `LCheckDrift`, `LDeleteDrifted`, `LRecreate`, `LReadSubjects`, `LWriteSubjects`, `LCheckRemovable`, `LRemove`, `LError` |
| process | `Crash` |

`CrossNS` stands alone: it shares no object with `pkg/scoper`. A grant `g` is
the (namespace, roleName) of a RuleSet; `roles[g]` and `bindings[g]` are the
two objects, with their rules or RoleRef and subject and the owner label they
carry. `phase[o]` names the API call the operator `o` makes next, `want[o]` is
the argument of its call of `Apply`, `todo` and `cur` the progress of its loop,
`held` the object read, `doomed` and `errs` the listing and the errors of `gc`.

| Code | Actions |
|---|---|
| `Apply`, `Teardown` (nothing asked for) | `Apply` |
| `applyRole` | `GetRole`, `CreateRole`, `UpdateRole` |
| `applyRoleBinding` | `GetBinding`, `CreateBinding`, `DeleteBinding`, `UpdateBinding` |
| `gc` | `ListRoles`, `DeleteRoles`, `ListBindings`, `DeleteBindings` |
| any failing call, the operator's process | `ApplyFails`, `SweepFails`, `CrashOperator` |
| users, admins, the operator's informer | `EditSpec`, `Interfere`, `Replay` |

`OwnedGrants` is the abstract specification of that package: each operator owns
objects in slots and has a call with a status. A call begins for some wish,
adjusts one slot at a time, never one that is right, and returns `exact` only
if what the operator owns is what it asked for; an admin's edit may change a
slot and takes the promise from calls under way. A slot is a Role or a
RoleBinding of a grant. The mapping says that an operator owns the objects that
carry its label (`ownedObjects`), has asked for the right objects of `want`
(`askedObjects`), and that a call is `exact` or `working` while it is `clean`
(`callStatus`).

`Graceful` is an operator as the package documents it: it starts with a call of
`DiscoverPermissions`, applies the report to each CR the first time it
reconciles it, and wraps the calls its `Reconcile` makes, in order, in `Do`.
`review[i]` is where the goroutine of check `i` is, `free` the slots of the
semaphore; `counts` is the tracker; `status` and `seen` are a CR's conditions
in the API server and in the informer, `copy` those the worker holds; `bound`
and `boundSeen` the same for the managed RoleBinding; `timers` holds the CRs
for which a `RequeueAfter` runs. A condition is `[granted, reason, message]`,
the message reduced to who or what it names; `Degraded` follows from it.

| Code | Actions |
|---|---|
| `DiscoverPermissions`, `checkSSAR` | `Acquire`, `GiveUp`, `Ask`, `AskFails`, `Collect`, `Cancel` of its context |
| `ApplyReport` | `ApplyReport` |
| `Do` | `CallSucceeds`, `Restore`; `CallForbidden`, `Lookup`, `LookupFails`, `Report`; `CallFails` |
| `ResetBackoff` | `ResetBackoff` |
| worker, informers, timers, process | `Dequeue`, `Deliver`, `SyncBindings`, `TimerFires`, `Restart` |
| admins | `ChangeRight`, `ChangeBinding` |

In `ImpersonationGuard` a ClusterRole is `[labelled, rules, autoupdate]`:
`croles` is the API server's copy and `ccache` the guard's, which is behind for
the names in `unheard`; `edit` is what the aggregation has made of them;
`gcopy` is what the worker read, and `gcurrent` says that nobody has written
since, so that its `Update` will not conflict.

| Code | Actions |
|---|---|
| `Reconcile`, `hasImpersonateVerb`, `removeImpersonateVerb` | `GuardGet`, `GuardUpdate`, `GuardFails` |
| `SetupWithManager`, its filter | `GuardHears`, `GuardTimer`, `GuardRestarts` |
| aggregation, API servers, admins | `Aggregate`, `Bootstrap`, `AdminEdits` |
| `Handle` of `pkg/saprotection` | within `PodRequest`, which `Request` sends under a name its author may use |

Operators whose comment begins with *Mutant* are not part of the model. They
are plausible mistakes, each of which replaces the definition after it to see
that a property notices (`PROJECT.json`, `mutants`).

### Modelling decisions

- One `ScopingTarget` per model; targets do not share objects unless they are
  configured with the same RoleBinding name.
- A resourceVersion is the object's content. An object that has gone back to
  earlier content would conflict in the cluster and be written after a retry;
  here it is written at once.
- `RetryOnConflict` gives up after five attempts; here after any number.
- A lost reply is an `APIError` at the next step followed by the requeue.
- The TTL of a pending owner (30 s) is longer than the admission of the CR it
  names: `Ripen` waits for that request to end.
- The label views are the informer's: a change of a label and its event are
  one step, and the event may wait in the queue for any time.
- `Owns(&RoleBinding{})` wakes nobody: it follows controller references, and
  `SetOwnerReference` sets plain ones. RoleBinding events are therefore not
  modelled, and drift is found by the next event or resync of a CR.
- One worker per controller (`MaxConcurrentReconciles` is left at 1, one
  leader). Webhook requests run concurrently, one per CR.
- Dry-run admission changes nothing and is left out. Namespaces are not
  deleted. A RoleRef changes only by replacing the object.
- `served` is history: the CRs whose present spec a `Reconcile` has granted.

In `CrossNS`:

- The client reads from the API server: the permissions that
  `site/docs/integration/crossns.md:157` asks for have no `watch`.
- The operator's reconcile is external and as the documentation has it: `Apply`
  with what the CR asks for, `Teardown` when it is removed, an error is
  retried. A finalizer keeps the CR until `Teardown` has succeeded.
- The operators use one label key with different values. With different keys
  `mergeLabels` would keep both labels of an object two operators ask for.
- `Apply` takes the RuleSets in the order of the slice; here in any order. The
  check for empty names comes before any call and is left out.
- As above, a resourceVersion is the object's content, and `RetryOnConflict`
  gives up after any number of attempts.
- Admins delete objects, take labels off, change the rest, and put objects of
  `Planted`, without labels, where there are none.
- `clean` is history: the call has had no error so far and no admin has edited
  an object since it began. The next `Apply` sets it again, over whatever the
  failed call has left.

In `Graceful`:

- `UpdateStatus` conflicts when the conditions differ from the copy's. Conditions
  that have gone back to earlier content would conflict in the cluster and be
  tried again; here they are written.
- A backoff key is made of group, kind and name (`graceful.go:180`): denials in
  other namespaces or of other verbs share a count. `KeyOf` lets calls share
  one. Nothing but `ResetBackoff` and a restart lowers a count, a later success
  does not. Counts stop at `CountCap`, from which on the delay is the same
  (`CapAssumption`, evaluated).
- `RequeueAfter` greater than `MaxRequeue` is assumed away: the code would wait
  `RequeueAfter` the first time and less from then on.
- Messages, Kubernetes events, metrics and the summary of a report are left out.

In `ImpersonationGuard` and `SAProtection`:

- A rule is its resources and verbs. API groups and resource names are copied by
  the guard as they are and not looked at.
- The API server's bootstrap of default ClusterRoles, the aggregation and the
  informer are external. A default ClusterRole gets back what it lacks unless
  its `autoupdate` annotation is false.
- A request that cannot be decoded, which `Handle` refuses, is left out. The API
  server sends every create and update of a pod to the webhook, which fails
  closed. `requester` is history: who is behind a request, whatever its name.

## 3. Runs

Bounds of `Scoper`: two CRs (one or three where said), each created `MaxGen`
times, at most `MaxFaults` API errors and crashes, at most `MaxEdits` edits of
the kinds in `EditKinds`. Two CRs are what it takes for one to lose to the
other, two creations for a UID to go stale under the same name, one fault for a
failure between any two calls, two edits for a user to send a CR away and back.
`StalePatch` needs three CRs: one creates, one adds itself, one patches from
the older copy. Deadlock is not checked because users and admins, who are
bounded, may stop for good with all controllers idle. `ForeignTarget` has two
CRs of one generation and one edit: an entry that is lost by a write from an
old copy takes a third writer, or a CR created again, and that none is lost
with these either is what `OwnersAreKept` proves for any number.

`CrossNS` has two operators, what it takes for one to sweep up the other's
objects; one of them asks for up to two pairs, so that a call fails between
two, and changes the rules of one, so that a call updates. It starts with that
one asking; the other's CR comes by an edit. Admins may also put a Role or a
RoleBinding without labels where there is none (`Planted`), in time for a
create to meet it.

`Graceful` has one CR, whose two calls share a backoff key: what two CRs share
is the counts, which change in one step under a lock, and two calls share them
as well. (Two CRs are over two million states and show no more.) Three reviews
compete for two slots, two of them ask the same, so that the answers may differ
when a right changes in between. Two faults let a discovery fail and the
restarted one be cancelled; two edits let a right or the RoleBinding go and
come back.

`Guards` has a default ClusterRole and one that an admin may write, with a rule
that only impersonates, one that allows anything and one that is not about
ServiceAccounts; two edits let a label or ClusterRole go and come back behind
the cache, one fault covers a failed write or a restart of the guard. A rule of
which some named verbs stay is left to the theorem `TakesOnlyTheVerb`.

| Run | Configuration | Shows |
|---|---|---|
| SameNs | direct reads, no resync, SA from the CR, ClusterRole and CR edits, 2 creations, 2 faults, 2 edits | `TypeOK`; `ServedStaysGranted`: granted CRs stay granted and recorded; `NoCRForgotten`: the others are queued or in hand; `ReconcilerKeepsReferences`; `EventuallyGranted` from events and requeues alone |
| SameNsLive | cache, selector, fault, any edit, foreign RoleBinding | `EventuallyGranted`, `EventuallyCollected` |
| ForeignTarget | annotation owners, cache, sweep, allowed and denied targets, a retargeting, fault | `NeverInDenied`, `ReconcilerKeepsOwners`, `SweepSparesSteadyOwners`, `EventuallyGranted`, `EventuallyCollected` |
| Webhook | webhook, refusals, fault | `BackfillConsumesPending`; `OrphansAreTraceable`: what nobody asks for carries a reason to be deleted; `EventuallyGranted`, `EventuallyCollected` |
| Label | one CR, label trigger, cache, drift, fault | `SharedConverges`: what the label or the CR asks for is there in the end, though the trigger may delete what the CR has just adopted; `EventuallyCollected` |
| Together | one CR, possibly of a generated name, all components, selector, denied namespace | `IInv` |
| CrossNS | 2 operators, 3 pairs, 2 edits of CRs or objects, a fault or crash | `CrossTypeOK`; `SuccessIsExact`; `GainsOnlyAsked`: leftovers of failed calls never put rules in force that are not asked for; `OthersUntouched`, `EventuallyExact`; `KeepsLedger`: the calls implement `OwnedGrants` |
| Graceful | 1 CR, 2 calls of one key, 3 reviews in 2 slots, caches, 2 faults, 2 edits | `GracefulTypeOK`; `SlotsAccounted`, `ReportIsFaithful`, `DiscoveryReturns`; `WaitsFollowSchedule`, `PatienceGrows`; `ReportedIsRevisited`, `RecoveryIsReported`, `DenialIsExplained` |
| Guards | 2 ClusterRoles, 3 rules, an allowed and an editing identity, 2 edits, a fault | `GuardsTypeOK`; `VerbIsPursued`, `GuardTakesOnlyTheVerb`, `ImpersonationGone`; `ProtectedForAllowed`, `ProtectedInTheEnd` |

### Where the code does not do what is said of it

Each of these runs checks one property that a doc, comment or test states, and
TLC finds it violated. The quotes are in `PROJECT.json`, `findings`.

| Run | What happens |
|---|---|
| LostOwner | A stale NotFound leads to `Create`; `AlreadyExists` counts as success, the CR is never recorded, and the RoleBinding goes with the recorded owners. |
| StalePatch | The merge patch computed from a cached copy drops the reference of a live CR. |
| GracefulTrue | The first of two wrapped calls succeeds and overwrites the report that the second is denied with "all permissions are available". |

The model has more behaviours of this kind, which keep a stronger property from
holding in some configuration and are left without a run of their own:

- The sweep looks at the pending-owner annotation first (`cleanup.go:82`) and
  deletes the RoleBinding of a refused CR although another CR has adopted it:
  `PersistsUntilAllRemoved` fails with the webhook and one refusal.
- The sweep deletes by its listing, with no precondition (`cleanup.go:110`): an
  owner recorded after the listing loses its grant. `SweepSparesSteadyOwners`
  therefore speaks of listed owners only.
- The label trigger checks for references and then deletes
  (`label_trigger.go:250`): a RoleBinding adopted in between is deleted. The run
  Label reaches this race, and the CR is granted again at its next event
  (`SharedConverges`).
- The create of a RoleRef repair fails and the one CR that is retried goes
  away (`reconciler.go:278`): the others have no RoleBinding until a resync.
  `SameNs` therefore has no RoleRef drift.
- The sweep compares the static name (`cleanup.go:68`) and does not see
  RoleBindings named by `ManagedRoleBindingNameFunc`: in cross-namespace mode
  they stay for ever. The runs use the static name.
- A namespace that leaves the NamespaceSelector keeps its RoleBinding: the
  reconcile returns before anything is deleted (`reconciler.go:79`), although
  `site/docs/architecture/rbac-scoping.md:224` has it deleted.
- The repair of a drifted RoleRef does not carry the pending-owner annotation of
  a webhook RoleBinding on (`reconciler.go:259`): a crash before the owner
  reference is set leaves a RoleBinding without an owner. `Webhook` therefore
  has no RoleRef drift.
- A RoleBinding of the right name that somebody else made is adopted as it is,
  without the managed label (`reconciler.go:236`); the sweep never sees it.
  `Orphan` speaks of managed RoleBindings.
- Admission runs before the API server generates a name, so the pending-owner
  annotation of a `generateName` CR has an empty name (`webhook.go:134`). When
  such a CR is refused, the sweep's `Get` with an empty name is an error but
  not NotFound, and its RoleBinding stays for ever, although
  `cleanup.go:129` says it is deleted: `EventuallyCollected` fails with the
  webhook, `GenerateNames` and one refusal.
- `site/docs/architecture/rbac-scoping.md:210` has the cleanup run "on every CR
  deletion event" as well; in the code only the ticker starts it.
- The sweep of `pkg/crossns` deletes from its listing with no precondition
  (`crossns/reconciler.go:119`): a pair that another operator takes over after
  the listing is deleted. `OthersUntouched` is claimed, and proved, of
  operators that never ask for the same pair.
- A comment there (`crossns/reconciler.go:132`) says that RoleBindings whose
  name lacks the `-binding` suffix "are left alone"; `TrimSuffix` leaves such a
  name as it is and a labelled RoleBinding of that name is deleted like any
  other that is not asked for. Such names are not modelled.
- A Role or RoleBinding that somebody puts between the read and the create of
  `Apply` counts as applied (`crossns/reconciler.go:170`, `213`): the call
  returns no error, and its RoleBinding may grant foreign rules, until the next
  call. `clean` therefore ends with an admin's edit, and `EventuallyExact` is
  what remains: the run CrossNS puts such objects.
- A RoleBinding that `Apply` finds with a drifted RoleRef is deleted in a later
  call without a precondition (`crossns/reconciler.go:222`), whatever an admin
  has made of it by then: `OwnedGrants` allows it to a disturbed call only.
- With several wrapped calls the conditions of a CR alternate: a success of the
  first writes True over the False of the second in every reconcile
  (`graceful.go:85`). Each of these writes is a watch event that enqueues the CR
  at once, beside the `RequeueAfter`, so that the delay is no lower bound on the
  time between two tries. `DenialIsExplained` therefore says "again and again",
  and `PatienceGrows` speaks of the delays asked for.
- A wildcard verb becomes seven standard verbs, and explicit verbs beside it are
  dropped: a comment calls them a subset (`guard.go:143`), which
  `deletecollection`, for one, is not. `OnlyTheVerb` promises to keep the verbs
  of rules without a wildcard.

A grant that is lost in one of these ways is lost until the next event or
resync of the CR: `EventuallyGranted` holds in every configuration in which it
is checked.

## 4. Fairness

`EventFairness`: controller-runtime keeps running a started worker (WF on its
steps); the work queue is first-in first-out, so a request in it is taken in
the end although the worker is often busy (SF on `Dequeue` and `LDequeue`);
the informer delivers, the garbage collector collects, the ticker ticks, the
TTL passes and an admission request ends (WF). `ResyncFairness` adds the
informer's periodic resync (10 hours by default in controller-runtime), which
replays an event for every object. `SameNs` goes without it. In `CrossNS` the
same is assumed of each operator's worker (WF on `OperatorStep`) and of its
informer, which replays an event for its CR (WF on `Replay`).

`FairGracefulSpec`: Go runs the goroutines of a discovery (WF on each check's
steps and on `Collect`) and controller-runtime the workers; the informers
deliver, timers fire; a process that ended because its discovery failed is
started again by its Deployment (WF on `Restart`, only then: nobody owes a
crash). `GuardFairness`: the worker, the informer and the aggregation go on
(WF). The guard's timers are not needed, so nothing is assumed of them; API
servers, admins and users of pods owe nothing.

Users and admins owe nothing anywhere, and faults are bounded, so that "from
some time on there are no more failures", under which convergence is claimed.

## 5. Proofs

`Scoper_proofs` proves, for every set of CRs, namespaces and names, every
configuration of the target allowed by `ClusterAssumption`, with or without
the cache, and for any bounds:

| Theorem | States |
|---|---|
| `Invariance` | `Spec => []IInv` |
| `TypeCorrect` | `Spec => []TypeOK` |
| `DenyListHolds` | `Spec => []NeverInDenied` |
| `OwnersAreKept` | `Spec => ReconcilerKeepsOwners` |
| `NobodyForgotten` | `Attended` implies `Spec => []NoCRForgotten` |

`NeverInDenied` is not inductive: the write that could break it comes several
calls after the check. `IInv` adds `WorkersKnow`: past the namespace check the
reconciler's target is outside the deny list and stays so, because the CR it
works from is its own copy (`obj`) and not the CR a user may have edited; a
webhook request that may still write, and a label trigger that is not on its
removal branch, have passed the deny list; where a step writes from a copy the
copy is a RoleBinding. The proof has one lemma per component (`...Keeps`),
each with one step per action; `WriteKeeps` is the one fact about writes they
share: a write breaks neither types nor the deny list if it deletes, is
outside the deny list, keeps the creator, or is not ours. `OwnersAreKept`
follows from `Invariance`: an `Update` succeeds only on the object it was
computed from, the patch leaves the annotation alone, and a create finds
nothing there.

`Attended` says that nobody deletes or edits RoleBindings by hand, which the
controller does not watch, and that with a NamespaceSelector no call fails: a
failed read of the namespace counts as a refusal (`reconciler.go:108`) and a
failed listing loses a Namespace event (`scoper.go:209`). The runs show that
without it a CR waits for a resync. `NoCRForgotten` is the part of
`EventuallyGranted` that a wrong step could break; it is inductive together
with `WorkerCurrent`, that the CR the worker works from is the one there is, or
the CR is in the queue again. Each component either leaves what decides it
alone or queues the CRs it concerns (`ControllersRemind`, `EnvironmentReminds`), and
the worker puts a CR down only when it is served, refused or queued again.

`Grants_proofs` and `Sweep_proofs` add, again for every set of CRs, namespaces
and names and for any bounds:

| Theorem | States |
|---|---|
| `ReferencesAreKept` | `~CacheLag` implies `Spec => ReconcilerKeepsReferences` |
| `BackfillConsumes` | `~CacheLag` implies `Spec => []BackfillConsumesPending` |
| `GrantsStay` | `Undisturbed` implies `Spec => []ServedStaysGranted` |
| `RestMeansGranted` | `Undisturbed` and `Attended` imply that whenever the worker is idle and its queue empty, every CR in an allowed namespace is granted |
| `SteadyOwnersAreSpared` | `CrossNamespace` implies `ObservedSpec => SweepSparesSteadyOwners` |

The first is false with a cache (the run StalePatch), so its hypothesis is
the weakest of its kind. `Undisturbed` says that the target is a same-namespace
one without webhook and label trigger, read directly, and that nobody replaces
a RoleBinding by one with another RoleRef or plants one under its name: a
planted one makes the create report success without an owner reference
(`AlreadyExists`), and a repair deletes what siblings count on. Edits of CRs,
namespaces, the ClusterRole and of subjects, deletions of RoleBindings, garbage
collection, crashes and failed calls are all left in.

Two inductive invariants carry them, on top of `IInv`. `RefsInv` is about UIDs:
a CR that exists is of the last creation of its name (`Gens`), a reference never
names a later one (`RefsBorn`), the worker's CR is at least as new as any
reference to that name (`WorkerGen`), and between its read and its patch the
worker's copy has every live reference (`PatchKnows`). A CR that comes to life
in a step therefore has a UID nobody has recorded (`NewlyLive`), which is why
deleting and creating a CR under the worker's eyes does no harm. `PendsInv` is
about pending owners: only a request for a CR that is yet to be stored names
one (`PendKnown`), and past the backfill the worker's CR, while it lives, is
not named (`BackKnows`). `GrantsStay` adds `AloneInv`: the others are at rest,
no RoleBinding needs repair, the one about to be created is not there, and the
served CRs are referenced. The steps of everybody but the worker enter through
one abstraction, `Aside`, proved once for each of them: they serve nobody, add
no reference, and name a pending owner only on behalf of a request. The steps
of the worker enter through `WhatIsWritten` and `HowItEnds`.

`SteadyOwnersAreSpared` needs that with the webhook off nothing ever names a
pending owner, in the cache and in a listing either, so that the sweep deletes
by entries only, and that every entry it has looked at has lapsed or is among
those it keeps (`SweepKnows`).

`Orphans_proofs` adds, with or without the cache:

| Theorem | States |
|---|---|
| `NoneIsLost` | `Collectable` implies `Spec => []OrphansAreTraceable` |

A managed RoleBinding that no CR asks for can be deleted only by someone who
finds a reason on it: all its references dead, a pending owner or entries that
lapsed, or the label trigger's mark. `Collectable` names the configurations in
which that is so, and each of its conjuncts is a leak of section 3: no one
replaces RoleBindings by hand (which a repair turns into the scoping
controller's, without the pending owner) where there is a webhook, a label
trigger or a planted RoleBinding; no generated names with the webhook; the
static RoleBinding name with the sweep. Everything else is left in: old caches,
crashes, failed calls, refusals, CRs that come, go and are edited, and all
components at once. The inductive invariant is `LeashInv`: every RoleBinding
(`RBsLeashed`), every copy in the informer (`CacheLeashed`) and in the worker's
hands (`CopyLeashed`) names as owners only CRs that would ask for it, and has a
recorded owner, a pending one or the mark. It speaks of copies because the
worker writes what it computed from them; an old copy may lose an owner (the
run StalePatch), but what is written always names the writer's own CR or
what was there before. Of the sweep it says that it keeps none but listed
owners (`SweepKeepsListed`). TLC checked `LeashInv` on six small
configurations before it was proved.

`CrossNS_proofs` proves, for every set of operators, pairs and rules, whatever
they ask for and for any bounds:

| Theorem | States |
|---|---|
| `CrossTypeCorrect` | `CrossSpec => []CrossTypeOK` |
| `OwnerLabelsIsolate` | `Isolated` implies `CrossSpec => OthersUntouched` |
| `SuccessMeansExact` | `Isolated` implies `CrossSpec => []SuccessIsExact` |
| `NoGainBeyondAsked` | `Isolated` implies `CrossSpec => GainsOnlyAsked` |
| `CallsKeepLedger` | `Isolated` implies `CrossSpec => KeepsLedger` |

`Isolated` is what the documentation asks of operators, labels of their own,
and that no two of them ever ask for the same pair. The type invariant needs
`CallsInv`: the pair at work is one of those asked for, else what `applyRole`
writes has no rules. Isolation needs `Territory`: a label is found only on the
operator's own pairs, and so is the sweep's listing, which is deleted from
after it has gone stale. Success needs `Progress`, which says what a call that
may still succeed has achieved at each API call: the pairs that are done are
exact (`Applied`), the one at work is as far as it was read and written
(`AtWork`), the stale objects are on the listing and then gone (`Swept`), and
the listing never holds what is asked for (`InOrder`). Each is kept by one step
per action, and by the steps of others because those write elsewhere.

`GainsOnlyAsked` is about what is in force: a RoleBinding of the operator's over
a Role that is there. A failed call, a crash or a sweep that went on after an
error may leave either without the other, the Role with rules of long ago.
`NoGainBeyondAsked` follows from `AtWork`, by which the Role is right wherever
the RoleBinding is about to be written (`OperatorGainsAsked`), and from
`Territory`: others write nothing that carries the operator's label
(`OthersGainNothing`).

`CallsKeepLedger` is the refinement: initial states map to initial states,
and each action to one of the abstract ones or a stutter.
`Apply` begins a call (`ApplyBegins`); a step of a call changes one slot of its
operator at most (`PutAdjusts`), towards what is asked for or to nothing, and
never one that is right while the call is undisturbed, which is what `Progress`
knows of the object at work (`StepAdjusts`); its end returns, and returns
`exact` only when `SuccessShows` that all slots are as asked for
(`StepReturns`); an edit by an admin is a disturbance (`InterfereDisturbs`).

`Graceful_proofs` proves, for every number of checks and slots, every set of
CRs, calls and keys, and for any bounds:

| Theorem | States |
|---|---|
| `SlotsAreAccounted` | `GracefulSpec => []SlotsAccounted` |
| `ReportsAreFaithful` | `GracefulSpec => []ReportIsFaithful` |
| `GracefulTypeCorrect` | `GracefulSpec => []GracefulTypeOK` |
| `PatienceOnlyGrows` | `GracefulSpec => PatienceGrows` |
| `ScheduleIsFollowed` | `GracefulSpec => []WaitsFollowSchedule` |
| `ReportsAreRevisited` | `GracefulSpec => []ReportedIsRevisited` |
| `DiscoveryGoesOn` | `GracefulSpec => []NobodyStuck` |

The slots are counted by the cardinality of the goroutines that ask, which a
step changes by one with `free`; `NobodyStuck` is the arithmetic that follows
when nobody asks. A report is written once, when every check has
ended, and `review` does not change after that until the operator starts again.
`PatienceGrows` needs that the delay of a CR was computed from a count no
greater than the present one, and that longer counts have longer delays
(`DelaysGrow`). The latter, and that the loop of `calculateBackoff`, which cuts
at `MaxRequeue` in each round, computes `RequeueAfter` times a power of the
factor cut once, are by induction over the count. The induction theorems of
the prover's library take an operator, which its provers cannot instantiate;
`Recursion_proofs` derives what is needed for sets from the least element of a
set of naturals, and the two recursive functions are unfolded with it.
`ReportedIsRevisited` is inductive once it speaks of what the worker holds as
well (`Followed`): a copy that is older than the conditions has an event of the
CR to come, or one that has come while the worker had it.

`Guards_proofs` proves, for every set of ClusterRoles, rules, identities and
pods, and for any bounds:

| Theorem | States |
|---|---|
| `GuardsTypeCorrect` | `Spec => []GuardsTypeOK` |
| `PursuitNeverEnds` | `Spec => []VerbIsPursued` |
| `QuietIsClean` | when the guard has heard everything and has nothing queued, the aggregated edit role has no impersonate verb |
| `TakesOnlyTheVerb` | `Spec => GuardTakesOnlyTheVerb` |
| `ProtectionHolds` | `Spec => ProtectedForAllowed` |

`TakesOnlyTheVerb` needs `GuardKnows`: the cache is right about the ClusterRoles
that are not `unheard`, and the worker's copy is right while `gcurrent`; so the
rules it filters are those it replaces. `ProtectionHolds` says that among
requests under their authors' own names the three ways to give or take a
protected ServiceAccount are closed.

Every safety and action property of the passing runs is stated by one of these
theorems. Only model-checked is liveness, which is beyond the prover:
`EventuallyGranted`, `EventuallyCollected`, `SharedConverges`,
`EventuallyExact`, `RecoveryIsReported`, `DenialIsExplained`,
`DiscoveryReturns`, `ImpersonationGone`, `ProtectedInTheEnd`. For several of
them `NoCRForgotten`, `OrphansAreTraceable`, `ReportedIsRevisited`, `NobodyStuck` and
`VerbIsPursued` are the safety part, that somebody still has the work to do;
the fairness that gets it done is TLC's. What the theorems with hypotheses
leave out is in section 3 where it fails, and is left to the runs otherwise:
`ServedStaysGranted` is proved for the configuration of the run that checks
it, in which nothing else writes.

The models have integer backoff factors (the code has floats, so that its
delays are rounded), and the theorems on delays are about those.

## 6. Not modelled

- `pkg/audit`: scanners that read lists of objects and return findings. They
  keep no state and nothing acts on what they return.
- `pkg/scoper/health.go`, `metrics.go`: gauges, counters and a probe that
  reads; no controller depends on them.
- `internal/plugin`, `cmd` of the plugin: files written from templates.
- `config/vap`: CEL policies the API server evaluates. The models hold with and
  without them.
- Setup: several targets in one manager (targets that do not share a RoleBinding
  name do not interact), a CRD that is not installed yet, the parsing of the
  configuration file.
- The owner annotation's text (`ParseOwnerAnnotation`, `FormatOwnerAnnotation`),
  a set of UIDs here.

An abstract specification of `Scoper` in the manner of `OwnedGrants` is not
given: several of the behaviours in section 3 break what one would first write,
and what remains true of single steps is what its action properties say.
