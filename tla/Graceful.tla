------------------------------ MODULE Graceful ------------------------------
(***************************************************************************)
(* pkg/graceful: an operator whose reconciles wrap what they do in         *)
(* Handler.Do.  A call that is forbidden is reported in the conditions of  *)
(* the custom resource (CR) and retried after a delay that grows with each *)
(* denial of the same backoff key; a call that succeeds takes the report   *)
(* back.  At its start the operator discovers its permissions and applies  *)
(* the report to each CR it reconciles.  One handler serves the workers of *)
(* all CRs; every API call is one action.                                  *)
(***************************************************************************)
EXTENDS PermissionDiscovery, Sequences

CONSTANTS
    CRs,
    NsOf,             \* [CRs -> Namespaces]
    Ops,              \* [CRs -> Seq(Perms)], the calls its Reconcile wraps
    Keys, KeyOf,      \* [Perms -> Keys], backoffKeyFromError
    BindingName,      \* ManagedRoleBindingName is set
    DirectReader,     \* and read from the API server, not from a cache
    RequeueAfter, MaxRequeue, FactorOption,
    CountCap,         \* denials after which the delay grows no more
    NoWait,
    EditKinds, MaxEdits

ASSUME GracefulAssumption ==
    /\ NsOf \in [CRs -> Namespaces]
    /\ Ops \in [CRs -> Seq(Perms)] /\ \A c \in CRs : Ops[c] # <<>>
    /\ KeyOf \in [Perms -> Keys]
    /\ {BindingName, DirectReader} \subseteq BOOLEAN
    /\ RequeueAfter \in Nat \ {0} /\ MaxRequeue \in Nat /\ FactorOption \in Int
    /\ RequeueAfter <= MaxRequeue
    /\ CountCap \in Nat \ {0} /\ MaxEdits \in Nat

(* WithBackoffFactor.                                                      *)
Factor == IF FactorOption < 1 THEN 2 ELSE FactorOption

(* The delay after the n-th denial.                                        *)
Backoff[n \in Nat] ==
    IF n <= 1 THEN RequeueAfter
    ELSE LET d == Backoff[n - 1] * Factor IN IF d > MaxRequeue THEN MaxRequeue ELSE d

(* Mutant: the loop runs once too often.                                   *)
calculateBackoffEarly(count) == Backoff[count + 1]

calculateBackoff(count) == Backoff[count]

(* Counting on would change no delay.                                      *)
ASSUME CapAssumption == calculateBackoff(CountCap + 1) = calculateBackoff(CountCap)

(* The PermissionGranted condition; its reason decides the Degraded one.   *)
Conditions ==
    [granted: {"Unknown", "True", "False"},
     reason: {"None", "AllPermissionsAvailable", "MissingPermissions",
              "ProvisioningPending", "PermissionDenied"},
     message: Perms \cup {"none", "handler", "report"}]

Unreported == [granted |-> "Unknown", reason |-> "None", message |-> "none"]

Available(by) ==
    [granted |-> "True", reason |-> "AllPermissionsAvailable", message |-> by]

Missing(why, what) == [granted |-> "False", reason |-> why, message |-> what]

Degraded(s) == s.granted = "False" /\ s.reason # "ProvisioningPending"

VARIABLES
    bound, boundSeen, \* namespaces with the managed RoleBinding; as cached
    counts,           \* [Keys -> Nat], the backoff tracker
    status, seen,     \* the conditions of each CR; as the informer has them
    due, timers,      \* CRs in the work queue, and with a RequeueAfter
    unapplied,        \* CRs the report of this start has not been applied to
    phase,            \* the call the worker of each CR makes next
    op,               \* which of Ops it is at
    copy,             \* the CR's conditions as it last read or wrote them
    reason,           \* the reason it will report
    wait,             \* history: the last delay of each CR, and for what
    edits

workVars  == <<phase, op, copy, reason>>
gracefulVars == <<allowed, discoveryVars, faults, bound, boundSeen, counts, status,
                  seen, due, timers, unapplied, workVars, wait, edits>>

Waits == [what: Perms, delay: 1..MaxRequeue]

GracefulTypeOK ==
    /\ DiscoveryTypeOK
    /\ bound \in SUBSET Namespaces /\ boundSeen \in SUBSET Namespaces
    /\ counts \in [Keys -> 0..CountCap]
    /\ status \in [CRs -> Conditions] /\ seen \in [CRs -> Conditions]
    /\ due \in SUBSET CRs /\ timers \in SUBSET CRs /\ unapplied \in SUBSET CRs
    /\ phase \in [CRs -> {"idle", "apply", "call", "restore", "lookup", "report"}]
    /\ op \in [CRs -> Nat] /\ \A c \in CRs : op[c] \in 1..Len(Ops[c])
    /\ copy \in [CRs -> Conditions]
    /\ reason \in [CRs -> {"None", "MissingPermissions", "ProvisioningPending",
                           "PermissionDenied"}]
    /\ wait \in [CRs -> Waits \cup {NoWait}]
    /\ edits \in 0..MaxEdits

OperatorStarts ==
    /\ counts = [k \in Keys |-> 0]
    /\ due = CRs /\ timers = {} /\ unapplied = CRs
    /\ phase = [c \in CRs |-> "idle"] /\ op = [c \in CRs |-> 1]
    /\ copy = [c \in CRs |-> Unreported] /\ reason = [c \in CRs |-> "None"]
    /\ wait = [c \in CRs |-> NoWait]

GracefulInit ==
    /\ allowed \in SUBSET Rights /\ bound \in SUBSET Namespaces /\ boundSeen = bound
    /\ status = [c \in CRs |-> Unreported] /\ seen = status
    /\ OperatorStarts
    /\ DiscoveryInit
    /\ faults = 0 /\ edits = 0

----------------------------------------------------------------------------
(* The operator's Reconcile, as the package's documentation has it.        *)

Needs(c) == Ops[c][op[c]]

Forgets(c) ==
    /\ phase' = [phase EXCEPT ![c] = "idle"]
    /\ op' = [op EXCEPT ![c] = 1]
    /\ copy' = [copy EXCEPT ![c] = Unreported]
    /\ reason' = [reason EXCEPT ![c] = "None"]

Done(c)   == Forgets(c) /\ UNCHANGED <<due, timers>>
Errs(c)   == Forgets(c) /\ due' = due \cup {c} /\ UNCHANGED timers
Retries(c) == Forgets(c) /\ timers' = timers \cup {c} /\ UNCHANGED due

Goto(c, p) == phase' = [phase EXCEPT ![c] = p] /\ UNCHANGED <<op, reason, due, timers>>

(* The CR is read from the informer's cache.                               *)
Dequeue(c) ==
    /\ report # NoReport
    /\ phase[c] = "idle" /\ c \in due
    /\ due' = due \ {c}
    /\ phase' = [phase EXCEPT ![c] = IF c \in unapplied THEN "apply" ELSE "call"]
    /\ copy' = [copy EXCEPT ![c] = seen[c]]
    /\ UNCHANGED <<allowed, discoveryVars, faults, bound, boundSeen, counts, status, seen,
                   timers, unapplied, op, reason, wait, edits>>

(* Do has returned without an error: on to the next call, or success.      *)
Continue(c, now) ==
    \/ op[c] = Len(Ops[c]) /\ Done(c)
    \/ /\ op[c] < Len(Ops[c])
       /\ op' = [op EXCEPT ![c] = @ + 1]
       /\ phase' = [phase EXCEPT ![c] = "call"]
       /\ copy' = [copy EXCEPT ![c] = now]
       /\ UNCHANGED <<reason, due, timers>>

(* UpdateStatus: the copy's resourceVersion must be current, else a        *)
(* conflict, which Do and ApplyReport return as an error.                  *)
UpdateStatus(c, new, next) ==
    \/ /\ status[c] = copy[c]
       /\ status' = [status EXCEPT ![c] = new]
       /\ next
    \/ /\ status[c] # copy[c]
       /\ Errs(c)
       /\ UNCHANGED <<status, unapplied>>

Reported == IF report.denied = {} THEN Available("report")
            ELSE Missing("MissingPermissions", "report")

ApplyReport(c) ==
    /\ phase[c] = "apply"
    /\ UpdateStatus(c, Reported,
           /\ Goto(c, "call") /\ copy' = [copy EXCEPT ![c] = Reported]
           /\ unapplied' = unapplied \ {c})
    /\ UNCHANGED <<allowed, discoveryVars, faults, bound, boundSeen, counts, seen, wait, edits>>

----------------------------------------------------------------------------
(* Handler.Do.                                                             *)

doRest == <<allowed, discoveryVars, bound, boundSeen, seen, unapplied, edits>>

(* Mutant: a success clears the backoff of everything, as resetAll did.    *)
CallSucceedsResetting(c) ==
    /\ phase[c] = "call" /\ <<Needs(c), NsOf[c]>> \in allowed
    /\ \/ copy[c].granted = "False" /\ Goto(c, "restore") /\ UNCHANGED copy
       \/ copy[c].granted # "False" /\ Continue(c, copy[c])
    /\ counts' = [k \in Keys |-> 0]
    /\ UNCHANGED <<doRest, faults, status, wait>>

(* Mutant: a permission whose RoleBinding was waited for is not restored.  *)
CallSucceedsQuietly(c) ==
    /\ phase[c] = "call" /\ <<Needs(c), NsOf[c]>> \in allowed
    /\ \/ Degraded(copy[c]) /\ Goto(c, "restore") /\ UNCHANGED copy
       \/ ~Degraded(copy[c]) /\ Continue(c, copy[c])
    /\ UNCHANGED <<doRest, faults, counts, status, wait>>

(* fn succeeds; only a CR that is reported to lack a permission is written.*)
CallSucceeds(c) ==
    /\ phase[c] = "call" /\ <<Needs(c), NsOf[c]>> \in allowed
    /\ \/ copy[c].granted = "False" /\ Goto(c, "restore") /\ UNCHANGED copy
       \/ copy[c].granted # "False" /\ Continue(c, copy[c])
    /\ UNCHANGED <<doRest, faults, counts, status, wait>>

Restore(c) ==
    /\ phase[c] = "restore"
    /\ UpdateStatus(c, Available("handler"),
           Continue(c, Available("handler")) /\ UNCHANGED unapplied)
    /\ UNCHANGED <<allowed, discoveryVars, bound, boundSeen, seen, edits, faults, counts, wait>>

(* fn is forbidden: the denial is counted, under the lock of the tracker,  *)
(* and the count decides when to retry.                                    *)
CallForbidden(c) ==
    /\ phase[c] = "call" /\ <<Needs(c), NsOf[c]>> \notin allowed
    /\ LET k == KeyOf[Needs(c)]
           n == IF counts[k] < CountCap THEN counts[k] + 1 ELSE CountCap
       IN  /\ counts' = [counts EXCEPT ![k] = n]
           /\ wait' = [wait EXCEPT ![c] = [what |-> Needs(c), delay |-> calculateBackoff(n)]]
    /\ phase' = [phase EXCEPT ![c] = IF BindingName THEN "lookup" ELSE "report"]
    /\ reason' = [reason EXCEPT ![c] = IF BindingName THEN "None" ELSE "MissingPermissions"]
    /\ UNCHANGED <<doRest, faults, status, op, copy, due, timers>>

(* Is the managed RoleBinding there?                                       *)
Lookup(c) ==
    /\ phase[c] = "lookup"
    /\ reason' = [reason EXCEPT ![c] =
          IF NsOf[c] \in (IF DirectReader THEN bound ELSE boundSeen)
          THEN "PermissionDenied" ELSE "ProvisioningPending"]
    /\ phase' = [phase EXCEPT ![c] = "report"]
    /\ UNCHANGED <<doRest, faults, counts, status, wait, op, copy, due, timers>>

(* Mutant: what is reported already is not reported again.                 *)
ReportOnce(c) ==
    /\ phase[c] = "report"
    /\ \/ copy[c].granted = "False" /\ Retries(c) /\ UNCHANGED <<status, unapplied>>
       \/ /\ copy[c].granted # "False"
          /\ UpdateStatus(c, Missing(reason[c], Needs(c)), Retries(c) /\ UNCHANGED unapplied)
    /\ UNCHANGED <<allowed, discoveryVars, bound, boundSeen, seen, edits, faults, counts, wait>>

(* Mutant: the retry is left to the event of the status it writes.         *)
ReportUntimed(c) ==
    /\ phase[c] = "report"
    /\ UpdateStatus(c, Missing(reason[c], Needs(c)), Done(c) /\ UNCHANGED unapplied)
    /\ UNCHANGED <<allowed, discoveryVars, bound, boundSeen, seen, edits, faults, counts, wait>>

Report(c) ==
    /\ phase[c] = "report"
    /\ UpdateStatus(c, Missing(reason[c], Needs(c)), Retries(c) /\ UNCHANGED unapplied)
    /\ UNCHANGED <<allowed, discoveryVars, bound, boundSeen, seen, edits, faults, counts, wait>>

(* Any other error of fn, or of UpdateStatus, is returned; an error of the *)
(* lookup reads as a RoleBinding that is there.                            *)
CallFails(c) ==
    /\ phase[c] \in {"apply", "call", "restore", "report"}
    /\ Fault /\ Errs(c)
    /\ UNCHANGED <<doRest, counts, status, wait>>

LookupFails(c) ==
    /\ phase[c] = "lookup"
    /\ Fault
    /\ phase' = [phase EXCEPT ![c] = "report"]
    /\ reason' = [reason EXCEPT ![c] = "PermissionDenied"]
    /\ UNCHANGED <<doRest, counts, status, wait, op, copy, due, timers>>

WorkerStep(c) ==
    \/ Dequeue(c) \/ ApplyReport(c)
    \/ CallSucceeds(c) \/ CallForbidden(c) \/ Restore(c) \/ Lookup(c) \/ Report(c)

----------------------------------------------------------------------------
(* The process, its informers and timers.                                  *)

(* It stops, or discovery has failed, and it starts again.                 *)
Restart ==
    /\ \/ report = NoReport /\ Ended /\ Failed /\ UNCHANGED faults
       \/ report # NoReport /\ Fault
    /\ DiscoverAgain
    /\ counts' = [k \in Keys |-> 0]
    /\ due' = CRs /\ timers' = {} /\ unapplied' = CRs
    /\ phase' = [c \in CRs |-> "idle"] /\ op' = [c \in CRs |-> 1]
    /\ copy' = [c \in CRs |-> Unreported] /\ reason' = [c \in CRs |-> "None"]
    /\ wait' = [c \in CRs |-> NoWait]
    /\ seen' = status /\ boundSeen' = bound
    /\ UNCHANGED <<allowed, bound, status, edits>>

(* The watch event of a CR brings the cache up to date and enqueues it.    *)
Deliver(c) ==
    /\ seen[c] # status[c]
    /\ seen' = [seen EXCEPT ![c] = status[c]]
    /\ due' = due \cup {c}
    /\ UNCHANGED <<allowed, discoveryVars, faults, bound, boundSeen, counts, status, timers,
                   unapplied, workVars, wait, edits>>

SyncBindings ==
    /\ boundSeen # bound
    /\ boundSeen' = bound
    /\ UNCHANGED <<allowed, discoveryVars, faults, bound, counts, status, seen, due, timers,
                   unapplied, workVars, wait, edits>>

(* RequeueAfter has passed.                                                *)
TimerFires(c) ==
    /\ c \in timers
    /\ timers' = timers \ {c} /\ due' = due \cup {c}
    /\ UNCHANGED <<allowed, discoveryVars, faults, bound, boundSeen, counts, status, seen,
                   unapplied, workVars, wait, edits>>

(* Admins, bounded by MaxEdits, and the operator's own ResetBackoff.       *)

Edit(kind) == kind \in EditKinds /\ edits < MaxEdits /\ edits' = edits + 1

ChangeRight(r) ==
    /\ Edit("rights")
    /\ allowed' = IF r \in allowed THEN allowed \ {r} ELSE allowed \cup {r}
    /\ UNCHANGED <<discoveryVars, faults, bound, boundSeen, counts, status, seen, due, timers,
                   unapplied, workVars, wait>>

ChangeBinding(n) ==
    /\ Edit("bindings")
    /\ bound' = IF n \in bound THEN bound \ {n} ELSE bound \cup {n}
    /\ UNCHANGED <<allowed, discoveryVars, faults, boundSeen, counts, status, seen, due, timers,
                   unapplied, workVars, wait>>

ResetBackoff(k) ==
    /\ Edit("reset")
    /\ counts' = [counts EXCEPT ![k] = 0]
    /\ wait' = [c \in CRs |-> IF wait[c] # NoWait /\ KeyOf[wait[c].what] = k
                               THEN NoWait ELSE wait[c]]
    /\ UNCHANGED <<allowed, discoveryVars, faults, bound, boundSeen, status, seen, due, timers,
                   unapplied, workVars>>

handlerVars == <<bound, boundSeen, counts, status, seen, due, timers, unapplied,
                 workVars, wait, edits>>

GracefulNext ==
    \/ /\ \/ \E i \in Checks : DiscoveryStep(i) \/ AskFails(i)
          \/ Collect
          \/ Cancel
       /\ UNCHANGED handlerVars
    \/ \E c \in CRs : WorkerStep(c)
    \/ \E c \in CRs : CallFails(c) \/ LookupFails(c)
    \/ \E c \in CRs : Deliver(c) \/ TimerFires(c)
    \/ SyncBindings
    \/ Restart
    \/ \E r \in Rights : ChangeRight(r)
    \/ \E n \in Namespaces : ChangeBinding(n)
    \/ \E k \in Keys : ResetBackoff(k)

GracefulSpec == GracefulInit /\ [][GracefulNext]_gracefulVars

(* Goroutines and workers run, the informers deliver, timers fire, and a   *)
(* process that has stopped is started again.                              *)
FairGracefulSpec ==
    /\ GracefulSpec
    /\ \A i \in Checks : WF_gracefulVars(DiscoveryStep(i) /\ UNCHANGED handlerVars)
    /\ WF_gracefulVars(Collect /\ UNCHANGED handlerVars)
    /\ WF_gracefulVars(report = NoReport /\ Restart)
    /\ WF_gracefulVars(SyncBindings)
    /\ \A c \in CRs :
          WF_gracefulVars(WorkerStep(c)) /\ WF_gracefulVars(Deliver(c)) /\ WF_gracefulVars(TimerFires(c))

----------------------------------------------------------------------------
(* Properties.                                                             *)

FactorToThe[n \in Nat] == IF n = 0 THEN 1 ELSE Factor * FactorToThe[n - 1]

Schedule(n) ==
    LET d == RequeueAfter * FactorToThe[n - 1] IN IF d > MaxRequeue THEN MaxRequeue ELSE d

(* A CR that was denied waits as long as the documented schedule says for  *)
(* one of the denials counted so far, never longer than the maximum.       *)
WaitsFollowSchedule ==
    \A c \in CRs : wait[c] # NoWait =>
        \E n \in 1..counts[KeyOf[wait[c].what]] : wait[c].delay = Schedule(n)

(* The delays of a CR whose call is denied again and again never shrink:   *)
(* not because other calls succeed, nor because other CRs share the count, *)
(* only by ResetBackoff or a restart.                                      *)
PatienceGrows ==
    [][ \A c \in CRs :
          wait[c] # NoWait /\ wait'[c] # NoWait /\ wait'[c].what = wait[c].what =>
              wait'[c].delay >= wait[c].delay ]_gracefulVars

Missed(c) == {j \in 1..Len(Ops[c]) : <<Ops[c][j], NsOf[c]>> \notin allowed}

FirstMissed(c) == CHOOSE j \in Missed(c) : \A i \in Missed(c) : j <= i

ExpectedReason(c) ==
    IF ~BindingName THEN "MissingPermissions"
    ELSE IF NsOf[c] \in bound THEN "PermissionDenied" ELSE "ProvisioningPending"

(* A CR whose calls are all allowed for good ends up not reported to lack  *)
(* a permission, however old the report, the caches and the copies were.   *)
RecoveryIsReported ==
    \A c \in CRs : <>[](Missed(c) = {} => status[c].granted # "False")

AtWork(c) == c \in due \/ c \in timers \/ phase[c] # "idle"

(* A CR that is reported to lack a permission is looked at again, by the   *)
(* queue, a timer, its worker or an event yet to come: no success decided  *)
(* on an old copy and no denial already reported lets it rest.             *)
ReportedIsRevisited ==
    \A c \in CRs : status[c].granted = "False" => AtWork(c) \/ seen[c] # status[c]

(* A CR with a call that stays denied, once the handler has met the denial *)
(* and keeps retrying, is reported so again and again: with the first such *)
(* call, and with the reason the RoleBinding now calls for.                *)
DenialIsExplained ==
    \A c \in CRs : []<>(AtWork(c) /\ Missed(c) # {} =>
        status[c] = Missing(ExpectedReason(c), Ops[c][FirstMissed(c)]))

(* Every call of DiscoverPermissions returns, cancelled or not, and in the *)
(* end the operator runs.                                                  *)
DiscoveryReturns == <>[](report # NoReport)

(* What the conditions' documentation says of True: all required           *)
(* permissions are available (at least, where rights never change).        *)
AvailableMeansAll ==
    \A c \in CRs : status[c].granted = "True" => Missed(c) = {}
============================================================================
