------------------------ MODULE PermissionDiscovery ------------------------
(***************************************************************************)
(* pkg/graceful/discovery.go: DiscoverPermissions asks the API server, one *)
(* SelfSubjectAccessReview for each check, what the operator may do.  One  *)
(* goroutine runs per check, as many at a time as a semaphore has slots;   *)
(* the call returns when all have ended, with a report or with an error.   *)
(***************************************************************************)
EXTENDS Integers, FiniteSets

CONSTANTS
    Perms,          \* what can be allowed: a verb on a resource
    Namespaces,
    Checks,         \* the reviews one call makes; two may ask the same
    About,          \* [Checks -> Perms \X Namespaces]
    MaxConcurrency, \* spec.MaxConcurrency
    NoReport,
    MaxFaults       \* bound: failed calls, cancellations and restarts

Rights == Perms \X Namespaces

Slots == IF MaxConcurrency <= 0 THEN 10 ELSE MaxConcurrency

Reports == [granted: SUBSET Checks, denied: SUBSET Checks]

ASSUME DiscoveryAssumption ==
    /\ IsFiniteSet(Checks) /\ About \in [Checks -> Rights]
    /\ MaxConcurrency \in Int /\ MaxFaults \in Nat
    /\ NoReport \notin Reports

VARIABLES
    allowed,    \* the rights the operator has
    review,     \* where the goroutine of each check is, or how it ended
    free,       \* slots of the semaphore nobody holds
    cancelled,  \* the context is done
    report,     \* what the call has returned; NoReport before that
    faults

discoveryVars == <<review, free, cancelled, report>>

DiscoveryTypeOK ==
    /\ allowed \in SUBSET Rights
    /\ review \in [Checks -> {"waiting", "asking", "allowed", "denied", "failed"}]
    /\ free \in 0..Slots
    /\ cancelled \in BOOLEAN
    /\ report \in Reports \cup {NoReport}
    /\ faults \in 0..MaxFaults

DiscoveryInit ==
    /\ review = [i \in Checks |-> "waiting"]
    /\ free = Slots /\ cancelled = FALSE /\ report = NoReport

(* The call is made afresh, by an operator that has started again.         *)
DiscoverAgain ==
    /\ review' = [i \in Checks |-> "waiting"]
    /\ free' = Slots /\ cancelled' = FALSE /\ report' = NoReport

Fault == faults < MaxFaults /\ faults' = faults + 1

----------------------------------------------------------------------------

(* Mutant: a goroutine asks without waiting for a slot.                    *)
AcquireUnbounded(i) ==
    /\ review[i] = "waiting"
    /\ review' = [review EXCEPT ![i] = "asking"]
    /\ UNCHANGED <<allowed, free, cancelled, report, faults>>

Acquire(i) ==
    /\ review[i] = "waiting" /\ free > 0
    /\ review' = [review EXCEPT ![i] = "asking"]
    /\ free' = free - 1
    /\ UNCHANGED <<allowed, cancelled, report, faults>>

(* The context is done; the select may prefer this to a free slot.         *)
GiveUp(i) ==
    /\ review[i] = "waiting" /\ cancelled
    /\ review' = [review EXCEPT ![i] = "failed"]
    /\ UNCHANGED <<allowed, free, cancelled, report, faults>>

(* Mutant: the slot is given back after an answer only.                    *)
EndAskLeaking(i, how) ==
    /\ review[i] = "asking"
    /\ review' = [review EXCEPT ![i] = how]
    /\ free' = IF how = "failed" THEN free ELSE free + 1
    /\ UNCHANGED <<allowed, cancelled, report>>

(* The deferred receive gives the slot back however the review ends.       *)
EndAsk(i, how) ==
    /\ review[i] = "asking"
    /\ review' = [review EXCEPT ![i] = how]
    /\ free' = free + 1
    /\ UNCHANGED <<allowed, cancelled, report>>

(* checkSSAR.                                                              *)
Ask(i) ==
    /\ EndAsk(i, IF About[i] \in allowed THEN "allowed" ELSE "denied")
    /\ UNCHANGED faults

AskFails(i) ==
    /\ EndAsk(i, "failed")
    /\ \/ cancelled /\ UNCHANGED faults
       \/ Fault

Cancel ==
    /\ report = NoReport /\ ~cancelled
    /\ cancelled' = TRUE
    /\ Fault
    /\ UNCHANGED <<allowed, review, free, report>>

Ended == \A i \in Checks : review[i] \in {"allowed", "denied", "failed"}

Failed == \E i \in Checks : review[i] = "failed"

(* Mutant: a check that failed has its zero value, not allowed.            *)
CollectWhatIsThere ==
    /\ report = NoReport /\ Ended
    /\ report' = [granted |-> {i \in Checks : review[i] = "allowed"},
                  denied  |-> {i \in Checks : review[i] # "allowed"}]
    /\ UNCHANGED <<allowed, review, free, cancelled, faults>>

(* wg.Wait, without an error: the results are sorted.                      *)
Collect ==
    /\ report = NoReport /\ Ended /\ ~Failed
    /\ report' = [granted |-> {i \in Checks : review[i] = "allowed"},
                  denied  |-> {i \in Checks : review[i] = "denied"}]
    /\ UNCHANGED <<allowed, review, free, cancelled, faults>>

(* DiscoverNamespacedPermissions, of the checks of one permission: what    *)
(* each namespace is told, denials written last.                           *)
NamespaceResult(p) ==
    LET told(S) == {About[i][2] : i \in {j \in S : About[j][1] = p}}
    IN  [n \in told(report.granted) \cup told(report.denied) |-> n \notin told(report.denied)]

DiscoveryStep(i) == Acquire(i) \/ GiveUp(i) \/ Ask(i)

----------------------------------------------------------------------------
(* Every goroutine that asks holds a slot, and nobody else does: as many   *)
(* reviews are under way as there are slots in use, and never more than    *)
(* MaxConcurrency, however goroutines end.                                 *)
SlotsAccounted == Cardinality({i \in Checks : review[i] = "asking"}) + free = Slots

(* A report exists only when every check was answered, tells each answer   *)
(* as it was given (a failed check is not a denial), and a namespace is    *)
(* told that it may be worked in only when no answer for it was a denial.  *)
ReportIsFaithful ==
    report # NoReport =>
        /\ report.granted = {i \in Checks : review[i] = "allowed"}
        /\ report.denied = {i \in Checks : review[i] = "denied"}
        /\ report.granted \cup report.denied = Checks
        /\ \A i \in Checks :
              NamespaceResult(About[i][1])[About[i][2]] =>
                  \A j \in Checks : About[j] = About[i] => review[j] = "allowed"
============================================================================
