---------------------------- MODULE Guards_proofs ----------------------------
(***************************************************************************)
(* Theorems about Guards, for any ClusterRoles, rules, pods, identities    *)
(* and bounds.                                                             *)
(***************************************************************************)
EXTENDS Guards, TLAPS

(* What the rules of a ClusterRole may be.                                 *)
AnyRules == Rules \cup GuardWritten

(* What is left of a rule's verbs.                                         *)
LEMMA VerbsLeft ==
    ASSUME NEW r
    PROVE  /\ filteredVerbs(r) \cap {"impersonate", "*"} = {}
           /\ filteredVerbs(r) \subseteq r.verbs \/ "*" \in r.verbs
           /\ "*" \notin r.verbs => r.verbs \ {"impersonate"} = filteredVerbs(r)
BY DEF filteredVerbs, standardVerbsWithoutImpersonate

LEMMA FilteredFields ==
    ASSUME NEW r
    PROVE  Filtered(r).resources = r.resources /\ Filtered(r).verbs = filteredVerbs(r)
BY DEF Filtered

(* No rule is left that lets anybody impersonate a ServiceAccount.         *)
LEMMA VerbRemoved ==
    ASSUME NEW rules
    PROVE  ~hasImpersonateVerb(removeImpersonateVerb(rules))
<1> SUFFICES ASSUME NEW r \in removeImpersonateVerb(rules), coversServiceAccounts(r)
             PROVE  r.verbs \cap {"impersonate", "*"} = {}
  BY DEF hasImpersonateVerb
<1>1. PICK q \in rules : r = Filtered(q)
  BY DEF removeImpersonateVerb
<1> QED  BY <1>1, FilteredFields, VerbsLeft

(* Nothing else is lost, and nothing is gained.                            *)
LEMMA RestIsKept ==
    ASSUME NEW rules
    PROVE  LET new == removeImpersonateVerb(rules)
           IN  /\ \A r \in rules : ~coversServiceAccounts(r) => r \in new
               /\ \A r \in new : r \in rules \/ \E q \in rules :
                     /\ r.resources = q.resources
                     /\ r.verbs \subseteq q.verbs \/ "*" \in q.verbs
               /\ \A q \in rules : \A v \in q.verbs \ {"impersonate", "*"} :
                     "*" \notin q.verbs => \E r \in new : r.resources = q.resources /\ v \in r.verbs
<1> DEFINE new == removeImpersonateVerb(rules)
<1>1. \A r \in rules : ~coversServiceAccounts(r) => r \in new
  BY DEF removeImpersonateVerb
<1>2. ASSUME NEW r \in new, r \notin rules
      PROVE  \E q \in rules : /\ r.resources = q.resources
                              /\ r.verbs \subseteq q.verbs \/ "*" \in q.verbs
  <2>1. PICK q \in rules : r = Filtered(q)
    BY <1>2 DEF removeImpersonateVerb
  <2> QED  BY <2>1, FilteredFields, VerbsLeft
<1>3. ASSUME NEW q \in rules, NEW v \in q.verbs \ {"impersonate", "*"}, "*" \notin q.verbs
      PROVE  \E r \in new : r.resources = q.resources /\ v \in r.verbs
  <2>1. CASE ~coversServiceAccounts(q)
    BY <1>1, <1>3, <2>1
  <2>2. CASE coversServiceAccounts(q)
    <3>1. v \in filteredVerbs(q)
      BY <1>3, VerbsLeft
    <3>2. Filtered(q) \in new
      BY <2>2, <3>1 DEF removeImpersonateVerb
    <3> QED  BY <3>1, <3>2, FilteredFields
  <2> QED  BY <2>1, <2>2
<1> QED  BY <1>1, <1>2, <1>3

(* Stripped rules are rules again: to strip twice changes nothing.         *)
LEMMA StrippedType ==
    ASSUME NEW rules \in SUBSET AnyRules
    PROVE  removeImpersonateVerb(rules) \in SUBSET AnyRules
<1> SUFFICES ASSUME NEW q \in rules, filteredVerbs(q) # {}
             PROVE  Filtered(q) \in AnyRules
  BY DEF removeImpersonateVerb
<1>1. CASE q \in Rules
  BY <1>1 DEF AnyRules, GuardWritten
<1>2. CASE q \in GuardWritten
  <2>1. PICK r \in Rules : q = Filtered(r)
    BY <1>2 DEF GuardWritten
  <2>2. filteredVerbs(q) = q.verbs
    BY <2>1, FilteredFields, VerbsLeft DEF filteredVerbs
  <2>3. Filtered(q) = q
    BY <2>1, <2>2, FilteredFields DEF Filtered
  <2> QED  BY <1>2, <2>3 DEF AnyRules
<1> QED  BY <1>1, <1>2 DEF AnyRules

----------------------------------------------------------------------------
(* The cache is current but for what the informer has not heard of, and so *)
(* is the worker's copy as long as nobody writes.                          *)
GuardKnows ==
    /\ \A n \in Roles : n \notin unheard => ccache[n] = croles[n]
    /\ gpc = "update" => /\ grole \in Roles /\ Labelled(gcopy)
                         /\ gcurrent => gcopy = croles[grole]

GuardInv == GuardTypeOK /\ GuardKnows

LEMMA DefaultsType ==
    ASSUME NEW n \in Roles
    PROVE  Defaults[n] \in SUBSET AnyRules /\ Bootstrapped(n) \in ClusterRoles
BY GuardAssumption DEF GuardAssumption, AnyRules, Bootstrapped, ClusterRoles

LEMMA InitGuardInv == GuardInit => GuardInv
<1> SUFFICES ASSUME GuardInit PROVE GuardInv
  OBVIOUS
<1>1. croles \in [Roles -> ClusterRoles \cup {NoRole}] /\ ccache = croles
  BY DefaultsType DEF GuardInit
<1>2. edit \in SUBSET (Rules \cup GuardWritten)
  BY DefaultsType DEF GuardInit, AnyRules
<1>3. gfaults \in 0..MaxGuardFaults /\ gedits \in 0..MaxGuardEdits
  <2>1. gfaults = 0 /\ gedits = 0
    BY DEF GuardInit
  <2>2. MaxGuardFaults \in Nat /\ MaxGuardEdits \in Nat
    BY GuardAssumption DEF GuardAssumption
  <2> QED  BY <2>1, <2>2
<1> QED  BY <1>1, <1>2, <1>3 DEF GuardInit, GuardInv, GuardTypeOK, GuardKnows

LEMMA GuardedType ==
    ASSUME NEW cr \in ClusterRoles
    PROVE  Guarded(cr) \in ClusterRoles
<1>1. removeImpersonateVerb(cr.rules) \in SUBSET AnyRules
  BY StrippedType DEF ClusterRoles, AnyRules
<1> QED  BY <1>1 DEF Guarded, ClusterRoles, AnyRules

LEMMA GetKeeps == ASSUME GuardInv, NEW n \in Roles, GuardGet(n) PROVE GuardInv'
<1>. USE DEF GuardInv
<1>1. GuardTypeOK'
  BY DEF GuardTypeOK, GuardGet, Rest, After, Labelled
<1>2. GuardKnows'
  BY DEF GuardTypeOK, GuardKnows, GuardGet, Rest, After
<1> QED  BY <1>1, <1>2

LEMMA UpdateKeeps == ASSUME GuardInv, GuardUpdate PROVE GuardInv'
<1>. USE DEF GuardInv
<1>1. grole \in Roles /\ gcopy \in ClusterRoles
  BY DEF GuardUpdate, GuardKnows, GuardTypeOK, Labelled
<1>2. Guarded(gcopy) \in ClusterRoles
  BY <1>1, GuardedType
<1>3. GuardTypeOK'
  BY <1>1, <1>2 DEF GuardTypeOK, GuardUpdate, Write, Rest, After
<1>4. GuardKnows'
  BY <1>1 DEF GuardTypeOK, GuardKnows, GuardUpdate, Write, Rest
<1> QED  BY <1>3, <1>4

LEMMA FaultsKeep == ASSUME GuardInv, GuardFails \/ GuardRestarts PROVE GuardInv'
<1>. USE DEF GuardInv
<1>1. gfaults' \in 0..MaxGuardFaults
  BY GuardAssumption DEF GuardAssumption, GuardTypeOK, GuardFails, GuardRestarts, GuardFault
<1>2. GuardTypeOK'
  BY <1>1 DEF GuardTypeOK, GuardKnows, GuardFails, GuardRestarts, Rest
<1>3. GuardKnows'
  BY DEF GuardTypeOK, GuardKnows, GuardFails, GuardRestarts, Rest
<1> QED  BY <1>2, <1>3

LEMMA HearsKeeps == ASSUME GuardInv, NEW n \in Roles, GuardHears(n) \/ GuardTimer(n) PROVE GuardInv'
<1>. USE DEF GuardInv
<1>1. GuardTypeOK'
  BY DEF GuardTypeOK, GuardHears, GuardTimer, workerVars
<1>2. GuardKnows'
  BY DEF GuardTypeOK, GuardKnows, GuardHears, GuardTimer, workerVars
<1> QED  BY <1>1, <1>2

LEMMA AggregateKeeps == ASSUME GuardInv, Aggregate PROVE GuardInv'
<1>. USE DEF GuardInv, guardRest, workerVars
<1>1. edit' \in SUBSET (Rules \cup GuardWritten)
  BY DEF Aggregate, GuardTypeOK, Labelled, ClusterRoles
<1>2. GuardTypeOK'
  BY <1>1 DEF Aggregate, GuardTypeOK
<1> QED  BY <1>2 DEF Aggregate, GuardKnows

LEMMA OthersKeep ==
    ASSUME GuardInv, NEW n \in Roles, NEW cr \in ClusterRoles \cup {NoRole}, Others(n, cr),
           gedits' \in 0..MaxGuardEdits
    PROVE  GuardInv'
<1>. USE DEF GuardInv, guardRest, workerVars
<1>1. GuardTypeOK'
  BY DEF GuardTypeOK, Others, Write
<1>2. GuardKnows'
  BY DEF GuardTypeOK, GuardKnows, Others, Write
<1> QED  BY <1>1, <1>2

LEMMA BootstrapKeeps == ASSUME GuardInv, NEW n \in Roles, Bootstrap(n) PROVE GuardInv'
<1>1. Restored(n) \in ClusterRoles
  BY DefaultsType DEF GuardInv, GuardTypeOK, Restored, ClusterRoles, AnyRules
<1> QED  BY <1>1, OthersKeep DEF Bootstrap, GuardInv, GuardTypeOK

LEMMA AdminKeeps == ASSUME GuardInv, NEW n \in Roles, AdminEdits(n) PROVE GuardInv'
<1>1. gedits' \in 0..MaxGuardEdits
  BY GuardAssumption DEF GuardAssumption, GuardInv, GuardTypeOK, AdminEdits
<1>2. CASE croles[n] = NoRole
  <2>1. PICK r \in Rules, l \in BOOLEAN :
            Others(n, [labelled |-> l, rules |-> {r}, autoupdate |-> TRUE])
    BY <1>2 DEF AdminEdits
  <2>2. [labelled |-> l, rules |-> {r}, autoupdate |-> TRUE] \in ClusterRoles
    BY DEF ClusterRoles
  <2> QED  BY <1>1, <2>1, <2>2, OthersKeep
<1>3. CASE croles[n] # NoRole
  <2>1. croles[n] \in ClusterRoles
    BY <1>3 DEF GuardInv, GuardTypeOK
  <2>2. /\ \A r \in Rules : [croles[n] EXCEPT !.rules = @ \cup {r}] \in ClusterRoles
        /\ [croles[n] EXCEPT !.labelled = ~@] \in ClusterRoles
        /\ [croles[n] EXCEPT !.autoupdate = TRUE] \in ClusterRoles
    BY <2>1 DEF ClusterRoles
  <2>3. \/ \E r \in Rules : Others(n, [croles[n] EXCEPT !.rules = @ \cup {r}])
        \/ Others(n, [croles[n] EXCEPT !.labelled = ~@])
        \/ Others(n, [croles[n] EXCEPT !.autoupdate = TRUE])
        \/ Others(n, NoRole)
    BY <1>3 DEF AdminEdits
  <2> QED  BY <1>1, <2>2, <2>3, OthersKeep
<1> QED  BY <1>2, <1>3

LEMMA NextGuardInv == GuardInv /\ GuardNext => GuardInv'
BY GetKeeps, UpdateKeeps, FaultsKeep, HearsKeeps, AggregateKeeps, BootstrapKeeps, AdminKeeps DEF GuardNext

LEMMA GuardAside == GuardInv /\ UNCHANGED guardVars => GuardInv'
BY DEF GuardInv, GuardTypeOK, GuardKnows, guardVars, workerVars

LEMMA GuardInvariance == Spec => []GuardInv
<1>1. Init => GuardInv
  BY InitGuardInv DEF Init
<1>2. GuardInv /\ [Next]_vars => GuardInv'
  BY NextGuardInv, GuardAside DEF Next, Request, vars
<1> QED  BY <1>1, <1>2, PTL DEF Spec

LEMMA PodsInvariance == Spec => []PodsTypeOK
<1>1. Init => PodsTypeOK
  BY DEF Init, PodsInit, PodsTypeOK
<1>2. PodsTypeOK /\ [Next]_vars => PodsTypeOK'
  BY DEF PodsTypeOK, Next, Request, PodRequest, podVars, vars
<1> QED  BY <1>1, <1>2, PTL DEF Spec

(* No write of the guard makes a rule without verbs, and no sequence of    *)
(* edits, resets and strips leaves the rules admins write and the guard    *)
(* makes of them.                                                          *)
THEOREM GuardsTypeCorrect == Spec => []GuardsTypeOK
<1>1. GuardInv /\ PodsTypeOK => GuardsTypeOK
  BY DEF GuardInv, GuardsTypeOK
<1> QED  BY <1>1, GuardInvariance, PodsInvariance, PTL

(* Whatever the rules are and whoever writes beside it, the guard's write  *)
(* takes the verb from what the ClusterRole now says, and nothing else.    *)
THEOREM TakesOnlyTheVerb == Spec => GuardTakesOnlyTheVerb
<1> DEFINE Spares == gpc = "update" /\ gpc' = "idle" =>
          \A n \in Roles : croles'[n] # croles[n] => OnlyTheVerb(croles[n], croles'[n])
<1>1. ASSUME GuardInv, [Next]_vars PROVE [Spares]_guardVars
  <2> SUFFICES ASSUME gpc = "update", gpc' = "idle", NEW n \in Roles, croles'[n] # croles[n], GuardNext
               PROVE  OnlyTheVerb(croles[n], croles'[n])
    BY <1>1 DEF Next, Request, vars, guardVars
  <2>1. GuardUpdate
    BY DEF GuardNext, GuardGet, GuardHears, GuardTimer, GuardFails, GuardRestarts, Aggregate,
       Bootstrap, AdminEdits, Others, Write, guardRest, workerVars
  <2>2. gcurrent /\ Write(grole, Guarded(gcopy))
    BY <2>1 DEF GuardUpdate
  <2>3. n = grole /\ croles'[n] = Guarded(croles[n]) /\ Labelled(croles[n]) /\ croles[n] \in ClusterRoles
    BY <1>1, <2>2 DEF GuardInv, GuardTypeOK, GuardKnows, Write, Labelled
  <2>4. /\ Guarded(croles[n]).rules = removeImpersonateVerb(croles[n].rules)
        /\ Guarded(croles[n]).labelled /\ Guarded(croles[n]) # NoRole
    <3>1. Guarded(croles[n]).rules = removeImpersonateVerb(croles[n].rules) /\ Guarded(croles[n]).labelled
      BY <2>3 DEF Guarded, ClusterRoles, Labelled
    <3> QED  BY <2>3, <3>1, GuardedType, NoRoleAssumption
  <2>5. /\ Labelled(croles'[n]) /\ ~hasImpersonateVerb(croles'[n].rules)
    BY <2>3, <2>4, VerbRemoved DEF Labelled
  <2> QED  BY <2>3, <2>4, <2>5, RestIsKept DEF OnlyTheVerb
<1> QED  BY <1>1, GuardInvariance, PTL DEF Spec, GuardTakesOnlyTheVerb

(* Steps that may make the guard lose sight of a ClusterRole: it looks at  *)
(* one, writes one, fails, starts again, hears of one.                     *)
LEMMA PursuitGoesOn ==
    ASSUME GuardInv, VerbIsPursued, GuardNext PROVE VerbIsPursued'
<1>. USE DEF VerbIsPursued, Labelled
<1>1. ASSUME NEW n \in Roles, GuardGet(n) PROVE VerbIsPursued'
  BY <1>1 DEF GuardGet, GuardInv, GuardKnows, GuardTypeOK, Rest
<1>2. CASE GuardUpdate
  BY <1>2 DEF GuardUpdate, GuardInv, GuardTypeOK, Write, Rest
<1>3. CASE GuardFails \/ GuardRestarts
  BY <1>3 DEF GuardFails, GuardRestarts, Rest
<1>4. ASSUME NEW n \in Roles, GuardHears(n) PROVE VerbIsPursued'
  BY <1>4 DEF GuardHears, workerVars, Filter
<1>5. ASSUME NEW n \in Roles, GuardTimer(n) PROVE VerbIsPursued'
  BY <1>5 DEF GuardTimer, workerVars
<1>6. CASE Aggregate
  BY <1>6 DEF Aggregate, guardRest, workerVars
<1>7. ASSUME NEW n \in Roles, NEW cr, Others(n, cr) PROVE VerbIsPursued'
  BY <1>7 DEF Others, Write, guardRest, workerVars, GuardInv, GuardTypeOK
<1>8. ASSUME NEW n \in Roles, Bootstrap(n) \/ AdminEdits(n) PROVE VerbIsPursued'
  BY <1>7, <1>8 DEF Bootstrap, AdminEdits
<1> QED  BY <1>1, <1>2, <1>3, <1>4, <1>5, <1>6, <1>8 DEF GuardNext

(* Whatever is labelled, edited, reset and lost on the way, an aggregated  *)
(* ClusterRole that has the verb is known to the guard or about to be.     *)
THEOREM PursuitNeverEnds == Spec => []VerbIsPursued
<1>1. Init => VerbIsPursued
  BY DEF Init, GuardInit, VerbIsPursued
<1>2. GuardInv /\ VerbIsPursued /\ [Next]_vars => VerbIsPursued'
  <2>1. VerbIsPursued /\ UNCHANGED guardVars => VerbIsPursued'
    BY DEF VerbIsPursued, guardVars, workerVars
  <2> QED  BY <2>1, PursuitGoesOn DEF Next, Request, vars
<1> QED  BY <1>1, <1>2, GuardInvariance, PTL DEF Spec

(* When the guard has nothing left to do and the edit role is what its     *)
(* ClusterRoles aggregate to, it lets nobody impersonate.                  *)
Aggregated == edit = UNION {croles[n].rules : n \in {m \in Roles : Labelled(croles[m])}}

THEOREM QuietIsClean ==
    Spec => [](unheard = {} /\ gqueue = {} /\ gpc = "idle" /\ Aggregated => ~hasImpersonateVerb(edit))
<1>1. VerbIsPursued /\ unheard = {} /\ gqueue = {} /\ gpc = "idle" /\ Aggregated => ~hasImpersonateVerb(edit)
  BY DEF VerbIsPursued, Aggregated, hasImpersonateVerb
<1> QED  BY <1>1, PursuitNeverEnds, PTL

(* The webhook alone, for any identities and names: as long as the edit    *)
(* role lets nobody impersonate, protected ServiceAccounts are given and   *)
(* taken only on behalf of identities that are allowed to.                 *)
THEOREM ProtectionHolds == Spec => ProtectedForAllowed
<1> DEFINE Held == ~hasImpersonateVerb(edit) =>
          \A p \in Pods : Reassigned(p) => requester'[p] \in Allowed
<1>1. ASSUME PodsTypeOK, [Next]_vars PROVE [Held]_vars
  <2> SUFFICES ASSUME ~hasImpersonateVerb(edit), NEW p \in Pods, Reassigned(p), Next
               PROVE  requester'[p] \in Allowed
    BY <1>1
  <2>1. PICK q \in Pods, who \in Identities : PodRequest(q, who, who)
    BY DEF Next, Request, NamesOf, Reassigned, podVars
  <2>2. q = p /\ requester'[p] = who
    BY <1>1, <2>1 DEF PodRequest, PodsTypeOK, Reassigned
  <2>3. PICK operation \in {"CREATE", "UPDATE", "DELETE"}, sa \in SANames \cup {NoPod} :
            /\ (operation = "CREATE") <=> (pods[p] = NoPod)
            /\ (operation = "DELETE") <=> (sa = NoPod)
            /\ Handle(operation, who, pods[p], sa)
            /\ pods' = [pods EXCEPT ![p] = sa]
    BY <2>1, <2>2 DEF PodRequest
  <2>4. pods'[p] = sa /\ sa # NoPod /\ operation # "DELETE"
    BY <1>1, <2>3 DEF PodsTypeOK, Reassigned
  <2> QED
    BY <1>1, <2>2, <2>3, <2>4, ProtectionAssumption
       DEF Handle, Reassigned, RunsAs, isProtected, PodsTypeOK, ProtectionAssumption
<1> QED  BY <1>1, PodsInvariance, PTL DEF Spec, ProtectedForAllowed
============================================================================
