--------------------------- MODULE Grants_proofs ---------------------------
(***************************************************************************)
(* Theorems about Scoper where reads are direct (no informer cache): the   *)
(* backfill leaves no pending owner behind, the patch of the owner         *)
(* references drops no live one, and, where nothing else than the          *)
(* reconciler writes, a granted CR stays granted.  Every one of them fails *)
(* with a cache; for any number of CRs, namespaces, faults and edits.      *)
(***************************************************************************)
EXTENDS Scoper_proofs

USE ClusterAssumption

RefsOf(k) == IF rbs[k] = NoRB THEN {} ELSE rbs[k].refs

PendsAt(k, c) == rbs[k] # NoRB /\ rbs[k].pending = c

(* What one step may do to a CR and the count of its creations.            *)
LifeStep(c) ==
    \/ crs'[c] = crs[c] /\ born'[c] = born[c]
    \/ crs'[c] = NoCR /\ born'[c] = born[c]
    \/ crs[c] # NoCR /\ crs'[c] # NoCR /\ crs'[c].gen = crs[c].gen /\ born'[c] = born[c]
    \/ crs[c] = NoCR /\ crs'[c] # NoCR /\ crs'[c].gen = born[c] + 1 /\ born'[c] = born[c] + 1

LifeSteps == \A c \in CRs : LifeStep(c)

(* What a step that is not the worker's does to what the theorems are      *)
(* about: nobody else serves a CR, adds an owner reference or, except a    *)
(* webhook request of that CR's own, a pending owner.                      *)
NoneServed == \A c \in served' : c \in served /\ crs'[c] = crs[c]

RefsShrink == \A k \in Keys : RefsOf(k)' \subseteq RefsOf(k)

Asked(c) == IF c = Nameless THEN \E d \in CRs : adm[d] # NoCR ELSE adm[c] # NoCR

PendsOnly == \A k \in Keys, c \in CRs \cup {Nameless} : PendsAt(k, c)' => PendsAt(k, c) \/ Asked(c)

Aside == LifeSteps /\ NoneServed /\ RefsShrink /\ PendsOnly

LEMMA Untouched ==
    ASSUME UNCHANGED rbs
    PROVE  RefsShrink /\ PendsOnly
BY DEF RefsShrink, PendsOnly, RefsOf, PendsAt

LEMMA NoLifeStep ==
    ASSUME UNCHANGED <<crs, born, served>>
    PROVE  LifeSteps /\ NoneServed
BY DEF LifeSteps, LifeStep, NoneServed

(* What a write at one key does to the references and the pending owners   *)
(* everywhere: none but those of S are added, and nobody is made pending.  *)
AddsOnly(S) ==
    \A k \in Keys : /\ RefsOf(k)' \subseteq RefsOf(k) \cup S
                    /\ \A c \in CRs \cup {Nameless} : PendsAt(k, c)' => PendsAt(k, c)

LEMMA WriteAdds ==
    ASSUME ClusterTypeOK, NEW S, NEW k \in Keys, NEW x, Written(k, x),
           x # NoRB => /\ x.refs \subseteq RefsOf(k) \cup S
                       /\ x.pending = NoOwner \/ (rbs[k] # NoRB /\ x.pending = rbs[k].pending)
    PROVE  AddsOnly(S)
<1>1. ASSUME NEW j \in Keys
      PROVE  rbs'[j] = IF j = k THEN x ELSE rbs[j]
  BY DEF Written, ClusterTypeOK
<1>2. ASSUME NEW j \in Keys
      PROVE  RefsOf(j)' \subseteq RefsOf(j) \cup S
  <2>1. CASE j = k
    BY <1>1, <2>1 DEF RefsOf
  <2>2. CASE j # k
    BY <1>1, <2>2 DEF RefsOf
  <2> QED BY <2>1, <2>2
<1>3. ASSUME NEW j \in Keys, NEW c \in CRs \cup {Nameless}, PendsAt(j, c)'
      PROVE  PendsAt(j, c)
  <2>1. CASE j = k
    <3>1. rbs'[k] = x /\ x # NoRB /\ x.pending = c
      BY <1>1, <1>3, <2>1 DEF PendsAt
    <3> QED BY <2>1, <3>1 DEF PendsAt
  <2>2. CASE j # k
    BY <1>1, <1>3, <2>2 DEF PendsAt
  <2> QED BY <2>1, <2>2
<1> QED BY <1>2, <1>3 DEF AddsOnly

(* A write that keeps references and pending owner, or starts without.     *)
LEMMA WriteAside ==
    ASSUME ClusterTypeOK, NEW k \in Keys, NEW x, Written(k, x),
           \/ x = NoRB
           \/ x.refs = {} /\ x.pending = NoOwner
           \/ rbs[k] # NoRB /\ x.refs \subseteq rbs[k].refs /\ x.pending = rbs[k].pending
    PROVE  RefsShrink /\ PendsOnly
<1>1. AddsOnly({})
  <2>1. CASE x = NoRB
    BY <2>1, WriteAdds
  <2>2. CASE x.refs = {} /\ x.pending = NoOwner
    BY <2>2, WriteAdds
  <2>3. CASE rbs[k] # NoRB /\ x.refs \subseteq rbs[k].refs /\ x.pending = rbs[k].pending
    <3>1. x.refs \subseteq RefsOf(k) \cup {}
      BY <2>3 DEF RefsOf
    <3> QED BY <2>3, <3>1, WriteAdds
  <2> QED BY <2>1, <2>2, <2>3
<1> QED BY <1>1 DEF AddsOnly, RefsShrink, PendsOnly

LEMMA CreateAside ==
    ASSUME ClusterTypeOK, NEW c \in CRs, NEW s \in Specs, CreateCR(c, s)
    PROVE  Aside
<1>1. LifeSteps
  <2> SUFFICES ASSUME NEW d \in CRs PROVE LifeStep(d)
    BY DEF LifeSteps
  <2> DEFINE o == [gen |-> born[c] + 1, target |-> s.target, sa |-> s.sa]
  <2>1. born[c] + 1 \in 1..MaxGen
    BY DEF CreateCR, ClusterTypeOK
  <2>2. o \in CRObjects
    BY <2>1 DEF CRObjects
  <2>3. crs' = [crs EXCEPT ![c] = o] /\ born' = [born EXCEPT ![c] = @ + 1] /\ crs[c] = NoCR
    BY DEF CreateCR
  <2>4. o.gen = born[c] + 1 /\ o # NoCR
    BY <2>2
  <2> HIDE DEF o
  <2>5. CASE d = c
    BY <2>3, <2>4, <2>5 DEF LifeStep, ClusterTypeOK
  <2>6. CASE d # c
    BY <2>3, <2>6 DEF LifeStep, ClusterTypeOK
  <2> QED BY <2>5, <2>6
<1>2. NoneServed
  BY DEF CreateCR, NoneServed, ClusterTypeOK
<1> QED BY <1>1, <1>2, Untouched DEF CreateCR, Aside

LEMMA EnvironmentAside ==
    ASSUME ClusterTypeOK, Environment
    PROVE  Aside
<1> USE DEF userVars, nsVars, queueVars, boundVars
<1>1. ASSUME NEW c \in CRs, DeleteCR(c)
      PROVE  Aside
  <2>1. LifeSteps /\ NoneServed
    BY <1>1 DEF DeleteCR, LifeSteps, LifeStep, NoneServed, ClusterTypeOK
  <2> QED BY <1>1, <2>1, Untouched DEF DeleteCR, Aside
<1>2. ASSUME NEW c \in CRs, Resync(c)
      PROVE  Aside
  BY <1>2, Untouched, NoLifeStep DEF Resync, Aside
<1>3. ASSUME NEW c \in CRs, NEW s \in Specs, EditCR(c, s)
      PROVE  Aside
  <2> DEFINE o == [crs[c] EXCEPT !.target = s.target, !.sa = s.sa]
  <2>1. crs[c] \in CRObjects
    BY <1>3 DEF EditCR, ClusterTypeOK
  <2>2. o # NoCR /\ o.gen = crs[c].gen
    BY <2>1, CRExceptType DEF CRObjects
  <2>3. crs' = [crs EXCEPT ![c] = o]
    BY <1>3 DEF EditCR, ClusterTypeOK
  <2> HIDE DEF o
  <2>4. LifeSteps
    BY <1>3, <2>1, <2>2, <2>3 DEF EditCR, LifeSteps, LifeStep, ClusterTypeOK
  <2>5. NoneServed
    BY <1>3, <2>3 DEF EditCR, NoneServed, ClusterTypeOK
  <2> QED BY <1>3, <2>4, <2>5, Untouched DEF EditCR, Aside
<1>4. ASSUME NEW n \in Namespaces,
             RelabelForSelector(n) \/ RelabelForTrigger(n) \/ ResyncNamespace(n)
      PROVE  Aside
  BY <1>4, Untouched, NoLifeStep DEF RelabelForSelector, RelabelForTrigger, ResyncNamespace, Aside
<1>5. CASE EditClusterRole
  BY <1>5, Untouched, NoLifeStep DEF EditClusterRole, Aside
<1>6. ASSUME NEW k \in Keys, DeleteRB(k) \/ PlantRB(k) \/ DriftSubjects(k) \/ DriftRoleRef(k)
                             \/ GCDelete(k) \/ GCPrune(k)
      PROVE  Aside
  <2>1. LifeSteps /\ NoneServed
    <3>1. UNCHANGED userVars /\ served' \subseteq served
      BY <1>6 DEF DeleteRB, PlantRB, DriftSubjects, DriftRoleRef, GCDelete, GCPrune, Unserve
    <3> QED BY <3>1 DEF LifeSteps, LifeStep, NoneServed
  <2>2. rbs[k] # NoRB => rbs[k] \in RBObjects
    BY DEF ClusterTypeOK
  <2>3. CASE DeleteRB(k) \/ GCDelete(k)
    <3>1. Written(k, NoRB)
      BY <2>3 DEF DeleteRB, GCDelete, Written
    <3> QED BY <2>1, <3>1, WriteAside DEF Aside
  <2>4. CASE PlantRB(k)
    <3>1. Written(k, NewRB(Unset, "external"))
      BY <2>4 DEF PlantRB, Written
    <3>2. NewRB(Unset, "external").refs = {} /\ NewRB(Unset, "external").pending = NoOwner
      BY DEF NewRB
    <3> QED BY <2>1, <3>1, <3>2, WriteAside DEF Aside
  <2>5. CASE DriftSubjects(k)
    <3> DEFINE x == [rbs[k] EXCEPT !.subject = Unset]
    <3>1. Written(k, x) /\ rbs[k] # NoRB
      BY <2>5 DEF DriftSubjects, Written
    <3>2. x.refs = rbs[k].refs /\ x.pending = rbs[k].pending
      BY <2>2, <3>1 DEF RBObjects
    <3> HIDE DEF x
    <3> QED BY <2>1, <3>1, <3>2, WriteAside DEF Aside
  <2>6. CASE DriftRoleRef(k)
    <3> DEFINE x == [rbs[k] EXCEPT !.role = FALSE]
    <3>1. Written(k, x) /\ rbs[k] # NoRB
      BY <2>6 DEF DriftRoleRef, Written
    <3>2. x.refs = rbs[k].refs /\ x.pending = rbs[k].pending
      BY <2>2, <3>1 DEF RBObjects
    <3> HIDE DEF x
    <3> QED BY <2>1, <3>1, <3>2, WriteAside DEF Aside
  <2>7. CASE GCPrune(k)
    <3> DEFINE S == {u \in rbs[k].refs : Live(u)}
               x == [rbs[k] EXCEPT !.refs = S]
    <3>1. Written(k, x) /\ rbs[k] # NoRB
      BY <2>7 DEF GCPrune, Written
    <3>2. x.refs = S /\ x.pending = rbs[k].pending /\ S \subseteq rbs[k].refs
      BY <2>2, <3>1 DEF RBObjects
    <3> HIDE DEF x
    <3> QED BY <2>1, <3>1, <3>2, WriteAside DEF Aside
  <2> QED BY <1>6, <2>3, <2>4, <2>5, <2>6, <2>7
<1>7. ASSUME NEW k \in Keys, CacheSync(k)
      PROVE  Aside
  BY <1>7, Untouched, NoLifeStep DEF CacheSync, Aside
<1> QED
  BY <1>1, <1>2, <1>3, <1>4, <1>5, <1>6, <1>7 DEF Environment
----------------------------------------------------------------------------
(* The other controllers.                                                  *)

LEMMA CleanupAside ==
    ASSUME CleanInv, Cleanup
    PROVE  Aside
<1> USE DEF cleanRest, userVars
<1>0. ClusterTypeOK
  BY DEF CleanInv
<1>1. LifeSteps /\ NoneServed
  BY NoLifeStep
     DEF Cleanup, CleanupStep, CleanupError, ListManaged, PickRoleBinding, CheckEntry,
         SettleEntries, CheckPendingOwner, DeletePending
<1>2. \/ UNCHANGED rbs
      \/ cpc # "idle" /\ Written(ckey, NoRB)
      \/ /\ cpc = "entries" /\ rbs[ckey] = snap[ckey]
         /\ Written(ckey, [rbs[ckey] EXCEPT !.owners = valid])
  <2>1. CASE SettleEntries
    <3>1. \/ UNCHANGED rbs
          \/ Written(ckey, NoRB)
          \/ rbs[ckey] = snap[ckey] /\ Written(ckey, [rbs[ckey] EXCEPT !.owners = valid])
      BY <2>1 DEF SettleEntries, Written
    <3>2. cpc = "entries" /\ cpc # "idle"
      BY <2>1 DEF SettleEntries
    <3> QED BY <3>1, <3>2
  <2>2. CASE DeletePending
    BY <2>2 DEF DeletePending, Written
  <2>3. CASE \/ ListManaged \/ CleanupError \/ CheckPendingOwner
             \/ \E k \in Keys : PickRoleBinding(k)
             \/ \E u \in UIDs : CheckEntry(u)
    BY <2>3 DEF CleanupError, ListManaged, PickRoleBinding, CheckEntry, CheckPendingOwner
  <2> QED BY <2>1, <2>2, <2>3 DEF Cleanup, CleanupStep
<1>3. cpc # "idle" => ckey \in Keys /\ snap[ckey] \in RBObjects
  BY DEF CleanInv, CleanKnows
<1>4. CASE UNCHANGED rbs
  BY <1>1, <1>4, Untouched DEF Aside
<1>5. CASE cpc # "idle" /\ Written(ckey, NoRB)
  BY <1>0, <1>1, <1>3, <1>5, WriteAside DEF Aside
<1>6. CASE /\ cpc = "entries" /\ rbs[ckey] = snap[ckey]
           /\ Written(ckey, [rbs[ckey] EXCEPT !.owners = valid])
  <2> DEFINE x == [rbs[ckey] EXCEPT !.owners = valid]
  <2>1. ckey \in Keys /\ rbs[ckey] \in RBObjects
    BY <1>3, <1>6
  <2>2. x.refs = rbs[ckey].refs /\ x.pending = rbs[ckey].pending /\ rbs[ckey] # NoRB
    BY <2>1 DEF RBObjects
  <2>3. Written(ckey, x)
    BY <1>6
  <2> HIDE DEF x
  <2> QED BY <1>0, <1>1, <2>1, <2>2, <2>3, WriteAside DEF Aside
<1> QED BY <1>2, <1>4, <1>5, <1>6

LEMMA TriggerAside ==
    ASSUME TrigInv, Trigger
    PROVE  Aside
<1> USE DEF trigRest, userVars
<1>0. ClusterTypeOK
  BY DEF TrigInv
<1>1. LifeSteps /\ NoneServed
  BY NoLifeStep
     DEF Trigger, TriggerStep, LDequeue, LCheckClusterRole, LCreate, LCheckDrift, LDeleteDrifted,
         LRecreate, LReadSubjects, LWriteSubjects, LCheckRemovable, LRemove, LError
<1>2. \/ UNCHANGED rbs
      \/ lpc # "idle" /\ Written(lkey, NoRB)
      \/ lpc # "idle" /\ Written(lkey, Expected)
      \/ /\ lpc = "writeSubjects" /\ rbs[lkey] = lcopy
         /\ Written(lkey, [lcopy EXCEPT !.subject = TargetSA])
  BY DEF Trigger, TriggerStep, LDequeue, LCheckClusterRole, LCreate, LCheckDrift, LDeleteDrifted,
         LRecreate, LReadSubjects, LWriteSubjects, LCheckRemovable, LRemove, LError, LPut, Written
<1>3. lpc # "idle" => lkey \in Keys
  BY DEF TrigInv, TrigKnows, lkey, Keys
<1>4. CASE UNCHANGED rbs
  BY <1>1, <1>4, Untouched DEF Aside
<1>5. CASE lpc # "idle" /\ Written(lkey, NoRB)
  BY <1>0, <1>1, <1>3, <1>5, WriteAside DEF Aside
<1>6. CASE lpc # "idle" /\ Written(lkey, Expected)
  <2>1. Expected.refs = {} /\ Expected.pending = NoOwner
    BY DEF Expected, NewRB
  <2> QED BY <1>0, <1>1, <1>3, <1>6, <2>1, WriteAside DEF Aside
<1>7. CASE /\ lpc = "writeSubjects" /\ rbs[lkey] = lcopy
           /\ Written(lkey, [lcopy EXCEPT !.subject = TargetSA])
  <2> DEFINE x == [lcopy EXCEPT !.subject = TargetSA]
  <2>1. lkey \in Keys /\ lcopy \in RBObjects
    BY <1>3, <1>7 DEF TrigInv, TrigKnows
  <2>2. x.refs = rbs[lkey].refs /\ x.pending = rbs[lkey].pending /\ rbs[lkey] # NoRB
    BY <1>7, <2>1 DEF RBObjects
  <2>3. Written(lkey, x)
    BY <1>7
  <2> HIDE DEF x
  <2> QED BY <1>0, <1>1, <2>1, <2>2, <2>3, WriteAside DEF Aside
<1> QED BY <1>2, <1>4, <1>5, <1>6, <1>7

LEMMA AdmissionAside ==
    ASSUME AdmInv, Admission
    PROVE  Aside
<1> USE DEF admRest, userVars
<1>0. ClusterTypeOK
  BY DEF AdmInv
<1>1. ASSUME NEW c \in CRs, Store(c)
      PROVE  Aside
  <2>1. adm[c].spec \in Specs
    BY <1>1 DEF AdmInv, AdmTypeOK, Requests, Store, At
  <2> QED BY <1>0, <1>1, <2>1, CreateAside DEF Store
<1>2. ASSUME NEW c \in CRs, WebhookCreate(c)
      PROVE  Aside
  <2>1. LifeSteps /\ NoneServed
    BY <1>2, NoLifeStep DEF WebhookCreate
  <2>2. CASE UNCHANGED rbs
    BY <2>1, <2>2, Untouched DEF Aside
  <2>3. CASE rbs[AdmKey(c)] = NoRB
    <3> DEFINE x == [NewRB(TargetSA, "webhook")
                       EXCEPT !.pending = IF c \in GenerateNames THEN Nameless ELSE c]
               k == AdmKey(c)
    <3>1. k \in Keys /\ adm[c] # NoCR
      BY <1>2 DEF AdmKey, Keys, WebhookCreate, At
    <3>2. Written(k, x)
      BY <1>2, <2>3 DEF WebhookCreate, Written
    <3>3. x.refs = {} /\ x.pending \in {c, Nameless}
      BY DEF NewRB
    <3> HIDE DEF x, k
    <3>4. \A j \in Keys : rbs'[j] = IF j = k THEN x ELSE rbs[j]
      BY <1>0, <3>1, <3>2 DEF Written, ClusterTypeOK
    <3>5. RefsShrink
      BY <3>3, <3>4 DEF RefsShrink, RefsOf
    <3>6. ASSUME NEW j \in Keys, NEW d \in CRs \cup {Nameless}, PendsAt(j, d)'
          PROVE  PendsAt(j, d) \/ Asked(d)
      <4>1. CASE j = k
        <5>1. x.pending = d
          BY <3>4, <3>6, <4>1 DEF PendsAt
        <5>2. d \in {c, Nameless}
          BY <3>3, <5>1
        <5> QED BY <3>1, <5>2 DEF Asked
      <4>2. CASE j # k
        BY <3>4, <3>6, <4>2 DEF PendsAt
      <4> QED BY <4>1, <4>2
    <3> QED BY <2>1, <3>5, <3>6 DEF PendsOnly, Aside
  <2> QED BY <1>2, <2>2, <2>3 DEF WebhookCreate
<1>3. ASSUME NEW c \in CRs,
             \/ \E s \in Specs : Admit(c, s)
             \/ WebhookGet(c) \/ WebhookFails(c) \/ Refuse(c)
      PROVE  Aside
  BY <1>3, NoLifeStep, Untouched DEF Admit, WebhookGet, WebhookFails, Refuse, Aside
<1>4. ASSUME NEW k \in Keys, Ripen(k)
      PROVE  Aside
  BY <1>4, NoLifeStep, Untouched DEF Ripen, Aside
<1> QED BY <1>1, <1>2, <1>3, <1>4 DEF Admission, AdmissionStep

LEMMA CrashAside ==
    ASSUME Crash
    PROVE  Aside
BY NoLifeStep, Untouched DEF Crash, userVars, Aside
----------------------------------------------------------------------------
(* What holds of the references and the pending owners.  A CR's UID is of  *)
(* the last creation of its name; a reference never names a later one; the *)
(* worker's CR is the latest whose reference it or any RoleBinding has.    *)
Gens == \A c \in CRs : crs[c] # NoCR => crs[c].gen = born[c]

RefsBorn == \A k \in Keys : \A v \in RefsOf(k) : v[2] <= born[v[1]]

LatestOf(refs) == \A v \in refs : v[1] = cur => v[2] <= obj.gen

WorkerGen ==
    pc # "idle" =>
        /\ obj.gen <= born[cur]
        /\ \A k \in Keys : LatestOf(RefsOf(k))
        /\ pc \in CopyLabels => LatestOf(copy.refs) /\ \A v \in copy.refs : v[2] <= born[v[1]]

(* Between the read and the patch, nobody adds a reference the patch would *)
(* miss.                                                                   *)
PatchKnows == pc = "patchRefs" => \A v \in RefsOf(key) : Live(v) => v \in copy.refs

(* Only a webhook request names a pending owner, of a CR yet to be stored. *)
AdmKnown == \A c \in CRs : adm[c] # NoCR => WebhookProvisioning /\ crs[c] = NoCR

PendKnown ==
    /\ AdmKnown
    /\ \A k \in Keys, c \in CRs \cup {Nameless} : PendsAt(k, c) => WebhookProvisioning

(* Past the backfill, and before the create, nobody names the worker's CR. *)
EndLabels == {"create", "readRefs", "patchRefs"}

BackKnows ==
    /\ pc \in EndLabels /\ Live(uid) => ~PendsAt(key, cur)
    /\ pc \in {"readOwners", "writeOwners"} => CrossNamespace

ServedDone ==
    \A c \in served :
        crs[c] # NoCR /\ KeyOf(c, crs[c]) \in Keys /\ ~PendsAt(KeyOf(c, crs[c]), c)

RefsInv == Gens /\ RefsBorn /\ WorkerGen /\ PatchKnows
PendsInv == PendKnown /\ BackKnows /\ ServedDone
GrantInv == RefsInv /\ PendsInv

(* A CR created by this step has a UID nobody has seen.                    *)
LEMMA NewlyLive ==
    ASSUME IInv, RefsInv, LifeSteps, NEW v \in UIDs, v[2] <= born[v[1]], Live(v)'
    PROVE  Live(v)
<1> DEFINE c == v[1]
<1>1. c \in CRs /\ v[2] \in Nat /\ born[c] \in Nat
  BY DEF UIDs, IInv, TypeOK, ClusterTypeOK
<1>2. LifeStep(c) /\ crs'[c] # NoCR /\ crs'[c].gen = v[2]
  BY <1>1 DEF LifeSteps, Live
<1>3. crs'[c].gen # born[c] + 1
  BY <1>1, <1>2
<1> QED BY <1>2, <1>3 DEF LifeStep, Live

LEMMA BornGrows ==
    ASSUME IInv, LifeSteps, NEW c \in CRs
    PROVE  born[c] <= born'[c] /\ born[c] \in Nat /\ born'[c] \in Nat
<1>1. born[c] \in Nat
  BY DEF IInv, TypeOK, ClusterTypeOK
<1>2. LifeStep(c)
  BY DEF LifeSteps
<1> QED BY <1>1, <1>2 DEF LifeStep

(* What the references are made of.                                        *)
LEMMA RefTypes ==
    ASSUME IInv
    PROVE  /\ \A k \in Keys : RefsOf(k) \subseteq UIDs
           /\ pc \in CopyLabels => copy.refs \subseteq UIDs
           /\ \A v \in UIDs : v[1] \in CRs /\ v[2] \in Nat /\ v = <<v[1], v[2]>>
           /\ pc # "idle" => cur \in CRs /\ obj.gen \in Nat /\ uid \in UIDs
<1>1. ASSUME NEW k \in Keys
      PROVE  RefsOf(k) \subseteq UIDs
  <2>1. CASE rbs[k] = NoRB
    BY <2>1 DEF RefsOf
  <2>2. CASE rbs[k] # NoRB
    <3>1. rbs[k] \in RBObjects
      BY <2>2 DEF IInv, TypeOK, ClusterTypeOK
    <3> QED BY <2>2, <3>1, RBExceptType DEF RefsOf
  <2> QED BY <2>1, <2>2
<1>2. pc \in CopyLabels => copy.refs \subseteq UIDs
  BY RBExceptType DEF IInv, WorkersKnow, RecKnows
<1>3. \A v \in UIDs : v[1] \in CRs /\ v[2] \in Nat /\ v = <<v[1], v[2]>>
  BY DEF UIDs
<1>4. pc # "idle" => cur \in CRs /\ obj.gen \in 1..MaxGen
  BY DEF IInv, WorkersKnow, RecKnows, CRObjects
<1>5. pc # "idle" => cur \in CRs /\ obj.gen \in Nat /\ uid \in UIDs
  BY <1>4 DEF uid, UIDs
<1> QED BY <1>1, <1>2, <1>3, <1>5

LEMMA AsideKeepsRefs ==
    ASSUME IInv, IInv', RefsInv, Aside, UNCHANGED recVars \/ pc' = "idle"
    PROVE  RefsInv'
<1> USE DEF Aside
<1>0. ASSUME pc' # "idle"
      PROVE  UNCHANGED <<pc, cur, obj, copy>>
  BY <1>0 DEF recVars
<1>1. Gens'
  BY DEF RefsInv, Gens, LifeSteps, LifeStep
<1>2. ASSUME NEW k \in Keys, NEW v \in RefsOf(k)'
      PROVE  v[2] <= born'[v[1]]
  <2>1. v \in RefsOf(k) /\ v[1] \in CRs /\ v[2] \in Nat
    BY <1>2, RefTypes DEF RefsShrink
  <2>2. v[2] <= born[v[1]]
    BY <2>1 DEF RefsInv, RefsBorn
  <2> QED BY <2>1, <2>2, BornGrows
<1>3. WorkerGen'
  <2> SUFFICES ASSUME pc' # "idle" PROVE WorkerGen'
    BY DEF WorkerGen
  <2>0. UNCHANGED <<pc, cur, obj, copy>>
    BY <1>0
  <2>1. obj.gen <= born'[cur]
    BY <2>0, RefTypes, BornGrows DEF RefsInv, WorkerGen
  <2>2. \A k \in Keys : LatestOf(RefsOf(k))'
    BY <2>0 DEF RefsInv, WorkerGen, LatestOf, RefsShrink
  <2>3. ASSUME pc \in CopyLabels
        PROVE  LatestOf(copy.refs)' /\ \A v \in copy.refs : v[2] <= born'[v[1]]
    <3>1. LatestOf(copy.refs)'
      BY <2>0, <2>3 DEF RefsInv, WorkerGen, LatestOf
    <3>2. ASSUME NEW v \in copy.refs
          PROVE  v[2] <= born'[v[1]]
      <4>1. v[1] \in CRs /\ v[2] \in Nat /\ v[2] <= born[v[1]]
        BY <2>3, <3>2, RefTypes DEF RefsInv, WorkerGen, CopyLabels
      <4> QED BY <4>1, BornGrows
    <3> QED BY <3>1, <3>2
  <2> QED BY <2>0, <2>1, <2>2, <2>3 DEF WorkerGen
<1>4. PatchKnows'
  <2> SUFFICES ASSUME pc' = "patchRefs", UNCHANGED <<pc, cur, obj, copy>>, NEW v \in RefsOf(key)', Live(v)'
               PROVE  v \in copy.refs
    BY <1>0 DEF PatchKnows
  <2>1. key \in Keys /\ key' = key
    BY KeyType DEF key, KeyOf, TargetOf, IInv, TypeOK, WorkersKnow, RecInv
  <2>2. v \in RefsOf(key)
    BY <2>1 DEF RefsShrink
  <2>3. v \in UIDs /\ v[2] <= born[v[1]]
    BY <2>1, <2>2, RefTypes DEF RefsInv, RefsBorn
  <2>4. Live(v)
    BY <2>3, NewlyLive
  <2> QED BY <2>2, <2>4 DEF RefsInv, PatchKnows
<1> QED BY <1>1, <1>2, <1>3, <1>4 DEF RefsInv, RefsBorn

LEMMA AsideKeepsPends ==
    ASSUME IInv, GrantInv, Aside, AdmKnown', UNCHANGED recVars \/ pc' = "idle"
    PROVE  PendsInv'
<1> USE DEF Aside, GrantInv
<1>0. ASSUME pc' # "idle"
      PROVE  UNCHANGED <<pc, cur, obj>>
  BY <1>0 DEF recVars
<1>1. PendKnown'
  BY DEF PendsInv, PendKnown, PendsOnly, Asked, AdmKnown, PendsAt
<1>2. BackKnows'
  <2>0. CASE pc' = "idle"
    BY <2>0 DEF BackKnows, EndLabels
  <2>1. CASE pc' \in EndLabels /\ Live(uid)' /\ UNCHANGED <<pc, cur, obj>>
    <3>1. key \in Keys /\ cur \in CRs /\ key' = key /\ uid' = uid
      BY <2>1, KeyType
         DEF EndLabels, key, uid, KeyOf, TargetOf, IInv, TypeOK, WorkersKnow, RecInv
    <3>2. uid \in UIDs /\ uid[1] = cur /\ uid[2] = obj.gen
      BY <2>1, RefTypes DEF EndLabels, uid
    <3>3. uid[2] <= born[uid[1]]
      BY <2>1, <3>2 DEF RefsInv, WorkerGen, EndLabels
    <3>4. Live(uid)'  => Live(uid)
      <4> DEFINE u == uid
      <4>1. u' = u
        BY <3>1
      <4> QED BY <3>1, <3>2, <3>3, NewlyLive DEF Live
    <3>5. Live(uid) /\ ~PendsAt(key, cur) /\ crs[cur] # NoCR
      BY <2>1, <3>2, <3>4 DEF PendsInv, BackKnows, Live
    <3>6. adm[cur] = NoCR
      BY <3>1, <3>5 DEF PendsInv, PendKnown, AdmKnown
    <3>7. ~PendsAt(key, cur)'
      BY <2>1, <3>1, <3>5, <3>6 DEF PendsOnly, Asked, PendsAt
    <3> QED BY <2>1, <3>7 DEF BackKnows, PendsInv, EndLabels
  <2> QED BY <1>0, <2>0, <2>1 DEF BackKnows, PendsInv
<1>3. ASSUME NEW c \in served'
      PROVE  crs'[c] # NoCR /\ KeyOf(c, crs[c])' \in Keys /\ ~PendsAt(KeyOf(c, crs[c]), c)'
  <2> DEFINE k == KeyOf(c, crs[c])
  <2>1. c \in served /\ crs'[c] = crs[c]
    BY <1>3 DEF NoneServed
  <2>2. crs[c] # NoCR /\ k \in Keys /\ ~PendsAt(k, c) /\ c \in CRs
    BY <2>1 DEF PendsInv, ServedDone, IInv, TypeOK, ClusterTypeOK
  <2>3. adm[c] = NoCR
    BY <2>2 DEF PendsInv, PendKnown, AdmKnown
  <2>4. k' = k
    BY <2>1 DEF KeyOf, TargetOf
  <2>5. ~PendsAt(k, c)'
    <3> HIDE DEF k
    <3> QED BY <2>2, <2>3, <2>4 DEF PendsOnly, Asked, PendsAt
  <2> QED BY <2>1, <2>2, <2>4, <2>5
<1> QED BY <1>1, <1>2, <1>3 DEF PendsInv, ServedDone

(* No step but the end of a request stores a CR the webhook has seen.      *)
NoBirths == \A c \in CRs : crs[c] = NoCR => crs'[c] = NoCR

LEMMA EnvironmentNoBirths ==
    ASSUME ClusterTypeOK, Environment
    PROVE  NoBirths
<1> USE DEF userVars, NoBirths
<1>1. ASSUME NEW c \in CRs, DeleteCR(c)
      PROVE  NoBirths
  BY <1>1 DEF DeleteCR, ClusterTypeOK
<1>2. ASSUME NEW c \in CRs, NEW s \in Specs, EditCR(c, s)
      PROVE  NoBirths
  BY <1>2 DEF EditCR, ClusterTypeOK
<1>3. ASSUME NEW c \in CRs, Resync(c)
      PROVE  NoBirths
  BY <1>3 DEF Resync
<1>4. ASSUME NEW n \in Namespaces,
             RelabelForSelector(n) \/ RelabelForTrigger(n) \/ ResyncNamespace(n)
      PROVE  NoBirths
  BY <1>4 DEF RelabelForSelector, RelabelForTrigger, ResyncNamespace
<1>5. CASE EditClusterRole
  BY <1>5 DEF EditClusterRole
<1>6. ASSUME NEW k \in Keys, \/ DeleteRB(k) \/ PlantRB(k) \/ DriftSubjects(k) \/ DriftRoleRef(k)
                             \/ GCDelete(k) \/ GCPrune(k) \/ CacheSync(k)
      PROVE  NoBirths
  BY <1>6 DEF DeleteRB, PlantRB, DriftSubjects, DriftRoleRef, GCDelete, GCPrune, CacheSync
<1> QED BY <1>1, <1>2, <1>3, <1>4, <1>5, <1>6 DEF Environment

LEMMA AdmissionKnown ==
    ASSUME AdmInv, AdmKnown, Admission
    PROVE  AdmKnown'
<1> USE DEF admRest, userVars
<1>0. adm \in [CRs -> Requests \cup {NoCR}]
  BY DEF AdmInv, AdmTypeOK
<1>1. ASSUME NEW c \in CRs, Store(c)
      PROVE  AdmKnown'
  BY <1>0, <1>1 DEF Store, CreateCR, AdmKnown, AdmInv, ClusterTypeOK
<1>2. ASSUME NEW c \in CRs, NEW s \in Specs, Admit(c, s)
      PROVE  AdmKnown'
  <2>1. \E r : adm' = [adm EXCEPT ![c] = r]
    BY <1>2 DEF Admit
  <2>2. crs[c] = NoCR /\ WebhookProvisioning /\ UNCHANGED crs
    BY <1>2 DEF Admit
  <2> QED BY <1>0, <2>1, <2>2 DEF AdmKnown
<1>3. ASSUME NEW c \in CRs, NEW step, AdvanceTo(c, step), adm[c] # NoCR, UNCHANGED crs
      PROVE  AdmKnown'
  <2>1. \A d \in CRs : d # c => adm'[d] = adm[d]
    BY <1>0, <1>3 DEF AdvanceTo
  <2> QED BY <1>3, <2>1 DEF AdmKnown
<1>4. ASSUME NEW c \in CRs, WebhookGet(c) \/ WebhookCreate(c) \/ WebhookFails(c)
      PROVE  AdmKnown'
  <2>1. \E step : AdvanceTo(c, step)
    BY <1>4 DEF WebhookGet, WebhookCreate, WebhookFails
  <2>2. adm[c] # NoCR /\ UNCHANGED crs
    BY <1>4 DEF WebhookGet, WebhookCreate, WebhookFails, At
  <2> QED BY <1>3, <2>1, <2>2
<1>5. ASSUME NEW c \in CRs, Refuse(c)
      PROVE  AdmKnown'
  BY <1>0, <1>5 DEF Refuse, AdmKnown
<1>6. ASSUME NEW k \in Keys, Ripen(k)
      PROVE  AdmKnown'
  BY <1>6 DEF Ripen, AdmKnown
<1> QED BY <1>1, <1>2, <1>4, <1>5, <1>6 DEF Admission, AdmissionStep

(* All of these steps together.                                            *)
OthersStep ==
    \/ Environment /\ UNCHANGED <<recVars, cleanVars, adm, trigVars>>
    \/ (\E c \in CRs, s \in Specs : Submit(c, s)) /\ UNCHANGED <<recVars, cleanVars, trigVars>>
    \/ Cleanup /\ UNCHANGED <<recVars, adm, trigVars>>
    \/ Admission /\ UNCHANGED <<recVars, cleanVars, trigVars>>
    \/ Trigger /\ UNCHANGED <<recVars, cleanVars, adm>>

LEMMA OthersAside ==
    ASSUME IInv, AdmKnown, OthersStep \/ Crash
    PROVE  Aside /\ AdmKnown'
<1> USE DEF IInv, TypeOK, WorkersKnow
<1>0. ASSUME NoBirths, UNCHANGED adm
      PROVE  AdmKnown'
  BY <1>0 DEF NoBirths, AdmKnown
<1>1. CASE Environment /\ UNCHANGED <<recVars, cleanVars, adm, trigVars>>
  BY <1>0, <1>1, EnvironmentAside, EnvironmentNoBirths
<1>2. CASE (\E c \in CRs, s \in Specs : Submit(c, s)) /\ UNCHANGED <<recVars, cleanVars, trigVars>>
  BY <1>2, CreateAside DEF Submit, AdmKnown
<1>3. CASE Cleanup /\ UNCHANGED <<recVars, adm, trigVars>>
  <2>1. NoBirths
    BY <1>3 DEF Cleanup, CleanupStep, CleanupError, ListManaged, PickRoleBinding, CheckEntry,
                SettleEntries, CheckPendingOwner, DeletePending, cleanRest, userVars, NoBirths
  <2> QED BY <1>0, <1>3, <2>1, CleanupAside DEF CleanInv
<1>4. CASE Admission /\ UNCHANGED <<recVars, cleanVars, trigVars>>
  BY <1>4, AdmissionAside, AdmissionKnown DEF AdmInv
<1>5. CASE Trigger /\ UNCHANGED <<recVars, cleanVars, adm>>
  <2>1. NoBirths
    BY <1>5 DEF Trigger, TriggerStep, LDequeue, LCheckClusterRole, LCreate, LCheckDrift,
                LDeleteDrifted, LRecreate, LReadSubjects, LWriteSubjects, LCheckRemovable,
                LRemove, LError, trigRest, userVars, NoBirths
  <2> QED BY <1>0, <1>5, <2>1, TriggerAside DEF TrigInv
<1>6. CASE Crash
  <2>1. \A c \in CRs : adm'[c] # NoCR => adm[c] # NoCR
    BY <1>6 DEF Crash
  <2>2. UNCHANGED crs
    BY <1>6 DEF Crash, userVars
  <2> QED BY <1>6, <2>1, <2>2, CrashAside DEF AdmKnown
<1> QED BY <1>1, <1>2, <1>3, <1>4, <1>5, <1>6 DEF OthersStep
----------------------------------------------------------------------------
(* The scoping controller: what a step of its worker writes.               *)

FromCopy(refs) == refs = copy.refs \/ refs = SetOwnerReference(copy.refs, uid)

RefsWritten(x) ==
    \/ /\ pc = "create" /\ rbs[key] = NoRB
       /\ x.refs = IF CrossNamespace THEN {} ELSE {uid}
    \/ pc = "recreate" /\ rbs[key] = NoRB /\ x.refs = copy.refs
    \/ pc \in CopyLabels /\ rbs[key] = copy /\ copy # NoRB /\ FromCopy(x.refs)
    \/ pc = "patchRefs" /\ rbs[key] # NoRB /\ x.refs = SetOwnerReference(copy.refs, uid)

RestWritten(x) ==
    /\ x.pending = NoOwner \/ (rbs[key] # NoRB /\ x.pending = rbs[key].pending)
    /\ rbs[key] # NoRB => x.role = rbs[key].role
    /\ rbs[key] = NoRB => x.role

Writes ==
    /\ pc \notin {"idle", "namespace"}
    /\ \/ pc = "delete" /\ Written(key, NoRB)
       \/ \E x \in RBObjects : Written(key, x) /\ RefsWritten(x) /\ RestWritten(x)

LEMMA UpdateWrites ==
    ASSUME RecInv, pc \in CopyLabels, NEW x \in RBObjects, FromCopy(x.refs),
           x.pending \in {NoOwner, copy.pending}, x.role = copy.role,
           NEW again, NEW next, Update(x, again, next)
    PROVE  UNCHANGED rbs \/ Writes
<1>1. copy \in RBObjects /\ copy # NoRB /\ pc \notin {"idle", "namespace"}
  BY RBExceptType DEF RecInv, RecKnows, CopyLabels
<1>2. CASE rbs[key] = copy /\ Put(x)
  BY <1>1, <1>2 DEF Put, Written, Writes, RefsWritten, RestWritten
<1>3. CASE UNCHANGED rbs
  BY <1>3
<1> QED BY <1>2, <1>3 DEF Update

LEMMA WhatIsWritten ==
    ASSUME RecInv, Reconciler
    PROVE  UNCHANGED rbs \/ Writes
<1>1. CASE CreateRoleBinding
  <2> DEFINE x == IF CrossNamespace
                  THEN [NewRB(obj.sa, "scoper") EXCEPT !.owners = {uid}]
                  ELSE [NewRB(obj.sa, "scoper") EXCEPT !.refs = {uid}]
  <2>1. NewRB(obj.sa, "scoper") \in RBObjects /\ uid \in UIDs
    BY <1>1, KeyType, NewRBType DEF CreateRoleBinding, Creators
  <2>2. x \in RBObjects
    BY <2>1, RBExceptType
  <2>3. x.refs = (IF CrossNamespace THEN {} ELSE {uid}) /\ x.pending = NoOwner /\ x.role
    BY DEF NewRB
  <2>4. UNCHANGED rbs \/ (rbs[key] = NoRB /\ Written(key, x))
    BY <1>1 DEF CreateRoleBinding, Put, Written
  <2>5. pc = "create"
    BY <1>1 DEF CreateRoleBinding
  <2> HIDE DEF x
  <2> QED BY <2>2, <2>3, <2>4, <2>5 DEF Writes, RefsWritten, RestWritten
<1>2. CASE Recreate
  <2>1. copy \in RBObjects /\ NewRB(obj.sa, "scoper") \in RBObjects
    BY <1>2, KeyType, NewRBType DEF Recreate, Creators, RecInv, RecKnows, CopyLabels
  <2>2. copy.refs \in SUBSET UIDs /\ copy.owners \in SUBSET UIDs
    BY <2>1, RBExceptType
  <2>3. Recreated \in RBObjects
    BY <2>1, <2>2, RBExceptType DEF Recreated
  <2>4. Recreated.refs = copy.refs /\ Recreated.pending = NoOwner /\ Recreated.role
    BY DEF Recreated, NewRB
  <2>5. UNCHANGED rbs \/ (rbs[key] = NoRB /\ Written(key, Recreated))
    BY <1>2 DEF Recreate, Put, Written
  <2>6. pc = "recreate"
    BY <1>2 DEF Recreate
  <2> QED BY <2>3, <2>4, <2>5, <2>6 DEF Writes, RefsWritten, RestWritten
<1>3. CASE DeleteDrifted
  BY <1>3 DEF DeleteDrifted, Put, Written, Writes
<1>4. CASE PatchRefs
  <2> DEFINE S == SetOwnerReference(copy.refs, uid)
             x == [rbs[key] EXCEPT !.refs = S]
  <2>1. copy \in RBObjects /\ uid \in UIDs /\ rbs[key] \in RB0 /\ pc = "patchRefs"
    BY <1>4, KeyType DEF PatchRefs, RecInv, RecKnows, CopyLabels
  <2>2. S \in SUBSET UIDs
    BY <2>1, RBExceptType, SetOwnerReferenceType
  <2>3. CASE rbs[key] # NoRB
    <3>1. rbs[key] \in RBObjects
      BY <2>1, <2>3 DEF RB0
    <3> HIDE DEF S
    <3>2. x \in RBObjects
      BY <2>2, <3>1, RBExceptType
    <3>3. x.refs = S /\ x.pending = rbs[key].pending /\ x.role = rbs[key].role
      BY <3>1 DEF RBObjects
    <3>4. Written(key, x)
      BY <1>4, <2>3 DEF PatchRefs, Put, Written, S
    <3> HIDE DEF x
    <3>5. RefsWritten(x) /\ RestWritten(x)
      BY <2>1, <2>3, <3>3 DEF RefsWritten, RestWritten, S
    <3> QED BY <2>1, <3>2, <3>4, <3>5 DEF Writes
  <2> QED BY <1>4, <2>3 DEF PatchRefs
<1>5. ASSUME pc \in CopyLabels
      PROVE  /\ copy \in RBObjects /\ uid \in UIDs /\ obj.sa \in SAs \cup {Unset}
  BY <1>5, KeyType DEF RecInv, RecKnows, CopyLabels
<1>6. CASE WriteSubjects
  <2> DEFINE x == [copy EXCEPT !.subject = obj.sa]
  <2>1. pc \in CopyLabels /\ copy \in RBObjects
    BY <1>5, <1>6 DEF WriteSubjects, CopyLabels
  <2>2. x \in RBObjects /\ x.refs = copy.refs /\ x.pending = copy.pending /\ x.role = copy.role
    BY <1>5, <2>1, RBExceptType DEF RBObjects
  <2> HIDE DEF x
  <2>3. Update(x, "readSubjects", Goto(AfterSpec) /\ copy' = NoRB)
    BY <1>6 DEF WriteSubjects, x
  <2> QED BY <2>1, <2>2, <2>3, UpdateWrites DEF FromCopy
<1>7. CASE WritePending
  <2> DEFINE S == SetOwnerReference(copy.refs, uid)
             x == [copy EXCEPT !.refs = S, !.pending = NoOwner]
  <2>1. pc \in CopyLabels /\ copy \in RBObjects /\ uid \in UIDs
    BY <1>5, <1>7 DEF WritePending, CopyLabels
  <2>2. S \in SUBSET UIDs
    BY <2>1, RBExceptType, SetOwnerReferenceType
  <2>3. Update(x, "readPending", Goto("readRefs") /\ copy' = NoRB)
    BY <1>7 DEF WritePending
  <2>4. FromCopy(S)
    BY DEF FromCopy
  <2> HIDE DEF S
  <2>5. x \in RBObjects /\ x.refs = S /\ x.pending = NoOwner /\ x.role = copy.role
    BY <2>1, <2>2, RBExceptType DEF RBObjects
  <2> HIDE DEF x
  <2> QED BY <2>1, <2>3, <2>4, <2>5, UpdateWrites
<1>8. CASE WriteOwners
  <2> DEFINE x == [copy EXCEPT !.owners = @ \cup {uid}]
  <2>1. pc \in CopyLabels /\ copy \in RBObjects /\ copy.owners \cup {uid} \in SUBSET UIDs
    BY <1>5, <1>8, RBExceptType DEF WriteOwners, CopyLabels
  <2>2. x \in RBObjects /\ x.refs = copy.refs /\ x.pending = copy.pending /\ x.role = copy.role
    BY <2>1, RBExceptType DEF RBObjects
  <2> HIDE DEF x
  <2>3. Update(x, "readOwners", Succeed)
    BY <1>8 DEF WriteOwners, x
  <2> QED BY <2>1, <2>2, <2>3, UpdateWrites DEF FromCopy
<1>9. CASE \/ \E c \in CRs : Dequeue(c)
           \/ CheckNamespace \/ CheckClusterRole \/ GetRoleBinding \/ Refetch
           \/ ReadSubjects \/ ReadPending \/ ReadRefs \/ ReadOwners
           \/ APIError \/ NamespaceReadFails
  BY <1>9
     DEF Dequeue, DequeueGone, DequeueLive, CheckNamespace, CheckClusterRole, GetRoleBinding,
         Refetch, ReadSubjects, ReadPending, ReadRefs, ReadOwners, APIError, NamespaceReadFails
<1> QED
  BY <1>1, <1>2, <1>3, <1>4, <1>6, <1>7, <1>8, <1>9 DEF Reconciler, ReconcilerStep

(* It adds its CR's reference, and those of its copy, and nobody pending.  *)
Carried == {uid} \cup (IF pc \in CopyLabels THEN copy.refs ELSE {})

LEMMA WorkerAdds ==
    ASSUME RecInv, Reconciler
    PROVE  UNCHANGED rbs \/ (pc # "idle" /\ AddsOnly(Carried))
<1> SUFFICES ASSUME Writes PROVE AddsOnly(Carried) /\ pc # "idle"
  BY WhatIsWritten
<1>1. key \in Keys /\ ClusterTypeOK /\ pc # "idle"
  BY KeyType DEF Writes, RecInv
<1>2. CASE Written(key, NoRB)
  BY <1>1, <1>2, WriteAdds
<1>3. ASSUME NEW x \in RBObjects, Written(key, x), RefsWritten(x), RestWritten(x)
      PROVE  AddsOnly(Carried)
  <2>1. x.refs \subseteq Carried
    BY <1>3 DEF RefsWritten, FromCopy, SetOwnerReference, Carried, CopyLabels
  <2>2. x.pending = NoOwner \/ (rbs[key] # NoRB /\ x.pending = rbs[key].pending)
    BY <1>3 DEF RestWritten
  <2> QED BY <1>1, <1>3, <2>1, <2>2, WriteAdds
<1> QED BY <1>1, <1>2, <1>3 DEF Writes

(* No live reference is lost but with the delete of a drifted RoleBinding. *)
LiveKept ==
    \A k \in Keys :
        rbs[k] # NoRB => /\ rbs'[k] # NoRB
                         /\ {u \in rbs[k].refs : Live(u)} \subseteq rbs'[k].refs

LEMMA WorkerKeepsLive ==
    ASSUME IInv, RefsInv, Reconciler, pc # "delete"
    PROVE  LiveKept
<1>0. RecInv /\ ClusterTypeOK
  BY DEF IInv, TypeOK, WorkersKnow, RecInv
<1>1. CASE UNCHANGED rbs
  BY <1>1 DEF LiveKept
<1>2. CASE Writes
  <2>1. key \in Keys /\ pc # "idle"
    BY <1>0, <1>2, KeyType DEF Writes
  <2>2. PICK x \in RBObjects : Written(key, x) /\ RefsWritten(x)
    BY <1>2 DEF Writes
  <2>3. ASSUME rbs[key] # NoRB, NEW u \in rbs[key].refs, Live(u)
        PROVE  u \in x.refs
    <3>1. u \in RefsOf(key) /\ u \in UIDs
      BY <2>1, <2>3, RefTypes DEF RefsOf
    <3>2. pc \in CopyLabels
      BY <2>2, <2>3 DEF RefsWritten, CopyLabels
    <3>3. u \in copy.refs
      BY <2>2, <2>3, <3>1 DEF RefsWritten, RefsInv, PatchKnows
    <3>4. u[1] = cur => u = uid
      <4> SUFFICES ASSUME u[1] = cur PROVE u = uid
        OBVIOUS
      <4>1. crs[cur] # NoCR /\ crs[cur].gen = u[2] /\ cur \in CRs /\ u = <<cur, u[2]>>
        BY <2>3, <3>1, RefTypes DEF Live
      <4>2. u[2] = born[cur] /\ u[2] \in Nat /\ obj.gen \in Nat
        BY <2>1, <3>1, <4>1, RefTypes DEF RefsInv, Gens
      <4>3. u[2] <= obj.gen /\ obj.gen <= born[cur]
        BY <2>1, <3>1 DEF RefsInv, WorkerGen, LatestOf
      <4> QED BY <4>1, <4>2, <4>3 DEF uid
    <3>5. FromCopy(x.refs)
      BY <2>2, <2>3, <3>2 DEF RefsWritten, FromCopy
    <3> QED BY <3>3, <3>4, <3>5 DEF FromCopy, SetOwnerReference, uid
  <2>4. \A k \in Keys : rbs'[k] = IF k = key THEN x ELSE rbs[k]
    BY <1>0, <2>1, <2>2 DEF Written, ClusterTypeOK
  <2>5. x # NoRB
    BY <2>2
  <2> QED BY <2>1, <2>3, <2>4, <2>5 DEF LiveKept
<1> QED BY <1>0, <1>1, <1>2, WhatIsWritten

----------------------------------------------------------------------------
(* Where the worker goes, and with which copy.                             *)

TakesUp ==
    /\ pc = "idle" /\ UNCHANGED <<rbs, served>>
    /\ \/ pc' = "idle"
       \/ pc' = "namespace" /\ cur' \in CRs /\ crs[cur'] # NoCR /\ obj' = crs[cur']

GivesUp == pc # "idle" /\ pc' = "idle" /\ UNCHANGED served

(* The step leaves the CR's reference where the worker looked for it.      *)
Referenced == \A k \in Keys : k = key => uid \in RefsOf(k)'

Serves ==
    /\ pc' = "idle"
    /\ served' = IF crs[cur] = obj THEN served \cup {cur} ELSE served
    /\ \/ pc = "create" /\ (rbs[key] = NoRB /\ ~CrossNamespace => Referenced)
       \/ pc \in {"readRefs", "patchRefs"} /\ Referenced
       \/ pc \in {"readOwners", "writeOwners"}

CopyFresh == pc' \in CopyLabels => copy' = rbs[key] /\ rbs[key] # NoRB /\ UNCHANGED rbs

CopyHeld == pc \in CopyLabels /\ pc' \in CopyLabels \ {"patchRefs"} /\ copy' = copy

GoesOn ==
    /\ pc \notin {"idle"} /\ pc' \notin {"idle", "namespace"}
    /\ UNCHANGED <<cur, obj, served>>
    /\ CopyFresh \/ CopyHeld
    /\ pc = "namespace" => pc' = "clusterrole"
    /\ pc' = "create" => pc = "get" /\ rbs[key] = NoRB /\ UNCHANGED rbs
    /\ pc' = "readRefs" => ~PendsAt(key, cur)'
    /\ pc' = "patchRefs" => pc = "readRefs" /\ UNCHANGED rbs
    /\ pc' \in {"readOwners", "writeOwners"} =>
          CrossNamespace \/ pc \in {"readOwners", "writeOwners"}
    /\ pc' = "refetch" => pc = "get" /\ ~rbs[key].role /\ rbs[key] # NoRB
    /\ pc' = "delete" => pc = "refetch"
    /\ pc' = "recreate" => pc = "delete"

LEMMA HowItEnds ==
    ASSUME RecInv, ~CacheLag, Reconciler
    PROVE  UNCHANGED userVars /\ (TakesUp \/ GivesUp \/ Serves \/ GoesOn)
<1> USE DEF restVars, Goto, Reset, Requeue, Drop, Succeed, CopyFresh, CopyHeld
<1>0. \A k : Read(k) = rbs[k]
  BY DEF Read
<1>1. UNCHANGED userVars
  BY DEF Reconciler, ReconcilerStep, Dequeue, DequeueGone, DequeueLive, CheckNamespace,
         CheckClusterRole, GetRoleBinding, CreateRoleBinding, Refetch, DeleteDrifted, Recreate,
         ReadSubjects, WriteSubjects, ReadPending, WritePending, ReadRefs, PatchRefs, ReadOwners,
         WriteOwners, APIError, NamespaceReadFails
<1>2. ASSUME NEW c \in CRs, Dequeue(c)
      PROVE  TakesUp
  BY <1>2 DEF Dequeue, DequeueGone, DequeueLive, recVars, TakesUp
<1>3. CASE CheckNamespace
  BY <1>3 DEF CheckNamespace, GivesUp, GoesOn, CopyLabels
<1>4. CASE CheckClusterRole
  BY <1>4 DEF CheckClusterRole, GivesUp, GoesOn, CopyLabels
<1>5. CASE GetRoleBinding
  BY <1>0, <1>5 DEF GetRoleBinding, AfterSpec, GivesUp, GoesOn, CopyLabels
<1>6. CASE Refetch
  BY <1>0, <1>6 DEF Refetch, GoesOn, CopyLabels
<1>7. CASE DeleteDrifted
  BY <1>7 DEF DeleteDrifted, GoesOn, CopyLabels
<1>8. CASE Recreate
  BY <1>8 DEF Recreate, AfterSpec, GoesOn, CopyLabels
<1>9. CASE ReadSubjects
  BY <1>0, <1>9 DEF ReadSubjects, ReadFor, GivesUp, GoesOn, CopyLabels
<1>10. CASE WriteSubjects
  BY <1>10 DEF WriteSubjects, Update, AfterSpec, GivesUp, GoesOn, CopyLabels
<1>11. CASE ReadPending
  BY <1>0, <1>11 DEF ReadPending, ReadFor, GivesUp, GoesOn, CopyLabels, PendsAt, key
<1>12. CASE ReadRefs
  BY <1>0, <1>12
     DEF ReadRefs, ReadFor, GivesUp, Serves, Referenced, GoesOn, CopyLabels, RefsOf
<1>13. CASE ReadOwners
  BY <1>0, <1>13 DEF ReadOwners, ReadFor, GivesUp, Serves, GoesOn, CopyLabels
<1>14. CASE WriteOwners
  BY <1>14 DEF WriteOwners, Update, GivesUp, Serves, GoesOn, CopyLabels
<1>15. CASE APIError \/ NamespaceReadFails
  BY <1>15 DEF APIError, NamespaceReadFails, GivesUp
<1>16. CASE CreateRoleBinding
  <2>1. key \in Keys /\ ClusterTypeOK
    BY <1>16, KeyType DEF CreateRoleBinding, RecInv
  <2>2. CASE rbs[key] = NoRB /\ ~CrossNamespace
    <3> DEFINE x == [NewRB(obj.sa, "scoper") EXCEPT !.refs = {uid}]
    <3>1. NewRB(obj.sa, "scoper") \in RBObjects /\ uid \in UIDs
      BY <1>16, KeyType, NewRBType DEF CreateRoleBinding, Creators
    <3>2. x \in RBObjects
      BY <3>1, RBExceptType
    <3>3. x # NoRB /\ x.refs = {uid}
      BY <3>2 DEF NewRB
    <3>4. rbs' = [rbs EXCEPT ![key] = x]
      BY <1>16, <2>2 DEF CreateRoleBinding, Put
    <3> HIDE DEF x
    <3>5. rbs'[key] = x
      BY <2>1, <3>4 DEF ClusterTypeOK
    <3>6. UNCHANGED <<crs, born>> /\ served' = (IF crs[cur] = obj THEN served \cup {cur} ELSE served)
          /\ pc = "create" /\ pc' = "idle"
      BY <1>1, <1>16 DEF CreateRoleBinding, userVars
    <3>7. Referenced
      BY <3>3, <3>5 DEF Referenced, RefsOf
    <3> QED BY <1>1, <3>6, <3>7 DEF Serves
  <2> QED BY <1>16, <2>2 DEF CreateRoleBinding, Serves
<1>17. CASE PatchRefs
  <2>1. key \in Keys /\ ClusterTypeOK /\ copy \in RBObjects /\ uid \in UIDs
    BY <1>17, KeyType DEF PatchRefs, RecInv, RecKnows, CopyLabels
  <2>2. CASE rbs[key] # NoRB
    <3> DEFINE S == SetOwnerReference(copy.refs, uid)
               x == [rbs[key] EXCEPT !.refs = S]
    <3>1. S \in SUBSET UIDs /\ rbs[key] \in RBObjects
      BY <2>1, <2>2, RBExceptType, SetOwnerReferenceType DEF ClusterTypeOK
    <3>2. uid \in S
      BY DEF SetOwnerReference
    <3>3. rbs' = [rbs EXCEPT ![key] = x]
      BY <1>17, <2>2 DEF PatchRefs, Put
    <3> HIDE DEF S
    <3>4. x \in RBObjects /\ x.refs = S
      BY <3>1, RBExceptType DEF RBObjects
    <3> HIDE DEF x
    <3>5. rbs'[key] = x
      BY <2>1, <3>3 DEF ClusterTypeOK
    <3>6. Referenced
      BY <3>2, <3>4, <3>5 DEF Referenced, RefsOf
    <3> QED BY <1>17, <2>2, <3>6 DEF PatchRefs, Serves
  <2> QED BY <1>17, <2>2 DEF PatchRefs, GivesUp
<1>18. CASE WritePending
  <2>1. key \in Keys /\ ClusterTypeOK /\ copy \in RBObjects /\ uid \in UIDs /\ cur \in CRs
    BY <1>18, KeyType DEF WritePending, RecInv, RecKnows, CopyLabels
  <2>2. CASE rbs[key] = copy
    <3> DEFINE S == SetOwnerReference(copy.refs, uid)
               x == [copy EXCEPT !.refs = S, !.pending = NoOwner]
    <3>1. S \in SUBSET UIDs
      BY <2>1, RBExceptType, SetOwnerReferenceType
    <3>2. rbs' = [rbs EXCEPT ![key] = x] /\ Goto("readRefs") /\ copy' = NoRB
      BY <1>18, <2>2 DEF WritePending, Update, Put
    <3> HIDE DEF S
    <3>3. x.pending = NoOwner
      BY <2>1 DEF RBObjects
    <3> HIDE DEF x
    <3>4. rbs'[key] = x
      BY <2>1, <3>2 DEF ClusterTypeOK
    <3>5. ~PendsAt(key, cur)'
      <4>1. UNCHANGED <<cur, obj>>
        BY <3>2
      <4>2. \A k : k = key => rbs'[k].pending = NoOwner
        BY <3>3, <3>4
      <4> QED BY <2>1, <4>1, <4>2 DEF PendsAt, key
    <3> QED BY <1>18, <3>2, <3>5 DEF WritePending, GoesOn, CopyLabels
  <2>3. CASE rbs[key] # copy
    BY <1>18, <2>3 DEF WritePending, Update, GivesUp, GoesOn, CopyLabels
  <2> QED BY <2>2, <2>3
<1> QED
  BY <1>1, <1>2, <1>3, <1>4, <1>5, <1>6, <1>7, <1>8, <1>9, <1>10, <1>11, <1>12, <1>13, <1>14,
     <1>15, <1>16, <1>17, <1>18
     DEF Reconciler, ReconcilerStep

LEMMA WorkerKeepsRefs ==
    ASSUME IInv, RefsInv, ~CacheLag, Reconciler
    PROVE  RefsInv'
<1>0. RecInv
  BY DEF IInv, TypeOK, WorkersKnow, RecInv
<1>1. UNCHANGED <<crs, born>> /\ (TakesUp \/ GivesUp \/ Serves \/ GoesOn)
  BY <1>0, HowItEnds DEF userVars
<1>2. ASSUME NEW k \in Keys, NEW v \in RefsOf(k)'
      PROVE  \/ v \in RefsOf(k)
             \/ pc # "idle" /\ v = uid
             \/ pc \in CopyLabels /\ v \in copy.refs
  <2>1. CASE UNCHANGED rbs
    BY <1>2, <2>1 DEF RefsOf
  <2>2. CASE pc # "idle" /\ AddsOnly(Carried)
    BY <1>2, <2>2 DEF AddsOnly, Carried
  <2> QED BY <1>0, <2>1, <2>2, WorkerAdds
<1>3. Gens'
  BY <1>1 DEF RefsInv, Gens
<1>4. ASSUME pc # "idle"
      PROVE  /\ obj.gen <= born[cur] /\ obj.gen \in Nat /\ cur \in CRs
             /\ uid[1] = cur /\ uid[2] = obj.gen
  BY <1>4, RefTypes DEF RefsInv, WorkerGen, uid
<1>5. ASSUME NEW k \in Keys, NEW v \in RefsOf(k)'
      PROVE  v[2] <= born[v[1]]
  <2>1. CASE v \in RefsOf(k)
    BY <2>1 DEF RefsInv, RefsBorn
  <2>2. CASE pc # "idle" /\ v = uid
    BY <1>4, <2>2
  <2>3. CASE pc \in CopyLabels /\ v \in copy.refs
    BY <2>3 DEF RefsInv, WorkerGen, CopyLabels
  <2> QED BY <1>2, <1>5, <2>1, <2>2, <2>3
<1>6. RefsBorn'
  BY <1>1, <1>5 DEF RefsBorn
<1>7. WorkerGen'
  <2>1. CASE TakesUp /\ pc' = "namespace"
    <3>1. obj'.gen = born[cur'] /\ cur' \in CRs /\ born[cur'] \in Nat
      BY <2>1 DEF TakesUp, RefsInv, Gens, IInv, TypeOK, ClusterTypeOK
    <3>2. \A k \in Keys : LatestOf(RefsOf(k))'
      BY <1>5, <3>1 DEF LatestOf
    <3> QED BY <1>1, <2>1, <3>1, <3>2 DEF WorkerGen, CopyLabels
  <2>2. CASE GoesOn
    <3>1. pc # "idle" /\ UNCHANGED <<cur, obj>>
      BY <2>2 DEF GoesOn
    <3>2. \A k \in Keys : LatestOf(RefsOf(k))
      BY <3>1 DEF RefsInv, WorkerGen
    <3>3. ASSUME NEW k \in Keys, NEW v \in RefsOf(k)', v[1] = cur
          PROVE  v[2] <= obj.gen
      <4>1. CASE v \in RefsOf(k)
        BY <3>2, <3>3, <4>1 DEF LatestOf
      <4>2. CASE pc # "idle" /\ v = uid
        BY <1>4, <4>2
      <4>3. CASE pc \in CopyLabels /\ v \in copy.refs
        BY <3>1, <3>3, <4>3 DEF RefsInv, WorkerGen, LatestOf
      <4> QED BY <1>2, <3>3, <4>1, <4>2, <4>3
    <3>4. \A k \in Keys : LatestOf(RefsOf(k))'
      BY <3>1, <3>3 DEF LatestOf
    <3>5. ASSUME pc' \in CopyLabels
          PROVE  LatestOf(copy.refs)' /\ \A v \in copy'.refs : v[2] <= born[v[1]]
      <4>1. CASE CopyFresh
        <5>1. key \in Keys
          BY <1>0, <2>2, <3>5, KeyType DEF GoesOn, CopyLabels
        <5>2. copy'.refs = RefsOf(key)
          BY <3>5, <4>1 DEF CopyFresh, RefsOf
        <5> QED BY <3>1, <3>2, <5>1, <5>2 DEF LatestOf, RefsInv, RefsBorn
      <4>2. CASE CopyHeld
        BY <3>1, <4>2 DEF CopyHeld, LatestOf, RefsInv, WorkerGen
      <4> QED BY <2>2, <4>1, <4>2 DEF GoesOn
    <3> QED BY <1>1, <1>4, <3>1, <3>4, <3>5 DEF WorkerGen
  <2>3. CASE pc' = "idle"
    BY <2>3 DEF WorkerGen
  <2> QED BY <1>1, <2>1, <2>2, <2>3 DEF TakesUp, GivesUp, Serves
<1>8. PatchKnows'
  <2> SUFFICES ASSUME pc' = "patchRefs" PROVE PatchKnows'
    BY DEF PatchKnows
  <2>1. GoesOn
    BY <1>1 DEF TakesUp, GivesUp, Serves
  <2>2. copy' = rbs[key] /\ UNCHANGED <<rbs, cur, obj>>
    BY <2>1 DEF GoesOn, CopyFresh, CopyHeld, CopyLabels
  <2> QED BY <2>2 DEF PatchKnows, RefsOf, key
<1> QED BY <1>3, <1>6, <1>7, <1>8 DEF RefsInv

LEMMA WorkerKeepsPends ==
    ASSUME IInv, GrantInv, ~CacheLag, Reconciler, UNCHANGED adm
    PROVE  PendsInv'
<1> USE DEF GrantInv
<1>0. RecInv
  BY DEF IInv, TypeOK, WorkersKnow, RecInv
<1>1. UNCHANGED <<crs, born>> /\ (TakesUp \/ GivesUp \/ Serves \/ GoesOn)
  BY <1>0, HowItEnds DEF userVars
<1>2. ASSUME NEW k \in Keys, NEW c \in CRs \cup {Nameless}, PendsAt(k, c)'
      PROVE  PendsAt(k, c)
  <2>1. CASE UNCHANGED rbs
    BY <1>2, <2>1 DEF PendsAt
  <2>2. CASE AddsOnly(Carried)
    BY <1>2, <2>2 DEF AddsOnly
  <2> QED BY <1>0, <2>1, <2>2, WorkerAdds
<1>3. PendKnown'
  BY <1>1, <1>2 DEF PendsInv, PendKnown, AdmKnown
<1>4. BackKnows'
  <2>1. CASE pc' \in EndLabels \cup {"readOwners", "writeOwners"}
    <3>1. GoesOn
      BY <1>1, <2>1 DEF TakesUp, GivesUp, Serves, EndLabels
    <3>2. pc' = "create" => ~PendsAt(key, cur)'
      BY <3>1 DEF GoesOn, PendsAt, key
    <3>3. pc' = "readRefs" => ~PendsAt(key, cur)'
      BY <3>1 DEF GoesOn
    <3>4. pc' = "patchRefs" /\ Live(uid)' => ~PendsAt(key, cur)'
      BY <1>1, <3>1 DEF GoesOn, PendsInv, BackKnows, EndLabels, PendsAt, key, uid, Live
    <3>5. pc' \in {"readOwners", "writeOwners"} => CrossNamespace
      BY <3>1 DEF GoesOn, PendsInv, BackKnows
    <3> QED BY <3>2, <3>3, <3>4, <3>5 DEF BackKnows, EndLabels
  <2> QED BY <2>1 DEF BackKnows
<1>5. ASSUME Serves, crs[cur] = obj
      PROVE  /\ crs[cur] # NoCR /\ KeyOf(cur, crs[cur]) = key
             /\ key \in Keys /\ cur \in CRs /\ ~PendsAt(key, cur)
  <2>1. cur \in CRs /\ obj \in CRObjects /\ key \in Keys
    BY <1>0, <1>5, KeyType DEF Serves
  <2>2. crs[cur] # NoCR /\ KeyOf(cur, crs[cur]) = key /\ Live(uid)
    BY <1>5, <2>1 DEF key, Live, uid
  <2>3. CASE pc \in EndLabels
    BY <2>1, <2>2, <2>3 DEF PendsInv, BackKnows
  <2>4. CASE pc \in {"readOwners", "writeOwners"}
    BY <2>1, <2>2, <2>4, TargetAssumption DEF PendsInv, BackKnows, PendKnown
  <2>5. pc \in EndLabels \/ pc \in {"readOwners", "writeOwners"}
    BY <1>5 DEF Serves, EndLabels
  <2> QED BY <2>1, <2>2, <2>3, <2>4, <2>5
<1>6. ASSUME NEW c \in served'
      PROVE  crs[c] # NoCR /\ KeyOf(c, crs[c]) \in Keys /\ ~PendsAt(KeyOf(c, crs[c]), c)'
  <2> DEFINE k == KeyOf(c, crs[c])
  <2>1. crs[c] # NoCR /\ k \in Keys /\ ~PendsAt(k, c) /\ c \in CRs
    <3>1. c \in served \/ (Serves /\ c = cur /\ crs[cur] = obj)
      BY <1>1, <1>6 DEF TakesUp, GivesUp, Serves, GoesOn
    <3>2. CASE c \in served
      BY <3>2 DEF PendsInv, ServedDone, IInv, TypeOK, ClusterTypeOK
    <3> QED BY <1>5, <3>1, <3>2
  <2>2. k' = k
    BY <1>1 DEF KeyOf, TargetOf
  <2> HIDE DEF k
  <2>3. ~PendsAt(k, c)'
    BY <1>2, <2>1, <2>2 DEF PendsAt
  <2> QED BY <1>1, <2>1, <2>2, <2>3 DEF k
<1> QED
  <2>1. ServedDone'
    BY <1>1, <1>6 DEF ServedDone, KeyOf, TargetOf
  <2> QED BY <1>3, <1>4, <2>1 DEF PendsInv
----------------------------------------------------------------------------
(* Who is named in a pending-owner annotation, whatever reads are served   *)
(* by: for targets without the webhook nobody.                             *)

LEMMA PendingIsKnown == Spec => []PendKnown
<1>1. Init => PendKnown
  BY DEF Init, ClusterInit, AdmInit, PendKnown, AdmKnown, PendsAt
<1>2. ASSUME IInv, PendKnown, [Next]_vars
      PROVE  PendKnown'
  <2>1. CASE OthersStep \/ Crash
    BY <1>2, <2>1, OthersAside DEF Aside, PendKnown, PendsOnly, Asked, AdmKnown, PendsAt
  <2>2. CASE Reconciler /\ UNCHANGED <<cleanVars, adm, trigVars>>
    <3>1. UNCHANGED crs
      BY <2>2 DEF Reconciler, ReconcilerStep, Dequeue, DequeueGone, DequeueLive, CheckNamespace,
             CheckClusterRole, GetRoleBinding, CreateRoleBinding, Refetch, DeleteDrifted, Recreate,
             ReadSubjects, WriteSubjects, ReadPending, WritePending, ReadRefs, PatchRefs,
             ReadOwners, WriteOwners, APIError, NamespaceReadFails, restVars, userVars
    <3>2. UNCHANGED rbs \/ AddsOnly(Carried)
      BY <1>2, <2>2, WorkerAdds DEF IInv, TypeOK, WorkersKnow, RecInv
    <3> QED BY <1>2, <2>2, <3>1, <3>2 DEF AddsOnly, PendKnown, AdmKnown, PendsAt
  <2>3. CASE UNCHANGED vars
    BY <1>2, <2>3 DEF vars, clusterVars, PendKnown, AdmKnown, PendsAt
  <2> QED BY <1>2, <2>1, <2>2, <2>3 DEF Next, OthersStep
<1> QED BY Invariance, <1>1, <1>2, PTL DEF Spec

----------------------------------------------------------------------------
(* With reads from the API server.                                         *)

LEMMA InitGrantInv == Init => GrantInv
<1> SUFFICES ASSUME Init PROVE GrantInv
  OBVIOUS
<1>1. RefsInv
  BY DEF Init, ClusterInit, RecInit, RefsInv, Gens, RefsBorn, WorkerGen, PatchKnows, RefsOf
<1>2. PendsInv
  BY DEF Init, ClusterInit, RecInit, AdmInit, PendsInv, PendKnown, AdmKnown, BackKnows,
         ServedDone, EndLabels, PendsAt
<1> QED BY <1>1, <1>2 DEF GrantInv

LEMMA NextKeepsGrantInv ==
    ASSUME IInv, IInv', GrantInv, ~CacheLag, [Next]_vars
    PROVE  GrantInv'
<1> USE DEF GrantInv
<1>1. CASE OthersStep
  <2>1. AdmKnown
    BY DEF PendsInv, PendKnown
  <2>2. Aside /\ AdmKnown' /\ UNCHANGED recVars
    BY <1>1, <2>1, OthersAside DEF OthersStep
  <2> QED BY <2>2, AsideKeepsRefs, AsideKeepsPends
<1>2. CASE Crash
  <2>1. AdmKnown
    BY DEF PendsInv, PendKnown
  <2>2. Aside /\ AdmKnown' /\ pc' = "idle"
    BY <1>2, <2>1, OthersAside DEF Crash, Reset
  <2> QED BY <2>2, AsideKeepsRefs, AsideKeepsPends
<1>3. CASE Reconciler /\ UNCHANGED <<cleanVars, adm, trigVars>>
  BY <1>3, WorkerKeepsRefs, WorkerKeepsPends
<1>4. CASE UNCHANGED vars
  <2>1. UNCHANGED <<crs, born, rbs, served, adm, recVars>>
    BY <1>4 DEF vars, clusterVars
  <2>2. Aside /\ AdmKnown'
    BY <2>1, NoLifeStep, Untouched DEF Aside, PendsInv, PendKnown, AdmKnown
  <2> QED BY <2>1, <2>2, AsideKeepsRefs, AsideKeepsPends
<1> QED BY <1>1, <1>2, <1>3, <1>4 DEF Next, OthersStep

LEMMA GrantInvariance == ~CacheLag => (Spec => []GrantInv)
<1> SUFFICES ASSUME ~CacheLag PROVE Spec => []GrantInv
  OBVIOUS
<1>1. IInv /\ IInv' /\ GrantInv /\ [Next]_vars => GrantInv'
  BY NextKeepsGrantInv
<1> QED BY InitGrantInv, Invariance, <1>1, PTL DEF Spec

(* With direct reads no success is reported while the pending-owner        *)
(* annotation still names the CR: the backfill takes it away, and no other *)
(* request can bring it back as long as the CR lives, for any number of    *)
(* CRs, namespaces, crashes and edits.                                     *)
THEOREM BackfillConsumes == ~CacheLag => (Spec => []BackfillConsumesPending)
<1> SUFFICES ASSUME ~CacheLag PROVE Spec => []BackfillConsumesPending
  OBVIOUS
<1>1. GrantInv => BackfillConsumesPending
  BY DEF GrantInv, PendsInv, ServedDone, BackfillConsumesPending, Exists, PendsAt
<1> QED BY GrantInvariance, <1>1, PTL

(* With direct reads no step of the scoping controller, but the delete     *)
(* that repairs a RoleRef, loses the reference of a live CR, although its  *)
(* patch replaces the whole list and carries no resourceVersion: nobody    *)
(* else adds references, and those it read were all there were.            *)
THEOREM ReferencesAreKept == ~CacheLag => (Spec => ReconcilerKeepsReferences)
<1> SUFFICES ASSUME ~CacheLag PROVE Spec => ReconcilerKeepsReferences
  OBVIOUS
<1>1. ASSUME IInv, GrantInv, [Next]_vars
      PROVE  [ (pc' # pc \/ cur' # cur) /\ pc # "delete" => LiveKept ]_vars
  <2> SUFFICES ASSUME pc' # pc \/ cur' # cur, pc # "delete", Next
               PROVE  LiveKept
    BY <1>1 DEF vars, recVars
  <2>1. CASE Crash
    BY <2>1 DEF Crash, LiveKept
  <2>2. CASE Reconciler
    BY <1>1, <2>2, WorkerKeepsLive DEF GrantInv
  <2>3. ~UNCHANGED recVars
    BY DEF recVars
  <2> QED BY <2>1, <2>2, <2>3 DEF Next
<1> QED BY Invariance, GrantInvariance, <1>1, PTL DEF Spec, ReconcilerKeepsReferences, LiveKept
----------------------------------------------------------------------------
(* Where, besides, nobody but the scoping controller and Kubernetes writes *)
(* RoleBindings, and nobody replaces one or plants one under its name.     *)

Undisturbed ==
    /\ ~CacheLag /\ ~CrossNamespace /\ ~WebhookProvisioning /\ ~HasLabelTrigger
    /\ "role" \notin EditKinds /\ "plant" \notin EditKinds

(* The other controllers do nothing.                                       *)
AtRest ==
    /\ \A c \in CRs : adm[c] = NoCR
    /\ cpc = "idle" /\ \A k \in Keys : snap[k] = NoRB
    /\ lpc = "idle" /\ nsQueue = {}

(* No RoleBinding needs the repair that would delete it, and the one about *)
(* to be created is not there: AlreadyExists would count as success.       *)
Intact ==
    /\ \A k \in Keys : rbs[k] # NoRB => rbs[k].role
    /\ pc \notin {"refetch", "delete", "recreate"}
    /\ pc = "create" => rbs[key] = NoRB

ServedReferenced ==
    \A c \in served : crs[c] # NoCR /\ Uid(c) \in RefsOf(KeyOf(c, crs[c]))

AloneInv == AtRest /\ Intact /\ ServedReferenced

LEMMA HomeKey ==
    ASSUME Undisturbed, NEW c \in CRs
    PROVE  \A o : KeyOf(c, o) = <<HomeNs[c], RBNameOf[c]>> /\ KeyOf(c, o) \in Keys
BY DEF Undisturbed, KeyOf, TargetOf, Keys

(* What others do to a RoleBinding: delete it, or leave its RoleRef alone. *)
RolesStay ==
    \A k \in Keys : rbs'[k] # NoRB => rbs[k] # NoRB /\ rbs'[k].role = rbs[k].role

ServedKeep ==
    \A c \in served' : /\ c \in served /\ crs'[c] = crs[c]
                       /\ Uid(c) \in RefsOf(KeyOf(c, crs[c])) => Uid(c) \in RefsOf(KeyOf(c, crs[c]))'

LEMMA UnwrittenServed ==
    ASSUME UNCHANGED rbs, NoneServed
    PROVE  RolesStay /\ ServedKeep
BY DEF NoneServed, RolesStay, ServedKeep, RefsOf, Uid, KeyOf, TargetOf

LEMMA WriteServed ==
    ASSUME Undisturbed, IInv, NEW k \in Keys, NEW x, Written(k, x), rbs[k] # NoRB,
           x # NoRB => x.role = rbs[k].role,
           UNCHANGED crs, served' \subseteq served,
           \A c \in served' :
               KeyOf(c, crs[c]) = k /\ Uid(c) \in rbs[k].refs => x # NoRB /\ Uid(c) \in x.refs
    PROVE  RolesStay /\ ServedKeep
<1>1. \A j \in Keys : rbs'[j] = IF j = k THEN x ELSE rbs[j]
  BY DEF Written, IInv, TypeOK, ClusterTypeOK
<1>2. RolesStay
  BY <1>1 DEF RolesStay
<1>3. ASSUME NEW c \in served', Uid(c) \in RefsOf(KeyOf(c, crs[c]))
      PROVE  Uid(c) \in RefsOf(KeyOf(c, crs[c]))'
  <2> DEFINE j == KeyOf(c, crs[c])
  <2>1. j \in Keys /\ j' = j /\ Uid(c)' = Uid(c)
    BY HomeKey DEF IInv, TypeOK, ClusterTypeOK, KeyOf, TargetOf, Uid
  <2>2. Uid(c) \in RefsOf(j)
    BY <1>3
  <2> HIDE DEF j
  <2>3. CASE j = k
    <3>1. x # NoRB /\ Uid(c) \in x.refs
      BY <2>2, <2>3 DEF RefsOf, j
    <3> QED BY <1>1, <2>1, <2>3, <3>1 DEF RefsOf, j
  <2>4. CASE j # k
    BY <1>1, <2>1, <2>2, <2>4 DEF RefsOf, j
  <2> QED BY <2>3, <2>4
<1> QED BY <1>2, <1>3 DEF ServedKeep

LEMMA EnvironmentServed ==
    ASSUME Undisturbed, IInv, AloneInv, Environment
    PROVE  RolesStay /\ ServedKeep /\ nsQueue' = {}
<1> USE DEF userVars, nsVars, queueVars, boundVars
<1>0. Aside
  BY EnvironmentAside DEF IInv, TypeOK
<1>1. nsQueue' = {}
  BY DEF Environment, Undisturbed, AloneInv, AtRest, DeleteCR, Resync, EditCR, RelabelForSelector,
         RelabelForTrigger, NamespaceEvent, ResyncNamespace, EditClusterRole, DeleteRB, PlantRB,
         DriftSubjects, DriftRoleRef, GCDelete, GCPrune, CacheSync
<1>2. CASE UNCHANGED rbs
  BY <1>0, <1>1, <1>2, UnwrittenServed DEF Aside
<1>3. ASSUME NEW k \in Keys, DeleteRB(k)
      PROVE  RolesStay /\ ServedKeep
  <2>1. Written(k, NoRB) /\ UNCHANGED crs /\ rbs[k] # NoRB
    BY <1>3 DEF DeleteRB, Written
  <2>2. served' \subseteq served /\ \A c \in served' : KeyOf(c, crs[c]) # k
    BY <1>3 DEF DeleteRB, Unserve, ClaimantsOf, LiveCRs, AloneInv, ServedReferenced, IInv, TypeOK,
                ClusterTypeOK
  <2> QED BY <2>1, <2>2, WriteServed
<1>4. ASSUME NEW k \in Keys, DriftSubjects(k)
      PROVE  RolesStay /\ ServedKeep
  <2> DEFINE x == [rbs[k] EXCEPT !.subject = Unset]
  <2>1. Written(k, x) /\ UNCHANGED crs /\ rbs[k] # NoRB
    BY <1>4 DEF DriftSubjects, Written
  <2>2. rbs[k] \in RBObjects
    BY <2>1 DEF IInv, TypeOK, ClusterTypeOK
  <2>3. x \in RBObjects /\ x.role = rbs[k].role /\ x.refs = rbs[k].refs
    BY <2>2 DEF RBObjects
  <2>4. served' \subseteq served /\ x # NoRB
    BY <1>4, <2>3 DEF DriftSubjects, Unserve
  <2> HIDE DEF x
  <2> QED BY <2>1, <2>3, <2>4, WriteServed
<1>5. ASSUME NEW k \in Keys, NEW c \in served, KeyOf(c, crs[c]) = k, Uid(c) \in rbs[k].refs
      PROVE  Live(Uid(c))
  BY <1>5 DEF AloneInv, ServedReferenced, Live, Uid
<1>6. ASSUME NEW k \in Keys, GCDelete(k)
      PROVE  RolesStay /\ ServedKeep
  <2>1. Written(k, NoRB) /\ UNCHANGED <<crs, served>> /\ rbs[k] # NoRB
    BY <1>6 DEF GCDelete, Written
  <2>2. \A c \in served' : ~(KeyOf(c, crs[c]) = k /\ Uid(c) \in rbs[k].refs)
    BY <1>5, <1>6, <2>1 DEF GCDelete
  <2> QED BY <2>1, <2>2, WriteServed
<1>7. ASSUME NEW k \in Keys, GCPrune(k)
      PROVE  RolesStay /\ ServedKeep
  <2> DEFINE S == {u \in rbs[k].refs : Live(u)}
             x == [rbs[k] EXCEPT !.refs = S]
  <2>1. Written(k, x) /\ UNCHANGED <<crs, served>> /\ rbs[k] # NoRB
    BY <1>7 DEF GCPrune, Written
  <2>2. rbs[k] \in RBObjects
    BY <2>1 DEF IInv, TypeOK, ClusterTypeOK
  <2>3. \A c \in served' : KeyOf(c, crs[c]) = k /\ Uid(c) \in rbs[k].refs => Uid(c) \in S
    BY <1>5, <2>1
  <2>4. S \in SUBSET UIDs
    BY <2>2, RBExceptType
  <2> HIDE DEF S
  <2>5. x \in RBObjects /\ x.role = rbs[k].role /\ x.refs = S
    BY <2>2, <2>4, RBExceptType DEF RBObjects
  <2> HIDE DEF x
  <2> QED BY <2>1, <2>3, <2>5, WriteServed
<1>8. \A k \in Keys : ~PlantRB(k) /\ ~DriftRoleRef(k)
  BY DEF Undisturbed, PlantRB, DriftRoleRef, Edit
<1> QED
  BY <1>1, <1>2, <1>3, <1>4, <1>6, <1>7, <1>8
     DEF Environment, DeleteCR, Resync, EditCR, RelabelForSelector, RelabelForTrigger,
         ResyncNamespace, EditClusterRole, CacheSync

(* The steps of others, of which only those above and the ripening of an   *)
(* annotation are left.                                                    *)
LEMMA OthersServed ==
    ASSUME Undisturbed, IInv, AloneInv, OthersStep
    PROVE  RolesStay /\ ServedKeep /\ AtRest' /\ UNCHANGED recVars
<1>0. AtRest
  BY DEF AloneInv
<1>1. CASE Environment /\ UNCHANGED <<recVars, cleanVars, adm, trigVars>>
  BY <1>0, <1>1, EnvironmentServed DEF AtRest, cleanVars, trigVars
<1>2. CASE (\E c \in CRs, s \in Specs : Submit(c, s)) /\ UNCHANGED <<recVars, cleanVars, trigVars>>
  <2>1. NoneServed /\ UNCHANGED <<rbs, nsQueue, adm>>
    BY <1>2, CreateAside DEF Submit, CreateCR, Aside, IInv, TypeOK
  <2> QED BY <1>0, <1>2, <2>1, UnwrittenServed DEF AtRest, cleanVars, trigVars
<1>3. ~Cleanup
  BY <1>0 DEF AtRest, Undisturbed, Cleanup, CleanupStep, CleanupError, ListManaged, HasCleanup,
              PickRoleBinding, CheckEntry, SettleEntries, CheckPendingOwner, DeletePending
<1>4. ~Trigger
  BY <1>0 DEF AtRest, Trigger, TriggerStep, LDequeue, LCheckClusterRole, LCreate, LCheckDrift,
              LDeleteDrifted, LRecreate, LReadSubjects, LWriteSubjects, LCheckRemovable, LRemove,
              LError
<1>5. CASE Admission /\ UNCHANGED <<recVars, cleanVars, trigVars>>
  <2>1. \E k \in Keys : Ripen(k)
    BY <1>0, <1>5 DEF AtRest, Undisturbed, Admission, AdmissionStep, Admit, WebhookGet,
                      WebhookCreate, WebhookFails, Store, Refuse, At
  <2>2. UNCHANGED <<crs, rbs, served, nsQueue, adm>>
    BY <2>1 DEF Ripen, admRest, userVars, queueVars
  <2>3. RolesStay /\ ServedKeep
    BY <2>2, UnwrittenServed DEF NoneServed
  <2> QED BY <1>0, <1>5, <2>2, <2>3 DEF AtRest, cleanVars, trigVars
<1> QED BY <1>1, <1>2, <1>3, <1>4, <1>5 DEF OthersStep

LEMMA StayingKeeps ==
    ASSUME Undisturbed, IInv, AloneInv, RolesStay, ServedKeep, AtRest',
           UNCHANGED recVars \/ pc' = "idle"
    PROVE  AloneInv'
<1>1. ServedReferenced'
  <2> SUFFICES ASSUME NEW c \in served'
               PROVE  crs'[c] # NoCR /\ (Uid(c) \in RefsOf(KeyOf(c, crs[c])))'
    BY DEF ServedReferenced
  <2>1. c \in served /\ crs'[c] = crs[c] /\ Uid(c)' = Uid(c)
    BY DEF ServedKeep, Uid
  <2>2. crs[c] # NoCR /\ Uid(c) \in RefsOf(KeyOf(c, crs[c]))
    BY <2>1 DEF AloneInv, ServedReferenced
  <2>3. Uid(c) \in RefsOf(KeyOf(c, crs[c]))'
    BY <2>2 DEF ServedKeep
  <2> QED BY <2>1, <2>2, <2>3
<1>2. Intact'
  <2>1. \A k \in Keys : rbs'[k] # NoRB => rbs'[k].role
    BY DEF RolesStay, AloneInv, Intact
  <2>2. CASE pc' = "idle"
    BY <2>1, <2>2 DEF Intact
  <2>3. CASE UNCHANGED recVars
    <3>1. UNCHANGED <<pc, cur, obj>>
      BY <2>3 DEF recVars
    <3>2. pc = "create" => key \in Keys /\ key' = key
      BY <3>1, KeyType DEF IInv, TypeOK, WorkersKnow, RecInv, key, KeyOf, TargetOf
    <3> QED BY <2>1, <3>1, <3>2 DEF RolesStay, AloneInv, Intact
  <2> QED BY <2>2, <2>3
<1> QED BY <1>1, <1>2 DEF AloneInv

LEMMA WorkerServed ==
    ASSUME Undisturbed, IInv, GrantInv, AloneInv, Reconciler,
           UNCHANGED <<cleanVars, adm, trigVars>>
    PROVE  AloneInv'
<1>0. RecInv /\ ~CacheLag /\ ~CrossNamespace
  BY DEF IInv, TypeOK, WorkersKnow, RecInv, Undisturbed
<1>1. UNCHANGED <<crs, born>> /\ (TakesUp \/ GivesUp \/ Serves \/ GoesOn)
  BY <1>0, HowItEnds DEF userVars
<1>2. pc # "delete" /\ LiveKept
  BY WorkerKeepsLive DEF AloneInv, Intact, GrantInv
<1>3. AtRest'
  <2>1. UNCHANGED nsQueue
    BY DEF Reconciler, ReconcilerStep, Dequeue, DequeueGone, DequeueLive, CheckNamespace,
           CheckClusterRole, GetRoleBinding, CreateRoleBinding, Refetch, DeleteDrifted, Recreate,
           ReadSubjects, WriteSubjects, ReadPending, WritePending, ReadRefs, PatchRefs,
           ReadOwners, WriteOwners, APIError, NamespaceReadFails, restVars
  <2> QED BY <2>1 DEF AloneInv, AtRest, cleanVars, trigVars
<1>4. Intact'
  <2>1. ASSUME NEW k \in Keys, rbs'[k] # NoRB
        PROVE  rbs'[k].role
    <3>1. CASE UNCHANGED rbs
      BY <2>1, <3>1 DEF AloneInv, Intact
    <3>2. CASE Writes
      <4>1. PICK x \in RBObjects : Written(key, x) /\ RestWritten(x)
        BY <1>2, <3>2 DEF Writes
      <4>2. key \in Keys
        BY <1>0, <3>2, KeyType DEF Writes
      <4>3. rbs'[k] = IF k = key THEN x ELSE rbs[k]
        BY <4>1, <4>2 DEF Written, IInv, TypeOK, ClusterTypeOK
      <4> QED BY <2>1, <4>1, <4>2, <4>3 DEF RestWritten, AloneInv, Intact
    <3> QED BY <1>0, <3>1, <3>2, WhatIsWritten
  <2>2. pc' \notin {"refetch", "delete", "recreate"}
    <3>1. CASE GoesOn
      <4>1. pc = "get" => key \in Keys
        BY <1>0, KeyType
      <4> QED BY <3>1, <4>1 DEF GoesOn, AloneInv, Intact
    <3> QED BY <1>1, <3>1 DEF TakesUp, GivesUp, Serves
  <2>3. pc' = "create" => rbs'[key'] = NoRB
    BY <1>1 DEF TakesUp, GivesUp, Serves, GoesOn, key
  <2> QED BY <2>1, <2>2, <2>3 DEF Intact
<1>5. ASSUME NEW c \in served'
      PROVE  crs[c] # NoCR /\ Uid(c) \in RefsOf(KeyOf(c, crs[c]))'
  <2> DEFINE k == KeyOf(c, crs[c])
  <2>1. k' = k /\ Uid(c)' = Uid(c)
    BY <1>1 DEF KeyOf, TargetOf, Uid
  <2>2. CASE c \in served
    <3>1. crs[c] # NoCR /\ Uid(c) \in RefsOf(k) /\ c \in CRs
      BY <2>2 DEF AloneInv, ServedReferenced, IInv, TypeOK, ClusterTypeOK
    <3>2. k \in Keys /\ Live(Uid(c))
      BY <3>1, HomeKey DEF Live, Uid
    <3> HIDE DEF k
    <3>3. Uid(c) \in RefsOf(k)'
      BY <1>2, <2>1, <3>1, <3>2 DEF LiveKept, RefsOf
    <3> QED BY <1>1, <2>1, <3>1, <3>3 DEF k
  <2>3. CASE c \notin served
    <3>1. Serves /\ c = cur /\ crs[cur] = obj
      BY <1>1, <1>5, <2>3 DEF TakesUp, GivesUp, Serves, GoesOn
    <3>2. pc \notin {"readOwners", "writeOwners"}
      BY <1>0 DEF GrantInv, PendsInv, BackKnows
    <3>3. Referenced
      BY <1>0, <3>1, <3>2 DEF Serves, AloneInv, Intact
    <3>4. pc \notin {"idle", "namespace"}
      BY <3>1 DEF Serves
    <3>5. k = key /\ Uid(c) = uid /\ crs[c] # NoCR /\ key \in Keys
      BY <1>0, <3>1, <3>4, KeyType DEF key, Uid, uid
    <3> HIDE DEF k
    <3>6. uid \in RefsOf(k)'
      BY <2>1, <3>3, <3>5 DEF Referenced, RefsOf
    <3> QED BY <1>1, <2>1, <3>5, <3>6 DEF k
  <2> QED BY <2>2, <2>3
<1>6. ServedReferenced'
  <2> SUFFICES ASSUME NEW c \in served'
               PROVE  crs'[c] # NoCR /\ (Uid(c) \in RefsOf(KeyOf(c, crs[c])))'
    BY DEF ServedReferenced
  <2>1. crs'[c] = crs[c] /\ Uid(c)' = Uid(c)
    BY <1>1 DEF Uid
  <2> QED BY <1>5, <2>1
<1> QED BY <1>3, <1>4, <1>6 DEF AloneInv

LEMMA NextKeepsAloneInv ==
    ASSUME Undisturbed, IInv, GrantInv, AloneInv, [Next]_vars
    PROVE  AloneInv'
<1>1. CASE OthersStep
  BY <1>1, OthersServed, StayingKeeps
<1>2. CASE Crash
  <2>1. UNCHANGED <<crs, rbs, served>> /\ pc' = "idle"
    BY <1>2 DEF Crash, userVars, Reset
  <2>2. AtRest'
    BY <1>2 DEF Crash, LReset, Undisturbed, AloneInv, AtRest
  <2>3. RolesStay /\ ServedKeep
    BY <2>1, UnwrittenServed DEF NoneServed
  <2> QED BY <2>1, <2>2, <2>3, StayingKeeps
<1>3. CASE Reconciler /\ UNCHANGED <<cleanVars, adm, trigVars>>
  BY <1>3, WorkerServed
<1>4. CASE UNCHANGED vars
  <2>1. UNCHANGED <<crs, rbs, served, adm, nsQueue, recVars, cleanVars, trigVars>>
    BY <1>4 DEF vars, clusterVars
  <2>2. AtRest'
    BY <2>1 DEF AloneInv, AtRest, cleanVars, trigVars
  <2>3. RolesStay /\ ServedKeep
    BY <2>1, UnwrittenServed DEF NoneServed
  <2> QED BY <2>1, <2>2, <2>3, StayingKeeps
<1> QED BY <1>1, <1>2, <1>3, <1>4 DEF Next, OthersStep

(* In a same-namespace target without webhook, label trigger and cache,    *)
(* whose RoleBindings nobody replaces or plants, a CR that a Reconcile has *)
(* granted stays granted, whatever its siblings, the garbage collector,    *)
(* crashes and failed calls do: for any number of CRs and namespaces.      *)
THEOREM GrantsStay == Undisturbed => (Spec => []ServedStaysGranted)
<1> SUFFICES ASSUME Undisturbed PROVE Spec => []ServedStaysGranted
  OBVIOUS
<1>1. ~CacheLag
  BY DEF Undisturbed
<1>2. Init => AloneInv
  BY DEF Init, ClusterInit, RecInit, AdmInit, CleanInit, TrigInit, Undisturbed, AloneInv, AtRest,
         Intact, ServedReferenced
<1>3. IInv /\ GrantInv /\ AloneInv /\ [Next]_vars => AloneInv'
  BY NextKeepsAloneInv
<1>4. AloneInv => ServedStaysGranted
  BY DEF Undisturbed, AloneInv, ServedReferenced, ServedStaysGranted, Holds, Exists, Recorded,
         RefsOf
<1> QED BY Invariance, GrantInvariance, <1>1, <1>2, <1>3, <1>4, PTL DEF Spec

(* There, when the scoping controller has nothing left to do, every CR in  *)
(* an allowed namespace is an owner of its RoleBinding: whatever was       *)
(* created, edited and deleted, and whatever failed, on the way.           *)
THEOREM RestMeansGranted ==
    Undisturbed /\ Attended =>
        (Spec => [](pc = "idle" /\ queue = {} =>
            \A c \in LiveCRs : NamespaceAllowed(TargetOf(c, crs[c])) => Holds(c)))
<1> SUFFICES ASSUME Undisturbed, Attended
             PROVE  Spec => [](pc = "idle" /\ queue = {} =>
                        \A c \in LiveCRs : NamespaceAllowed(TargetOf(c, crs[c])) => Holds(c))
  OBVIOUS
<1>1. ServedStaysGranted /\ NoCRForgotten =>
          (pc = "idle" /\ queue = {} =>
              \A c \in LiveCRs : NamespaceAllowed(TargetOf(c, crs[c])) => Holds(c))
  BY DEF ServedStaysGranted, NoCRForgotten, Repairing
<1> QED BY GrantsStay, NobodyForgotten, <1>1, PTL
============================================================================
