--------------------------- MODULE Sweep_proofs ---------------------------
(***************************************************************************)
(* The cleanup sweep of cross-namespace targets spares steady owners, for  *)
(* any number of CRs, namespaces, faults and edits, and with listings and  *)
(* reads from an informer cache however old.                               *)
(***************************************************************************)
EXTENDS SweepObserver, Grants_proofs

USE ClusterAssumption

Unnamed(rb) == rb # NoRB => rb.pending = NoOwner

(* A cross-namespace target's sweep is never at a pending owner, and of    *)
(* the entries it has looked at it keeps those that have not lapsed.       *)
Swept == {u \in snap[ckey].owners : u \notin unchecked}

SweepKnows ==
    /\ \A k \in Keys : Unnamed(cache[k]) /\ Unnamed(snap[k])
    /\ cpc \in {"idle", "entries"}
    /\ cpc = "idle" => ckey = NoRB
    /\ cpc = "entries" => \A u \in Swept : <<ckey, u>> \in lapsed \/ u \in valid

(* With the webhook off, nothing names a pending owner.                    *)
LEMMA NobodyNamed ==
    ASSUME CrossNamespace, IInv, PendKnown
    PROVE  \A k \in Keys : Unnamed(rbs[k])
<1> SUFFICES ASSUME NEW k \in Keys, rbs[k] # NoRB PROVE rbs[k].pending = NoOwner
  BY DEF Unnamed
<1>1. rbs[k].pending \in CRs \cup {NoOwner, Nameless}
  BY RBExceptType DEF IInv, TypeOK, ClusterTypeOK
<1>2. ~WebhookProvisioning
  BY TargetAssumption
<1> QED BY <1>1, <1>2 DEF PendKnown, PendsAt

(* What others do to the sweep: nothing, but bring its cache up to date.   *)
LEMMA OthersSweep ==
    ASSUME CrossNamespace, IInv, PendKnown, SweepKnows, Observe, UNCHANGED cleanVars,
           UNCHANGED cache \/ \E k \in Keys : CacheSync(k)
    PROVE  SweepKnows'
<1>1. UNCHANGED <<cpc, ckey, snap, unchecked, valid>>
  BY DEF cleanVars
<1>2. ASSUME NEW k \in Keys
      PROVE  Unnamed(cache'[k]) /\ Unnamed(snap'[k])
  <2>1. Unnamed(cache[k]) /\ Unnamed(snap[k]) /\ Unnamed(rbs[k])
    BY NobodyNamed DEF SweepKnows
  <2>2. cache'[k] = cache[k] \/ cache'[k] = rbs[k]
    BY DEF CacheSync, IInv, TypeOK, ClusterTypeOK
  <2> QED BY <1>1, <2>1, <2>2 DEF Unnamed
<1>3. ASSUME cpc = "entries", NEW u \in Swept
      PROVE  <<ckey, u>> \in lapsed' \/ u \in valid
  <2>1. <<ckey, u>> \in lapsed \/ u \in valid
    BY <1>3 DEF SweepKnows
  <2>2. ckey \in Keys /\ snap[ckey] \in RBObjects /\ u \in snap[ckey].owners
    BY <1>3 DEF Swept, IInv, WorkersKnow, CleanKnows
  <2>3. u \in UIDs /\ snap[ckey] # NoRB
    BY <2>2, RBExceptType
  <2>4. <<ckey, u>> \in Listed'
    BY <1>1, <2>2, <2>3 DEF Listed
  <2> QED BY <2>1, <2>4 DEF Observe
<1> QED BY <1>1, <1>2, <1>3 DEF SweepKnows, Swept

LEMMA SweepSteps ==
    ASSUME CrossNamespace, IInv, PendKnown, SweepKnows, Observe, Cleanup
    PROVE  SweepKnows'
<1>0. UNCHANGED <<crs, cache>>
  BY DEF Cleanup, CleanupStep, CleanupError, ListManaged, PickRoleBinding, CheckEntry,
         SettleEntries, CheckPendingOwner, DeletePending, cleanRest, userVars
<1>1. \A k \in Keys : Unnamed(cache[k]) /\ Unnamed(snap[k]) /\ Unnamed(rbs[k])
  BY NobodyNamed DEF SweepKnows
<1>2. CASE ListManaged
  <2>1. \A k \in Keys : Unnamed(snap'[k])
    BY <1>1, <1>2 DEF ListManaged, Read, Unnamed
  <2> QED BY <1>0, <1>1, <1>2, <2>1 DEF ListManaged, SweepKnows
<1>3. ASSUME NEW k \in Keys, PickRoleBinding(k)
      PROVE  SweepKnows'
  <2>1. snap[k].pending = NoOwner
    BY <1>1, <1>3 DEF PickRoleBinding, Unnamed
  <2>2. cpc' = "entries" /\ ckey' = k /\ unchecked' = snap[k].owners /\ UNCHANGED snap
    BY <1>3, <2>1 DEF PickRoleBinding
  <2> QED BY <1>0, <1>1, <2>2 DEF SweepKnows, Swept
<1>4. ASSUME cpc = "entries", NEW w \in UIDs, w \in unchecked,
             unchecked' = unchecked \ {w}, UNCHANGED <<cpc, ckey, snap>>,
             valid \subseteq valid', w \in valid' \/ ~IsOwnerValid(w, ckey[1])
      PROVE  SweepKnows'
  <2>1. ASSUME NEW u \in Swept'
        PROVE  <<ckey, u>> \in lapsed' \/ u \in valid'
    <3>1. ckey \in Keys /\ snap[ckey] \in RBObjects /\ u \in snap[ckey].owners
      BY <1>4, <2>1 DEF Swept, IInv, WorkersKnow, CleanKnows
    <3>2. u \in UIDs /\ snap[ckey] # NoRB
      BY <3>1, RBExceptType
    <3>3. <<ckey, u>> \in Listed'
      BY <1>4, <3>1, <3>2 DEF Listed
    <3>4. CASE u = w /\ ~IsOwnerValid(w, ckey[1])
      <4>1. <<ckey, u>> \in Stale'
        BY <1>0, <1>4, <3>1, <3>2, <3>4 DEF Stale, IsOwnerValid, Live
      <4> QED BY <3>3, <4>1 DEF Observe
    <3>5. CASE u # w
      <4>1. <<ckey, u>> \in lapsed \/ u \in valid
        BY <1>4, <2>1, <3>5 DEF Swept, SweepKnows
      <4> QED BY <1>4, <3>3, <4>1 DEF Observe
    <3> QED BY <1>4, <3>4, <3>5
  <2> QED BY <1>0, <1>1, <1>4, <2>1 DEF SweepKnows
<1>5. ASSUME NEW w \in UIDs, CheckEntry(w)
      PROVE  SweepKnows'
  <2>1. valid \subseteq valid' /\ (w \in valid' \/ ~IsOwnerValid(w, ckey[1]))
    BY <1>5 DEF CheckEntry
  <2> QED BY <1>4, <1>5, <2>1 DEF CheckEntry
<1>6. CASE DoneWithIt
  <2>1. \A k \in Keys : Unnamed(snap'[k])
    BY <1>1, <1>6 DEF DoneWithIt, Unnamed, IInv, TypeOK, CleanTypeOK
  <2> QED BY <1>0, <1>1, <1>6, <2>1 DEF DoneWithIt, SweepKnows
<1>7. CASE CleanupError
  <2>1. CASE \E w \in unchecked : /\ cpc = "entries"
                                 /\ unchecked' = unchecked \ {w}
                                 /\ valid' = valid \cup {w}
                                 /\ UNCHANGED <<cpc, snap, ckey>>
    <3>1. unchecked \subseteq UIDs
      BY DEF IInv, TypeOK, CleanTypeOK
    <3> QED BY <1>4, <2>1, <3>1
  <2> QED BY <1>6, <1>7, <2>1 DEF CleanupError
<1>8. ~CheckPendingOwner /\ ~DeletePending
  BY DEF CheckPendingOwner, DeletePending, SweepKnows
<1> QED
  BY <1>2, <1>3, <1>5, <1>6, <1>7, <1>8 DEF Cleanup, CleanupStep, SettleEntries

LEMMA NextKeepsSweep ==
    ASSUME CrossNamespace, IInv, PendKnown, SweepKnows, [Next /\ Observe]_observedVars
    PROVE  SweepKnows'
<1>1. CASE Observe /\ Environment /\ UNCHANGED <<recVars, cleanVars, adm, trigVars>>
  <2>1. UNCHANGED cache \/ \E k \in Keys : CacheSync(k)
    BY <1>1 DEF Environment, DeleteCR, Resync, EditCR, RelabelForSelector, RelabelForTrigger,
           ResyncNamespace, EditClusterRole, DeleteRB, PlantRB, DriftSubjects, DriftRoleRef,
           GCDelete, GCPrune
  <2> QED BY <1>1, <2>1, OthersSweep
<1>2. CASE Observe /\ (\E c \in CRs, s \in Specs : Submit(c, s)) /\ UNCHANGED <<recVars, cleanVars, trigVars>>
  BY <1>2, OthersSweep DEF Submit, CreateCR
<1>3. CASE Observe /\ Reconciler /\ UNCHANGED <<cleanVars, adm, trigVars>>
  <2>1. UNCHANGED cache
    BY <1>3 DEF Reconciler, ReconcilerStep, Dequeue, DequeueGone, DequeueLive, CheckNamespace,
           CheckClusterRole, GetRoleBinding, CreateRoleBinding, Refetch, DeleteDrifted, Recreate,
           ReadSubjects, WriteSubjects, ReadPending, WritePending, ReadRefs, PatchRefs,
           ReadOwners, WriteOwners, APIError, NamespaceReadFails, restVars
  <2> QED BY <1>3, <2>1, OthersSweep
<1>4. CASE Observe /\ Cleanup
  BY <1>4, SweepSteps
<1>5. CASE Observe /\ Admission /\ UNCHANGED <<recVars, cleanVars, trigVars>>
  <2>1. UNCHANGED cache
    BY <1>5 DEF Admission, AdmissionStep, Admit, WebhookGet, WebhookCreate, WebhookFails, Store,
           CreateCR, Refuse, Ripen, admRest
  <2> QED BY <1>5, <2>1, OthersSweep
<1>6. CASE Observe /\ Trigger /\ UNCHANGED <<recVars, cleanVars, adm>>
  <2>1. UNCHANGED cache
    BY <1>6 DEF Trigger, TriggerStep, LDequeue, LCheckClusterRole, LCreate, LCheckDrift,
           LDeleteDrifted, LRecreate, LReadSubjects, LWriteSubjects, LCheckRemovable, LRemove,
           LError, trigRest
  <2> QED BY <1>6, <2>1, OthersSweep
<1>7. CASE Crash
  <2>1. \A k \in Keys : Unnamed(cache'[k]) /\ Unnamed(snap'[k])
    BY <1>7, NobodyNamed DEF Crash, Unnamed, SweepKnows
  <2>2. cpc' = "idle" /\ ckey' = NoRB
    BY <1>7 DEF Crash
  <2> QED BY <2>1, <2>2 DEF SweepKnows
<1>8. CASE UNCHANGED observedVars
  <2>1. UNCHANGED <<cache, snap, cpc, ckey, unchecked, valid, lapsed>>
    BY <1>8 DEF observedVars, vars, clusterVars, cleanVars
  <2> QED BY <2>1 DEF SweepKnows, Swept, Unnamed
<1> QED
  BY <1>1, <1>2, <1>3, <1>4, <1>5, <1>6, <1>7, <1>8 DEF Next

SpareSteady ==
    ckey # NoRB /\ ckey' # ckey /\ rbs[ckey] # NoRB =>
        \A u \in snap[ckey].owners \cap rbs[ckey].owners :
            <<ckey, u>> \notin lapsed => rbs'[ckey] # NoRB /\ u \in rbs'[ckey].owners

LEMMA SweepSpares ==
    ASSUME CrossNamespace, IInv, SweepKnows, Next
    PROVE  SpareSteady
<1> SUFFICES ASSUME ckey # NoRB, ckey' # ckey, rbs[ckey] # NoRB,
                    NEW u \in snap[ckey].owners \cap rbs[ckey].owners, <<ckey, u>> \notin lapsed
             PROVE  rbs'[ckey] # NoRB /\ u \in rbs'[ckey].owners
  BY DEF SpareSteady
<1>1. CASE UNCHANGED rbs
  BY <1>1
<1>2. CASE SettleEntries
  <2>1. ckey \in Keys /\ rbs[ckey] \in RBObjects
    BY <1>2 DEF SettleEntries, IInv, TypeOK, ClusterTypeOK, WorkersKnow, CleanKnows
  <2>2. u \in valid
    BY <1>2 DEF SettleEntries, SweepKnows, Swept
  <2>3. CASE rbs' = [rbs EXCEPT ![ckey].owners = valid]
    <3> DEFINE x == [rbs[ckey] EXCEPT !.owners = valid]
    <3>1. rbs' = [rbs EXCEPT ![ckey] = x]
      BY <2>3
    <3>2. x \in RBObjects /\ x.owners = valid
      BY <2>1, RBExceptType DEF RBObjects, IInv, TypeOK, CleanTypeOK
    <3> HIDE DEF x
    <3>3. rbs'[ckey] = x
      BY <2>1, <3>1 DEF IInv, TypeOK, ClusterTypeOK
    <3> QED BY <2>2, <3>2, <3>3
  <2> QED BY <1>1, <1>2, <2>2, <2>3 DEF SettleEntries
<1>3. CASE Cleanup
  <2>1. ~CheckPendingOwner /\ ~DeletePending
    BY DEF CheckPendingOwner, DeletePending, SweepKnows
  <2> QED
    BY <1>1, <1>2, <1>3, <2>1
       DEF Cleanup, CleanupStep, CleanupError, ListManaged, PickRoleBinding, CheckEntry
<1>4. CASE Crash
  BY <1>1, <1>4 DEF Crash
<1>5. ~UNCHANGED cleanVars
  BY DEF cleanVars
<1> QED BY <1>3, <1>4, <1>5 DEF Next

(* The sweep of a cross-namespace target takes no owner from a RoleBinding *)
(* that has been a valid one ever since the sweep listed it, for any       *)
(* number of CRs and namespaces and however old the listing: it deletes    *)
(* only when all it listed have lapsed, and writes what it computed only   *)
(* over the very object it listed.                                         *)
THEOREM SteadyOwnersAreSpared == CrossNamespace => (ObservedSpec => SweepSparesSteadyOwners)
<1> SUFFICES ASSUME CrossNamespace PROVE ObservedSpec => SweepSparesSteadyOwners
  OBVIOUS
<1>1. [Next /\ Observe]_observedVars => [Next]_vars
  BY DEF observedVars
<1>2. ObservedSpec => Spec
  BY <1>1, PTL DEF ObservedSpec, Spec
<1>3. Init => SweepKnows
  BY DEF Init, ClusterInit, CleanInit, SweepKnows, Unnamed
<1>4. IInv /\ PendKnown /\ SweepKnows /\ [Next /\ Observe]_observedVars => SweepKnows'
  BY NextKeepsSweep
<1>5. IInv /\ SweepKnows /\ [Next /\ Observe]_observedVars => [SpareSteady]_observedVars
  BY SweepSpares
<1> QED
  BY Invariance, PendingIsKnown, <1>2, <1>3, <1>4, <1>5, PTL
     DEF ObservedSpec, SweepSparesSteadyOwners, SpareSteady
=============================================================================
