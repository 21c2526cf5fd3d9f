---------------------------- MODULE LabelTrigger ----------------------------
(***************************************************************************)
(* pkg/scoper/label_trigger.go: LabelTriggerReconciler.Reconcile.  One     *)
(* worker takes a namespace from its queue and creates the RoleBinding     *)
(* when the namespace's labels match, or deletes the one it created when   *)
(* they no longer do.  It leaves alone a RoleBinding that has owner        *)
(* references, which the scoping controller has adopted.                   *)
(***************************************************************************)
EXTENDS Cluster

VARIABLES
    lpc,    \* the API call the worker makes next
    lns,    \* the namespace in work
    lcopy   \* the RoleBinding as an Update last read it

trigVars == <<lpc, lns, lcopy>>

TrigLabels == {"idle", "clusterrole", "create", "drift", "delete", "recreate",
               "readSubjects", "writeSubjects", "check", "remove"}

TrigTypeOK ==
    /\ lpc \in TrigLabels
    /\ lns \in Namespaces \cup {Unset}
    /\ lcopy \in RBObjects \cup {NoRB}

TrigInit == lpc = "idle" /\ lns = Unset /\ lcopy = NoRB

trigRest == <<userVars, cache, ripe, nsVars, queue, served, edits>>

lkey == <<lns, ManagedName>>

Expected == NewRB(TargetSA, "label-trigger")

LGoto(label) == lpc' = label /\ UNCHANGED <<lns, nsQueue>>

LReset == lpc' = "idle" /\ lns' = Unset /\ lcopy' = NoRB

LDone == LReset /\ UNCHANGED nsQueue

LRequeue == LReset /\ nsQueue' = nsQueue \cup {lns}

LPut(rb) == rbs' = [rbs EXCEPT ![lkey] = rb]

----------------------------------------------------------------------------
(* Mutant: the deny list is left out.                                      *)
WantedAnywhere(n) == (HasSelector => selected[n]) /\ labelled[n]

(* Reconcile: the deny list, the NamespaceSelector and the trigger's own   *)
(* selector decide between creating and removing.                          *)

Wanted(n) ==
    /\ n \notin Denied
    /\ HasSelector => selected[n]
    /\ labelled[n]

LDequeue(n) ==
    /\ lpc = "idle" /\ n \in nsQueue
    /\ nsQueue' = nsQueue \ {n}
    /\ lns' = n
    /\ lpc' = IF Wanted(n) THEN "clusterrole" ELSE "check"
    /\ UNCHANGED <<trigRest, rbs, faults, lcopy>>

LCheckClusterRole ==
    /\ lpc = "clusterrole"
    /\ IF clusterRole THEN LGoto("create") /\ UNCHANGED lcopy ELSE LRequeue
    /\ UNCHANGED <<trigRest, rbs, faults>>

LCreate ==
    /\ lpc = "create"
    /\ IF rbs[lkey] = NoRB
       THEN LPut(Expected) /\ LDone
       ELSE LGoto("drift") /\ UNCHANGED <<rbs, lcopy>>
    /\ UNCHANGED <<trigRest, faults>>

----------------------------------------------------------------------------
(* Mutant: the RoleRef comparison is the wrong way round.                  *)
LCheckDriftInverted ==
    /\ lpc = "drift"
    /\ LET rb == Read(lkey) IN
       IF rb = NoRB THEN LRequeue
       ELSE IF rb.refs # {} THEN LDone
       ELSE IF rb.role THEN LGoto("delete") /\ UNCHANGED lcopy
       ELSE IF rb.subject # TargetSA THEN LGoto("readSubjects") /\ UNCHANGED lcopy
       ELSE LDone
    /\ UNCHANGED <<trigRest, rbs, faults>>

(* ensureDrift.                                                            *)

LCheckDrift ==
    /\ lpc = "drift"
    /\ LET rb == Read(lkey) IN
       IF rb = NoRB THEN LRequeue
       ELSE IF rb.refs # {} THEN LDone
       ELSE IF ~rb.role THEN LGoto("delete") /\ UNCHANGED lcopy
       ELSE IF rb.subject # TargetSA THEN LGoto("readSubjects") /\ UNCHANGED lcopy
       ELSE LDone
    /\ UNCHANGED <<trigRest, rbs, faults>>

LDeleteDrifted ==
    /\ lpc = "delete"
    /\ LPut(NoRB)
    /\ LGoto("recreate")
    /\ UNCHANGED <<trigRest, faults, lcopy>>

LRecreate ==
    /\ lpc = "recreate"
    /\ IF rbs[lkey] = NoRB THEN LPut(Expected) ELSE UNCHANGED rbs
    /\ LDone
    /\ UNCHANGED <<trigRest, faults>>

LReadSubjects ==
    /\ lpc = "readSubjects"
    /\ IF Read(lkey) = NoRB THEN LRequeue
       ELSE LGoto("writeSubjects") /\ lcopy' = Read(lkey)
    /\ UNCHANGED <<trigRest, rbs, faults>>

LWriteSubjects ==
    /\ lpc = "writeSubjects"
    /\ \/ /\ rbs[lkey] = lcopy
          /\ LPut([lcopy EXCEPT !.subject = TargetSA])
          /\ LDone
       \/ /\ rbs[lkey] # lcopy
          /\ UNCHANGED rbs
          /\ \/ rbs[lkey] # NoRB /\ LGoto("readSubjects") /\ lcopy' = NoRB
             \/ LRequeue
    /\ UNCHANGED <<trigRest, faults>>

----------------------------------------------------------------------------
(* Mutant: it looks for the RoleBindings of the scoping controller.        *)
RemovableOfScoper(rb) == rb.createdBy = "scoper" /\ rb.refs = {}

(* deleteRoleBinding: a read decides, and the delete carries no            *)
(* precondition on what was read.                                          *)

Removable(rb) == rb.createdBy = "label-trigger" /\ rb.refs = {}

LCheckRemovable ==
    /\ lpc = "check"
    /\ LET rb == Read(lkey) IN
       IF rb # NoRB /\ Removable(rb)
       THEN LGoto("remove") /\ UNCHANGED lcopy
       ELSE LDone
    /\ UNCHANGED <<trigRest, rbs, faults>>

LRemove ==
    /\ lpc = "remove"
    /\ LPut(NoRB)
    /\ LDone
    /\ UNCHANGED <<trigRest, faults>>

----------------------------------------------------------------------------

LError ==
    /\ lpc # "idle"
    /\ faults < MaxFaults /\ faults' = faults + 1
    /\ LRequeue
    /\ UNCHANGED <<trigRest, rbs>>

TriggerStep ==
    \/ LCheckClusterRole \/ LCreate \/ LCheckDrift \/ LDeleteDrifted \/ LRecreate
    \/ LReadSubjects \/ LWriteSubjects \/ LCheckRemovable \/ LRemove

Trigger == (\E n \in Namespaces : LDequeue(n)) \/ TriggerStep \/ LError
============================================================================
