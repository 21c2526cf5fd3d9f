--------------------------- MODULE SweepObserver ---------------------------
(***************************************************************************)
(* Scoper with an observer of the cleanup sweep: it notes which of the     *)
(* owner entries a sweep has listed were stale at some moment since.  A    *)
(* user may send a CR away and back while the sweep looks at it; only an   *)
(* owner that has stayed a valid one can count on the sweep.               *)
(***************************************************************************)
EXTENDS Scoper

VARIABLE lapsed   \* <<RoleBinding, owner>> pairs listed, and stale since

Listed == {p \in Keys \X UIDs : snap[p[1]] # NoRB /\ p[2] \in snap[p[1]].owners}

Stale == {p \in Keys \X UIDs : ~IsOwnerValid(p[2], p[1][1])}

Observe == lapsed' = Listed' \cap (lapsed \cup Stale')

observedVars == <<vars, lapsed>>

ObservedSpec == Init /\ lapsed = {} /\ [][Next /\ Observe]_observedVars

ObservedFairSpec == ObservedSpec /\ EventFairness /\ ResyncFairness

(* A sweep of the cleanup ticker never takes an owner from a RoleBinding   *)
(* when the owner was listed and has been a valid one ever since (the CR   *)
(* lives, under that UID, and asks for this namespace), whatever the       *)
(* reconciler, the users and an outdated listing do in the meantime.       *)
SweepSparesSteadyOwners ==
    [][ ckey # NoRB /\ ckey' # ckey /\ rbs[ckey] # NoRB =>
          \A u \in snap[ckey].owners \cap rbs[ckey].owners :
             <<ckey, u>> \notin lapsed => rbs'[ckey] # NoRB /\ u \in rbs'[ckey].owners ]_observedVars
============================================================================
