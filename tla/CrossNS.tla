------------------------------ MODULE CrossNS ------------------------------
(***************************************************************************)
(* pkg/crossns: operators that each keep a Reconciler, with which they     *)
(* apply Role and RoleBinding pairs in namespaces other than their own     *)
(* and sweep away the pairs they no longer ask for.  A grant stands for    *)
(* the (namespace, roleName) of a RuleSet; the RoleBinding's name follows  *)
(* from it.  Every API call is one action.                                 *)
(***************************************************************************)
EXTENDS Naturals, FiniteSets

CONSTANTS
    Operators,          \* each reconciles one CR, in one worker
    Grants,             \* the (namespace, roleName) pairs
    Rules,              \* the rules a Role may carry
    RuleSets,           \* the arguments an operator may call Apply with
    LabelOf,            \* the OwnerLabel of its Reconciler
    StartSpecs,         \* what the CRs may ask for when the operators start
    Planted,            \* the objects admins may put where there is none
    NoObj, NoLabel, None,
    MaxFaults, MaxEdits \* bounds on failed calls and crashes, on edits

Labels == {LabelOf[o] : o \in Operators}

Nothing == [g \in {} |-> None]

ASSUME CrossNSAssumption ==
    /\ RuleSets \in [Operators -> SUBSET UNION {[D -> Rules] : D \in SUBSET Grants}]
    /\ \A o \in Operators : Nothing \in RuleSets[o]
    /\ None \notin Grants /\ None \notin Operators /\ NoLabel \notin Labels
    /\ MaxFaults \in Nat /\ MaxEdits \in Nat

RoleObjects == [rules: Rules, label: Labels \cup {NoLabel}]

(* Whether roleRef names the Role, and the one subject; None is any other. *)
BindingObjects == [ref: BOOLEAN, subject: Operators \cup {None}, label: Labels \cup {NoLabel}]

ASSUME NoObjAssumption == NoObj \notin RoleObjects /\ NoObj \notin BindingObjects

(* A choice of ruleSets for each operator: the pairs and their rules.      *)
Specs == {s \in [Operators -> UNION {RuleSets[o] : o \in Operators}] :
             \A o \in Operators : s[o] \in RuleSets[o]}

ASSUME PlantedAssumption ==
    \A x \in Planted : x \in RoleObjects \cup BindingObjects /\ x.label = NoLabel

ASSUME StartAssumption == StartSpecs \subseteq Specs

VARIABLES
    roles, bindings,  \* the API server's objects: the client reads directly
    spec,             \* what each operator's CR asks for; nothing once it goes
    due,              \* the operators whose CR waits to be reconciled
    phase,            \* the API call each operator makes next
    want,             \* the ruleSets of its call of Apply, or of its last one
    todo, cur,        \* those left to apply, and the one at work
    held,             \* the object read and about to be written back
    doomed,           \* what gc has listed and not yet deleted
    errs,             \* whether gc has collected an error
    clean,            \* the call had no error, and no edit has interfered
    faults, edits

objVars == <<roles, bindings>>
callVars == <<want, todo, cur, held, doomed, errs>>
crossVars == <<objVars, spec, due, phase, callVars, clean, faults, edits>>

ApplyPhases == {"role", "createRole", "updateRole",
                "binding", "createBinding", "updateBinding", "deleteBinding"}
SweepPhases == {"listRoles", "deleteRoles", "listBindings", "deleteBindings"}

CrossTypeOK ==
    /\ roles \in [Grants -> RoleObjects \cup {NoObj}]
    /\ bindings \in [Grants -> BindingObjects \cup {NoObj}]
    /\ spec \in Specs /\ want \in Specs
    /\ due \in SUBSET Operators
    /\ phase \in [Operators -> {"idle"} \cup ApplyPhases \cup SweepPhases]
    /\ todo \in [Operators -> SUBSET Grants]
    /\ cur \in [Operators -> Grants \cup {None}]
    /\ held \in [Operators -> RoleObjects \cup BindingObjects \cup {NoObj}]
    /\ doomed \in [Operators -> SUBSET Grants]
    /\ errs \in [Operators -> BOOLEAN] /\ clean \in [Operators -> BOOLEAN]
    /\ faults \in 0..MaxFaults /\ edits \in 0..MaxEdits

(* The operators start with their CRs there or not.                        *)
CrossInit ==
    /\ roles = [g \in Grants |-> NoObj]
    /\ bindings = [g \in Grants |-> NoObj]
    /\ spec \in StartSpecs
    /\ due = Operators
    /\ phase = [o \in Operators |-> "idle"]
    /\ want = [o \in Operators |-> Nothing]
    /\ todo = [o \in Operators |-> {}] /\ cur = [o \in Operators |-> None]
    /\ held = [o \in Operators |-> NoObj] /\ doomed = [o \in Operators |-> {}]
    /\ errs = [o \in Operators |-> FALSE] /\ clean = [o \in Operators |-> FALSE]
    /\ faults = 0 /\ edits = 0

----------------------------------------------------------------------------
(* What the code compares and writes.                                      *)

RoleFor(o, g) == [rules |-> want[o][g], label |-> LabelOf[o]]
BindingFor(o) == [ref |-> TRUE, subject |-> o, label |-> LabelOf[o]]

(* Mutant: every managed object, whatever its owner label.                 *)
AnyManaged(o, obj) == obj # NoObj /\ obj.label # NoLabel

(* listOptions: the managed label and the owner label.                     *)
Mine(o, obj) == obj # NoObj /\ obj.label = LabelOf[o]

PutRole(g, r) == roles' = [roles EXCEPT ![g] = r] /\ UNCHANGED bindings
PutBinding(g, b) == bindings' = [bindings EXCEPT ![g] = b] /\ UNCHANGED roles

Goto(o, p) == phase' = [phase EXCEPT ![o] = p]

----------------------------------------------------------------------------
(* The operator's reconcile, as the package's documentation has it: Apply  *)
(* with what the CR asks for, Teardown (gc with nothing desired) when it   *)
(* asks for nothing; an error is retried.                                  *)

NextGrant(o, rest) ==
    /\ todo' = [todo EXCEPT ![o] = rest]
    /\ \/ rest = {} /\ cur' = [cur EXCEPT ![o] = None] /\ Goto(o, "listRoles")
       \/ \E g \in rest : cur' = [cur EXCEPT ![o] = g] /\ Goto(o, "role")
    /\ held' = [held EXCEPT ![o] = NoObj]

Apply(o) ==
    /\ phase[o] = "idle" /\ o \in due
    /\ due' = due \ {o}
    /\ want' = [want EXCEPT ![o] = spec[o]]
    /\ clean' = [clean EXCEPT ![o] = TRUE]
    /\ NextGrant(o, DOMAIN spec[o])
    /\ UNCHANGED <<objVars, spec, doomed, errs, faults, edits>>

(* Mutant: the retry is asked for after the call has been forgotten.       *)
ReturnForgetful(o, ok) ==
    /\ Goto(o, "idle")
    /\ todo' = [todo EXCEPT ![o] = {}] /\ cur' = [cur EXCEPT ![o] = None]
    /\ held' = [held EXCEPT ![o] = NoObj] /\ doomed' = [doomed EXCEPT ![o] = {}]
    /\ errs' = [errs EXCEPT ![o] = FALSE]
    /\ clean' = [clean EXCEPT ![o] = @ /\ ok]
    /\ due' = IF ok THEN due ELSE due \cup {cur'[o]}
    /\ UNCHANGED want

Return(o, ok) ==
    /\ Goto(o, "idle")
    /\ todo' = [todo EXCEPT ![o] = {}] /\ cur' = [cur EXCEPT ![o] = None]
    /\ held' = [held EXCEPT ![o] = NoObj] /\ doomed' = [doomed EXCEPT ![o] = {}]
    /\ errs' = [errs EXCEPT ![o] = FALSE]
    /\ clean' = [clean EXCEPT ![o] = @ /\ ok]
    /\ due' = IF ok THEN due ELSE due \cup {o}
    /\ UNCHANGED want

At(o, p) == phase[o] = p /\ UNCHANGED <<spec, faults, edits>>
Within(o, p) == At(o, p) /\ UNCHANGED <<due, want, todo, cur, doomed, errs, clean>>

(* Update of the held copy with its resourceVersion: a conflict is retried *)
(* from the read, or given up on after five attempts; NotFound is an error.*)
Conflict(o, obj, readAgain) ==
    /\ UNCHANGED objVars
    /\ \/ obj # NoObj /\ Goto(o, readAgain) /\ held' = [held EXCEPT ![o] = NoObj]
          /\ UNCHANGED <<due, want, todo, cur, doomed, errs, clean>>
       \/ Return(o, FALSE)

----------------------------------------------------------------------------
(* applyRole.                                                              *)

(* Mutant: a Role with the right rules is left alone, whatever its labels. *)
GetRoleForRules(o) ==
    /\ Within(o, "role")
    /\ UNCHANGED objVars
    /\ LET role == roles[cur[o]] IN
       \/ role = NoObj /\ Goto(o, "createRole") /\ UNCHANGED held
       \/ role # NoObj /\ role.rules = want[o][cur[o]] /\ Goto(o, "binding") /\ UNCHANGED held
       \/ role # NoObj /\ role.rules # want[o][cur[o]]
          /\ Goto(o, "updateRole") /\ held' = [held EXCEPT ![o] = role]

(* Mutant: a Role that carries the labels is taken to be up to date.       *)
GetRoleForLabels(o) ==
    /\ Within(o, "role")
    /\ UNCHANGED objVars
    /\ LET role == roles[cur[o]] IN
       \/ role = NoObj /\ Goto(o, "createRole") /\ UNCHANGED held
       \/ Mine(o, role) /\ Goto(o, "binding") /\ UNCHANGED held
       \/ role # NoObj /\ ~Mine(o, role)
          /\ Goto(o, "updateRole") /\ held' = [held EXCEPT ![o] = role]

GetRole(o) ==
    /\ Within(o, "role")
    /\ UNCHANGED objVars
    /\ LET role == roles[cur[o]] IN
       \/ role = NoObj /\ Goto(o, "createRole") /\ UNCHANGED held
       \/ role = RoleFor(o, cur[o]) /\ Goto(o, "binding") /\ UNCHANGED held
       \/ role \notin {NoObj, RoleFor(o, cur[o])}
          /\ Goto(o, "updateRole") /\ held' = [held EXCEPT ![o] = role]

(* Create; AlreadyExists counts as success.                                *)
CreateRole(o) ==
    /\ Within(o, "createRole")
    /\ IF roles[cur[o]] = NoObj THEN PutRole(cur[o], RoleFor(o, cur[o])) ELSE UNCHANGED objVars
    /\ Goto(o, "binding")
    /\ UNCHANGED held

UpdateRole(o) ==
    /\ At(o, "updateRole")
    /\ \/ /\ roles[cur[o]] = held[o]
          /\ PutRole(cur[o], RoleFor(o, cur[o]))
          /\ Goto(o, "binding") /\ held' = [held EXCEPT ![o] = NoObj]
          /\ UNCHANGED <<due, want, todo, cur, doomed, errs, clean>>
       \/ roles[cur[o]] # held[o] /\ Conflict(o, roles[cur[o]], "role")

----------------------------------------------------------------------------
(* applyRoleBinding.                                                       *)

AfterBinding(o) == NextGrant(o, todo[o] \ {cur[o]}) /\ UNCHANGED <<due, want, doomed, errs, clean>>

(* Mutant: a RoleBinding that is there is always replaced.                 *)
GetBindingAnew(o) ==
    /\ Within(o, "binding")
    /\ UNCHANGED objVars
    /\ Goto(o, IF bindings[cur[o]] = NoObj THEN "createBinding" ELSE "deleteBinding")
    /\ held' = [held EXCEPT ![o] = bindings[cur[o]]]

GetBinding(o) ==
    /\ At(o, "binding")
    /\ UNCHANGED objVars
    /\ LET b == bindings[cur[o]] IN
       \/ b = BindingFor(o) /\ AfterBinding(o)
       \/ /\ b # BindingFor(o)
          /\ Goto(o, IF b = NoObj THEN "createBinding"
                     ELSE IF ~b.ref THEN "deleteBinding" ELSE "updateBinding")
          /\ held' = [held EXCEPT ![o] = b]
          /\ UNCHANGED <<due, want, todo, cur, doomed, errs, clean>>

(* A drifted RoleRef: delete, whatever is there by now, then create.       *)
DeleteBinding(o) ==
    /\ Within(o, "deleteBinding")
    /\ PutBinding(cur[o], NoObj)
    /\ Goto(o, "createBinding") /\ UNCHANGED held

CreateBinding(o) ==
    /\ At(o, "createBinding")
    /\ IF bindings[cur[o]] = NoObj THEN PutBinding(cur[o], BindingFor(o)) ELSE UNCHANGED objVars
    /\ AfterBinding(o)

UpdateBinding(o) ==
    /\ At(o, "updateBinding")
    /\ \/ bindings[cur[o]] = held[o] /\ PutBinding(cur[o], BindingFor(o)) /\ AfterBinding(o)
       \/ bindings[cur[o]] # held[o] /\ Conflict(o, bindings[cur[o]], "binding")

----------------------------------------------------------------------------
(* gc: list and delete the Roles, then the RoleBindings, going on after an *)
(* error.                                                                  *)

(* Mutant: the errors gc has collected are not returned.                   *)
EndSweepQuietly(o, failed) == Return(o, TRUE)

EndSweep(o, failed) == Return(o, ~failed)

(* One kind is listed, or has one object less to delete.                   *)
Sweep(o, left, failed) ==
    \/ /\ left # {}
       /\ Goto(o, IF phase[o] \in {"listRoles", "deleteRoles"} THEN "deleteRoles"
                  ELSE "deleteBindings")
       /\ doomed' = [doomed EXCEPT ![o] = left]
       /\ errs' = [errs EXCEPT ![o] = failed]
       /\ UNCHANGED <<due, want, todo, cur, held, clean>>
    \/ /\ left = {} /\ phase[o] \in {"listRoles", "deleteRoles"}
       /\ Goto(o, "listBindings")
       /\ doomed' = [doomed EXCEPT ![o] = {}]
       /\ errs' = [errs EXCEPT ![o] = failed]
       /\ UNCHANGED <<due, want, todo, cur, held, clean>>
    \/ left = {} /\ phase[o] \in {"listBindings", "deleteBindings"} /\ EndSweep(o, failed)

Stale(o, objs) == {g \in Grants \ DOMAIN want[o] : Mine(o, objs[g])}

ListRoles(o) ==
    /\ At(o, "listRoles") /\ UNCHANGED objVars
    /\ Sweep(o, Stale(o, roles), errs[o])

DeleteRoles(o) ==
    /\ At(o, "deleteRoles")
    /\ \E g \in doomed[o] : PutRole(g, NoObj) /\ Sweep(o, doomed[o] \ {g}, errs[o])

ListBindings(o) ==
    /\ At(o, "listBindings") /\ UNCHANGED objVars
    /\ Sweep(o, Stale(o, bindings), errs[o])

DeleteBindings(o) ==
    /\ At(o, "deleteBindings")
    /\ \E g \in doomed[o] : PutBinding(g, NoObj) /\ Sweep(o, doomed[o] \ {g}, errs[o])

OperatorStep(o) ==
    \/ Apply(o)
    \/ GetRole(o) \/ CreateRole(o) \/ UpdateRole(o)
    \/ GetBinding(o) \/ CreateBinding(o) \/ DeleteBinding(o) \/ UpdateBinding(o)
    \/ ListRoles(o) \/ DeleteRoles(o) \/ ListBindings(o) \/ DeleteBindings(o)

----------------------------------------------------------------------------
(* Failures, bounded by MaxFaults.                                         *)

Fault == faults < MaxFaults /\ faults' = faults + 1 /\ UNCHANGED <<objVars, spec, edits>>

(* Apply returns the error of any of its calls.                            *)
ApplyFails(o) == phase[o] \in ApplyPhases /\ Fault /\ Return(o, FALSE)

(* gc notes the error of a list, or of one delete, and goes on.            *)
SweepFails(o) ==
    /\ Fault
    /\ \/ phase[o] \in {"listRoles", "listBindings"} /\ Sweep(o, {}, TRUE)
       \/ /\ phase[o] \in {"deleteRoles", "deleteBindings"}
          /\ \E g \in doomed[o] : Sweep(o, doomed[o] \ {g}, TRUE)

(* The operator's process stops at any call; its CR is reconciled again    *)
(* when it has started.                                                    *)
CrashOperator(o) == phase[o] # "idle" /\ Fault /\ Return(o, FALSE)

----------------------------------------------------------------------------
(* Users and admins, bounded by MaxEdits, and the operators' own events.   *)

EditSpec(o) ==
    /\ edits < MaxEdits /\ edits' = edits + 1
    /\ \E s \in RuleSets[o] \ {spec[o]} : spec' = [spec EXCEPT ![o] = s]
    /\ due' = due \cup {o}
    /\ UNCHANGED <<objVars, phase, callVars, clean, faults>>

(* An admin deletes an object, takes its labels off or changes the rest,   *)
(* or puts one of the same name where there is none.                       *)
Edited(obj, objs) ==
    IF obj = NoObj
    THEN Planted \cap objs
    ELSE {NoObj, [obj EXCEPT !.label = NoLabel]} \cup {x \in objs : x.label = obj.label}

Interfere ==
    /\ edits < MaxEdits /\ edits' = edits + 1
    /\ \E g \in Grants :
          \/ \E r \in Edited(roles[g], RoleObjects) : PutRole(g, r)
          \/ \E b \in Edited(bindings[g], BindingObjects) : PutBinding(g, b)
    /\ clean' = [o \in Operators |-> FALSE]
    /\ UNCHANGED <<spec, due, phase, callVars, faults>>

(* The operator's informer replays an event for its CR.                    *)
Replay(o) ==
    /\ o \notin due /\ due' = due \cup {o}
    /\ UNCHANGED <<objVars, spec, phase, callVars, clean, faults, edits>>

CrossNext ==
    \/ \E o \in Operators : OperatorStep(o)
    \/ \E o \in Operators : ApplyFails(o)
    \/ \E o \in Operators : SweepFails(o)
    \/ \E o \in Operators : CrashOperator(o)
    \/ \E o \in Operators : EditSpec(o)
    \/ Interfere
    \/ \E o \in Operators : Replay(o)

CrossSpec == CrossInit /\ [][CrossNext]_crossVars

(* controller-runtime runs each operator's worker, and its informer        *)
(* replays events.                                                         *)
FairCrossSpec ==
    CrossSpec /\ \A o \in Operators : WF_crossVars(OperatorStep(o)) /\ WF_crossVars(Replay(o))

----------------------------------------------------------------------------
(* The objects with the operator's label are those of s, as s wants them.  *)
Exact(o, s) ==
    \A g \in Grants :
        IF g \in DOMAIN s
        THEN roles[g] = [rules |-> s[g], label |-> LabelOf[o]] /\ bindings[g] = BindingFor(o)
        ELSE ~Mine(o, roles[g]) /\ ~Mine(o, bindings[g])

(* When Apply or Teardown has returned no error, and nobody has edited the *)
(* objects since it began, the pairs with its label are exactly the ones   *)
(* asked for, whatever earlier calls had left half done, and whatever      *)
(* other operators do meanwhile.                                           *)
SuccessIsExact ==
    \A o \in Operators : phase[o] = "idle" /\ clean[o] => Exact(o, want[o])

(* The rules that a RoleBinding of the operator's puts in force.           *)
InForce(o, g) ==
    IF bindings[g] = BindingFor(o) /\ roles[g] # NoObj THEN {roles[g].rules} ELSE {}

AskedRules(o, g) == IF g \in DOMAIN want[o] THEN {want[o][g]} ELSE {}

(* Whatever failed or crashed calls and sweeps have left half done, in no  *)
(* step of a later call does the operator gain rules that this call does   *)
(* not ask for, unless an admin has edited objects since it began: applyOne*)
(* settles the Role before the RoleBinding, and leftovers never join up.   *)
GainsOnlyAsked ==
    [][\A o \in Operators, g \in Grants :
          clean'[o] => InForce(o, g)' \subseteq InForce(o, g) \cup AskedRules(o, g)]_crossVars

(* A step of one operator, of a call or of its sweep, leaves the objects   *)
(* that carry another operator's label alone.                              *)
SparesOthers ==
    \A o, p \in Operators :
        o # p /\ (phase'[o] # phase[o] \/ doomed'[o] # doomed[o]) =>
            \A g \in Grants : /\ Mine(p, roles[g]) => roles'[g] = roles[g]
                              /\ Mine(p, bindings[g]) => bindings'[g] = bindings[g]

(* No call of one operator, and no sweep of its, changes an object that    *)
(* carries another operator's label: listOptions selects by owner label.   *)
OthersUntouched == [][SparesOthers]_crossVars

(* However calls fail and operators crash, the objects end up as the CRs   *)
(* ask for, and stay so although Apply is called again and again.          *)
EventuallyExact == \A o \in Operators : <>[]Exact(o, spec[o])

----------------------------------------------------------------------------
(* CrossNS implements OwnedGrants.                                         *)

Kinds == {"Role", "RoleBinding"}

ObjectAt(s) == IF s[1] = "Role" THEN roles[s[2]] ELSE bindings[s[2]]

AskedAt(o, s) ==
    IF s[2] \notin DOMAIN want[o] THEN NoObj
    ELSE IF s[1] = "Role" THEN RoleFor(o, s[2]) ELSE BindingFor(o)

ownedObjects ==
    [o \in Operators |-> [s \in Kinds \X Grants |->
        LET obj == ObjectAt(s) IN IF Mine(o, obj) THEN obj ELSE NoObj]]

askedObjects == [o \in Operators |-> [s \in Kinds \X Grants |-> AskedAt(o, s)]]

callStatus ==
    [o \in Operators |->
        IF phase[o] = "idle" THEN IF clean[o] THEN "exact" ELSE "returned"
        ELSE IF clean[o] THEN "working" ELSE "disturbed"]

Ledger == INSTANCE OwnedGrants WITH
    Holders <- Operators, Slots <- Kinds \X Grants,
    Objects <- RoleObjects \cup BindingObjects, Absent <- NoObj,
    owned <- ownedObjects, asked <- askedObjects, status <- callStatus

(* Apply, Teardown and their failures, seen from outside: a call changes   *)
(* only the caller's objects, one at a time, towards what is asked for,    *)
(* never one that is right already, and success means all of them are.     *)
KeepsLedger == Ledger!Spec
============================================================================
