--------------------------- MODULE CrossNS_proofs ---------------------------
(***************************************************************************)
(* Theorems about CrossNS, for any operators, pairs, rules and bounds.     *)
(***************************************************************************)
EXTENDS CrossNS, TLAPS

USE DEF Labels

(* Where a call stands: it applies a pair of its argument that is still to *)
(* do.                                                                     *)
CallsInv ==
    \A o \in Operators :
        /\ todo[o] \subseteq DOMAIN want[o]
        /\ phase[o] \in ApplyPhases => cur[o] \in todo[o]

(* CrossTypeOK alone is not inductive: what applyRole writes has its type  *)
(* only if the pair at work is one of the argument's.                      *)
CallInv == CrossTypeOK /\ CallsInv

(* Its parts: what the calls hold, and what they write.                    *)
CallOK ==
    /\ want \in Specs /\ due \in SUBSET Operators
    /\ phase \in [Operators -> {"idle"} \cup ApplyPhases \cup SweepPhases]
    /\ todo \in [Operators -> SUBSET Grants]
    /\ cur \in [Operators -> Grants \cup {None}]
    /\ held \in [Operators -> RoleObjects \cup BindingObjects \cup {NoObj}]
    /\ doomed \in [Operators -> SUBSET Grants]
    /\ errs \in [Operators -> BOOLEAN] /\ clean \in [Operators -> BOOLEAN]
    /\ CallsInv

ObjectsOK ==
    /\ roles \in [Grants -> RoleObjects \cup {NoObj}]
    /\ bindings \in [Grants -> BindingObjects \cup {NoObj}]

BudgetOK == spec \in Specs /\ faults \in 0..MaxFaults /\ edits \in 0..MaxEdits

LEMMA CallInvParts == CallInv <=> CallOK /\ ObjectsOK /\ BudgetOK
BY DEF CallInv, CrossTypeOK, CallOK, ObjectsOK, BudgetOK

LEMMA SpecsType ==
    ASSUME NEW s \in Specs, NEW o \in Operators
    PROVE  /\ s[o] \in RuleSets[o]
           /\ DOMAIN s[o] \subseteq Grants
           /\ \A g \in DOMAIN s[o] : s[o][g] \in Rules
<1>1. s[o] \in RuleSets[o]
  BY DEF Specs
<1>2. RuleSets[o] \subseteq UNION {[D -> Rules] : D \in SUBSET Grants}
  BY CrossNSAssumption DEF CrossNSAssumption
<1>3. PICK D \in SUBSET Grants : s[o] \in [D -> Rules]
  BY <1>1, <1>2
<1> QED  BY <1>1, <1>3

(* What the code writes has its type.                                      *)
LEMMA WritesType ==
    ASSUME CallInv, NEW o \in Operators
    PROVE  /\ phase[o] \in ApplyPhases => cur[o] \in Grants /\ RoleFor(o, cur[o]) \in RoleObjects
           /\ BindingFor(o) \in BindingObjects
<1>1. want \in Specs /\ todo[o] \subseteq DOMAIN want[o]
  BY DEF CallInv, CallsInv, CrossTypeOK
<1>2. DOMAIN want[o] \subseteq Grants /\ \A g \in DOMAIN want[o] : want[o][g] \in Rules
  BY <1>1, SpecsType
<1>3. phase[o] \in ApplyPhases => cur[o] \in DOMAIN want[o]
  BY <1>1 DEF CallInv, CallsInv
<1> QED  BY <1>2, <1>3 DEF RoleFor, BindingFor, RoleObjects, BindingObjects

LEMMA PutType ==
    ASSUME ObjectsOK, NEW g \in Grants, NEW x,
           \/ x \in RoleObjects \cup {NoObj} /\ PutRole(g, x)
           \/ x \in BindingObjects \cup {NoObj} /\ PutBinding(g, x)
    PROVE  ObjectsOK'
BY DEF ObjectsOK, PutRole, PutBinding

(* The ways a call goes on: at the next pair, at another call for the same *)
(* pair, with its sweep, or not at all.                                    *)
LEMMA NextGrantKeeps ==
    ASSUME CallInv, NEW o \in Operators, NEW rest,
           want' \in Specs, rest \subseteq DOMAIN want'[o],
           \A p \in Operators \ {o} : want'[p] = want[p],
           due' \in SUBSET Operators, clean' \in [Operators -> BOOLEAN],
           UNCHANGED <<doomed, errs>>,
           NextGrant(o, rest)
    PROVE  CallOK'
<1>1. rest \subseteq Grants
  BY SpecsType
<1>2. /\ todo' = [todo EXCEPT ![o] = rest]
      /\ held' = [held EXCEPT ![o] = NoObj]
  BY DEF NextGrant
<1>3. \/ rest = {} /\ cur' = [cur EXCEPT ![o] = None] /\ phase' = [phase EXCEPT ![o] = "listRoles"]
      \/ \E g \in rest : cur' = [cur EXCEPT ![o] = g] /\ phase' = [phase EXCEPT ![o] = "role"]
  BY DEF NextGrant, Goto
<1>4. /\ phase' \in [Operators -> {"idle"} \cup ApplyPhases \cup SweepPhases]
      /\ todo' \in [Operators -> SUBSET Grants]
      /\ cur' \in [Operators -> Grants \cup {None}]
      /\ held' \in [Operators -> RoleObjects \cup BindingObjects \cup {NoObj}]
  BY <1>1, <1>2, <1>3 DEF CallInv, CrossTypeOK, ApplyPhases, SweepPhases
<1>5. ASSUME NEW p \in Operators
      PROVE  /\ todo'[p] \subseteq DOMAIN want'[p]
             /\ phase'[p] \in ApplyPhases => cur'[p] \in todo'[p]
  <2>1. CASE p = o
    BY <1>2, <1>3, <2>1 DEF CallInv, CrossTypeOK, ApplyPhases, SweepPhases
  <2>2. CASE p # o
    BY <1>2, <1>3, <2>2 DEF CallInv, CallsInv, CrossTypeOK
  <2> QED  BY <2>1, <2>2
<1> QED  BY <1>4, <1>5 DEF CallInv, CrossTypeOK, CallOK, CallsInv

LEMMA AfterBindingKeeps ==
    ASSUME CallInv, NEW o \in Operators, AfterBinding(o)
    PROVE  CallOK'
<1>1. todo[o] \ {cur[o]} \subseteq DOMAIN want[o]
  BY DEF CallInv, CallsInv
<1>2. UNCHANGED <<due, want, doomed, errs, clean>> /\ NextGrant(o, todo[o] \ {cur[o]})
  BY DEF AfterBinding
<1> QED  BY <1>1, <1>2, NextGrantKeeps DEF CallInv, CrossTypeOK

LEMMA SamePairKeeps ==
    ASSUME CallInv, NEW o \in Operators, phase[o] \in ApplyPhases,
           NEW p \in ApplyPhases, Goto(o, p),
           NEW x \in RoleObjects \cup BindingObjects \cup {NoObj},
           held' = [held EXCEPT ![o] = x] \/ UNCHANGED held,
           UNCHANGED <<due, want, todo, cur, doomed, errs, clean>>
    PROVE  CallOK'
<1>1. CallsInv'
  BY DEF CallInv, CallsInv, CrossTypeOK, Goto
<1> QED  BY <1>1 DEF CallInv, CrossTypeOK, CallOK, Goto

LEMMA ReturnKeeps ==
    ASSUME CallInv, NEW o \in Operators, NEW ok \in BOOLEAN, Return(o, ok)
    PROVE  CallOK'
<1> USE DEF Return, Goto, CallInv, CrossTypeOK
<1>1. phase' = [phase EXCEPT ![o] = "idle"] /\ todo' = [todo EXCEPT ![o] = {}]
      /\ cur' = [cur EXCEPT ![o] = None] /\ want' = want
  OBVIOUS
<1>2. CallsInv'
  BY <1>1 DEF CallsInv, ApplyPhases
<1>3. due' \in SUBSET Operators
  OBVIOUS
<1>4. clean' \in [Operators -> BOOLEAN]
  OBVIOUS
<1> QED  BY <1>2, <1>3, <1>4 DEF CallOK

LEMMA ConflictKeeps ==
    ASSUME CallInv, NEW o \in Operators, phase[o] \in ApplyPhases,
           NEW obj, NEW again \in ApplyPhases, Conflict(o, obj, again)
    PROVE  CallOK' /\ UNCHANGED objVars
<1>1. CASE Return(o, FALSE)
  BY <1>1, ReturnKeeps DEF Conflict
<1>2. CASE ~Return(o, FALSE)
  BY <1>2, SamePairKeeps DEF Conflict
<1> QED  BY <1>1, <1>2

LEMMA SweepKeeps ==
    ASSUME CallInv, NEW o \in Operators, phase[o] \in SweepPhases,
           NEW left \in SUBSET Grants, NEW failed \in BOOLEAN, Sweep(o, left, failed)
    PROVE  CallOK'
<1>1. CASE EndSweep(o, failed)
  BY <1>1, ReturnKeeps DEF EndSweep
<1>2. CASE ~EndSweep(o, failed)
  <2>1. PICK p \in SweepPhases, left1 \in SUBSET Grants :
           /\ Goto(o, p)
           /\ doomed' = [doomed EXCEPT ![o] = left1]
           /\ errs' = [errs EXCEPT ![o] = failed]
           /\ UNCHANGED <<due, want, todo, cur, held, clean>>
    BY <1>2 DEF Sweep, SweepPhases
  <2>2. CallsInv'
    BY <2>1 DEF CallInv, CallsInv, CrossTypeOK, Goto, SweepPhases, ApplyPhases
  <2> QED  BY <2>1, <2>2 DEF CallInv, CrossTypeOK, CallOK, Goto
<1> QED  BY <1>1, <1>2

----------------------------------------------------------------------------
(* Every step keeps CallInv.                                               *)

LEMMA InitCallInv == CrossInit => CallInv
<1> SUFFICES ASSUME CrossInit PROVE CallInv
  OBVIOUS
<1>1. \A o \in Operators : Nothing \in RuleSets[o]
  BY CrossNSAssumption DEF CrossNSAssumption
<1>2. [o \in Operators |-> Nothing] \in Specs
  BY <1>1 DEF Specs
<1>3. spec \in Specs
  BY StartAssumption DEF StartAssumption, CrossInit
<1>4. 0 \in 0..MaxFaults /\ 0 \in 0..MaxEdits
  BY CrossNSAssumption DEF CrossNSAssumption
<1>5. CallsInv
  BY DEF CrossInit, CallsInv, ApplyPhases
<1> QED  BY <1>2, <1>3, <1>4, <1>5 DEF CrossInit, CallInv, CrossTypeOK

(* The operator at work writes objects of their type, and keeps its place. *)
LEMMA OperatorKeeps ==
    ASSUME CallInv, NEW o \in Operators, OperatorStep(o)
    PROVE  CallOK' /\ ObjectsOK'
<1> DEFINE g == cur[o]
<1>0. /\ phase[o] \in ApplyPhases => g \in Grants /\ RoleFor(o, g) \in RoleObjects
      /\ BindingFor(o) \in BindingObjects
      /\ ObjectsOK
  BY WritesType DEF CallInv, CrossTypeOK, ObjectsOK
<1>00. ASSUME UNCHANGED objVars PROVE ObjectsOK'
  BY <1>0, <1>00 DEF objVars, ObjectsOK
<1>1. CASE Apply(o)
  <2>1. want' \in Specs /\ want' = [want EXCEPT ![o] = spec[o]]
    BY <1>1 DEF Apply, CallInv, CrossTypeOK, Specs
  <2>2. /\ want'[o] = spec[o] /\ \A p \in Operators \ {o} : want'[p] = want[p]
        /\ due' \in SUBSET Operators /\ clean' \in [Operators -> BOOLEAN]
        /\ UNCHANGED <<doomed, errs>>
        /\ NextGrant(o, DOMAIN spec[o])
    BY <1>1, <2>1 DEF Apply, CallInv, CrossTypeOK, Specs
  <2>3. CallOK'
    BY <2>1, <2>2, NextGrantKeeps
  <2> QED  BY <1>1, <1>00, <2>3 DEF Apply
<1>2. CASE GetRole(o)
  <2>1. \E p \in {"createRole", "binding", "updateRole"} : Goto(o, p)
    BY <1>2 DEF GetRole
  <2>2. held' = [held EXCEPT ![o] = roles[g]] \/ UNCHANGED held
    BY <1>2 DEF GetRole
  <2>3. roles[g] \in RoleObjects \cup BindingObjects \cup {NoObj}
    BY <1>0, <1>2 DEF ObjectsOK, GetRole, Within, At, ApplyPhases
  <2>4. CallOK'
    BY <1>2, <2>1, <2>2, <2>3, SamePairKeeps DEF GetRole, Within, At, ApplyPhases
  <2> QED  BY <1>2, <1>00, <2>4 DEF GetRole
<1>3. CASE CreateRole(o)
  <2>1. CallOK'
    BY <1>3, SamePairKeeps DEF CreateRole, Within, At, ApplyPhases
  <2>2. ObjectsOK'
    BY <1>0, <1>00, <1>3, PutType DEF CreateRole, Within, At, ApplyPhases
  <2> QED  BY <2>1, <2>2
<1>4. CASE UpdateRole(o)
  <2>1. CASE roles[g] = held[o]
    <3>1. CallOK'
      BY <1>4, <2>1, SamePairKeeps DEF UpdateRole, At, ApplyPhases
    <3>2. ObjectsOK'
      BY <1>0, <1>4, <2>1, PutType DEF UpdateRole, At, ApplyPhases
    <3> QED  BY <3>1, <3>2
  <2>2. CASE roles[g] # held[o]
    BY <1>4, <1>00, <2>2, ConflictKeeps DEF UpdateRole, At, ApplyPhases
  <2> QED  BY <2>1, <2>2
<1>5. CASE GetBinding(o)
  <2>1. CASE AfterBinding(o)
    BY <1>5, <1>00, <2>1, AfterBindingKeeps DEF GetBinding
  <2>2. CASE ~AfterBinding(o)
    <3>1. /\ \E p \in {"createBinding", "deleteBinding", "updateBinding"} : Goto(o, p)
          /\ held' = [held EXCEPT ![o] = bindings[g]]
          /\ UNCHANGED <<due, want, todo, cur, doomed, errs, clean>>
          /\ phase[o] = "binding"
      BY <1>5, <2>2 DEF GetBinding, At
    <3>2. bindings[g] \in RoleObjects \cup BindingObjects \cup {NoObj}
      BY <1>0, <3>1 DEF ObjectsOK, ApplyPhases
    <3>3. CallOK'
      BY <3>1, <3>2, SamePairKeeps DEF ApplyPhases
    <3> QED  BY <1>5, <1>00, <3>3 DEF GetBinding
  <2> QED  BY <2>1, <2>2
<1>6. CASE DeleteBinding(o)
  <2>1. CallOK'
    BY <1>6, SamePairKeeps DEF DeleteBinding, Within, At, ApplyPhases
  <2>2. ObjectsOK'
    BY <1>0, <1>6, PutType DEF DeleteBinding, Within, At, ApplyPhases
  <2> QED  BY <2>1, <2>2
<1>7. CASE CreateBinding(o)
  <2>1. CallOK'
    BY <1>7, AfterBindingKeeps DEF CreateBinding
  <2>2. ObjectsOK'
    BY <1>0, <1>00, <1>7, PutType DEF CreateBinding, At, ApplyPhases
  <2> QED  BY <2>1, <2>2
<1>8. CASE UpdateBinding(o)
  <2>1. CASE bindings[g] = held[o]
    <3>1. CallOK'
      BY <1>8, <2>1, AfterBindingKeeps DEF UpdateBinding
    <3>2. ObjectsOK'
      BY <1>0, <1>8, <2>1, PutType DEF UpdateBinding, At, ApplyPhases
    <3> QED  BY <3>1, <3>2
  <2>2. CASE bindings[g] # held[o]
    BY <1>8, <1>00, <2>2, ConflictKeeps DEF UpdateBinding, At, ApplyPhases
  <2> QED  BY <2>1, <2>2
<1>9. errs[o] \in BOOLEAN /\ doomed[o] \in SUBSET Grants
  BY DEF CallInv, CrossTypeOK
<1>10. CASE ListRoles(o) \/ ListBindings(o)
  <2>1. Stale(o, roles) \in SUBSET Grants /\ Stale(o, bindings) \in SUBSET Grants
    BY DEF Stale
  <2>2. CallOK'
    BY <1>9, <1>10, <2>1, SweepKeeps DEF ListRoles, ListBindings, At, SweepPhases
  <2> QED  BY <1>00, <1>10, <2>2 DEF ListRoles, ListBindings
<1>11. CASE DeleteRoles(o) \/ DeleteBindings(o)
  <2>1. PICK h \in doomed[o] :
           /\ PutRole(h, NoObj) \/ PutBinding(h, NoObj)
           /\ Sweep(o, doomed[o] \ {h}, errs[o])
           /\ phase[o] \in SweepPhases
    BY <1>11 DEF DeleteRoles, DeleteBindings, At, SweepPhases
  <2>2. CallOK'
    BY <1>9, <2>1, SweepKeeps
  <2>3. ObjectsOK'
    BY <1>0, <1>9, <2>1, PutType
  <2> QED  BY <2>2, <2>3
<1> QED
  BY <1>1, <1>2, <1>3, <1>4, <1>5, <1>6, <1>7, <1>8, <1>10, <1>11 DEF OperatorStep

LEMMA FailureKeeps ==
    ASSUME CallInv, NEW o \in Operators, ApplyFails(o) \/ SweepFails(o) \/ CrashOperator(o)
    PROVE  CallOK' /\ ObjectsOK' /\ BudgetOK'
<1>1. Fault
  BY DEF ApplyFails, SweepFails, CrashOperator
<1>2. ObjectsOK' /\ BudgetOK'
  BY <1>1, CrossNSAssumption
     DEF Fault, CallInv, CrossTypeOK, ObjectsOK, BudgetOK, CrossNSAssumption, objVars
<1>3. CASE ApplyFails(o) \/ CrashOperator(o)
  BY <1>2, <1>3, ReturnKeeps DEF ApplyFails, CrashOperator
<1>4. CASE SweepFails(o)
  <2>1. doomed[o] \in SUBSET Grants
    BY DEF CallInv, CrossTypeOK
  <2>2. phase[o] \in SweepPhases /\ \E left \in SUBSET Grants : Sweep(o, left, TRUE)
    BY <1>4, <2>1 DEF SweepFails, SweepPhases
  <2>3. CallOK'
    BY <2>2, SweepKeeps
  <2> QED  BY <1>2, <2>3
<1> QED  BY <1>3, <1>4

(* The environment leaves the calls alone.                                 *)
LEMMA EnvironmentKeepsCalls ==
    ASSUME CallInv, Interfere \/ \E o \in Operators : EditSpec(o) \/ Replay(o)
    PROVE  CallOK' /\ ObjectsOK' /\ BudgetOK'
<1>0. CallOK /\ ObjectsOK /\ BudgetOK
  BY CallInvParts
<1>1. UNCHANGED <<phase, callVars>>
  BY DEF Interfere, EditSpec, Replay
<1>2. CASE \E o \in Operators : Replay(o)
  BY <1>0, <1>2 DEF Replay, CallOK, CallsInv, ObjectsOK, BudgetOK, callVars, objVars
<1>3. ASSUME edits < MaxEdits /\ edits' = edits + 1
      PROVE  edits' \in 0..MaxEdits
  BY <1>0, <1>3, CrossNSAssumption DEF BudgetOK, CrossNSAssumption
<1>4. CASE \E o \in Operators : EditSpec(o)
  <2>1. PICK o \in Operators : EditSpec(o)
    BY <1>4
  <2>2. PICK t \in RuleSets[o] : spec' = [spec EXCEPT ![o] = t]
    BY <2>1 DEF EditSpec
  <2>3. spec' \in Specs
    BY <1>0, <2>2 DEF BudgetOK, Specs
  <2>4. due' \in SUBSET Operators
    BY <1>0, <2>1 DEF EditSpec, CallOK
  <2>5. CallOK'
    BY <1>0, <1>1, <2>1, <2>4 DEF EditSpec, CallOK, CallsInv, callVars
  <2>6. ObjectsOK'
    BY <1>0, <2>1 DEF EditSpec, ObjectsOK, objVars
  <2> QED  BY <1>0, <1>3, <2>1, <2>3, <2>5, <2>6 DEF EditSpec, BudgetOK
<1>5. CASE Interfere
  <2>1. PICK g \in Grants :
           \/ \E r \in Edited(roles[g], RoleObjects) : PutRole(g, r)
           \/ \E b \in Edited(bindings[g], BindingObjects) : PutBinding(g, b)
    BY <1>5 DEF Interfere
  <2>2. /\ Edited(roles[g], RoleObjects) \subseteq RoleObjects \cup {NoObj}
        /\ Edited(bindings[g], BindingObjects) \subseteq BindingObjects \cup {NoObj}
    BY <1>0 DEF ObjectsOK, Edited, RoleObjects, BindingObjects
  <2>3. ObjectsOK'
    BY <1>0, <2>1, <2>2, PutType
  <2>4. clean' \in [Operators -> BOOLEAN]
    BY <1>5 DEF Interfere
  <2>5. CallOK'
    BY <1>0, <1>1, <1>5, <2>4 DEF Interfere, CallOK, CallsInv, callVars
  <2> QED  BY <1>0, <1>3, <1>5, <2>3, <2>5 DEF Interfere, BudgetOK
<1> QED  BY <1>2, <1>4, <1>5

LEMMA NextKeepsCallInv == CallInv /\ [CrossNext]_crossVars => CallInv'
<1> SUFFICES ASSUME CallInv, [CrossNext]_crossVars PROVE CallInv'
  OBVIOUS
<1>1. ASSUME NEW o \in Operators, OperatorStep(o)
      PROVE  CallInv'
  <2>1. UNCHANGED <<spec, faults, edits>>
    BY <1>1 DEF OperatorStep, Apply, GetRole, CreateRole, UpdateRole, GetBinding, CreateBinding,
                DeleteBinding, UpdateBinding, ListRoles, DeleteRoles, ListBindings,
                DeleteBindings, Within, At
  <2>2. BudgetOK'
    BY <2>1 DEF CallInv, CrossTypeOK, BudgetOK
  <2> QED  BY <1>1, <2>2, OperatorKeeps, CallInvParts DEF CallInv, CrossTypeOK, CallOK, ObjectsOK, BudgetOK
<1>2. ASSUME NEW o \in Operators, ApplyFails(o) \/ SweepFails(o) \/ CrashOperator(o)
      PROVE  CallInv'
  BY <1>2, FailureKeeps DEF CallInv, CrossTypeOK, CallOK, ObjectsOK, BudgetOK
<1>3. ASSUME Interfere \/ \E o \in Operators : EditSpec(o) \/ Replay(o)
      PROVE  CallInv'
  BY <1>3, EnvironmentKeepsCalls DEF CallInv, CrossTypeOK, CallOK, ObjectsOK, BudgetOK
<1>4. CASE UNCHANGED crossVars
  BY <1>4 DEF CallInv, CallsInv, CrossTypeOK, crossVars, callVars, objVars
<1> QED  BY <1>1, <1>2, <1>3, <1>4 DEF CrossNext

LEMMA CallInvariance == CrossSpec => []CallInv
BY InitCallInv, NextKeepsCallInv, PTL DEF CrossSpec

(* Every variable keeps its type: no call of Apply writes an object that   *)
(* is not a Role or RoleBinding of one of the operators' own.              *)
THEOREM CrossTypeCorrect == CrossSpec => []CrossTypeOK
<1>1. CallInv => CrossTypeOK
  BY DEF CallInv
<1> QED
  BY CallInvariance, <1>1, PTL

----------------------------------------------------------------------------
(* Isolation: owner labels of their own, and no pair that two operators    *)
(* may ask for.                                                            *)

Pairs(o) == UNION {DOMAIN s : s \in RuleSets[o]}

Isolated ==
    \A o, p \in Operators :
        o # p => LabelOf[o] # LabelOf[p] /\ Pairs(o) \cap Pairs(p) = {}

(* What carries an operator's label, and what its sweep is about to        *)
(* delete, is a pair of its own.                                           *)
Territory ==
    \A o \in Operators :
        /\ doomed[o] \subseteq Pairs(o)
        /\ \A g \in Grants : Mine(o, roles[g]) \/ Mine(o, bindings[g]) => g \in Pairs(o)

(* What one step may do to the objects: write or delete a pair of the      *)
(* operator at work, or, as an admin, leave or take off a label.           *)
WritesOwn(o) ==
    \A g \in Grants :
        /\ \/ roles'[g] = roles[g]
           \/ g \in Pairs(o) /\ (roles'[g] = NoObj \/ roles'[g] = RoleFor(o, g))
        /\ \/ bindings'[g] = bindings[g]
           \/ g \in Pairs(o) /\ (bindings'[g] = NoObj \/ bindings'[g] = BindingFor(o))

LEMMA WorkIsOwn ==
    ASSUME CallInv, NEW o \in Operators, phase[o] \in ApplyPhases
    PROVE  cur[o] \in Pairs(o)
<1>1. want \in Specs /\ cur[o] \in DOMAIN want[o]
  BY DEF CallInv, CallsInv, CrossTypeOK
<1> QED  BY <1>1, SpecsType DEF Pairs

LEMMA PutIsOwn ==
    ASSUME CallInv, NEW o \in Operators, NEW h \in Pairs(o),
           \/ PutRole(h, RoleFor(o, h)) \/ PutRole(h, NoObj)
           \/ PutBinding(h, BindingFor(o)) \/ PutBinding(h, NoObj)
           \/ UNCHANGED objVars
    PROVE  WritesOwn(o)
<1>1. CASE UNCHANGED objVars
  BY <1>1 DEF objVars, WritesOwn
<1>2. CASE PutRole(h, RoleFor(o, h)) \/ PutRole(h, NoObj)
  BY <1>2 DEF PutRole, WritesOwn, CallInv, CrossTypeOK
<1>3. CASE PutBinding(h, BindingFor(o)) \/ PutBinding(h, NoObj)
  BY <1>3 DEF PutBinding, WritesOwn, CallInv, CrossTypeOK
<1> QED  BY <1>1, <1>2, <1>3

LEMMA OperatorWritesOwn ==
    ASSUME CallInv, Territory, NEW o \in Operators, OperatorStep(o)
    PROVE  WritesOwn(o)
<1>1. CASE Apply(o) \/ GetRole(o) \/ GetBinding(o) \/ ListRoles(o) \/ ListBindings(o)
  BY <1>1 DEF Apply, GetRole, GetBinding, ListRoles, ListBindings, objVars, WritesOwn
<1>2. CASE \/ CreateRole(o) \/ UpdateRole(o)
           \/ CreateBinding(o) \/ UpdateBinding(o) \/ DeleteBinding(o)
  <2>1. phase[o] \in ApplyPhases
    BY <1>2 DEF CreateRole, UpdateRole, CreateBinding, UpdateBinding, DeleteBinding,
                Within, At, ApplyPhases
  <2>2. \/ PutRole(cur[o], RoleFor(o, cur[o])) \/ PutBinding(cur[o], BindingFor(o))
        \/ PutBinding(cur[o], NoObj) \/ UNCHANGED objVars
    BY <1>2 DEF CreateRole, UpdateRole, CreateBinding, UpdateBinding, DeleteBinding, Conflict
  <2> QED  BY <2>1, <2>2, WorkIsOwn, PutIsOwn
<1>3. CASE DeleteRoles(o) \/ DeleteBindings(o)
  BY <1>3, PutIsOwn DEF DeleteRoles, DeleteBindings, Territory
<1> QED  BY <1>1, <1>2, <1>3 DEF OperatorStep

(* A sweep's list grows only when it is made, of what carries the label.   *)
LEMMA SweepListsOwn ==
    ASSUME CallInv, Territory, NEW o \in Operators, NEW p \in Operators,
           OperatorStep(o) \/ SweepFails(o) \/ ApplyFails(o) \/ CrashOperator(o)
    PROVE  doomed'[p] \subseteq Pairs(p)
<1>0. doomed \in [Operators -> SUBSET Grants] /\ doomed[p] \subseteq Pairs(p)
  BY DEF CallInv, CrossTypeOK, Territory
<1>1. ASSUME NEW left \in SUBSET Pairs(o),
             doomed' = [doomed EXCEPT ![o] = left] \/ UNCHANGED doomed
      PROVE  doomed'[p] \subseteq Pairs(p)
  BY <1>0, <1>1
<1>2. ASSUME NEW ok, Return(o, ok) PROVE doomed'[p] \subseteq Pairs(p)
  <2>1. {} \in SUBSET Pairs(o) /\ doomed' = [doomed EXCEPT ![o] = {}]
    BY <1>2 DEF Return
  <2> QED  BY <1>1, <2>1
<1>3. ASSUME NEW left \in SUBSET Pairs(o), NEW failed, Sweep(o, left, failed)
      PROVE  doomed'[p] \subseteq Pairs(p)
  <2>1. CASE EndSweep(o, failed)
    BY <1>2, <2>1 DEF EndSweep
  <2>2. CASE ~EndSweep(o, failed)
    <3>1. \E l \in SUBSET Pairs(o) : doomed' = [doomed EXCEPT ![o] = l]
      BY <1>3, <2>2 DEF Sweep
    <3> QED  BY <1>1, <3>1
  <2> QED  BY <2>1, <2>2
<1>4. CASE ApplyFails(o) \/ CrashOperator(o)
  BY <1>2, <1>4 DEF ApplyFails, CrashOperator
<1>5. CASE \/ ListRoles(o) \/ ListBindings(o) \/ DeleteRoles(o) \/ DeleteBindings(o)
           \/ SweepFails(o)
  <2>1. Stale(o, roles) \subseteq Pairs(o) /\ Stale(o, bindings) \subseteq Pairs(o)
    BY DEF Territory, Stale
  <2>2. \A h : doomed[o] \ {h} \subseteq Pairs(o)
    BY DEF Territory
  <2> QED
    BY <1>3, <1>5, <2>1, <2>2
       DEF ListRoles, ListBindings, DeleteRoles, DeleteBindings, SweepFails
<1>6. CASE \/ Apply(o) \/ GetRole(o) \/ CreateRole(o) \/ UpdateRole(o)
           \/ GetBinding(o) \/ CreateBinding(o) \/ DeleteBinding(o) \/ UpdateBinding(o)
  <2>1. UNCHANGED doomed \/ Return(o, FALSE)
    BY <1>6 DEF Apply, GetRole, CreateRole, UpdateRole, GetBinding, CreateBinding,
                DeleteBinding, UpdateBinding, Within, Conflict, AfterBinding
  <2> QED  BY <1>0, <1>2, <2>1
<1> QED  BY <1>4, <1>5, <1>6 DEF OperatorStep

LEMMA NextKeepsTerritory ==
    ASSUME Isolated, CallInv, Territory, [CrossNext]_crossVars
    PROVE  Territory'
<1>0. roles \in [Grants -> RoleObjects \cup {NoObj}] /\ bindings \in [Grants -> BindingObjects \cup {NoObj}]
  BY DEF CallInv, CrossTypeOK
<1>1. ASSUME NEW o \in Operators, OperatorStep(o)
      PROVE  Territory'
  <2>1. WritesOwn(o)
    BY <1>1, OperatorWritesOwn
  <2>2. ASSUME NEW p \in Operators, NEW g \in Grants, Mine(p, roles'[g]) \/ Mine(p, bindings'[g])
        PROVE  g \in Pairs(p)
    <3>1. LabelOf[p] = LabelOf[o] => p = o
      BY DEF Isolated
    <3>2. RoleFor(o, g).label = LabelOf[o] /\ BindingFor(o).label = LabelOf[o]
      BY DEF RoleFor, BindingFor
    <3>3. CASE Mine(p, roles'[g])
      BY <2>1, <3>1, <3>2, <3>3 DEF WritesOwn, Mine, Territory
    <3>4. CASE Mine(p, bindings'[g])
      BY <2>1, <3>1, <3>2, <3>4 DEF WritesOwn, Mine, Territory
    <3> QED  BY <2>2, <3>3, <3>4
  <2>3. \A p \in Operators : doomed'[p] \subseteq Pairs(p)
    BY <1>1, SweepListsOwn
  <2> QED  BY <2>2, <2>3 DEF Territory, Mine
<1>2. ASSUME NEW o \in Operators, ApplyFails(o) \/ SweepFails(o) \/ CrashOperator(o)
      PROVE  Territory'
  <2>1. UNCHANGED objVars
    BY <1>2 DEF ApplyFails, SweepFails, CrashOperator, Fault
  <2>2. \A p \in Operators : doomed'[p] \subseteq Pairs(p)
    BY <1>2, SweepListsOwn
  <2> QED  BY <2>1, <2>2 DEF Territory, Mine, objVars
<1>3. CASE Interfere
  <2>1. PICK h \in Grants :
           \/ \E r \in Edited(roles[h], RoleObjects) : PutRole(h, r)
           \/ \E b \in Edited(bindings[h], BindingObjects) : PutBinding(h, b)
    BY <1>3 DEF Interfere
  <2>2. ASSUME NEW p \in Operators, NEW g \in Grants
        PROVE  /\ Mine(p, roles'[g]) => Mine(p, roles[g])
               /\ Mine(p, bindings'[g]) => Mine(p, bindings[g])
    <3>1. NoLabel # LabelOf[p]
      BY CrossNSAssumption DEF CrossNSAssumption
    <3>2. CASE \E r \in Edited(roles[h], RoleObjects) : PutRole(h, r)
      BY <1>0, <2>1, <3>1, <3>2, PlantedAssumption DEF Edited, PutRole, PutBinding, Mine, RoleObjects, PlantedAssumption
    <3>3. CASE \E b \in Edited(bindings[h], BindingObjects) : PutBinding(h, b)
      BY <1>0, <2>1, <3>1, <3>3, PlantedAssumption DEF Edited, PutRole, PutBinding, Mine, BindingObjects, PlantedAssumption
    <3> QED  BY <2>1, <3>2, <3>3
  <2>3. UNCHANGED doomed
    BY <1>3 DEF Interfere, callVars
  <2> QED  BY <2>2, <2>3 DEF Territory, Mine
<1>4. CASE UNCHANGED crossVars \/ \E o \in Operators : EditSpec(o) \/ Replay(o)
  <2>1. UNCHANGED <<roles, bindings, doomed>>
    BY <1>4 DEF EditSpec, Replay, crossVars, objVars, callVars
  <2> QED  BY <2>1 DEF Territory, Mine
<1> QED  BY <1>1, <1>2, <1>3, <1>4 DEF CrossNext

LEMMA InitTerritory == CrossInit => Territory
BY DEF CrossInit, Territory, Mine

LEMMA TerritoryInvariance ==
    ASSUME Isolated
    PROVE  CrossSpec => []Territory
<1>1. CallInv /\ Territory /\ [CrossNext]_crossVars => Territory'
  BY NextKeepsTerritory
<1> QED
  BY CallInvariance, InitTerritory, <1>1, PTL DEF CrossSpec

(* A call is a matter of one operator: what another one holds stays.       *)
Holds(o) == <<phase[o], want[o], todo[o], cur[o], doomed[o], errs[o], clean[o]>>

LEMMA OneOperatorMoves ==
    ASSUME CallInv, NEW q \in Operators,
           OperatorStep(q) \/ ApplyFails(q) \/ SweepFails(q) \/ CrashOperator(q),
           NEW o \in Operators \ {q}
    PROVE  UNCHANGED Holds(o)
<1> DEFINE Same(f, g) == f = g \/ \E x : f = [g EXCEPT ![q] = x]
<1> DEFINE MovesOne ==
      /\ Same(phase', phase) /\ Same(want', want) /\ Same(todo', todo) /\ Same(cur', cur)
      /\ Same(doomed', doomed) /\ Same(errs', errs) /\ Same(clean', clean)
<1>1. ASSUME NEW ok, Return(q, ok) PROVE MovesOne
  <2>1. clean' = [clean EXCEPT ![q] = clean[q] /\ ok]
    BY <1>1 DEF Return
  <2> QED  BY <1>1, <2>1 DEF Return, Goto
<1>2. ASSUME NEW left, NEW failed, Sweep(q, left, failed) PROVE MovesOne
  <2>1. CASE EndSweep(q, failed)
    BY <1>1, <2>1 DEF EndSweep
  <2>2. CASE ~EndSweep(q, failed)
    BY <1>2, <2>2 DEF Sweep, Goto
  <2> QED  BY <2>1, <2>2
<1>3. ASSUME NEW rest, NextGrant(q, rest)
      PROVE  Same(phase', phase) /\ Same(todo', todo) /\ Same(cur', cur)
  BY <1>3 DEF NextGrant, Goto
<1>4. ASSUME AfterBinding(q) PROVE MovesOne
  BY <1>3, <1>4 DEF AfterBinding
<1>5. ASSUME NEW obj, NEW again, Conflict(q, obj, again) PROVE MovesOne
  <2>1. CASE Return(q, FALSE)
    BY <1>1, <2>1
  <2>2. CASE ~Return(q, FALSE)
    BY <1>5, <2>2 DEF Conflict, Goto
  <2> QED  BY <2>1, <2>2
<1>6. MovesOne
  <2>1. CASE Apply(q)
    BY <1>3, <2>1 DEF Apply
  <2>2. CASE GetRole(q) \/ CreateRole(q) \/ DeleteBinding(q)
    BY <2>2 DEF GetRole, CreateRole, DeleteBinding, Within, Goto
  <2>3. CASE UpdateRole(q) \/ UpdateBinding(q)
    <3>1. CASE AfterBinding(q) \/ \E obj, again : Conflict(q, obj, again)
      BY <1>4, <1>5, <3>1
    <3>2. CASE ~(AfterBinding(q) \/ \E obj, again : Conflict(q, obj, again))
      BY <2>3, <3>2 DEF UpdateRole, UpdateBinding, Goto
    <3> QED  BY <3>1, <3>2
  <2>4. CASE GetBinding(q) \/ CreateBinding(q)
    <3>1. CASE AfterBinding(q)
      BY <1>4, <3>1
    <3>2. CASE ~AfterBinding(q)
      BY <2>4, <3>2 DEF GetBinding, CreateBinding, Goto
    <3> QED  BY <3>1, <3>2
  <2>5. CASE ListRoles(q) \/ ListBindings(q) \/ DeleteRoles(q) \/ DeleteBindings(q) \/ SweepFails(q)
    BY <1>2, <2>5 DEF ListRoles, ListBindings, DeleteRoles, DeleteBindings, SweepFails
  <2>6. CASE ApplyFails(q) \/ CrashOperator(q)
    BY <1>1, <2>6 DEF ApplyFails, CrashOperator
  <2> QED  BY <2>1, <2>2, <2>3, <2>4, <2>5, <2>6 DEF OperatorStep
<1>7. /\ phase \in [Operators -> {"idle"} \cup ApplyPhases \cup SweepPhases]
      /\ want \in Specs /\ todo \in [Operators -> SUBSET Grants]
      /\ cur \in [Operators -> Grants \cup {None}] /\ doomed \in [Operators -> SUBSET Grants]
      /\ errs \in [Operators -> BOOLEAN] /\ clean \in [Operators -> BOOLEAN]
  BY DEF CallInv, CrossTypeOK
<1>8. ASSUME NEW f, NEW g, DOMAIN g = Operators, Same(f, g) PROVE f[o] = g[o]
  BY <1>8
<1>9. DOMAIN want = Operators
  BY <1>7 DEF Specs
<1> HIDE DEF Same
<1> QED  BY <1>6, <1>7, <1>8, <1>9 DEF Holds

(* Operators with labels and pairs of their own never touch each other's   *)
(* objects, although the sweep of pkg/crossns lists across all namespaces, *)
(* deletes without a precondition, and may be cut short and resumed.       *)
THEOREM OwnerLabelsIsolate ==
    ASSUME Isolated
    PROVE  CrossSpec => OthersUntouched
<1>1. ASSUME CallInv, Territory, CrossNext,
             NEW o \in Operators, NEW p \in Operators, o # p,
             phase'[o] # phase[o] \/ doomed'[o] # doomed[o],
             NEW g \in Grants
      PROVE  /\ Mine(p, roles[g]) => roles'[g] = roles[g]
             /\ Mine(p, bindings[g]) => bindings'[g] = bindings[g]
  <2>1. ~UNCHANGED <<phase, doomed>>
    BY <1>1
  <2>2. \/ \E q \in Operators : OperatorStep(q)
        \/ \E q \in Operators : ApplyFails(q) \/ SweepFails(q) \/ CrashOperator(q)
    BY <1>1, <2>1 DEF CrossNext, Interfere, EditSpec, Replay, callVars
  <2>3. CASE \E q \in Operators : ApplyFails(q) \/ SweepFails(q) \/ CrashOperator(q)
    BY <2>3 DEF ApplyFails, SweepFails, CrashOperator, Fault, objVars
  <2>4. ASSUME NEW q \in Operators, OperatorStep(q)
        PROVE  /\ Mine(p, roles[g]) => roles'[g] = roles[g]
               /\ Mine(p, bindings[g]) => bindings'[g] = bindings[g]
    <3>1. CASE q = o
      <4>1. WritesOwn(o)
        BY <1>1, <2>4, <3>1, OperatorWritesOwn
      <4>2. g \notin Pairs(o) \/ g \notin Pairs(p)
        BY <1>1 DEF Isolated
      <4> QED  BY <1>1, <4>1, <4>2 DEF WritesOwn, Territory
    <3>2. CASE q # o
      BY <1>1, <2>4, <3>2, OneOperatorMoves DEF Holds
    <3> QED  BY <3>1, <3>2
  <2> QED  BY <2>2, <2>3, <2>4
<1>2. CallInv /\ Territory /\ [CrossNext]_crossVars => [SparesOthers]_crossVars
  BY <1>1 DEF SparesOthers
<1> QED
  BY CallInvariance, TerritoryInvariance, <1>2, PTL DEF CrossSpec, OthersUntouched

----------------------------------------------------------------------------
(* What a call that may still succeed has done so far.                     *)

(* The pairs that are no longer to do are as asked for.                    *)
Applied(o) ==
    \A g \in DOMAIN want[o] \ todo[o] : roles[g] = RoleFor(o, g) /\ bindings[g] = BindingFor(o)

(* The pair at work: what was not there to be read is not there, the Role  *)
(* is settled before the RoleBinding, and one to replace is not right.     *)
AtWork(o) ==
    /\ phase[o] = "createRole" => roles[cur[o]] = NoObj
    /\ phase[o] \in {"binding", "createBinding", "updateBinding", "deleteBinding"}
          => roles[cur[o]] = RoleFor(o, cur[o])
    /\ phase[o] = "createBinding" => bindings[cur[o]] = NoObj
    /\ phase[o] = "deleteBinding" => bindings[cur[o]] # BindingFor(o)

(* What is left over of each kind is on the sweep's list, then gone.       *)
Swept(o) ==
    ~errs[o] =>
       /\ phase[o] = "deleteRoles" => Stale(o, roles) \subseteq doomed[o]
       /\ phase[o] \in {"listBindings", "deleteBindings", "idle"} => Stale(o, roles) = {}
       /\ phase[o] = "deleteBindings" => Stale(o, bindings) \subseteq doomed[o]
       /\ phase[o] = "idle" => Stale(o, bindings) = {}

(* Nothing is to do past the last pair, nothing is listed or has failed    *)
(* before the sweep, and what is asked for is never on its list.           *)
InOrder(o) ==
    /\ phase[o] \notin ApplyPhases => todo[o] = {}
    /\ phase[o] \notin SweepPhases => errs[o] = FALSE /\ doomed[o] = {}
    /\ doomed[o] \cap DOMAIN want[o] = {}

Progress(o) == InOrder(o) /\ (clean[o] => Applied(o) /\ AtWork(o) /\ Swept(o))

LEMMA InitProgress == CrossInit => \A o \in Operators : Progress(o)
BY DEF CrossInit, Progress, InOrder

(* A call that has returned has nothing to do; after an error nothing is   *)
(* claimed.                                                                *)
LEMMA FailedProgress ==
    ASSUME CallInv, NEW o \in Operators, Return(o, FALSE)
    PROVE  Progress(o)'
BY DEF CallInv, CrossTypeOK, Return, Goto, Progress, InOrder, ApplyPhases, SweepPhases

(* Another operator writes pairs that are not among those of o.            *)
LEMMA OthersKeepProgress ==
    ASSUME Isolated, CallInv, Territory, NEW o \in Operators, NEW q \in Operators \ {o},
           Progress(o),
           OperatorStep(q) \/ ApplyFails(q) \/ SweepFails(q) \/ CrashOperator(q)
    PROVE  Progress(o)'
<1>1. UNCHANGED <<phase[o], want[o], todo[o], cur[o], doomed[o], errs[o], clean[o]>>
  BY OneOperatorMoves DEF Holds
<1>2. \A g : RoleFor(o, g)' = RoleFor(o, g) /\ BindingFor(o)' = BindingFor(o)
  BY <1>1 DEF RoleFor, BindingFor
<1>3. WritesOwn(q)
  <2>1. CASE OperatorStep(q)
    BY <2>1, OperatorWritesOwn
  <2>2. CASE ~OperatorStep(q)
    BY <2>2 DEF ApplyFails, SweepFails, CrashOperator, Fault, objVars, WritesOwn
  <2> QED  BY <2>1, <2>2
<1>4. Pairs(q) \cap Pairs(o) = {} /\ LabelOf[q] # LabelOf[o]
  BY DEF Isolated
<1>5. DOMAIN want[o] \subseteq Pairs(o) /\ DOMAIN want[o] \subseteq Grants
  BY SpecsType DEF CallInv, CrossTypeOK, Pairs
<1>6. \A g \in Grants \cap Pairs(o) : roles'[g] = roles[g] /\ bindings'[g] = bindings[g]
  BY <1>3, <1>4 DEF WritesOwn
<1>7. ASSUME NEW g \in Grants
      PROVE  /\ Mine(o, roles'[g]) => Mine(o, roles[g])
             /\ Mine(o, bindings'[g]) => Mine(o, bindings[g])
  <2>1. RoleFor(q, g).label = LabelOf[q] /\ BindingFor(q).label = LabelOf[q]
    BY DEF RoleFor, BindingFor
  <2> QED  BY <1>3, <1>4, <2>1 DEF WritesOwn, Mine
<1>8. Stale(o, roles)' \subseteq Stale(o, roles) /\ Stale(o, bindings)' \subseteq Stale(o, bindings)
  BY <1>1, <1>7 DEF Stale, Mine
<1>9. Applied(o) => Applied(o)'
  BY <1>1, <1>2, <1>5, <1>6 DEF Applied
<1>10. phase[o] \in ApplyPhases => cur[o] \in Grants \cap Pairs(o)
  BY WritesType, WorkIsOwn
<1>11. AtWork(o) => AtWork(o)'
  BY <1>1, <1>2, <1>6, <1>10 DEF AtWork, ApplyPhases
<1>12. Swept(o) => Swept(o)'
  BY <1>1, <1>8 DEF Swept
<1> QED  BY <1>1, <1>9, <1>11, <1>12 DEF Progress, InOrder

(* The ways a call goes on, once more.                                     *)
LEMMA NextGrantProgress ==
    ASSUME CallInv, NEW o \in Operators, InOrder(o), NEW rest, NextGrant(o, rest),
           UNCHANGED <<doomed, errs>>, phase[o] \notin SweepPhases,
           clean'[o] => Applied(o)'
    PROVE  Progress(o)'
<1>1. /\ phase'[o] \in {"listRoles", "role"}
      /\ phase'[o] = "listRoles" => todo'[o] = {}
  BY DEF NextGrant, Goto, CallInv, CrossTypeOK
<1>2. InOrder(o)'
  BY <1>1 DEF InOrder, ApplyPhases
<1>3. AtWork(o)' /\ Swept(o)'
  BY <1>1 DEF AtWork, Swept
<1> QED  BY <1>2, <1>3 DEF Progress

LEMMA SamePairProgress ==
    ASSUME CallInv, NEW o \in Operators, Progress(o), phase[o] \in ApplyPhases,
           phase'[o] \in ApplyPhases, UNCHANGED <<want, todo, cur, doomed, errs, clean>>,
           \A g \in Grants \ {cur[o]} : roles'[g] = roles[g] /\ bindings'[g] = bindings[g],
           clean[o] => AtWork(o)'
    PROVE  Progress(o)'
<1>1. cur[o] \in todo[o] /\ DOMAIN want[o] \subseteq Grants
  BY SpecsType DEF CallInv, CallsInv, CrossTypeOK
<1>2. Applied(o) => Applied(o)'
  BY <1>1 DEF Applied, RoleFor, BindingFor
<1>3. InOrder(o)' /\ Swept(o)'
  BY DEF Progress, InOrder, Swept, ApplyPhases, SweepPhases
<1> QED  BY <1>2, <1>3 DEF Progress

LEMMA AfterBindingProgress ==
    ASSUME CallInv, NEW o \in Operators, Progress(o), phase[o] \in ApplyPhases, AfterBinding(o),
           UNCHANGED roles, \A g \in Grants \ {cur[o]} : bindings'[g] = bindings[g],
           clean[o] => roles[cur[o]] = RoleFor(o, cur[o]) /\ bindings'[cur[o]] = BindingFor(o)
    PROVE  Progress(o)'
<1>1. DOMAIN want[o] \subseteq Grants
  BY SpecsType DEF CallInv, CrossTypeOK
<1>2. todo'[o] = todo[o] \ {cur[o]} /\ UNCHANGED <<want, clean>>
  BY DEF AfterBinding, NextGrant, CallInv, CrossTypeOK
<1>3. clean'[o] => Applied(o)'
  BY <1>1, <1>2 DEF Progress, Applied, RoleFor, BindingFor
<1>4. phase[o] \notin SweepPhases
  BY DEF ApplyPhases, SweepPhases
<1> QED  BY <1>3, <1>4, NextGrantProgress DEF AfterBinding, Progress

LEMMA ConflictProgress ==
    ASSUME CallInv, NEW o \in Operators, Progress(o), phase[o] \in ApplyPhases, NEW obj,
           NEW again \in {"role", "binding"}, Conflict(o, obj, again),
           again = "binding" => phase[o] = "updateBinding"
    PROVE  Progress(o)'
<1>1. CASE Return(o, FALSE)
  BY <1>1, FailedProgress
<1>2. CASE ~Return(o, FALSE)
  <2>1. /\ UNCHANGED <<roles, bindings, want, todo, cur, doomed, errs, clean>>
        /\ phase'[o] = again
    BY <1>2 DEF Conflict, objVars, Goto, CallInv, CrossTypeOK
  <2>2. AtWork(o) => AtWork(o)'
    BY <2>1 DEF AtWork, RoleFor, BindingFor
  <2>3. phase'[o] \in ApplyPhases
    BY <2>1 DEF ApplyPhases
  <2> QED  BY <2>1, <2>2, <2>3, SamePairProgress DEF Progress
<1> QED  BY <1>1, <1>2

LEMMA SweepProgress ==
    ASSUME CallInv, NEW o \in Operators, Progress(o), phase[o] \in SweepPhases,
           NEW left \in SUBSET Grants, left \cap DOMAIN want[o] = {},
           NEW failed \in BOOLEAN, Sweep(o, left, failed),
           \A g \in DOMAIN want[o] : roles'[g] = roles[g] /\ bindings'[g] = bindings[g],
           clean[o] /\ ~failed =>
              /\ phase[o] \in {"listRoles", "deleteRoles"} => Stale(o, roles)' \subseteq left
              /\ phase[o] \in {"listBindings", "deleteBindings"} =>
                    Stale(o, roles)' = {} /\ Stale(o, bindings)' \subseteq left
    PROVE  Progress(o)'
<1>1. todo[o] = {} /\ UNCHANGED want
  BY DEF Progress, InOrder, ApplyPhases, SweepPhases, Sweep, EndSweep, Return
<1>2. ASSUME UNCHANGED todo, clean'[o] => clean[o] PROVE clean'[o] => Applied(o)'
  BY <1>1, <1>2 DEF Progress, Applied, RoleFor, BindingFor
<1>3. CASE EndSweep(o, failed)
  <2>1. CASE failed
    BY <1>3, <2>1, FailedProgress DEF EndSweep
  <2>2. CASE ~failed /\ left = {} /\ phase[o] \in {"listBindings", "deleteBindings"}
    <3>1. /\ phase'[o] = "idle" /\ todo'[o] = {} /\ doomed'[o] = {} /\ errs'[o] = FALSE
          /\ clean'[o] => clean[o]
      BY <1>3, <2>2 DEF EndSweep, Return, Goto, CallInv, CrossTypeOK
    <3>2. clean'[o] => Applied(o)'
      BY <1>1, <3>1 DEF Progress, Applied, RoleFor, BindingFor
    <3>3. clean'[o] => Swept(o)'
      BY <2>2, <3>1 DEF Swept
    <3>4. InOrder(o)' /\ AtWork(o)'
      BY <3>1 DEF InOrder, AtWork, SweepPhases
    <3> QED  BY <3>2, <3>3, <3>4 DEF Progress
  <2>3. CASE ~failed /\ ~(left = {} /\ phase[o] \in {"listBindings", "deleteBindings"})
    BY <1>3, <2>3 DEF Sweep, EndSweep, Return, Goto, CallInv, CrossTypeOK, SweepPhases
  <2> QED  BY <2>1, <2>2, <2>3
<1>4. CASE ~EndSweep(o, failed)
  <2>1. /\ UNCHANGED <<todo, clean>>
        /\ doomed'[o] = left /\ errs'[o] = failed
        /\ \/ phase'[o] = "deleteRoles" /\ phase[o] \in {"listRoles", "deleteRoles"}
           \/ phase'[o] = "deleteBindings" /\ phase[o] \in {"listBindings", "deleteBindings"}
           \/ phase'[o] = "listBindings" /\ phase[o] \in {"listRoles", "deleteRoles"} /\ left = {}
    BY <1>4 DEF Sweep, Goto, CallInv, CrossTypeOK, SweepPhases
  <2>2. clean'[o] => Applied(o)'
    BY <1>2, <2>1
  <2>3. InOrder(o)' /\ AtWork(o)'
    BY <1>1, <2>1 DEF InOrder, AtWork, SweepPhases
  <2>4. clean[o] => Swept(o)'
    BY <2>1 DEF Swept
  <2> QED  BY <2>1, <2>2, <2>3, <2>4 DEF Progress
<1> QED  BY <1>3, <1>4

LEMMA OperatorKeepsProgress ==
    ASSUME CallInv, NEW o \in Operators, Progress(o), OperatorStep(o)
    PROVE  Progress(o)'
<1> DEFINE g == cur[o]
<1>0. /\ phase \in [Operators -> {"idle"} \cup ApplyPhases \cup SweepPhases]
      /\ roles \in [Grants -> RoleObjects \cup {NoObj}]
      /\ bindings \in [Grants -> BindingObjects \cup {NoObj}]
      /\ phase[o] \in ApplyPhases => g \in Grants /\ RoleFor(o, g) \in RoleObjects
      /\ BindingFor(o) \in BindingObjects
  BY WritesType DEF CallInv, CrossTypeOK
<1>00. ASSUME UNCHANGED objVars
       PROVE  \A h : roles'[h] = roles[h] /\ bindings'[h] = bindings[h]
  BY <1>00 DEF objVars
<1>1. CASE Apply(o)
  <2>1. want'[o] = spec[o] /\ todo'[o] = DOMAIN spec[o]
    BY <1>1 DEF Apply, NextGrant, CallInv, CrossTypeOK, Specs
  <2>2. Applied(o)'
    BY <2>1 DEF Applied
  <2>3. phase[o] = "idle"
    BY <1>1 DEF Apply
  <2>4. InOrder(o) /\ phase[o] \notin SweepPhases /\ UNCHANGED <<doomed, errs>>
    BY <1>1, <2>3 DEF Apply, Progress, SweepPhases
  <2> QED  BY <1>1, <2>2, <2>4, NextGrantProgress DEF Apply
<1>2. CASE GetRole(o)
  <2>1. /\ phase[o] = "role" /\ UNCHANGED <<objVars, want, todo, cur, doomed, errs, clean>>
        /\ \/ phase'[o] = "createRole" /\ roles[g] = NoObj
           \/ phase'[o] = "binding" /\ roles[g] = RoleFor(o, g)
           \/ phase'[o] = "updateRole"
    BY <1>0, <1>2 DEF GetRole, Within, At, Goto
  <2>2. AtWork(o)'
    BY <2>1 DEF AtWork, RoleFor, BindingFor, objVars
  <2> QED  BY <1>00, <2>1, <2>2, SamePairProgress DEF ApplyPhases
<1>3. CASE CreateRole(o)
  <2>1. /\ phase[o] = "createRole" /\ phase'[o] = "binding"
        /\ UNCHANGED <<want, todo, cur, doomed, errs, clean>>
    BY <1>0, <1>3 DEF CreateRole, Within, At, Goto
  <2>2. clean[o] => roles'[g] = RoleFor(o, g)
    BY <1>0, <1>3, <2>1 DEF Progress, AtWork, CreateRole, PutRole, ApplyPhases
  <2>3. clean[o] => AtWork(o)'
    BY <2>1, <2>2 DEF AtWork, RoleFor, BindingFor
  <2>4. \A h \in Grants \ {g} : roles'[h] = roles[h] /\ bindings'[h] = bindings[h]
    BY <1>0, <1>3 DEF CreateRole, PutRole, objVars
  <2> QED  BY <2>1, <2>3, <2>4, SamePairProgress DEF ApplyPhases
<1>4. CASE UpdateRole(o)
  <2>1. CASE roles[g] # held[o]
    BY <1>4, <2>1, ConflictProgress DEF UpdateRole, At, ApplyPhases
  <2>2. CASE roles[g] = held[o]
    <3>1. /\ phase[o] = "updateRole" /\ phase'[o] = "binding" /\ PutRole(g, RoleFor(o, g))
          /\ UNCHANGED <<want, todo, cur, doomed, errs, clean>>
      BY <1>0, <1>4, <2>2 DEF UpdateRole, At, Goto
    <3>2. AtWork(o)'
      BY <1>0, <3>1 DEF AtWork, RoleFor, BindingFor, PutRole, ApplyPhases
    <3>3. \A h \in Grants \ {g} : roles'[h] = roles[h] /\ bindings'[h] = bindings[h]
      BY <1>0, <3>1 DEF PutRole
    <3> QED  BY <3>1, <3>2, <3>3, SamePairProgress DEF ApplyPhases
  <2> QED  BY <2>1, <2>2
<1>5. CASE GetBinding(o)
  <2>1. phase[o] = "binding" /\ UNCHANGED objVars
    BY <1>5 DEF GetBinding, At
  <2>2. CASE bindings[g] = BindingFor(o) /\ AfterBinding(o)
    <3>1. clean[o] => roles[g] = RoleFor(o, g) /\ bindings'[g] = BindingFor(o)
      BY <2>1, <2>2 DEF Progress, AtWork, objVars
    <3> QED  BY <1>00, <2>1, <2>2, <3>1, AfterBindingProgress DEF ApplyPhases, objVars
  <2>3. CASE ~(bindings[g] = BindingFor(o) /\ AfterBinding(o))
    <3>1. /\ phase'[o] \in {"createBinding", "deleteBinding", "updateBinding"}
          /\ phase'[o] = "createBinding" => bindings[g] = NoObj
          /\ phase'[o] = "deleteBinding" => bindings[g] # BindingFor(o)
          /\ UNCHANGED <<want, todo, cur, doomed, errs, clean>>
      BY <1>0, <1>5, <2>3 DEF GetBinding, Goto
    <3>2. clean[o] => AtWork(o)'
      BY <2>1, <3>1 DEF Progress, AtWork, RoleFor, BindingFor, objVars
    <3> QED  BY <1>00, <2>1, <3>1, <3>2, SamePairProgress DEF ApplyPhases
  <2> QED  BY <2>2, <2>3
<1>6. CASE DeleteBinding(o)
  <2>1. /\ phase[o] = "deleteBinding" /\ phase'[o] = "createBinding" /\ PutBinding(g, NoObj)
        /\ UNCHANGED <<want, todo, cur, doomed, errs, clean>>
    BY <1>0, <1>6 DEF DeleteBinding, Within, At, Goto
  <2>2. clean[o] => AtWork(o)'
    BY <1>0, <2>1 DEF Progress, AtWork, RoleFor, BindingFor, PutBinding, ApplyPhases
  <2>3. \A h \in Grants \ {g} : roles'[h] = roles[h] /\ bindings'[h] = bindings[h]
    BY <1>0, <2>1 DEF PutBinding
  <2> QED  BY <2>1, <2>2, <2>3, SamePairProgress DEF ApplyPhases
<1>7. CASE CreateBinding(o)
  <2>1. phase[o] = "createBinding" /\ AfterBinding(o)
    BY <1>7 DEF CreateBinding, At
  <2>2. /\ UNCHANGED roles
        /\ \A h \in Grants \ {g} : bindings'[h] = bindings[h]
        /\ clean[o] => roles[g] = RoleFor(o, g) /\ bindings'[g] = BindingFor(o)
    BY <1>0, <1>7, <2>1 DEF Progress, AtWork, CreateBinding, PutBinding, objVars, ApplyPhases
  <2> QED  BY <2>1, <2>2, AfterBindingProgress DEF ApplyPhases
<1>8. CASE UpdateBinding(o)
  <2>1. CASE bindings[g] # held[o]
    BY <1>8, <2>1, ConflictProgress DEF UpdateBinding, At, ApplyPhases
  <2>2. CASE bindings[g] = held[o]
    <3>1. phase[o] = "updateBinding" /\ AfterBinding(o) /\ PutBinding(g, BindingFor(o))
      BY <1>8, <2>2 DEF UpdateBinding, At
    <3>2. /\ UNCHANGED roles
          /\ \A h \in Grants \ {g} : bindings'[h] = bindings[h]
          /\ clean[o] => roles[g] = RoleFor(o, g) /\ bindings'[g] = BindingFor(o)
      BY <1>0, <3>1 DEF Progress, AtWork, PutBinding, ApplyPhases
    <3> QED  BY <3>1, <3>2, AfterBindingProgress DEF ApplyPhases
  <2> QED  BY <2>1, <2>2
<1>9. /\ errs[o] \in BOOLEAN /\ doomed[o] \in SUBSET Grants
      /\ doomed[o] \cap DOMAIN want[o] = {} /\ DOMAIN want[o] \subseteq Grants
      /\ clean[o] => Swept(o)
  BY SpecsType DEF CallInv, CrossTypeOK, Progress, InOrder
<1>10. CASE ListRoles(o) \/ ListBindings(o)
  <2> DEFINE objs == IF phase[o] = "listRoles" THEN roles ELSE bindings
             left == Stale(o, objs)
  <2>1. /\ phase[o] \in {"listRoles", "listBindings"}
        /\ UNCHANGED objVars /\ Sweep(o, left, errs[o])
    BY <1>10 DEF ListRoles, ListBindings, At
  <2>2. UNCHANGED want
    BY <2>1 DEF Sweep, EndSweep, Return
  <2>3. left \in SUBSET Grants /\ left \cap DOMAIN want[o] = {}
    BY DEF Stale
  <2>4. UNCHANGED <<roles, bindings>>
    BY <2>1 DEF objVars
  <2>5. Stale(o, roles)' = Stale(o, roles) /\ Stale(o, bindings)' = Stale(o, bindings)
    BY <2>2, <2>4 DEF Stale, Mine
  <2>6. clean[o] /\ ~errs[o] =>
          /\ phase[o] \in {"listRoles", "deleteRoles"} => Stale(o, roles)' \subseteq left
          /\ phase[o] \in {"listBindings", "deleteBindings"} =>
                Stale(o, roles)' = {} /\ Stale(o, bindings)' \subseteq left
    BY <1>9, <2>1, <2>5 DEF Swept
  <2> HIDE DEF left
  <2> QED  BY <1>9, <2>1, <2>3, <2>4, <2>6, SweepProgress DEF SweepPhases
<1>11. CASE DeleteRoles(o) \/ DeleteBindings(o)
  <2>1. PICK h \in doomed[o] :
           /\ \/ phase[o] = "deleteRoles" /\ PutRole(h, NoObj)
              \/ phase[o] = "deleteBindings" /\ PutBinding(h, NoObj)
           /\ Sweep(o, doomed[o] \ {h}, errs[o])
    BY <1>11 DEF DeleteRoles, DeleteBindings, At
  <2>2. UNCHANGED want
    BY <2>1 DEF Sweep, EndSweep, Return
  <2>3. h \in Grants /\ h \notin DOMAIN want[o]
    BY <1>9, <2>1
  <2>4. \A x \in Grants \ {h} : roles'[x] = roles[x] /\ bindings'[x] = bindings[x]
    BY <1>0, <2>1 DEF PutRole, PutBinding
  <2>5. CASE phase[o] = "deleteRoles"
    <3>1. roles'[h] = NoObj
      BY <1>0, <2>1, <2>3, <2>5 DEF PutRole
    <3>2. Stale(o, roles)' \subseteq Stale(o, roles) \ {h}
      BY <2>2, <2>4, <3>1 DEF Stale, Mine
    <3> QED  BY <1>9, <2>1, <2>3, <2>4, <2>5, <3>2, SweepProgress DEF Swept, SweepPhases
  <2>6. CASE phase[o] = "deleteBindings"
    <3>1. bindings'[h] = NoObj /\ UNCHANGED roles
      BY <1>0, <2>1, <2>3, <2>6 DEF PutBinding
    <3>2. Stale(o, bindings)' \subseteq Stale(o, bindings) \ {h}
      BY <2>2, <2>4, <3>1 DEF Stale, Mine
    <3>3. Stale(o, roles)' = Stale(o, roles)
      BY <2>2, <3>1 DEF Stale, Mine
    <3> QED  BY <1>9, <2>1, <2>3, <2>4, <2>6, <3>2, <3>3, SweepProgress DEF Swept, SweepPhases
  <2> QED  BY <2>1, <2>5, <2>6
<1> QED
  BY <1>1, <1>2, <1>3, <1>4, <1>5, <1>6, <1>7, <1>8, <1>10, <1>11 DEF OperatorStep

LEMMA FailureKeepsProgress ==
    ASSUME CallInv, NEW o \in Operators, Progress(o),
           ApplyFails(o) \/ SweepFails(o) \/ CrashOperator(o)
    PROVE  Progress(o)'
<1>1. CASE ApplyFails(o) \/ CrashOperator(o)
  BY <1>1, FailedProgress DEF ApplyFails, CrashOperator
<1>2. CASE SweepFails(o)
  <2>1. PICK left \in SUBSET doomed[o] : phase[o] \in SweepPhases /\ Sweep(o, left, TRUE)
    BY <1>2 DEF SweepFails, SweepPhases
  <2>2. left \in SUBSET Grants /\ left \cap DOMAIN want[o] = {}
    BY DEF CallInv, CrossTypeOK, Progress, InOrder
  <2>3. UNCHANGED <<roles, bindings>>
    BY <1>2 DEF SweepFails, Fault, objVars
  <2> QED  BY <2>1, <2>2, <2>3, SweepProgress
<1> QED  BY <1>1, <1>2

LEMMA NextKeepsProgress ==
    ASSUME Isolated, CallInv, Territory, \A o \in Operators : Progress(o), [CrossNext]_crossVars
    PROVE  (\A o \in Operators : Progress(o))'
<1> SUFFICES ASSUME NEW o \in Operators PROVE Progress(o)'
  OBVIOUS
<1>1. ASSUME NEW q \in Operators,
             OperatorStep(q) \/ ApplyFails(q) \/ SweepFails(q) \/ CrashOperator(q)
      PROVE  Progress(o)'
  <2>1. CASE q = o
    BY <1>1, <2>1, OperatorKeepsProgress, FailureKeepsProgress
  <2>2. CASE q # o
    BY <1>1, <2>2, OthersKeepProgress
  <2> QED  BY <2>1, <2>2
<1>2. CASE Interfere
  <2>1. ~clean'[o] /\ UNCHANGED <<phase, callVars>>
    BY <1>2 DEF Interfere
  <2> QED  BY <2>1 DEF Progress, InOrder, callVars
<1>3. CASE UNCHANGED crossVars \/ \E q \in Operators : EditSpec(q) \/ Replay(q)
  <2>1. UNCHANGED <<roles, bindings, phase, want, todo, cur, doomed, errs, clean>>
    BY <1>3 DEF EditSpec, Replay, crossVars, objVars, callVars
  <2> QED
    BY <2>1 DEF Progress, InOrder, Applied, AtWork, Swept, RoleFor, BindingFor, Stale, Mine
<1> QED  BY <1>1, <1>2, <1>3 DEF CrossNext

(* With labels and pairs of their own, an Apply or Teardown that returns   *)
(* no error has left exactly the pairs asked for, for any number of        *)
(* operators and pairs: whatever earlier calls left half done, and however *)
(* the others' calls come between its own.                                 *)
THEOREM SuccessMeansExact ==
    ASSUME Isolated
    PROVE  CrossSpec => []SuccessIsExact
<1> DEFINE AllProgress == \A o \in Operators : Progress(o)
<1>1. CrossInit => AllProgress
  BY InitProgress
<1>2. CallInv /\ Territory /\ AllProgress /\ [CrossNext]_crossVars => AllProgress'
  BY NextKeepsProgress
<1>3. AllProgress => SuccessIsExact
  <2> SUFFICES ASSUME NEW o \in Operators, Progress(o), phase[o] = "idle", clean[o]
               PROVE  Exact(o, want[o])
    BY DEF SuccessIsExact
  <2>1. todo[o] = {} /\ Stale(o, roles) = {} /\ Stale(o, bindings) = {}
    BY DEF Progress, InOrder, Swept, ApplyPhases, SweepPhases
  <2> QED  BY <2>1 DEF Progress, Applied, Exact, Stale, RoleFor
<1> HIDE DEF AllProgress
<1> QED
  BY CallInvariance, TerritoryInvariance, <1>1, <1>2, <1>3, PTL DEF CrossSpec

(* What a step within a call returns.                                      *)
LEMMA StepReturns ==
    ASSUME CallInv, NEW q \in Operators, phase[q] # "idle",
           OperatorStep(q) \/ ApplyFails(q) \/ SweepFails(q) \/ CrashOperator(q)
    PROVE  /\ UNCHANGED want
           /\ clean'[q] => clean[q]
           /\ phase'[q] # "idle" => clean'[q] = clean[q]
<1> DEFINE Returns == /\ UNCHANGED want
                      /\ clean'[q] => clean[q]
                      /\ phase'[q] # "idle" => clean'[q] = clean[q]
<1>1. ASSUME NEW ok \in BOOLEAN, Return(q, ok) PROVE Returns
  BY <1>1 DEF Return, Goto, CallInv, CrossTypeOK
<1>2. CASE UNCHANGED <<want, clean>>
  BY <1>2
<1>3. ASSUME NEW left, NEW failed \in BOOLEAN, Sweep(q, left, failed) PROVE Returns
  BY <1>1, <1>2, <1>3 DEF Sweep, EndSweep
<1>4. ASSUME NEW obj, NEW again, Conflict(q, obj, again) PROVE Returns
  BY <1>1, <1>2, <1>4 DEF Conflict
<1>5. CASE OperatorStep(q)
  <2>1. errs[q] \in BOOLEAN
    BY DEF CallInv, CrossTypeOK
  <2>2. CASE ListRoles(q) \/ ListBindings(q) \/ DeleteRoles(q) \/ DeleteBindings(q)
    BY <1>3, <2>1, <2>2 DEF ListRoles, ListBindings, DeleteRoles, DeleteBindings
  <2>3. CASE UpdateRole(q) \/ UpdateBinding(q)
    BY <1>2, <1>4, <2>3 DEF UpdateRole, UpdateBinding, AfterBinding
  <2>4. CASE GetRole(q) \/ CreateRole(q) \/ GetBinding(q) \/ CreateBinding(q) \/ DeleteBinding(q)
    BY <1>2, <2>4 DEF GetRole, CreateRole, GetBinding, CreateBinding, DeleteBinding, Within, AfterBinding
  <2> QED  BY <1>5, <2>2, <2>3, <2>4 DEF OperatorStep, Apply
<1>6. CASE ApplyFails(q) \/ CrashOperator(q)
  BY <1>1, <1>6 DEF ApplyFails, CrashOperator
<1>7. CASE SweepFails(q)
  BY <1>3, <1>7 DEF SweepFails
<1> QED  BY <1>5, <1>6, <1>7

(* A Role an operator is at work on is settled before its RoleBinding, and *)
(* what it writes is asked for: nothing else comes into force.             *)
LEMMA OperatorGainsAsked ==
    ASSUME CallInv, NEW o \in Operators, Progress(o), OperatorStep(o), clean'[o],
           phase[o] # "idle", NEW g \in Grants
    PROVE  InForce(o, g)' \subseteq InForce(o, g) \cup AskedRules(o, g)
<1>1. UNCHANGED want /\ clean[o]
  BY StepReturns
<1>2. BindingFor(o)' = BindingFor(o) /\ RoleFor(o, g).rules = want[o][g]
  BY DEF BindingFor, RoleFor
<1>3. NoObj # BindingFor(o)
  BY WritesType, NoObjAssumption
<1>4. roles \in [Grants -> RoleObjects \cup {NoObj}] /\ bindings \in [Grants -> BindingObjects \cup {NoObj}]
  BY DEF CallInv, CrossTypeOK
<1>5. CASE phase[o] \in ApplyPhases
  <2>1. cur[o] \in DOMAIN want[o] /\ cur[o] \in Grants
    BY <1>5, WritesType DEF CallInv, CallsInv
  <2>2. \/ PutRole(cur[o], RoleFor(o, cur[o]))
        \/ PutBinding(cur[o], BindingFor(o)) /\ phase[o] \in {"createBinding", "updateBinding"}
        \/ PutBinding(cur[o], NoObj) \/ UNCHANGED objVars
    BY <1>5 DEF OperatorStep, Apply, GetRole, CreateRole, UpdateRole, GetBinding, CreateBinding,
       DeleteBinding, UpdateBinding, ListRoles, DeleteRoles, ListBindings, DeleteBindings,
       Within, At, Conflict, ApplyPhases
  <2>3. CASE PutRole(cur[o], RoleFor(o, cur[o]))
    BY <1>2, <1>4, <2>1, <2>3 DEF PutRole, InForce, AskedRules
  <2>4. CASE PutBinding(cur[o], BindingFor(o)) /\ phase[o] \in {"createBinding", "updateBinding"}
    <3>1. roles[cur[o]] = RoleFor(o, cur[o])
      BY <1>1, <2>4 DEF Progress, AtWork
    <3> QED  BY <1>2, <1>4, <2>1, <2>4, <3>1 DEF PutBinding, InForce, AskedRules
  <2>5. CASE PutBinding(cur[o], NoObj) \/ UNCHANGED objVars
    BY <1>2, <1>3, <1>4, <2>5 DEF PutBinding, InForce, objVars
  <2> QED  BY <2>2, <2>3, <2>4, <2>5
<1>6. CASE phase[o] \notin ApplyPhases
  <2>1. \/ \E h \in doomed[o] : PutRole(h, NoObj) \/ PutBinding(h, NoObj)
        \/ UNCHANGED objVars
    BY <1>6 DEF OperatorStep, Apply, GetRole, CreateRole, UpdateRole, GetBinding, CreateBinding,
       DeleteBinding, UpdateBinding, ListRoles, DeleteRoles, ListBindings, DeleteBindings,
       Within, At, ApplyPhases
  <2> QED  BY <1>2, <1>3, <1>4, <2>1 DEF PutRole, PutBinding, InForce, objVars
<1> QED  BY <1>5, <1>6

(* Another operator's step leaves what is in force alone: the labels on    *)
(* the RoleBinding are those of a pair it does not ask for.                *)
LEMMA OthersGainNothing ==
    ASSUME Isolated, CallInv, Territory, NEW o \in Operators, NEW q \in Operators \ {o},
           OperatorStep(q), NEW g \in Grants
    PROVE  InForce(o, g)' \subseteq InForce(o, g)
<1>1. WritesOwn(q)
  BY OperatorWritesOwn
<1>2. Pairs(q) \cap Pairs(o) = {} /\ LabelOf[q] # LabelOf[o]
  BY DEF Isolated
<1>3. /\ BindingFor(o)' = BindingFor(o) /\ BindingFor(q).label = LabelOf[q]
      /\ BindingFor(o).label = LabelOf[o] /\ BindingFor(o) # NoObj
  BY WritesType, NoObjAssumption DEF BindingFor
<1>4. bindings'[g] = BindingFor(o) => bindings[g] = BindingFor(o) /\ g \in Pairs(o)
  BY <1>1, <1>2, <1>3 DEF WritesOwn, Territory, Mine
<1> QED  BY <1>1, <1>2, <1>3, <1>4 DEF WritesOwn, InForce

(* With labels and pairs of their own, in no step of a call that nobody    *)
(* disturbs do operators gain rules it does not ask for, for any number of *)
(* operators and pairs, and from whatever failed calls have left.          *)
THEOREM NoGainBeyondAsked ==
    ASSUME Isolated
    PROVE  CrossSpec => GainsOnlyAsked
<1> DEFINE AllProgress == \A o \in Operators : Progress(o)
           Gains == \A o \in Operators, g \in Grants :
              clean'[o] => InForce(o, g)' \subseteq InForce(o, g) \cup AskedRules(o, g)
<1>1. CrossInit => AllProgress
  BY InitProgress
<1>2. CallInv /\ Territory /\ AllProgress /\ [CrossNext]_crossVars => AllProgress'
  BY NextKeepsProgress
<1>3. ASSUME CallInv, Territory, AllProgress, CrossNext PROVE Gains
  <2> SUFFICES ASSUME NEW o \in Operators, NEW g \in Grants, clean'[o]
               PROVE  InForce(o, g)' \subseteq InForce(o, g) \cup AskedRules(o, g)
    OBVIOUS
  <2>1. ASSUME UNCHANGED objVars PROVE InForce(o, g)' = InForce(o, g)
    BY <2>1 DEF objVars, InForce, BindingFor
  <2>2. ASSUME NEW q \in Operators, OperatorStep(q)
        PROVE  InForce(o, g)' \subseteq InForce(o, g) \cup AskedRules(o, g)
    <3>1. CASE q # o
      BY <1>3, <2>2, <3>1, OthersGainNothing
    <3>2. CASE q = o /\ phase[o] # "idle"
      BY <1>3, <2>2, <3>2, OperatorGainsAsked
    <3>3. CASE q = o /\ phase[o] = "idle"
      <4>1. UNCHANGED objVars
        BY <2>2, <3>3 DEF OperatorStep, Apply, GetRole, CreateRole, UpdateRole, GetBinding,
           CreateBinding, DeleteBinding, UpdateBinding, ListRoles, DeleteRoles, ListBindings,
           DeleteBindings, Within, At
      <4> QED  BY <2>1, <4>1
    <3> QED  BY <3>1, <3>2, <3>3
  <2>3. CASE Interfere
    BY <2>3 DEF Interfere
  <2>4. CASE \E q \in Operators : \/ ApplyFails(q) \/ SweepFails(q) \/ CrashOperator(q)
                                \/ EditSpec(q) \/ Replay(q)
    BY <2>1, <2>4 DEF ApplyFails, SweepFails, CrashOperator, Fault, EditSpec, Replay
  <2> QED  BY <1>3, <2>2, <2>3, <2>4 DEF CrossNext
<1>4. CallInv /\ Territory /\ AllProgress /\ [CrossNext]_crossVars => [Gains]_crossVars
  BY <1>3
<1> HIDE DEF AllProgress
<1> QED
  BY CallInvariance, TerritoryInvariance, <1>1, <1>2, <1>4, PTL DEF CrossSpec, GainsOnlyAsked

----------------------------------------------------------------------------
(* CrossNS implements OwnedGrants.                                         *)

Places == Kinds \X Grants

Put(s, x) ==
    \/ s[1] = "Role" /\ PutRole(s[2], x)
    \/ s[1] = "RoleBinding" /\ PutBinding(s[2], x)

Visible(o, x) == IF Mine(o, x) THEN x ELSE NoObj

(* The views by slot.                                                      *)
LEMMA Views ==
    ASSUME NEW o \in Operators, NEW s \in Places
    PROVE  /\ ownedObjects[o][s] = Visible(o, ObjectAt(s))
           /\ ownedObjects'[o][s] = Visible(o, ObjectAt(s)')
           /\ askedObjects[o][s] = AskedAt(o, s)
BY DEF ownedObjects, askedObjects, Visible, Places, Mine

LEMMA SameView ==
    /\ UNCHANGED objVars => UNCHANGED ownedObjects
    /\ UNCHANGED want => UNCHANGED askedObjects
BY DEF objVars, ownedObjects, askedObjects, ObjectAt, AskedAt, Mine, RoleFor, BindingFor

(* One object is put: one slot changes.                                    *)
LEMMA PutAt ==
    ASSUME CallInv, NEW s \in Places, NEW x, Put(s, x)
    PROVE  \A t \in Places : ObjectAt(t)' = IF t = s THEN x ELSE ObjectAt(t)
<1> SUFFICES ASSUME NEW t \in Places
             PROVE  ObjectAt(t)' = IF t = s THEN x ELSE ObjectAt(t)
  OBVIOUS
<1>1. /\ s = <<s[1], s[2]>> /\ s[2] \in Grants /\ s[1] \in {"Role", "RoleBinding"}
      /\ t = <<t[1], t[2]>> /\ t[2] \in Grants /\ t[1] \in {"Role", "RoleBinding"}
  BY DEF Places, Kinds
<1>2. roles \in [Grants -> RoleObjects \cup {NoObj}] /\ bindings \in [Grants -> BindingObjects \cup {NoObj}]
  BY DEF CallInv, CrossTypeOK
<1>3. CASE s[1] = "Role"
  <2>1. roles' = [roles EXCEPT ![s[2]] = x] /\ UNCHANGED bindings
    BY <1>3 DEF Put, PutRole
  <2> QED  BY <1>1, <1>2, <1>3, <2>1 DEF ObjectAt
<1>4. CASE s[1] = "RoleBinding"
  <2>1. bindings' = [bindings EXCEPT ![s[2]] = x] /\ UNCHANGED roles
    BY <1>4 DEF Put, PutBinding
  <2> QED  BY <1>1, <1>2, <1>4, <2>1 DEF ObjectAt
<1> QED  BY <1>1, <1>3, <1>4

LEMMA PutShows ==
    ASSUME CallInv, NEW q \in Operators, NEW s \in Places, NEW x, Put(s, x),
           \A p \in Operators \ {q} : ~Mine(p, ObjectAt(s)) /\ ~Mine(p, x)
    PROVE  ownedObjects' = [ownedObjects EXCEPT ![q][s] = Visible(q, x)]
<1>1. ASSUME NEW o \in Operators, NEW t \in Places
      PROVE  ownedObjects'[o][t] = IF o = q /\ t = s THEN Visible(q, x) ELSE ownedObjects[o][t]
  <2>1. ownedObjects'[o][t] = Visible(o, IF t = s THEN x ELSE ObjectAt(t))
    BY PutAt, Views
  <2>2. ownedObjects[o][t] = Visible(o, ObjectAt(t))
    BY Views
  <2> QED  BY <2>1, <2>2 DEF Visible
<1>2. /\ ownedObjects = [o \in Operators |-> [t \in Places |-> ownedObjects[o][t]]]
      /\ ownedObjects' = [o \in Operators |-> [t \in Places |-> ownedObjects'[o][t]]]
  BY DEF ownedObjects, Places, Mine
<1> HIDE DEF ownedObjects
<1> QED  BY <1>1, <1>2

(* A write of the operator at work is an adjustment, if it does not clear  *)
(* what is right in a call that nobody has disturbed.                      *)
LEMMA PutAdjusts ==
    ASSUME Isolated, CallInv, Territory, NEW q \in Operators,
           NEW s \in Places, s[2] \in Pairs(q),
           NEW x \in {AskedAt(q, s), NoObj}, Put(s, x),
           callStatus[q] = "working" /\ x # AskedAt(q, s) => ObjectAt(s) # AskedAt(q, s)
    PROVE  Ledger!Adjust(q) \/ UNCHANGED ownedObjects
<1>1. x = NoObj \/ Mine(q, x)
  BY NoObjAssumption, SpecsType, WritesType
     DEF AskedAt, RoleFor, BindingFor, Mine, CallInv, CrossTypeOK, Places, Kinds, RoleObjects, BindingObjects
<1>2. ASSUME NEW p \in Operators \ {q} PROVE ~Mine(p, ObjectAt(s)) /\ ~Mine(p, x)
  <2>1. LabelOf[p] # LabelOf[q] /\ s[2] \notin Pairs(p) /\ s[2] \in Grants
    BY DEF Isolated, Places
  <2>2. ~Mine(p, roles[s[2]]) /\ ~Mine(p, bindings[s[2]])
    BY <2>1 DEF Territory
  <2> QED  BY <1>1, <2>1, <2>2 DEF Mine, ObjectAt
<1>3. Visible(q, x) = x
  BY <1>1 DEF Visible
<1>4. ownedObjects' = [ownedObjects EXCEPT ![q][s] = x]
  BY <1>2, <1>3, PutShows
<1>5. ownedObjects[q][s] = Visible(q, ObjectAt(s)) /\ askedObjects[q][s] = AskedAt(q, s)
  BY Views
<1>6. CASE ownedObjects[q][s] = x
  <2>1. ownedObjects = [o \in Operators |-> [t \in Places |-> ownedObjects[o][t]]]
    BY DEF ownedObjects, Places
  <2> HIDE DEF ownedObjects
  <2> QED  BY <1>4, <1>6, <2>1
<1>7. CASE ownedObjects[q][s] # x
  <2>1. callStatus[q] = "working" => ownedObjects[q][s] # AskedAt(q, s)
    BY <1>1, <1>5, <1>7 DEF Visible
  <2> QED  BY <1>4, <1>5, <2>1 DEF Ledger!Adjust, Places
<1> QED  BY <1>6, <1>7

(* What a step within a call writes.                                       *)
LEMMA StepAdjusts ==
    ASSUME Isolated, CallInv, Territory, NEW q \in Operators, Progress(q),
           OperatorStep(q), phase[q] # "idle"
    PROVE  Ledger!Adjust(q) \/ UNCHANGED ownedObjects
<1> DEFINE g == cur[q]
           R == <<"Role", g>>
           B == <<"RoleBinding", g>>
<1>1. CASE UNCHANGED objVars
  BY <1>1, SameView
<1>2. CASE phase[q] \in ApplyPhases
  <2>1. /\ R \in Places /\ B \in Places /\ g \in Pairs(q) /\ g \in DOMAIN want[q]
        /\ AskedAt(q, R) = RoleFor(q, g) /\ AskedAt(q, B) = BindingFor(q)
        /\ ObjectAt(R) = roles[g] /\ ObjectAt(B) = bindings[g]
    BY <1>2, WritesType, WorkIsOwn DEF Places, Kinds, AskedAt, ObjectAt, CallInv, CallsInv
  <2>2. \/ PutRole(g, RoleFor(q, g)) \/ PutBinding(g, BindingFor(q))
        \/ PutBinding(g, NoObj) /\ phase[q] = "deleteBinding"
        \/ UNCHANGED objVars
    BY <1>2 DEF OperatorStep, Apply, GetRole, CreateRole, UpdateRole, GetBinding, CreateBinding,
       DeleteBinding, UpdateBinding, ListRoles, DeleteRoles, ListBindings, DeleteBindings,
       Within, At, Conflict, ApplyPhases
  <2>3. CASE PutRole(g, RoleFor(q, g))
    <3>1. Put(R, RoleFor(q, g))
      BY <2>3 DEF Put
    <3> QED  BY <2>1, <3>1, PutAdjusts
  <2>4. CASE PutBinding(g, BindingFor(q))
    <3>1. Put(B, BindingFor(q))
      BY <2>4 DEF Put
    <3> QED  BY <2>1, <3>1, PutAdjusts
  <2>5. CASE PutBinding(g, NoObj) /\ phase[q] = "deleteBinding"
    <3>1. Put(B, NoObj)
      BY <2>5 DEF Put
    <3>2. callStatus[q] = "working" => bindings[g] # BindingFor(q)
      BY <2>5 DEF callStatus, Progress, AtWork
    <3> QED  BY <2>1, <3>1, <3>2, PutAdjusts
  <2> QED  BY <1>1, <2>2, <2>3, <2>4, <2>5
<1>3. CASE DeleteRoles(q) \/ DeleteBindings(q)
  <2>1. PICK h \in doomed[q] : PutRole(h, NoObj) \/ PutBinding(h, NoObj)
    BY <1>3 DEF DeleteRoles, DeleteBindings
  <2>2. h \in Grants /\ h \in Pairs(q) /\ h \notin DOMAIN want[q]
    BY DEF CallInv, CrossTypeOK, Territory, Progress, InOrder
  <2>3. PICK k \in Kinds : Put(<<k, h>>, NoObj)
    BY <2>1 DEF Put, Kinds
  <2>4. <<k, h>> \in Places /\ AskedAt(q, <<k, h>>) = NoObj
    BY <2>2 DEF Places, AskedAt
  <2> QED  BY <2>2, <2>3, <2>4, PutAdjusts
<1>4. CASE ListRoles(q) \/ ListBindings(q)
  BY <1>1, <1>4 DEF ListRoles, ListBindings
<1> QED
  BY <1>2, <1>3, <1>4 DEF OperatorStep, Apply, GetRole, CreateRole, UpdateRole, GetBinding,
     CreateBinding, DeleteBinding, UpdateBinding, Within, At, ApplyPhases

LEMMA SuccessShows ==
    ASSUME CallInv', NEW q \in Operators, Progress(q)', phase'[q] = "idle", clean'[q],
           UNCHANGED want
    PROVE  ownedObjects'[q] = askedObjects[q]
<1>1. todo'[q] = {} /\ Stale(q, roles)' = {} /\ Stale(q, bindings)' = {} /\ Applied(q)'
  BY DEF Progress, InOrder, Swept, ApplyPhases, SweepPhases
<1>2. ASSUME NEW s \in Places PROVE Visible(q, ObjectAt(s)') = AskedAt(q, s)
  <2>1. s[2] \in Grants
    BY DEF Places
  <2>2. CASE s[2] \in DOMAIN want[q]
    <3>1. ObjectAt(s)' = AskedAt(q, s)
      BY <1>1, <2>2 DEF Applied, ObjectAt, AskedAt, RoleFor, BindingFor
    <3>2. AskedAt(q, s).label = LabelOf[q] \/ AskedAt(q, s) = NoObj
      BY <2>2 DEF AskedAt, RoleFor, BindingFor
    <3> QED  BY <3>1, <3>2 DEF Visible, Mine
  <2>3. CASE s[2] \notin DOMAIN want[q]
    <3>1. ~Mine(q, ObjectAt(s)')
      BY <1>1, <2>1, <2>3 DEF Stale, Mine, ObjectAt
    <3> QED  BY <2>3, <3>1 DEF Visible, AskedAt
  <2> QED  BY <2>2, <2>3
<1>3. /\ ownedObjects'[q] = [s \in Places |-> ownedObjects'[q][s]]
      /\ askedObjects[q] = [s \in Places |-> askedObjects[q][s]]
  BY DEF ownedObjects, askedObjects, Places, Mine
<1>4. \A s \in Places : ownedObjects'[q][s] = askedObjects[q][s]
  BY <1>2, Views
<1> HIDE DEF ownedObjects, askedObjects
<1> QED  BY <1>3, <1>4

(* A step within a call is work, seen from outside.                        *)
LEMMA CallWorks ==
    ASSUME Isolated, CallInv, CallInv', Territory, NEW q \in Operators,
           Progress(q), Progress(q)', phase[q] # "idle",
           OperatorStep(q) \/ ApplyFails(q) \/ SweepFails(q) \/ CrashOperator(q)
    PROVE  Ledger!Work(q)
<1>1. /\ UNCHANGED want
      /\ clean'[q] => clean[q]
      /\ phase'[q] # "idle" => clean'[q] = clean[q]
  BY StepReturns
<1>2. UNCHANGED askedObjects
  BY <1>1, SameView
<1>3. Ledger!Adjust(q) \/ UNCHANGED ownedObjects
  <2>1. CASE OperatorStep(q)
    BY <2>1, StepAdjusts
  <2>2. CASE ~OperatorStep(q)
    BY <2>2, SameView DEF ApplyFails, SweepFails, CrashOperator, Fault
  <2> QED  BY <2>1, <2>2
<1>4. callStatus[q] = IF clean[q] THEN "working" ELSE "disturbed"
  BY DEF callStatus
<1>5. \A o \in Operators \ {q} : callStatus'[o] = callStatus[o]
  BY OneOperatorMoves DEF Holds, callStatus
<1>6. /\ callStatus = [o \in Operators |-> callStatus[o]]
      /\ callStatus' = [o \in Operators |-> callStatus'[o]]
  BY DEF callStatus
<1>7. UNCHANGED callStatus \/ Ledger!Return(q)
  <2>1. CASE phase'[q] # "idle"
    <3>1. callStatus'[q] = callStatus[q]
      BY <1>1, <2>1 DEF callStatus
    <3> HIDE DEF callStatus
    <3> QED  BY <1>5, <1>6, <3>1
  <2>2. CASE phase'[q] = "idle" /\ ~clean'[q]
    <3>1. callStatus'[q] = "returned"
      BY <2>2 DEF callStatus
    <3> HIDE DEF callStatus
    <3> QED  BY <1>5, <1>6, <3>1 DEF Ledger!Return
  <2>3. CASE phase'[q] = "idle" /\ clean'[q]
    <3>1. callStatus'[q] = "exact" /\ callStatus[q] = "working"
      BY <1>1, <1>4, <2>3 DEF callStatus
    <3>2. ownedObjects'[q] = askedObjects[q]
      BY <1>1, <2>3, SuccessShows
    <3> HIDE DEF callStatus, ownedObjects, askedObjects
    <3> QED  BY <1>5, <1>6, <3>1, <3>2 DEF Ledger!Return
  <2> QED  BY <2>1, <2>2, <2>3
<1> HIDE DEF callStatus, ownedObjects, askedObjects
<1> QED  BY <1>2, <1>3, <1>4, <1>7 DEF Ledger!Work

(* A new call begins.                                                      *)
LEMMA ApplyBegins ==
    ASSUME CallInv, CallInv', NEW q \in Operators, Apply(q)
    PROVE  Ledger!Begin(q)
<1>1. /\ phase[q] = "idle" /\ phase'[q] # "idle" /\ clean'[q]
      /\ want' = [want EXCEPT ![q] = spec[q]] /\ UNCHANGED objVars
  BY DEF Apply, NextGrant, Goto, CallInv, CrossTypeOK
<1>2. UNCHANGED ownedObjects
  BY <1>1, SameView
<1>3. \A o \in Operators \ {q} : callStatus'[o] = callStatus[o] /\ want'[o] = want[o]
  BY OneOperatorMoves DEF Holds, callStatus, OperatorStep
<1>4. callStatus[q] \in {"returned", "exact"} /\ callStatus'[q] = "working"
  BY <1>1 DEF callStatus
<1>5. /\ callStatus = [o \in Operators |-> callStatus[o]]
      /\ callStatus' = [o \in Operators |-> callStatus'[o]]
      /\ askedObjects = [o \in Operators |-> askedObjects[o]]
      /\ askedObjects' = [o \in Operators |-> askedObjects'[o]]
  BY DEF callStatus, askedObjects
<1>6. \A o \in Operators \ {q} : askedObjects'[o] = askedObjects[o]
  BY <1>3 DEF askedObjects, AskedAt, RoleFor, BindingFor
<1>7. askedObjects'[q] \in [Places -> RoleObjects \cup BindingObjects \cup {NoObj}]
  <2>1. ASSUME NEW s \in Places
        PROVE  AskedAt(q, s)' \in RoleObjects \cup BindingObjects \cup {NoObj}
    <3>1. want' \in Specs
      BY DEF CallInv, CrossTypeOK
    <3> QED
      BY <3>1, SpecsType DEF AskedAt, RoleFor, BindingFor, RoleObjects, BindingObjects
  <2> QED  BY <2>1 DEF askedObjects, Places
<1> HIDE DEF callStatus, ownedObjects, askedObjects
<1>8. callStatus' = [callStatus EXCEPT ![q] = "working"]
  BY <1>3, <1>4, <1>5
<1>9. askedObjects' = [askedObjects EXCEPT ![q] = askedObjects'[q]]
  BY <1>5, <1>6
<1> QED  BY <1>2, <1>4, <1>7, <1>8, <1>9 DEF Ledger!Begin, Ledger!Wishes, Places

(* Admins disturb.                                                         *)
LEMMA InterfereDisturbs ==
    ASSUME Isolated, CallInv, CallInv', Interfere
    PROVE  Ledger!Disturb
<1>1. UNCHANGED <<phase, want>> /\ \A o \in Operators : ~clean'[o]
  BY DEF Interfere, callVars
<1>2. callStatus' = [o \in Operators |-> IF callStatus[o] = "working" THEN "disturbed"
                                        ELSE IF callStatus[o] = "exact" THEN "returned"
                                        ELSE callStatus[o]]
  BY <1>1 DEF callStatus
<1>3. UNCHANGED askedObjects
  BY <1>1, SameView
<1>4. PICK s \in Places, x \in RoleObjects \cup BindingObjects \cup {NoObj} :
          /\ Put(s, x)
          /\ x # NoObj => x.label = NoLabel \/ (ObjectAt(s) # NoObj /\ x.label = ObjectAt(s).label)
  <2>1. PICK g \in Grants :
            \/ \E r \in Edited(roles[g], RoleObjects) : PutRole(g, r)
            \/ \E b \in Edited(bindings[g], BindingObjects) : PutBinding(g, b)
    BY DEF Interfere
  <2>2. ASSUME NEW objs, NEW obj \in objs \cup {NoObj}, NEW x \in Edited(obj, objs),
               objs \in {RoleObjects, BindingObjects}
        PROVE  /\ x \in objs \cup {NoObj}
               /\ x # NoObj => x.label = NoLabel \/ (obj # NoObj /\ x.label = obj.label)
    <3>1. CASE obj = NoObj
      BY <2>2, <3>1, PlantedAssumption DEF Edited, PlantedAssumption
    <3>2. CASE obj \in RoleObjects /\ objs = RoleObjects
      BY <2>2, <3>2, NoObjAssumption DEF Edited, RoleObjects
    <3>3. CASE obj \in BindingObjects /\ objs = BindingObjects
      BY <2>2, <3>3, NoObjAssumption DEF Edited, BindingObjects
    <3> QED  BY <2>2, <3>1, <3>2, <3>3
  <2>3. roles[g] \in RoleObjects \cup {NoObj} /\ bindings[g] \in BindingObjects \cup {NoObj}
    BY DEF CallInv, CrossTypeOK
  <2>4. ASSUME NEW r \in Edited(roles[g], RoleObjects), PutRole(g, r)
        PROVE  /\ <<"Role", g>> \in Places /\ Put(<<"Role", g>>, r)
               /\ ObjectAt(<<"Role", g>>) = roles[g]
    BY <2>4 DEF Places, Kinds, Put, ObjectAt
  <2>5. ASSUME NEW b \in Edited(bindings[g], BindingObjects), PutBinding(g, b)
        PROVE  /\ <<"RoleBinding", g>> \in Places /\ Put(<<"RoleBinding", g>>, b)
               /\ ObjectAt(<<"RoleBinding", g>>) = bindings[g]
    BY <2>5 DEF Places, Kinds, Put, ObjectAt
  <2> QED  BY <2>1, <2>2, <2>3, <2>4, <2>5
<1>5. \A o \in Operators : Mine(o, x) => Mine(o, ObjectAt(s))
  BY <1>4, CrossNSAssumption DEF Mine, CrossNSAssumption
<1>6. CASE \E q \in Operators : Mine(q, ObjectAt(s))
  <2>1. PICK q \in Operators : Mine(q, ObjectAt(s))
    BY <1>6
  <2>2. \A p \in Operators \ {q} : ~Mine(p, ObjectAt(s)) /\ ~Mine(p, x)
    BY <1>5, <2>1 DEF Isolated, Mine
  <2>3. ownedObjects' = [ownedObjects EXCEPT ![q][s] = Visible(q, x)]
    BY <1>4, <2>2, PutShows
  <2>4. Visible(q, x) \in RoleObjects \cup BindingObjects \cup {NoObj}
    BY DEF Visible
  <2>5. ownedObjects'[q][s] = Visible(q, x)
    BY <1>4, PutAt, Views
  <2> HIDE DEF callStatus, ownedObjects, askedObjects
  <2> QED  BY <1>2, <1>3, <2>3, <2>4, <2>5 DEF Ledger!Disturb, Places
<1>7. CASE \A q \in Operators : ~Mine(q, ObjectAt(s))
  <2>1. ASSUME NEW o \in Operators, NEW t \in Places
        PROVE  ownedObjects'[o][t] = ownedObjects[o][t]
    BY <1>4, <1>5, <1>7, PutAt, Views DEF Visible
  <2>2. /\ ownedObjects = [o \in Operators |-> [t \in Places |-> ownedObjects[o][t]]]
        /\ ownedObjects' = [o \in Operators |-> [t \in Places |-> ownedObjects'[o][t]]]
    BY DEF ownedObjects, Places, Mine
  <2> HIDE DEF callStatus, ownedObjects, askedObjects
  <2>3. UNCHANGED ownedObjects
    BY <2>1, <2>2
  <2> QED  BY <1>2, <1>3, <2>3 DEF Ledger!Disturb
<1> QED  BY <1>6, <1>7

(* With labels and pairs of their own, the calls of the operators keep the *)
(* ledger: each changes its caller's objects only, towards what it asks    *)
(* for, never one that is right already, and success means all are right,  *)
(* however calls fail, crash, resume and come between each other.          *)
THEOREM CallsKeepLedger ==
    ASSUME Isolated
    PROVE  CrossSpec => KeepsLedger
<1> DEFINE AllProgress == \A o \in Operators : Progress(o)
           LedgerStep == [Ledger!Next]_Ledger!ledger
<1>1. CrossInit => AllProgress
  BY InitProgress
<1>2. CallInv /\ Territory /\ AllProgress /\ [CrossNext]_crossVars => AllProgress'
  BY NextKeepsProgress
<1>3. CrossInit => Ledger!Init
  <2> SUFFICES ASSUME CrossInit PROVE Ledger!Init
    OBVIOUS
  <2>1. ownedObjects = [o \in Operators |-> [s \in Places |-> NoObj]]
    BY DEF CrossInit, ownedObjects, ObjectAt, Mine, Places
  <2>2. askedObjects = [o \in Operators |-> [s \in Places |-> NoObj]]
    <3>1. \A o \in Operators : DOMAIN want[o] = {}
      BY DEF CrossInit, Nothing
    <3> QED  BY <3>1 DEF askedObjects, AskedAt, Places
  <2>3. callStatus = [o \in Operators |-> "returned"]
    BY DEF CrossInit, callStatus
  <2> QED  BY <2>1, <2>2, <2>3 DEF Ledger!Init, Ledger!NothingOwned, Places
<1>4. ASSUME CallInv, CallInv', Territory, AllProgress, AllProgress', [CrossNext]_crossVars
      PROVE  LedgerStep
  <2>1. ASSUME NEW q \in Operators,
               OperatorStep(q) \/ ApplyFails(q) \/ SweepFails(q) \/ CrashOperator(q)
        PROVE  Ledger!Next
    <3>1. CASE phase[q] # "idle"
      BY <1>4, <2>1, <3>1, CallWorks DEF Ledger!Next
    <3>2. CASE phase[q] = "idle"
      <4>1. Apply(q)
        BY <2>1, <3>2 DEF OperatorStep, GetRole, CreateRole, UpdateRole, GetBinding, CreateBinding,
           DeleteBinding, UpdateBinding, ListRoles, DeleteRoles, ListBindings, DeleteBindings,
           Within, At, ApplyFails, SweepFails, CrashOperator, ApplyPhases
      <4> QED  BY <1>4, <4>1, ApplyBegins DEF Ledger!Next
    <3> QED  BY <3>1, <3>2
  <2>2. CASE Interfere
    BY <1>4, <2>2, InterfereDisturbs DEF Ledger!Next
  <2>3. CASE UNCHANGED crossVars \/ \E q \in Operators : EditSpec(q) \/ Replay(q)
    <3>1. UNCHANGED <<objVars, want, phase, clean>>
      BY <2>3 DEF EditSpec, Replay, crossVars, callVars
    <3>2. UNCHANGED callStatus
      BY <3>1 DEF callStatus
    <3> QED  BY <3>1, <3>2, SameView DEF Ledger!ledger
  <2> QED  BY <1>4, <2>1, <2>2, <2>3 DEF CrossNext
<1> HIDE DEF AllProgress, LedgerStep
<1> QED
  BY CallInvariance, TerritoryInvariance, <1>1, <1>2, <1>3, <1>4, PTL
     DEF CrossSpec, KeepsLedger, Ledger!Spec, LedgerStep

============================================================================
